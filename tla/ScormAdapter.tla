----------------------------- MODULE ScormAdapter -----------------------------
(***************************************************************************)
(* The SCORM API object a page gives its content                           *)
(* (public/scorm/scorm-api-1.2.js and scorm-api-2004.js), composed with    *)
(* the runtime it calls: a write-behind cache of CMI values over the       *)
(* handlers of ScormRuntime, whose actions this module takes as they are.  *)
(*                                                                         *)
(* The adapter's requests are synchronous: between the call of content and *)
(* its answer the page does nothing else, and a call is cut only where a   *)
(* request starts and where its answer arrives.  Only heartbeats run       *)
(* beside it.                                                              *)
(***************************************************************************)
EXTENDS ScormRuntime

CONSTANTS
  Version,      \* "scorm_1.2" or "scorm_2004": which of the two files the page loads
  Owner,        \* Owner[t]: the page whose interval t is
  Lossy         \* whether a request or its answer may be lost on the network

ASSUME VersionAssumption == Version \in {"scorm_1.2", "scorm_2004"}
ASSUME OwnerAssumption == Owner \in [Timers -> Pages]
ASSUME LossyAssumption == Lossy \in BOOLEAN

VARIABLE api    \* api[p]: the API object of page p

adapterVars == <<vars, api>>

Api == [initialized : BOOLEAN, terminated : BOOLEAN,
        cache : Cells,          \* pendingData
        scheduled : BOOLEAN,    \* commitTimer is set
        beating : BOOLEAN,      \* heartbeatInterval is set
        doing : {"none", "initialize", "get", "commit", "finish", "terminate"},
        todo : SUBSET Elements, \* the cached elements the running commit has still to send
        sent : BOOLEAN,         \* a request of the running call is in flight
        told : Cells]           \* history: what LMSSetValue has answered "true" to

NewApi == [initialized |-> FALSE, terminated |-> FALSE, cache |-> NoCells, scheduled |-> FALSE,
           beating |-> FALSE, doing |-> "none", todo |-> {}, sent |-> FALSE,
           told |-> NoCells]

AdapterInit == Init /\ api = [p \in Pages |-> NewApi]

Free(p) == api[p].doing = "none"
Cached(p) == {e \in Elements : api[p].cache[e] # NoValue}

(* The request of a running call goes out. *)
Send(p, Start(_)) ==
  /\ ~api[p].sent
  /\ Start(p)
  /\ api' = [api EXCEPT ![p].sent = TRUE]

(* The answer to it has arrived.                                           *)
Arrived(p) == api[p].sent /\ At(p, "idle")

(* What the adapter takes for success.  The server wraps its results in     *)
(* `data`, where the adapter for SCORM 2004 does not look.                  *)
Succeeded(p) == call[p].reply = "true" /\ Version = "scorm_1.2"

-------------------------------------------------------------------------------

LMSInitialize(p) ==
  /\ Free(p)
  /\ ~api[p].initialized /\ ~api[p].terminated
  /\ api' = [api EXCEPT ![p].doing = "initialize"]
  /\ UNCHANGED vars

LMSGetValue(p) ==
  /\ Free(p)
  /\ api[p].initialized
  /\ Cached(p) # Elements
  /\ api' = [api EXCEPT ![p].doing = "get"]
  /\ UNCHANGED vars

LMSSetValue(p) ==
  /\ Free(p)
  /\ api[p].initialized
  /\ \E e \in Elements : \E v \in Values[e] :
       api' = [api EXCEPT ![p].cache[e] = v, ![p].told[e] = v, ![p].scheduled = TRUE]
  /\ UNCHANGED vars

(* LMSCommit, called by content, by the player on suspend and unload, or by *)
(* the timer LMSSetValue sets.                                             *)
LMSCommit(p) ==
  /\ Free(p)
  /\ api[p].initialized
  /\ api' = [api EXCEPT ![p].scheduled = FALSE,
                        ![p].doing = IF Cached(p) = {} THEN "none" ELSE "commit",
                        ![p].todo = Cached(p)]
  /\ UNCHANGED vars

(* Mutant: finishing leaves it to the server to commit. *)
LMSFinishUncommitted(p) ==
  /\ Free(p)
  /\ api[p].initialized
  /\ api' = [api EXCEPT ![p].doing = "terminate", ![p].beating = FALSE]
  /\ UNCHANGED vars

(* Mutant: finishing leaves the heartbeat running. *)
LMSFinishBeating(p) ==
  /\ Free(p)
  /\ api[p].initialized
  /\ api' = [api EXCEPT ![p].scheduled = Cached(p) = {} /\ @,
                        ![p].doing = IF Cached(p) = {} THEN "terminate" ELSE "finish",
                        ![p].todo = Cached(p)]
  /\ UNCHANGED vars

(* LMSFinish: it commits what is cached, whatever comes of it, stops the    *)
(* heartbeat and terminates.                                               *)
LMSFinish(p) ==
  /\ Free(p)
  /\ api[p].initialized
  /\ api' = [api EXCEPT ![p].scheduled = Cached(p) = {} /\ @,
                        ![p].doing = IF Cached(p) = {} THEN "terminate" ELSE "finish",
                        ![p].todo = Cached(p),
                        ![p].beating = Cached(p) # {} /\ @]
  /\ UNCHANGED vars

(* The requests of the calls. *)
SendInitialize(p) == api[p].doing = "initialize" /\ Send(p, StartInitialize)
SendTerminate(p) == api[p].doing = "terminate" /\ Send(p, StartTerminate)

SendGet(p) ==
  /\ api[p].doing = "get"
  /\ Send(p, StartGet)
  /\ call'[p].elem \notin Cached(p)

Committing(p) == api[p].doing \in {"commit", "finish"}

SendValue(p) ==
  /\ Committing(p)
  /\ ~api[p].sent
  /\ \E e \in api[p].todo :
       /\ StartSetOf(p, e, api[p].cache[e])
       /\ api' = [api EXCEPT ![p].sent = TRUE, ![p].todo = @ \ {e}]

SendCommit(p) == Committing(p) /\ api[p].todo = {} /\ Send(p, StartCommit)

-------------------------------------------------------------------------------

HearInitialize(p) ==
  /\ Arrived(p)
  /\ api[p].doing = "initialize"
  /\ api' = [api EXCEPT ![p].doing = "none", ![p].sent = FALSE,
                        ![p].initialized = Succeeded(p), ![p].beating = Succeeded(p)]
  /\ UNCHANGED vars

HearGet(p) ==
  /\ Arrived(p)
  /\ api[p].doing = "get"
  /\ api' = [api EXCEPT ![p].doing = "none", ![p].sent = FALSE]
  /\ UNCHANGED vars

(* The adapter goes on whatever the answer to a SetValue is. *)
HearValue(p) ==
  /\ Arrived(p)
  /\ Committing(p)
  /\ call[p].op = "set"
  /\ api' = [api EXCEPT ![p].sent = FALSE]
  /\ UNCHANGED vars

(* Mutant: the cache is emptied whatever the answer to the commit. *)
AfterCommitEmptied(p, done) ==
  [api[p] EXCEPT !.sent = FALSE, !.todo = {},
                 !.cache = NoCells,
                 !.beating = api[p].doing = "commit" /\ @,
                 !.doing = IF api[p].doing = "commit" THEN "none" ELSE "terminate"]

(* Where LMSCommit returns: to its caller, or into LMSFinish. *)
AfterCommit(p, done) ==
  [api[p] EXCEPT !.sent = FALSE, !.todo = {},
                 !.cache = IF done THEN NoCells ELSE @,
                 !.beating = api[p].doing = "commit" /\ @,
                 !.doing = IF api[p].doing = "commit" THEN "none" ELSE "terminate"]

HearCommit(p) ==
  /\ Arrived(p)
  /\ Committing(p)
  /\ call[p].op = "commit"
  /\ api' = [api EXCEPT ![p] = AfterCommit(p, Succeeded(p))]
  /\ UNCHANGED vars

HearTerminate(p) ==
  /\ Arrived(p)
  /\ api[p].doing = "terminate"
  /\ api' = [api EXCEPT ![p].doing = "none", ![p].sent = FALSE,
                        ![p].terminated = Succeeded(p), ![p].initialized = ~Succeeded(p)]
  /\ UNCHANGED vars

(* A request that does not reach the server, or whose answer does not reach *)
(* the page, throws: the running call answers "false".                     *)
Throw(p) ==
  /\ Lossy
  /\ ~Free(p)
  /\ At(p, "idle")
  /\ api' = [api EXCEPT ![p] = IF Committing(p) THEN AfterCommit(p, FALSE)
                               ELSE [@ EXCEPT !.doing = "none", !.sent = FALSE]]
  /\ UNCHANGED vars

(* The page is closed or reloaded, and with it goes its cache. *)
Reload(p) ==
  /\ Free(p)
  /\ api' = [api EXCEPT ![p] = NewApi]
  /\ UNCHANGED vars

-------------------------------------------------------------------------------

ContentCall(p) ==
  \/ LMSInitialize(p) \/ LMSGetValue(p) \/ LMSSetValue(p) \/ LMSCommit(p) \/ LMSFinish(p)

AdapterStep(p) ==
  \/ SendInitialize(p) \/ SendGet(p) \/ SendValue(p) \/ SendCommit(p) \/ SendTerminate(p)
  \/ HearInitialize(p) \/ HearGet(p) \/ HearValue(p) \/ HearCommit(p) \/ HearTerminate(p)

(* The server's own steps.  A session does not expire within one call of an *)
(* adapter: SESSION_TIMEOUT is half an hour, a call a few requests.         *)
ServerStep ==
  /\ \/ \E t \in Timers : api[Owner[t]].beating /\ StartBeat(t)
     \/ \E p \in Procs : Advance(p) \/ SessionFails(p) \/ Abort(p)
     \/ Restart
     \/ Expire /\ \A p \in Pages : Free(p)
  /\ UNCHANGED api

AdapterNext ==
  \/ \E p \in Pages : ContentCall(p) \/ AdapterStep(p) \/ Throw(p) \/ Reload(p)
  \/ ServerStep

AdapterSpec == AdapterInit /\ [][AdapterNext]_adapterVars

-------------------------------------------------------------------------------
(* Properties. *)

(* The API objects are well-formed, and each agrees with the request it has *)
(* in flight: it waits for the one it sent, no timer or heartbeat outlives  *)
(* the page's session, and the commit timer never finds an empty cache.    *)
ApiOK ==
  /\ api \in [Pages -> Api]
  /\ \A p \in Pages :
       /\ ~(api[p].initialized /\ api[p].terminated)
       /\ api[p].beating => api[p].initialized
       /\ api[p].scheduled => api[p].initialized /\ Cached(p) # {}
       /\ api[p].todo \subseteq Cached(p)
       /\ Free(p) => ~api[p].sent /\ api[p].todo = {}
       /\ ~api[p].sent => At(p, "idle")
       /\ api[p].sent => call[p].op \in IF Committing(p) THEN {"set", "commit"} ELSE {api[p].doing}

(* A value LMSSetValue has answered "true" to stays in the page's cache     *)
(* until it is stored in the attempt, whatever fails on the way.            *)
Kept ==
  \A p \in Pages : \A e \in Elements :
    api[p].told[e] \in {NoValue, api[p].cache[e], attempt.cmi[e]}

(* What LMSGetValue fetches from the server is the value content set last.  *)
FetchesLatest ==
  \A p \in Pages : api[p].doing = "get" /\ Arrived(p) /\ call[p].reply = "true" =>
    api[p].told[call[p].elem] \in {NoValue, call[p].val}

(* When LMSFinish has answered "true", every value content set is stored.   *)
FinishStores ==
  \A p \in Pages : api[p].terminated =>
    \A e \in Elements : api[p].told[e] \in {NoValue, attempt.cmi[e]}

(* Content whose Initialize the server has accepted can go on. *)
InitializeHeard ==
  \A p \in Pages : Free(p) /\ Replied(p, "initialize", "true") /\ ~Lossy =>
    api[p].initialized

===============================================================================
