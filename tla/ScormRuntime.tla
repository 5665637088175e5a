----------------------------- MODULE ScormRuntime -----------------------------
(***************************************************************************)
(* The SCORM runtime API of one attempt: the handlers of                   *)
(* controller/scorm/scormRuntimeCtrl.ts, the session store of              *)
(* utils/scorm/sessionManager.ts they keep uncommitted CMI values in, the  *)
(* attempt document they commit them to, and the two reports derived from  *)
(* it, ContentAttempt (post-save hook) and LearnerProgress.                *)
(*                                                                         *)
(* A handler is cut where it awaits: each step below is one Redis command  *)
(* or one MongoDB operation, and steps of different requests interleave.   *)
(* A session operation of the Redis store is a GET and, in a later step, a *)
(* SETEX of the value it read (`held`); the in-memory store does both at   *)
(* once.  A save writes the paths the handler changed since it loaded the  *)
(* document, over whatever is stored by then.                              *)
(***************************************************************************)
EXTENDS ScormAttempt

CONSTANTS
  Pages,        \* players that have the attempt open: one request each at a time
  Timers,       \* the intervals that send a page's heartbeats, asynchronously
  Store,        \* "redis", or "memory" as in tests
  Requests,     \* the operations the pages use
  Faults,       \* the operations during which Redis, MongoDB or the process may fail
  RawOnly       \* the elements kept in rawCmiData alone, with no field in `cmi`

Operations == {"initialize", "set", "reject", "get", "commit", "terminate"}

ASSUME ProcessAssumption == Pages \cap Timers = {}
ASSUME StoreAssumption == Store \in {"redis", "memory"}
ASSUME RequestsAssumption == Requests \subseteq Operations
ASSUME FaultsAssumption == Faults \subseteq Operations \cup {"beat"}
ASSUME RawOnlyAssumption == RawOnly \subseteq Elements

Procs == Pages \cup Timers

VARIABLES
  sess,         \* the session record under the attempt's key
  stale,        \* in-memory store: lastActivity is more than the timeout ago
  attempt,      \* the stored ScormAttempt
  content,      \* status of its ContentAttempt
  progress,     \* status of its LearnerProgress
  call,         \* call[p]: the request p has in flight, or how its last one ended
  accepted      \* history: the latest value this session took for each element

vars == <<sess, stale, attempt, content, progress, call, accepted>>
documents == <<attempt, content, progress>>

Session ==
  {s \in [status : {"none", "active", "terminated", "timeout"}, pending : Cells] :
     s.status = "none" => s.pending = NoCells}
NoSession == [status |-> "none", pending |-> NoCells]
FreshSession == [status |-> "active", pending |-> NoCells]
Present(s) == s.status # "none"

Step == {"idle", "create", "add", "ack", "save", "sync", "progress", "peek",
         "clear", "find", "ttl", "timeout", "end", "error", "beat", "touch"}

Call == [op : Operations \cup {"none", "beat"}, at : Step,
         elem : Elements \cup {NoValue}, val : AnyValue \cup {NoValue},
         lazy : BOOLEAN,        \* "set" is creating the session it did not find
         base : Attempt,        \* the document as the handler loaded it
         pend : Cells,          \* the pending values it read
         held : Session,        \* what its session operation read, before the write
         reply : {"none", "true", "false", "failed"}]

NoCall == [op |-> "none", at |-> "idle", elem |-> NoValue, val |-> NoValue, lazy |-> FALSE,
           base |-> NewAttempt, pend |-> NoCells, held |-> NoSession, reply |-> "none"]

Init ==
  /\ sess = NoSession
  /\ stale = FALSE
  /\ attempt = NewAttempt
  /\ content = "absent"
  /\ progress = "absent"
  /\ call = [p \in Procs |-> NoCall]
  /\ accepted = NoCells

-------------------------------------------------------------------------------
(* Control of one request. *)

At(p, step) == call[p].at = step
Goto(p, step) == call' = [call EXCEPT ![p].at = step, ![p].held = NoSession]
Finish(p, r) == call' = [call EXCEPT ![p] = [NoCall EXCEPT !.op = call[p].op, !.reply = r]]

Begin(p, op, step) ==
  /\ At(p, "idle")
  /\ call' = [call EXCEPT ![p] = [NoCall EXCEPT !.op = op, !.at = step, !.base = attempt]]
  /\ UNCHANGED <<sess, stale, documents, accepted>>

(* initializeSession, terminateSessionAPI, commitData and heartbeat up to   *)
(* the first await after findById.  Terminate saves lastAccessedAt alone,   *)
(* which changes no field modelled here, and goes on to the post-save hook. *)
StartInitialize(p) == "initialize" \in Requests /\ Begin(p, "initialize", "create")
StartCommit(p) == "commit" \in Requests /\ Begin(p, "commit", "peek")
StartTerminate(p) == "terminate" \in Requests /\ Begin(p, "terminate", "touch")
StartReject(p) == "reject" \in Requests /\ Begin(p, "reject", "error")
StartBeat(p) == Begin(p, "beat", "beat")

StartSetOf(p, e, v) ==
  /\ "set" \in Requests
  /\ At(p, "idle")
  /\ call' = [call EXCEPT ![p] = [NoCall EXCEPT !.op = "set", !.at = "add",
                                    !.elem = e, !.val = v, !.base = attempt]]
  /\ UNCHANGED <<sess, stale, documents, accepted>>

StartSet(p) == \E e \in Elements : \E v \in Values[e] : StartSetOf(p, e, v)

StartGet(p) ==
  /\ "get" \in Requests
  /\ At(p, "idle")
  /\ \E e \in Elements :
       call' = [call EXCEPT ![p] = [NoCall EXCEPT !.op = "get", !.at = "peek",
                                      !.elem = e, !.base = attempt]]
  /\ UNCHANGED <<sess, stale, documents, accepted>>

-------------------------------------------------------------------------------
(* The session store. *)

(* The session a store operation writes back: what it read (Redis), or the *)
(* record itself (memory).                                                 *)
Held(p) == IF Store = "memory" THEN sess ELSE call[p].held

(* The GET of a Redis operation that will write the session back. *)
Fetch(p) ==
  /\ Store = "redis"
  /\ Present(sess)
  /\ ~Present(call[p].held)
  /\ call' = [call EXCEPT ![p].held = sess]
  /\ UNCHANGED <<sess, stale, documents, accepted>>

(* The operation found no session. *)
Missing(p) == ~Present(sess) /\ ~Present(call[p].held)

(* Mutant: the in-memory store replaces the session, too. *)
CreateSessionAnew(p) ==
  /\ At(p, "create")
  /\ sess' = FreshSession
  /\ stale' = FALSE
  /\ accepted' = NoCells
  /\ Goto(p, IF call[p].op = "set" THEN "add" ELSE "save")
  /\ UNCHANGED documents

(* Mutant: a session that is still there is kept, in Redis too. *)
CreateSessionOnce(p) ==
  /\ At(p, "create")
  /\ IF Present(sess)
     THEN UNCHANGED <<sess, stale, accepted>>
     ELSE sess' = FreshSession /\ stale' = FALSE /\ accepted' = NoCells
  /\ Goto(p, IF call[p].op = "set" THEN "add" ELSE "save")
  /\ UNCHANGED documents

(* createSession.  SETEX replaces what is there; the in-memory store throws *)
(* 'Session already initialized', which initialize ignores and set reports. *)
CreateSession(p) ==
  /\ At(p, "create")
  /\ IF Store = "memory" /\ Present(sess)
     THEN /\ Goto(p, IF call[p].op = "set" THEN "error" ELSE "save")
          /\ UNCHANGED <<sess, stale, accepted>>
     ELSE /\ sess' = FreshSession
          /\ stale' = FALSE
          /\ accepted' = NoCells
          /\ Goto(p, IF call[p].op = "set" THEN "add" ELSE "save")
  /\ UNCHANGED documents

(* Mutant: set goes on creating sessions as long as it finds none. *)
AddPendingRetrying(p) ==
  /\ At(p, "add")
  /\ \/ Fetch(p)
     \/ /\ Present(Held(p))
        /\ sess' = [Held(p) EXCEPT !.pending[call[p].elem] = call[p].val]
        /\ stale' = FALSE
        /\ accepted' = [accepted EXCEPT ![call[p].elem] = call[p].val]
        /\ Goto(p, "ack")
        /\ UNCHANGED documents
     \/ /\ Missing(p)
        /\ Goto(p, "create")
        /\ UNCHANGED <<sess, stale, documents, accepted>>

(* addPendingCMI.  'Session not initialized' makes set create the session   *)
(* and try once more.                                                      *)
AddPending(p) ==
  /\ At(p, "add")
  /\ \/ Fetch(p)
     \/ /\ Present(Held(p))
        /\ sess' = [Held(p) EXCEPT !.pending[call[p].elem] = call[p].val]
        /\ stale' = FALSE
        /\ accepted' = [accepted EXCEPT ![call[p].elem] = call[p].val]
        /\ Goto(p, "ack")
        /\ UNCHANGED documents
     \/ /\ Missing(p)
        /\ call' = [call EXCEPT ![p].at = IF call[p].lazy THEN "error" ELSE "create",
                                ![p].lazy = TRUE]
        /\ UNCHANGED <<sess, stale, documents, accepted>>

(* setSessionError writes the session back with another error code. *)
SetSessionError(p) ==
  /\ call[p].at \in {"ack", "error"}
  /\ \/ Fetch(p)
     \/ /\ Present(Held(p)) \/ Missing(p)
        /\ sess' = IF Present(Held(p)) THEN Held(p) ELSE sess
        /\ IF At(p, "error") THEN Finish(p, "false")
           ELSE IF call[p].op = "set" THEN Goto(p, "save")
           ELSE Finish(p, "true")
        /\ UNCHANGED <<stale, documents, accepted>>

(* clearPendingCMI: commit clears after its save, terminate before it. *)
ClearPending(p) ==
  /\ At(p, "clear")
  /\ \/ Fetch(p)
     \/ /\ Present(Held(p)) \/ Missing(p)
        /\ sess' = IF Present(Held(p)) THEN [Held(p) EXCEPT !.pending = NoCells] ELSE sess
        /\ Goto(p, IF call[p].op = "commit" THEN "ack" ELSE "save")
        /\ UNCHANGED <<stale, documents, accepted>>

(* terminateSession(attemptId, 'normal'), the last thing terminate does. *)
EndSession(p) ==
  /\ At(p, "end")
  /\ \/ Fetch(p)
     \/ /\ Present(Held(p)) \/ Missing(p)
        /\ sess' = IF Present(Held(p)) THEN [Held(p) EXCEPT !.status = "terminated"] ELSE sess
        /\ Finish(p, "true")
        /\ UNCHANGED <<stale, documents, accepted>>

(* Mutant: a heartbeat revives whatever session it finds. *)
HeartbeatRevives(p) ==
  /\ At(p, "beat")
  /\ \/ Present(sess) /\ Fetch(p)
     \/ /\ Present(Held(p))
        /\ sess' = [Held(p) EXCEPT !.status = "active"]
        /\ stale' = FALSE
        /\ Goto(p, "find")
        /\ UNCHANGED <<documents, accepted>>
     \/ /\ Missing(p)
        /\ Finish(p, "false")
        /\ UNCHANGED <<sess, stale, documents, accepted>>

(* updateHeartbeat, and the reply to a heartbeat that found no active session. *)
Heartbeat(p) ==
  /\ At(p, "beat")
  /\ \/ sess.status = "active" /\ Fetch(p)
     \/ /\ Held(p).status = "active"
        /\ sess' = Held(p)
        /\ stale' = FALSE
        /\ Goto(p, "find")
        /\ UNCHANGED <<documents, accepted>>
     \/ /\ sess.status # "active"
        /\ ~Present(call[p].held)
        /\ Finish(p, "false")
        /\ UNCHANGED <<sess, stale, documents, accepted>>

(* getSession: the GET, and for Redis the TTL that follows it.  Terminate   *)
(* answers 301 without a session; a heartbeat answers all the same.        *)
Found(p) == IF call[p].op = "beat" THEN Finish(p, "true") ELSE Goto(p, "peek")
NotFound(p) == Finish(p, IF call[p].op = "beat" THEN "true" ELSE "false")

FindSession(p) ==
  /\ At(p, "find")
  /\ \/ ~Present(sess) /\ NotFound(p) /\ UNCHANGED sess
     \/ Present(sess) /\ Store = "redis" /\ Goto(p, "ttl") /\ UNCHANGED sess
     \/ Present(sess) /\ Store = "memory" /\ ~stale /\ Found(p) /\ UNCHANGED sess
     \/ /\ Present(sess) /\ Store = "memory" /\ stale
        /\ sess' = [sess EXCEPT !.status = "timeout"]
        /\ NotFound(p)
  /\ UNCHANGED <<stale, documents, accepted>>

CheckTtl(p) ==
  /\ At(p, "ttl")
  /\ IF Present(sess) THEN Found(p) ELSE Goto(p, "timeout")
  /\ UNCHANGED <<sess, stale, documents, accepted>>

(* terminateSession(attemptId, 'timeout') inside getSession, which then     *)
(* answers that there is no session.                                       *)
TimeOut(p) ==
  /\ At(p, "timeout")
  /\ \/ Fetch(p)
     \/ /\ Present(Held(p)) \/ Missing(p)
        /\ sess' = IF Present(Held(p)) THEN [Held(p) EXCEPT !.status = "timeout"] ELSE sess
        /\ NotFound(p)
        /\ UNCHANGED <<stale, documents, accepted>>

-------------------------------------------------------------------------------
(* Reading the pending values. *)

(* Mutant: a get that answers from the pending values only. *)
StoredNever(c) == NoValue

(* What a get finds in the structured `cmi` it loaded. *)
Stored(c) == IF c.elem \in RawOnly THEN NoValue ELSE Cell(c.base.cmi, c.elem)

(* getPendingCMI, and what each handler does with the result.  A get        *)
(* answers from the pending values, or saves its log and then answers from *)
(* the attempt it loaded.                                                  *)
Peek(p) ==
  /\ At(p, "peek")
  /\ LET c == call[p]
         pend == sess.pending
         none == pend = NoCells
     IN  \/ /\ c.op = "commit" /\ none
            /\ Finish(p, "true")
         \/ /\ c.op = "commit" /\ ~none
            /\ call' = [call EXCEPT ![p].at = "save", ![p].pend = pend]
         \/ /\ c.op = "terminate"
            /\ call' = [call EXCEPT ![p].at = IF none THEN "save" ELSE "clear",
                                    ![p].pend = pend]
         \/ /\ c.op = "get" /\ Cell(pend, c.elem) # NoValue
            /\ call' = [call EXCEPT ![p] = [NoCall EXCEPT !.op = "get", !.reply = "true",
                                              !.elem = c.elem, !.val = Cell(pend, c.elem)]]
         \/ /\ c.op = "get" /\ Cell(pend, c.elem) = NoValue
            /\ call' = [call EXCEPT ![p].at = "save", ![p].val = Stored(c)]
  /\ UNCHANGED <<sess, stale, documents, accepted>>

-------------------------------------------------------------------------------
(* The documents. *)

(* The attempt as the handler has changed it in memory. *)
Edited(c) ==
  CASE c.op = "initialize" -> Initialized(c.base)
    [] c.op = "commit" -> Committed(c.base, c.pend)
    [] c.op = "terminate" -> Finished(c.base, c.pend)
    [] OTHER -> c.base

(* Mutant: setCMIValue does not mark cmi as modified. *)
SavedUnmarked(c) ==
  LET new == Edited(c)
  IN  [status |-> IF new.status = c.base.status THEN attempt.status ELSE new.status,
       cmi |-> attempt.cmi,
       done |-> attempt.done \/ new.done]

(* What save() stores: the paths that differ from the loaded document, and  *)
(* the whole of cmi when any element of it was set.                        *)
Saved(c) ==
  LET new == Edited(c)
  IN  [status |-> IF new.status = c.base.status THEN attempt.status ELSE new.status,
       cmi |-> IF c.pend = NoCells THEN attempt.cmi ELSE new.cmi,
       done |-> attempt.done \/ new.done]

(* Mutant: the post-save hook is handed the document as it was loaded. *)
SaveAttemptHookedEarly(p) ==
  /\ At(p, "save")
  /\ SaveAllowed(call[p].pend)
  /\ attempt' = Saved(call[p])
  /\ Goto(p, "sync")
  /\ UNCHANGED <<sess, stale, content, progress, accepted>>

(* save() with its validation. *)
SaveAttempt(p) ==
  /\ At(p, "save")
  /\ SaveAllowed(call[p].pend)
  /\ attempt' = Saved(call[p])
  /\ call' = [call EXCEPT ![p].at = "sync", ![p].base = Edited(call[p])]
  /\ UNCHANGED <<sess, stale, content, progress, accepted>>

(* Mutant: commit clears the pending values whether its save succeeds or not. *)
SaveFailsClearing(p) ==
  /\ At(p, "save")
  /\ ~SaveAllowed(call[p].pend) \/ call[p].op \in Faults
  /\ Goto(p, "clear")
  /\ UNCHANGED <<sess, stale, documents, accepted>>

(* A refused or failed save: set and commit answer with an error code, the  *)
(* others with a 500.                                                      *)
SaveFails(p) ==
  /\ At(p, "save")
  /\ ~SaveAllowed(call[p].pend) \/ call[p].op \in Faults
  /\ IF call[p].op \in {"set", "commit"} THEN Goto(p, "error") ELSE Finish(p, "failed")
  /\ UNCHANGED <<sess, stale, documents, accepted>>

(* The post-save hook, syncContentAttemptFromScorm, with the document as    *)
(* the handler holds it; an error in it is logged and ignored.             *)
SyncContent(p) ==
  /\ call[p].at \in {"sync", "touch"}
  /\ \/ content' = MapStatus(call[p].base.status)
     \/ call[p].op \in Faults /\ UNCHANGED content
  /\ LET c == call[p]
     IN  CASE At(p, "touch") \/ (c.op = "set" /\ ~c.lazy) -> Goto(p, "progress")
           [] c.op = "commit" -> Goto(p, "clear")
           [] c.op = "terminate" /\ At(p, "sync") -> Goto(p, "end")
           [] c.op = "get" -> call' = [call EXCEPT ![p] = [NoCall EXCEPT
                                !.op = "get", !.reply = "true", !.elem = c.elem, !.val = c.val]]
           [] OTHER -> Finish(p, "true")
  /\ UNCHANGED <<sess, stale, attempt, progress, accepted>>

(* persistScormProgress; an error in it is logged and ignored.  The content *)
(* sync it ends with is handed {attempt} where the function takes the       *)
(* attempt itself, finds no package, and changes nothing.                  *)
PersistProgress(p) ==
  /\ At(p, "progress")
  /\ \/ progress' = MapScormStatus(call[p].base.status)
     \/ call[p].op \in Faults /\ UNCHANGED progress
  /\ IF call[p].op = "set" THEN Finish(p, "true") ELSE Goto(p, "find")
  /\ UNCHANGED <<sess, stale, attempt, content, accepted>>

-------------------------------------------------------------------------------
(* Failures and the passing of time. *)

(* 'Redis not ready', or a failing command, where the handler catches it:   *)
(* initialize goes on without a session, set and commit report the error.  *)
SessionFails(p) ==
  /\ Store = "redis"
  /\ call[p].op \in Faults
  /\ \/ call[p].op = "initialize" /\ At(p, "create") /\ Goto(p, "save")
     \/ call[p].op = "set" /\ call[p].at \in {"create", "add", "ack"} /\ Goto(p, "error")
     \/ call[p].op = "commit" /\ call[p].at \in {"peek", "clear", "ack"} /\ Goto(p, "error")
  /\ UNCHANGED <<sess, stale, documents, accepted>>

(* The steps whose failure no handler catches: terminate's first save, and  *)
(* the Redis commands outside a try block, those of a catch block included. *)
Uncaught(p) ==
  \/ At(p, "touch")
  \/ /\ Store = "redis"
     /\ \/ call[p].at \in {"error", "find", "ttl", "timeout", "end", "beat"}
        \/ call[p].at \in {"peek", "clear"} /\ call[p].op \in {"get", "terminate"}

(* The request ends with a 500. *)
Abort(p) ==
  /\ call[p].op \in Faults
  /\ Uncaught(p)
  /\ Finish(p, "failed")
  /\ UNCHANGED <<sess, stale, documents, accepted>>

(* The server restarts: requests in flight are lost, and with them the      *)
(* sessions of the in-memory store.                                        *)
Restart ==
  /\ Faults # {}
  /\ \A p \in Procs : At(p, "idle") \/ call[p].op \in Faults
  /\ call' = [p \in Procs |-> IF At(p, "idle") THEN call[p]
                              ELSE [NoCall EXCEPT !.op = call[p].op, !.reply = "failed"]]
  /\ sess' = IF Store = "memory" THEN NoSession ELSE sess
  /\ accepted' = IF Store = "memory" THEN NoCells ELSE accepted
  /\ UNCHANGED <<stale, documents>>

(* SESSION_TIMEOUT passes without activity: Redis drops the key, and with   *)
(* it what was not committed; the in-memory store only finds out later.    *)
Expire ==
  /\ Present(sess)
  /\ IF Store = "redis"
     THEN sess' = NoSession /\ accepted' = NoCells /\ UNCHANGED stale
     ELSE stale' = TRUE /\ UNCHANGED <<sess, accepted>>
  /\ UNCHANGED <<documents, call>>

-------------------------------------------------------------------------------

Advance(p) ==
  \/ CreateSession(p) \/ AddPending(p) \/ SetSessionError(p) \/ ClearPending(p)
  \/ EndSession(p) \/ Heartbeat(p) \/ FindSession(p) \/ CheckTtl(p) \/ TimeOut(p)
  \/ Peek(p) \/ SaveAttempt(p) \/ SaveFails(p) \/ SyncContent(p) \/ PersistProgress(p)

Request(p) ==
  \/ StartInitialize(p) \/ StartSet(p) \/ StartReject(p) \/ StartGet(p)
  \/ StartCommit(p) \/ StartTerminate(p)

Next ==
  \/ \E p \in Pages : Request(p)
  \/ \E p \in Timers : StartBeat(p)
  \/ \E p \in Procs : Advance(p) \/ SessionFails(p) \/ Abort(p)
  \/ Restart
  \/ Expire

Spec == Init /\ [][Next]_vars

(* A request that has started runs to its answer: every step of a handler   *)
(* is the completion of an operation the event loop delivers.              *)
FairSpec == Spec /\ \A p \in Procs : WF_vars(Advance(p))

-------------------------------------------------------------------------------
(* Properties. *)

(* Every variable holds what the documents and the session store can hold. *)
TypeOK ==
  /\ sess \in Session
  /\ stale \in BOOLEAN
  /\ attempt \in Attempt
  /\ content \in ContentStatus
  /\ progress \in ProgressStatus
  /\ call \in [Procs -> Call]
  /\ accepted \in Cells

Quiet == \A p \in Procs : At(p, "idle")
Replied(p, op, r) == At(p, "idle") /\ call[p].op = op /\ call[p].reply = r

(* Where a value may be on its way from SetValue to the attempt: in the     *)
(* session, in the attempt, or in the hands of a terminate that has cleared *)
(* the session and not saved yet.                                          *)
Visible(e) == IF sess.pending[e] # NoValue THEN sess.pending[e] ELSE attempt.cmi[e]
InHand(e) == {call[p].pend[e] : p \in {q \in Pages : call[q].op = "terminate" /\ At(q, "save")}}

(* No value SetValue has taken is ever lost between the session and the     *)
(* attempt: addPendingCMI, commit's save-then-clear and terminate's         *)
(* clear-then-save leave it in one of the two at every step.               *)
Durable == \A e \in Elements : accepted[e] \in {NoValue, Visible(e)} \cup InHand(e)

(* When commit or terminate has answered "true", every value the session    *)
(* took before is stored in the attempt.                                   *)
CommitSaves ==
  \A p \in Pages : Replied(p, "commit", "true") \/ Replied(p, "terminate", "true") =>
    \A e \in Elements : accepted[e] \in {NoValue, attempt.cmi[e]}

(* GetValue answers with the latest value SetValue took, wherever commits   *)
(* have moved it since.  It does not for an element without a field in     *)
(* `cmi`, once it is committed.                                            *)
ReadYourWrites ==
  \A p \in Pages : Replied(p, "get", "true") /\ call[p].elem \notin RawOnly =>
    accepted[call[p].elem] \in {NoValue, call[p].val}

(* A session whose terminate has answered "true" is not active: nothing in  *)
(* flight brings it back, so its TTL may delete it.                        *)
SessionEnds == \A p \in Pages : Replied(p, "terminate", "true") => sess.status # "active"

(* What the calls of a session answered holds until the session is called  *)
(* again: it is over after a terminate, which nothing in flight undoes, and *)
(* a get has told the latest value (scormRuntimeCtrl.ts:184-395).           *)
SessionAnswers == SessionEnds /\ ReadYourWrites

(* A page that has initialized has an active session, whatever an earlier   *)
(* launch of the attempt left under the key, until the session expires.    *)
InitializeOpens ==
  \A p \in Pages : Replied(p, "initialize", "true") => sess.status \in {"none", "active"}

(* The stored status is the one calculateCompletion derives from the CMI    *)
(* stored with it.                                                         *)
StatusFollowsCMI == attempt.status = CalculateCompletion(attempt.status, attempt.cmi)

(* No report is ahead of the attempt: when the status is final, or either   *)
(* report says completed, completedAt is set, in whatever order saves and   *)
(* syncs of stale documents take effect.                                   *)
ReportsNeverAhead ==
  attempt.status \in Final \/ content = "completed" \/ progress \in {"completed", "failed"}
    => attempt.done

(* With no request in flight, ContentAttempt says what the attempt says. *)
ContentAgrees == Quiet => content \in {"absent", MapStatus(attempt.status)}

(* While its session stays, a pending value leaves it only for the attempt, *)
(* or for the hands of a terminate about to save it: neither a failed       *)
(* commit, nor a second launch, nor a timeout drops one.                   *)
DropsNothing ==
  Present(sess') => \A e \in Elements :
    sess'.pending[e] = NoValue => sess.pending[e] \in {NoValue, attempt'.cmi[e]} \cup InHand(e)'

(* Every request is answered. *)
Answered == \A p \in Procs : ~At(p, "idle") ~> At(p, "idle")

===============================================================================
