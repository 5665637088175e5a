------------------------------ MODULE ScormPlayer ------------------------------
(***************************************************************************)
(* The page of the SCORM player (generatePlayerHTML of                     *)
(* scormPlayerCtrl.ts) around the API object of ScormAdapter: its buttons  *)
(* to suspend and to exit, its timers, and what it does when it is left.   *)
(*                                                                         *)
(* A page runs one thing at a time, so all of these start between the      *)
(* calls of the content; and while the browser asks whether to leave, the  *)
(* content does not run.                                                   *)
(***************************************************************************)
EXTENDS ScormAdapter

VARIABLE page   \* page[p]: the state of player page p

Page ==
  [exiting : BOOLEAN,   \* isExiting
   leaving : BOOLEAN,   \* the browser asks whether to leave
   final : {"none"} \cup Status]   \* what the exit request answered for an ended session

NewPage == [exiting |-> FALSE, leaving |-> FALSE, final |-> "none"]

PlayerInit == AdapterInit /\ page = [p \in Pages |-> NewPage]

Becomes(p, field, value) == page' = [page EXCEPT ![p][field] = value]

-------------------------------------------------------------------------------

(* The interval that shows the score asks the API for it. *)
UpdateScore(p) ==
  /\ ~page[p].exiting /\ ~page[p].leaving
  /\ LMSGetValue(p)
  /\ UNCHANGED page

SuspendContent(p) ==
  /\ ~page[p].exiting /\ ~page[p].leaving
  /\ LMSCommit(p)
  /\ UNCHANGED page

(* The user exits, or confirms when the time limit is reached: the session *)
(* is finished, where there is one.                                        *)
ExitContent(p) ==
  /\ Free(p)
  /\ ~page[p].exiting /\ ~page[p].leaving
  /\ Becomes(p, "exiting", TRUE)
  /\ IF api[p].initialized THEN LMSFinish(p) ELSE UNCHANGED adapterVars

(* The exit request reads the attempt once LMSFinish has returned.         *)
ExitPlayer(p) ==
  /\ page[p].exiting /\ Free(p)
  /\ IF api[p].terminated THEN Becomes(p, "final", attempt.status) ELSE UNCHANGED page
  /\ UNCHANGED adapterVars

(* Mutant: leaving the page saves nothing. *)
BeforeUnloadIdle(p) ==
  /\ Free(p)
  /\ ~page[p].exiting /\ ~page[p].leaving
  /\ Becomes(p, "leaving", TRUE)
  /\ UNCHANGED adapterVars

(* The page commits and has the browser ask; after an exit it does neither. *)
BeforeUnload(p) ==
  /\ Free(p)
  /\ ~page[p].exiting /\ ~page[p].leaving
  /\ Becomes(p, "leaving", TRUE)
  /\ IF api[p].initialized THEN LMSCommit(p) ELSE UNCHANGED adapterVars

Stay(p) ==
  /\ page[p].leaving /\ Free(p)
  /\ Becomes(p, "leaving", FALSE)
  /\ UNCHANGED adapterVars

(* The page goes, in order or not. *)
Leave(p) == Reload(p) /\ page' = [page EXCEPT ![p] = NewPage]

PlayerNext ==
  \/ \E p \in Pages :
       \/ ~page[p].leaving /\ ContentCall(p) /\ UNCHANGED page
       \/ (AdapterStep(p) \/ Throw(p)) /\ UNCHANGED page
       \/ UpdateScore(p) \/ SuspendContent(p) \/ ExitContent(p) \/ ExitPlayer(p)
       \/ BeforeUnload(p) \/ Stay(p) \/ Leave(p)
  \/ ServerStep /\ UNCHANGED page

PlayerSpec == PlayerInit /\ [][PlayerNext]_<<adapterVars, page>>

-------------------------------------------------------------------------------

Safe(p) == \A e \in Elements : api[p].told[e] \in {NoValue, attempt.cmi[e]}

(* A page that is about to be left, where nothing fails, has every value   *)
(* the content set stored (after an exit the unload saves nothing, and     *)
(* does not ask).  And what the exit request shows of an ended session     *)
(* stays so (scormPlayerCtrl.ts:237-283, 714-785).                         *)
LeftInOrder ==
  \A p \in Pages :
    /\ page[p].leaving /\ Free(p) => Safe(p)
    /\ page[p].final \in {"none", attempt.status}

===============================================================================
