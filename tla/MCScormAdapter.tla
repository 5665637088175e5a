---------------------------- MODULE MCScormAdapter ----------------------------
(***************************************************************************)
(* The adapter on a small instance: content of two elements, one of which  *)
(* decides the status.  Each behaviour runs one of two parts, chosen at    *)
(* the start: over the wire, where requests and their answers are lost and *)
(* the server fails, and in the player's page beside its heartbeats, where *)
(* nothing does.  To keep the first small, it has no heartbeats.           *)
(***************************************************************************)
EXTENDS ScormPlayer

VARIABLE part   \* which of the two runs

MCValues ==
  [e \in Elements |-> IF e = "lesson_status" THEN {"incomplete", "passed"} ELSE {"page"}]

MCOwner == [t \in Timers |-> CHOOSE p \in Pages : TRUE]

Beat == INSTANCE ScormPlayer WITH Store <- "memory", Faults <- {}, Lossy <- FALSE

MCInit ==
  \/ part = "wire" /\ PlayerInit
  \/ part = "beat" /\ Beat!PlayerInit
MCNext ==
  /\ UNCHANGED part
  /\ \/ /\ part = "wire"
        /\ AdapterNext /\ UNCHANGED page
        /\ \A t \in Timers : call'[t].at = "idle"
     \/ part = "beat" /\ Beat!PlayerNext
MCSpec == MCInit /\ [][MCNext]_<<part, adapterVars, page>>

(* Where nothing fails, every value content set is stored once LMSFinish   *)
(* has answered "true" (scorm-api-1.2.js:147-200), whatever the heartbeats *)
(* do to the session meanwhile.                                            *)
UndisturbedFinishStores == part = "beat" => FinishStores

===============================================================================
