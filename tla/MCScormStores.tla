----------------------------- MODULE MCScormStores -----------------------------
(***************************************************************************)
(* The runtime over either session store.  Each behaviour runs one of two  *)
(* parts, chosen at the start: over the in-memory store, with heartbeats,  *)
(* where every operation may fail and the process restart; and over Redis, *)
(* which fails and expires keys, with one writer only (a heartbeat over    *)
(* Redis loses values: BugHeartbeatLoses).                                 *)
(***************************************************************************)
EXTENDS MCScormRuntime

VARIABLE part   \* which of the two runs

Redis == INSTANCE ScormRuntime WITH
  Store <- "redis", Faults <- {"set", "reject", "get", "commit"}

MCInit ==
  \/ part = "memory" /\ Init
  \/ part = "redis" /\ Redis!Init
MCNext ==
  /\ UNCHANGED part
  /\ \/ part = "memory" /\ Next
     \/ /\ part = "redis"
        /\ Redis!Next
        /\ \A t \in Timers : call'[t].at = "idle"
MCSpec == MCInit /\ [][MCNext]_<<part, vars>>

(* What each store makes of the session an earlier launch has left.  In    *)
(* memory, a pending value leaves a session that stays only for the attempt *)
(* or a terminate about to save it: neither a failed commit                *)
(* (scormRuntimeCtrl.ts:610), nor a second launch, nor a timeout drops one. *)
(* Over Redis, where createSession (sessionManager.ts:118) replaces what is *)
(* under the key, an initialize that answered has opened it.               *)
KeptOrOpened ==
  [][/\ part = "memory" => DropsNothing
     /\ part = "redis" => InitializeOpens']_vars

===============================================================================
