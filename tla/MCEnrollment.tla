----------------------------- MODULE MCEnrollment -----------------------------
(* Enrollment, and the repair of the course catalog, on small instances.    *)
(* Each behaviour runs one of them, chosen at the start, while the          *)
(* variables of the other stay: they share no state.                        *)
EXTENDS Enrollment, CatalogRepair, TLC

CONSTANTS l1, l2, g1, g2, d1, d2

VARIABLE part   \* which of them runs

(* Two levels of two programs; a custom content and an attempt at one. *)
MCProgOf == l1 :> g1 @@ l2 :> g2
MCBatchOf == d1 :> 1 @@ d2 :> 3

(* The repair runs on the two sides of courses and levels, or on what else  *)
(* the backfill writes.                                                     *)
MCInit ==
  /\ part \in {"enrollment", "sides", "fields"}
  /\ Init
  /\ RepairInit
  /\ part # "fields" => shown = {} /\ packed = {} /\ \A d \in Piece : kind[d] = "other"
  /\ part # "sides" =>
       /\ \A l \in Lev : ~lev[l].there
       /\ \A c \in Crs : crs[c].field = NoLev /\ crs[c].prog = g1
  /\ IF part = "enrollment" THEN \A c \in Crs : crs[c].at = "new"
     ELSE \A c \in Course : catalog[c] = "future"

(* No request gives a date, which Mirrors does not look at. *)
MCNext ==
  /\ UNCHANGED part
  /\ \/ /\ part = "enrollment" /\ Next /\ UNCHANGED repair
        /\ \A h \in Handler : ~handler'[h].dated
     \/ /\ part = "sides" /\ RepairNext /\ UNCHANGED vars
        /\ packed' = packed /\ kind' = kind
        /\ \A i \in DOMAIN writes' : writes'[i].op \notin {"rendered", "show", "published"}
     \/ /\ part = "fields" /\ RepairNext /\ UNCHANGED vars
        /\ lev' = lev
        /\ \A c \in Crs : crs'[c].field = NoLev /\ crs'[c].prog = g1

MCSpec == MCInit /\ [][MCNext]_<<part, vars, repair>>

Symmetry == Permutations(Course) \cup Permutations(Handler)

===============================================================================
