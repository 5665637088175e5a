---------------------------- MODULE CourseArchive -----------------------------
(***************************************************************************)
(* What the two course enrollment collections promise together: an         *)
(* enrollment opens for a learner and a course (a seat) that has no open   *)
(* one, and ends once, with an outcome that stays on record.  There is no  *)
(* step that takes an open enrollment away without an outcome.             *)
(***************************************************************************)

CONSTANTS
  Seat,     \* a learner and a course
  Doc       \* the enrollments there may ever be

VARIABLES
  seatOf,   \* seatOf[d]: the seats that d was opened for (none or one)
  outcome   \* outcome[d]: how d ended, "none" while it has not

archive == <<seatOf, outcome>>

Ending == {"passed", "failed", "withdrawn"}

Init ==
  /\ seatOf = [d \in Doc |-> {}]
  /\ outcome = [d \in Doc |-> "none"]

OpenIn(s) == {d \in Doc : seatOf[d] = {s} /\ outcome[d] = "none"}

(* One request may open several enrollments: `opened` gives each its seat. *)
Open(opened) ==
  /\ \A d \in DOMAIN opened : seatOf[d] = {} /\ OpenIn(opened[d]) = {}
  /\ \A d, e \in DOMAIN opened : opened[d] = opened[e] => d = e
  /\ seatOf' = [d \in Doc |->
       IF d \in DOMAIN opened THEN {opened[d]} ELSE seatOf[d]]
  /\ UNCHANGED outcome

End(d) ==
  /\ seatOf[d] # {}
  /\ outcome[d] = "none"
  /\ \E o \in Ending : outcome' = [outcome EXCEPT ![d] = o]
  /\ UNCHANGED seatOf

Next ==
  \/ \E D \in SUBSET Doc : \E opened \in [D -> Seat] : Open(opened)
  \/ \E d \in Doc : End(d)

Spec == Init /\ [][Next]_archive

===============================================================================
