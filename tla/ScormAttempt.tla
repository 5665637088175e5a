----------------------------- MODULE ScormAttempt -----------------------------
(***************************************************************************)
(* The SCORM attempt document (model/Scorm/ScormAttempt.ts) as a value:    *)
(* what applying CMI elements to it and recalculating its status yields,   *)
(* and what the two reporting collections derive from it.  Nothing here    *)
(* has state; ScormRuntime applies these operators inside its handlers.    *)
(*                                                                         *)
(* A CMI value is a member of Values[e]; scores, times and free text are   *)
(* told apart only as far as that.  cmi and rawCmiData are one function,   *)
(* because the code writes both, whole, in the same save.                  *)
(***************************************************************************)

CONSTANTS
  Elements,     \* the CMI elements content may set, by their names in `cmi`
  Values,       \* Values[e]: what content may set element e to
  Refused,      \* the values schema validation refuses when the document is saved
  NoValue       \* an element that has not been set

AnyValue == UNION {Values[e] : e \in Elements}

ASSUME ValuesAssumption == NoValue \notin AnyValue
ASSUME RefusedAssumption == NoValue \notin Refused

(* CMI data: the value of each element, NoValue where it is not set. *)
Cells == [Elements -> AnyValue \cup {NoValue}]
NoCells == [e \in Elements |-> NoValue]

Status == {"not_started", "incomplete", "completed", "passed", "failed", "suspended"}
Final == {"completed", "passed", "failed"}

ASSUME UnsetAssumption == NoValue \notin Status

(* `done` stands for completedAt being set. *)
Attempt == [status : Status, cmi : Cells, done : BOOLEAN]
NewAttempt == [status |-> "not_started", cmi |-> NoCells, done |-> FALSE]

Cell(cmi, e) == IF e \in Elements THEN cmi[e] ELSE NoValue

(* Mutant: the pending values take the place of the CMI data. *)
OverlayReplaces(cmi, pend) == pend

(* setCMIValue for every element of `pend`. *)
Overlay(cmi, pend) ==
  [e \in Elements |-> IF pend[e] = NoValue THEN cmi[e] ELSE pend[e]]

(* The status calculateCompletion leaves: success before failure before    *)
(* completion, and the status unchanged when the content reported none.    *)
CalculateCompletion(status, cmi) ==
  LET lesson == Cell(cmi, "lesson_status")
      completion == Cell(cmi, "completion_status")
      success == Cell(cmi, "success_status")
  IN  IF "passed" \in {lesson, success} THEN "passed"
      ELSE IF "failed" \in {lesson, success} THEN "failed"
      ELSE IF "completed" \in {lesson, completion} THEN "completed"
      ELSE IF "incomplete" \in {lesson, completion} THEN "incomplete"
      ELSE status

(* Mutant: completedAt is stamped for status completed alone. *)
StampedCompleted(status, cmi, done) ==
  [status |-> status, cmi |-> cmi, done |-> done \/ status = "completed"]

(* completedAt is stamped the first time the status is a final one. *)
Stamped(status, cmi, done) ==
  [status |-> status, cmi |-> cmi, done |-> done \/ status \in Final]

(* Mutant: a launch sets the status whatever it was. *)
InitializedAlways(a) == [a EXCEPT !.status = "incomplete"]

(* What a launch, a commit and a terminate make of the attempt. *)
Initialized(a) ==
  [a EXCEPT !.status = IF a.status \in Final THEN a.status ELSE "incomplete"]

Committed(a, pend) ==
  LET cmi == Overlay(a.cmi, pend)
      status == CalculateCompletion(a.status, cmi)
  IN  Stamped(IF status = "not_started" THEN "incomplete" ELSE status, cmi, a.done)

Finished(a, pend) ==
  LET cmi == Overlay(a.cmi, pend)
      before == IF a.status \in Final THEN a.status ELSE "suspended"
  IN  Stamped(CalculateCompletion(before, cmi), cmi, a.done)

(* Schema validation of a document whose cmi was marked modified. *)
SaveAllowed(pend) == \A e \in Elements : pend[e] \notin Refused

-------------------------------------------------------------------------------

(* ContentAttempt.status and LearnerProgress.status, derived from the attempt. *)
ContentStatus == {"absent", "in_progress", "completed"}
MapStatusVerbatim(status) == status  \* mutant: the attempt's status as it is
MapStatus(status) == IF status \in Final THEN "completed" ELSE "in_progress"

ProgressStatus == {"absent", "not_started", "in_progress", "completed", "failed"}
MapScormStatus(status) ==
  CASE status = "not_started" -> "not_started"
    [] status \in {"passed", "completed"} -> "completed"
    [] status = "failed" -> "failed"
    [] OTHER -> "in_progress"

===============================================================================
