------------------------------ MODULE Enrollment ------------------------------
(***************************************************************************)
(* One learner's enrollment in one program and in the program's courses:   *)
(* controller/academics/courseEnrollmentCtrl.ts, programEnrollmentCtrl.ts, *)
(* the program half of enrollmentBatchCtrl.ts, and the suspend / withdraw  *)
(* endpoints of controller/staff/adminCtrl.ts.                             *)
(*                                                                         *)
(* A request on a course enrollment writes that document and then brings   *)
(* the program enrollment up to date from counts it reads one after the    *)
(* other.  Every await is a step boundary, so two requests interleave      *)
(* anywhere between a read and the save that rests on it.  A save writes   *)
(* only the paths that differ from what the request loaded, and fails on a *)
(* document that has been deleted since.  A request cut off by a restart   *)
(* is a handler that takes no further step.                                *)
(***************************************************************************)
EXTENDS Integers, FiniteSets

CONSTANTS
  Course,        \* the courses the program offers at one time or another
  Handler,       \* the requests in flight at once
  NoCourse,      \* the course of a request that is about none
  CourseStatus,  \* the statuses requests give a course enrollment
  ManualStatus   \* the statuses an administrator gives a learner

ASSUME CourseAssumption == IsFiniteSet(Course) /\ NoCourse \notin Course
ASSUME StatusAssumption ==
  /\ CourseStatus \subseteq {"active", "completed", "withdrawn"}
  /\ ManualStatus \subseteq {"enrolled", "on-leave", "withdrawn"}

VARIABLES
  catalog,    \* catalog[c]: not created yet, offered, or deleted
  taken,      \* taken[c]: the CourseEnrollment of the learner in c
  program,    \* the ProgramEnrollment of the learner
  handler     \* handler[h]: where request h is and what it has read

vars == <<catalog, taken, program, handler>>

-------------------------------------------------------------------------------

(* A program enrollment is never `applied`: no handler omits the status.  *)
ProgramStatus == {"enrolled", "on-leave", "withdrawn", "completed"}

(* `stamped`: completedAt is set. *)
Doc(S) == [status : {"none"} \cup S, stamped : BOOLEAN]
None == [status |-> "none", stamped |-> FALSE]
Enrolled(status, stamped) == [status |-> status, stamped |-> stamped]

Steps == {"idle", "insert", "save", "remove", "load", "total", "completed",
          "correct", "reply", "update", "assign"}

(* The document the request loaded, whether it still exists, the status it *)
(* is to set ("none": it sets no status), whether the body carries         *)
(* completedAt, and the number of courses it counted.  `alone` is no       *)
(* variable of the code: nothing was written since the request's own write.  *)
Request ==
  [at : Steps, course : Course \cup {NoCourse},
   want : {"none"} \cup CourseStatus \cup ProgramStatus, dated : BOOLEAN,
   copy : Doc(CourseStatus \cup ProgramStatus), live : BOOLEAN,
   total : Nat, alone : BOOLEAN]

Ready(at, c, want, dated, copy) ==
  [at |-> at, course |-> c, want |-> want, dated |-> dated, copy |-> copy,
   live |-> TRUE, total |-> 0, alone |-> FALSE]

Idle == Ready("idle", NoCourse, "none", FALSE, None)

Offered == {c \in Course : catalog[c] = "offered"}
Taken == {c \in Course : taken[c] # None}
Completed == {c \in Course : taken[c].status = "completed"}

Init ==
  /\ catalog \in [Course -> {"future", "offered"}]
  /\ taken = [c \in Course |-> None]
  /\ program = None
  /\ handler = [h \in Handler |-> Idle]

-------------------------------------------------------------------------------

(* What a write leaves of the requests in flight: `gone` are the ones      *)
(* whose document it deleted, `mine` is the state of the one that wrote.   *)
Marked(r, k, gone) == [r EXCEPT !.alone = FALSE, !.live = @ /\ k \notin gone]
Disturbed(gone) == [k \in Handler |-> Marked(handler[k], k, gone)]
After(h, mine, gone) == [Disturbed(gone) EXCEPT ![h] = mine]

(* A step that reads only, or fails, changes its own request only. *)
Step(h, mine) == handler' = [handler EXCEPT ![h] = mine]

Begin(h, at, c, want, dated, copy) ==
  /\ handler[h].at = "idle"
  /\ Step(h, Ready(at, c, want, dated, copy))
  /\ UNCHANGED <<catalog, taken, program>>

(* Mutant: a save addresses the document by learner and course. *)
SavesAnyway(r) == TRUE

(* save() throws DocumentNotFoundError when the document has been deleted. *)
Saves(r) == r.live

Fail(h) == Step(h, Idle) /\ UNCHANGED <<catalog, taken, program>>

(* The stored document after save(): `status` when it differs from the     *)
(* loaded one, completedAt when the body or a first completion sets it.    *)
Merged(doc, r) ==
  Enrolled(IF r.want \in {"none", r.copy.status} THEN doc.status ELSE r.want,
           \/ doc.stamped
           \/ r.dated
           \/ r.want = "completed" /\ ~r.copy.stamped)

-------------------------------------------------------------------------------

(* Course enrollments. *)

CreateCourseEnrollment(h) ==
  \E c \in Offered, want \in CourseStatus :
    taken[c] = None /\ Begin(h, "insert", c, want, FALSE, None)

UpdateCourseEnrollment(h) ==
  \E c \in Taken, want \in {"none"} \cup CourseStatus, dated \in BOOLEAN :
    Begin(h, "save", c, want, dated, taken[c])

DeleteCourseEnrollment(h) ==
  \E c \in Taken : Begin(h, "remove", c, "none", FALSE, None)

(* The rest of the request: updateProgramEnrollmentStatus. *)
Recount == [Idle EXCEPT !.at = "load", !.alone = TRUE]

(* The unique index refuses a second enrollment in the course. *)
InsertEnrollment(h) ==
  LET r == handler[h] IN
  /\ r.at = "insert"
  /\ \/ /\ taken[r.course] = None
        /\ taken' = [taken EXCEPT ![r.course] = Enrolled(r.want, r.want = "completed")]
        /\ handler' = After(h, Recount, {})
        /\ UNCHANGED <<catalog, program>>
     \/ taken[r.course] # None /\ Fail(h)

SaveEnrollment(h) ==
  LET r == handler[h] IN
  /\ r.at = "save"
  /\ \/ /\ Saves(r)
        /\ taken' = [taken EXCEPT ![r.course] = Merged(@, r)]
        /\ handler' = After(h, Recount, {})
        /\ UNCHANGED <<catalog, program>>
     \/ ~Saves(r) /\ Fail(h)

(* The requests that hold a loaded copy of the enrollment in c. *)
HoldCourse(c) == {k \in Handler : handler[k].at \in {"save", "remove"} /\ handler[k].course = c}

(* findByIdAndDelete of a document already deleted does nothing. *)
RemoveEnrollment(h) ==
  LET r == handler[h] IN
  /\ r.at = "remove"
  /\ \/ /\ r.live
        /\ taken' = [taken EXCEPT ![r.course] = None]
        /\ handler' = After(h, Recount, HoldCourse(r.course))
     \/ /\ ~r.live
        /\ Step(h, Recount)
        /\ UNCHANGED taken
  /\ UNCHANGED <<catalog, program>>

-------------------------------------------------------------------------------

(* updateProgramEnrollmentStatus, one read at a time. *)

Return(h) == Step(h, [Idle EXCEPT !.at = "reply", !.alone = handler[h].alone])

LoadProgram(h) ==
  /\ handler[h].at = "load"
  /\ IF program.status \in {"none", "withdrawn"} THEN Return(h)
     ELSE Step(h, [handler[h] EXCEPT !.at = "total", !.copy = program])
  /\ UNCHANGED <<catalog, taken, program>>

CountCourses(h) ==
  /\ handler[h].at = "total"
  /\ IF Offered = {} THEN Return(h)
     ELSE Step(h, [handler[h] EXCEPT !.at = "completed", !.total = Cardinality(Offered)])
  /\ UNCHANGED <<catalog, taken, program>>

(* Mutant: one course short of the total is enough. *)
VerdictEarly(completed, total) == IF completed + 1 >= total THEN "completed" ELSE "enrolled"

Verdict(completed, total) == IF completed >= total THEN "completed" ELSE "enrolled"

(* Only a change to or from `completed` is saved. *)
CountCompleted(h) ==
  LET r == handler[h]
      verdict == Verdict(Cardinality(Completed), r.total)
  IN  /\ r.at = "completed"
      /\ IF (verdict = "completed") = (r.copy.status = "completed") THEN Return(h)
         ELSE Step(h, [r EXCEPT !.at = "correct", !.want = verdict, !.total = 0])
      /\ UNCHANGED <<catalog, taken, program>>

(* completedAt is set unless the loaded document has it, or else cleared.  *)
CorrectProgram(h) ==
  LET r == handler[h] IN
  /\ r.at = "correct"
  /\ \/ /\ Saves(r)
        /\ program' =
             Enrolled(r.want, IF r.want = "completed" THEN program.stamped \/ ~r.copy.stamped
                              ELSE program.stamped /\ ~r.copy.stamped)
        /\ handler' = After(h, [Idle EXCEPT !.at = "reply", !.alone = r.alone], {})
        /\ UNCHANGED <<catalog, taken>>
     \/ ~Saves(r) /\ Fail(h)

Reply(h) ==
  /\ handler[h].at = "reply"
  /\ Step(h, Idle)
  /\ UNCHANGED <<catalog, taken, program>>

-------------------------------------------------------------------------------

(* Program enrollments. *)

(* Mutant: the schema's enum does not refuse `active`. *)
ProgramBodyActive == {"active", "completed", "withdrawn"}

(* What a body may set.  `active` passes request validation and is refused *)
(* by the enum when the document is saved, so it changes nothing.          *)
ProgramBody == {"completed", "withdrawn"}

CreateProgramEnrollment ==
  \E want \in {"enrolled"} \cup ProgramBody :
    /\ program = None
    /\ program' = Enrolled(want, want = "completed")
    /\ handler' = Disturbed({})
    /\ UNCHANGED <<catalog, taken>>

(* A batch item's status is stored without the date that goes with it. *)
BatchCreateProgramEnrollment ==
  \E want \in {"enrolled"} \cup ProgramBody :
    /\ program = None
    /\ program' = Enrolled(want, FALSE)
    /\ handler' = Disturbed({})
    /\ UNCHANGED <<catalog, taken>>

UpdateProgramEnrollment(h) ==
  \E want \in {"none"} \cup ProgramBody, dated \in BOOLEAN :
    program # None /\ Begin(h, "update", NoCourse, want, dated, program)

SaveProgramEnrollment(h) ==
  LET r == handler[h] IN
  /\ r.at = "update"
  /\ \/ /\ Saves(r)
        /\ program' = Merged(program, r)
        /\ handler' = After(h, Idle, {})
        /\ UNCHANGED <<catalog, taken>>
     \/ ~Saves(r) /\ Fail(h)

HoldProgram ==
  {k \in Handler : handler[k].at \in {"total", "completed", "correct", "update", "assign"}}

DeleteProgramEnrollment ==
  /\ program # None
  /\ program' = None
  /\ handler' = Disturbed(HoldProgram)
  /\ UNCHANGED <<catalog, taken>>

(* Suspend, withdraw, and their opposites: find the enrollment, or make    *)
(* one, and set its status.                                                *)
SetLearnerStatus(h) ==
  \E want \in ManualStatus :
    Begin(h, "assign", NoCourse, want, FALSE, program)

SaveLearnerStatus(h) ==
  LET r == handler[h]
      new == r.copy = None
  IN  /\ r.at = "assign"
      /\ \/ /\ IF new THEN program = None ELSE Saves(r)
            /\ program' = IF new THEN Enrolled(r.want, FALSE) ELSE Merged(program, r)
            /\ handler' = After(h, Idle, {})
            /\ UNCHANGED <<catalog, taken>>
         \/ ~(IF new THEN program = None ELSE Saves(r)) /\ Fail(h)

-------------------------------------------------------------------------------

(* createCourse and deleteCourse; the enrollments of a deleted course stay. *)
CreateCourse ==
  \E c \in Course :
    /\ catalog[c] = "future"
    /\ catalog' = [catalog EXCEPT ![c] = "offered"]
    /\ handler' = Disturbed({})
    /\ UNCHANGED <<taken, program>>

DeleteCourse ==
  \E c \in Offered :
    /\ catalog' = [catalog EXCEPT ![c] = "deleted"]
    /\ handler' = Disturbed({})
    /\ UNCHANGED <<taken, program>>

CourseRequest(h) ==
  \/ CreateCourseEnrollment(h) \/ UpdateCourseEnrollment(h) \/ DeleteCourseEnrollment(h)
  \/ InsertEnrollment(h) \/ SaveEnrollment(h) \/ RemoveEnrollment(h)
  \/ LoadProgram(h) \/ CountCourses(h) \/ CountCompleted(h) \/ CorrectProgram(h) \/ Reply(h)

ProgramRequest(h) ==
  \/ UpdateProgramEnrollment(h) \/ SaveProgramEnrollment(h)
  \/ SetLearnerStatus(h) \/ SaveLearnerStatus(h)

Next ==
  \/ \E h \in Handler : CourseRequest(h) \/ ProgramRequest(h)
  \/ CreateProgramEnrollment \/ BatchCreateProgramEnrollment \/ DeleteProgramEnrollment
  \/ CreateCourse \/ DeleteCourse

Spec == Init /\ [][Next]_vars

-------------------------------------------------------------------------------

(* The state of the enrollments and of the requests keeps its type. *)
TypeOK ==
  /\ catalog \in [Course -> {"future", "offered", "deleted"}]
  /\ taken \in [Course -> Doc(CourseStatus)]
  /\ program \in Doc(ProgramStatus)
  /\ handler \in [Handler -> Request]

(* A completed course enrollment has its completedAt, whatever requests    *)
(* interleave: a save that finds the date already in its copy and sets     *)
(* `completed` alone (updateCourseEnrollment) never lands on a document    *)
(* without one, because no save clears the date and a save of a deleted    *)
(* document fails rather than reach the one created in its place.          *)
CompletionDated == \A c \in Completed : taken[c].stamped

(* A course enrollment request leaves the program enrollment completed     *)
(* exactly when every course of the program is, unless something else is   *)
(* written between its own write and its reply                             *)
(* (updateProgramEnrollmentStatus): whatever stale counts, races and       *)
(* manual settings came before it are put right.  A withdrawn enrollment   *)
(* is left alone, and the learner's enrollments must all be in courses     *)
(* that still exist.                                                       *)
Mirrors ==
  \A h \in Handler :
    handler[h].at = "reply" /\ handler[h].alone
    /\ Offered # {} /\ Taken \subseteq Offered
    /\ program.status \notin {"none", "withdrawn"}
      => (program.status = "completed" <=> Offered \subseteq Completed)

(* Such a request completes the program enrollment only when every course  *)
(* enrollment of the learner is completed                                  *)
(* (lms_node_devdocs/old_devdocs/Enrollment-contract.md:105).  Deleting a  *)
(* course lowers the number of courses and leaves its completed enrollment *)
(* in the count, so an enrollment still active is passed over.             *)
CompletesOnlyAll ==
  \A h \in Handler :
    handler[h].at = "correct" /\ handler[h].alone /\ handler[h].want = "completed"
      => Taken \subseteq Completed

===============================================================================
