-------------------------- MODULE Enrollment_proofs --------------------------
(***************************************************************************)
(* Proofs about Enrollment, for every finite set of courses and every      *)
(* number of requests in flight, and about CatalogRepair, for any courses, *)
(* levels and contents.                                                    *)
(***************************************************************************)
EXTENDS Enrollment, CatalogRepair, FiniteSetTheorems, TLAPS

(* A request asks only for a status its endpoint lets through, and one on  *)
(* a course enrollment is about a course.                                  *)
AsksAllowed(r) ==
  /\ r.at \in {"insert", "save", "remove"} => r.course \in Course
  /\ r.at = "insert" => r.want \in CourseStatus
  /\ r.at = "save" => r.want \in {"none"} \cup CourseStatus
  /\ r.at = "update" => r.want \in {"none"} \cup ProgramBody
  /\ r.at = "assign" => r.want \in ManualStatus
  /\ r.at = "correct" => r.want \in {"completed", "enrolled"}

(* A date the copy of a live course enrollment has is on the document. *)
CopyDated(r) ==
  r.at = "save" /\ r.live /\ r.copy.stamped => taken[r.course].stamped

Matching == (program.status = "completed") <=> (Cardinality(Completed) >= Cardinality(Offered))

(* What a request has read is what is stored, until something is written. *)
ReadsFresh(r) ==
  r.alone =>
    /\ r.at \in {"load", "total", "completed", "correct"} => r.live
    /\ r.at \in {"total", "completed", "correct"} => r.copy = program
    /\ r.at = "completed" => r.total = Cardinality(Offered)
    /\ r.at = "correct" =>
         /\ r.want \in {"completed", "enrolled"}
         /\ (r.want = "completed") <=> (Cardinality(Completed) >= Cardinality(Offered))
    /\ r.at = "reply" /\ program.status \notin {"none", "withdrawn"} /\ Offered # {}
         => Matching

TypeInv == TypeOK /\ \A h \in Handler : AsksAllowed(handler[h])
DateInv == CompletionDated /\ \A h \in Handler : CopyDated(handler[h])
FreshInv == \A h \in Handler : ReadsFresh(handler[h])

-------------------------------------------------------------------------------

(* What a write makes of the requests, one request at a time. *)
LEMMA MarkedIs ==
  ASSUME NEW r \in Request, NEW k, NEW gone
  PROVE  Marked(r, k, gone) \in Request
BY DEF Marked, Request

LEMMA MarkedKeeps ==
  ASSUME NEW r \in Request, NEW k, NEW gone
  PROVE  /\ Marked(r, k, gone).at = r.at
         /\ Marked(r, k, gone).want = r.want
         /\ Marked(r, k, gone).course = r.course
         /\ Marked(r, k, gone).copy = r.copy
BY DEF Marked, Request

LEMMA MarkedLoses ==
  ASSUME NEW r \in Request, NEW k, NEW gone
  PROVE  /\ ~Marked(r, k, gone).alone
         /\ Marked(r, k, gone).live => r.live /\ k \notin gone
BY DEF Marked, Request

LEMMA DisturbedIs ==
  ASSUME TypeOK, NEW gone
  PROVE  /\ Disturbed(gone) \in [Handler -> Request]
         /\ \A k \in Handler : Disturbed(gone)[k] = Marked(handler[k], k, gone)
BY MarkedIs DEF TypeOK, Disturbed

LEMMA AfterIs ==
  ASSUME TypeOK, NEW gone, NEW h \in Handler, NEW mine \in Request
  PROVE  /\ After(h, mine, gone) \in [Handler -> Request]
         /\ After(h, mine, gone)[h] = mine
         /\ \A k \in Handler \ {h} : After(h, mine, gone)[k] = Marked(handler[k], k, gone)
BY DisturbedIs DEF After

LEMMA ReadyType ==
  ASSUME NEW at \in Steps, NEW c \in Course \cup {NoCourse},
         NEW want \in {"none"} \cup CourseStatus \cup ProgramStatus,
         NEW dated \in BOOLEAN, NEW copy \in Doc(CourseStatus \cup ProgramStatus)
  PROVE  Ready(at, c, want, dated, copy) \in Request
BY DEF Ready, Request

LEMMA IdleType == Idle \in Request
BY DEF Idle, Ready, Request, None, Doc, Steps

LEMMA RecountType == Recount \in Request
BY DEF Recount, Idle, Ready, Request, None, Doc, Steps

LEMMA CourseCounts ==
  /\ Cardinality(Offered) \in Nat
  /\ Cardinality(Completed) \in Nat
BY CourseAssumption, FS_Subset, FS_CardinalityType DEF Offered, Completed

-------------------------------------------------------------------------------

(* Types and allowed statuses, over the three ways a step leaves `handler`. *)
LEMMA ReadType ==
  ASSUME TypeInv, NEW h \in Handler, NEW mine \in Request, AsksAllowed(mine),
         Step(h, mine), UNCHANGED <<catalog, taken, program>>
  PROVE  TypeInv'
<1>1. handler' = [handler EXCEPT ![h] = mine] /\ handler \in [Handler -> Request]
  BY DEF Step, TypeInv, TypeOK
<1>2. TypeOK'
  BY <1>1 DEF TypeInv, TypeOK
<1>3. ASSUME NEW k \in Handler PROVE AsksAllowed(handler'[k])
  BY <1>1 DEF TypeInv
<1>4. ASSUME NEW k \in Handler PROVE AsksAllowed(handler[k])'
  BY <1>3 DEF AsksAllowed
<1> QED BY <1>2, <1>4 DEF TypeInv

LEMMA WriteType ==
  ASSUME TypeInv, NEW h \in Handler, NEW mine \in Request, NEW gone, AsksAllowed(mine),
         handler' = After(h, mine, gone), UNCHANGED catalog,
         taken' \in [Course -> Doc(CourseStatus)], program' \in Doc(ProgramStatus)
  PROVE  TypeInv'
<1>1. TypeOK /\ TypeOK'
  BY AfterIs DEF TypeInv, TypeOK
<1>2. ASSUME NEW k \in Handler PROVE AsksAllowed(handler'[k])
  <2>1. CASE k = h
    <3>1. handler'[h] = mine
      BY <1>1, AfterIs
    <3> QED BY <2>1, <3>1
  <2>2. CASE k # h
    <3>1. handler'[k] = Marked(handler[k], k, gone)
      BY <1>1, <2>2, AfterIs
    <3>2. handler[k] \in Request
      BY <1>1 DEF TypeOK
    <3>3. /\ handler'[k].at = handler[k].at
          /\ handler'[k].want = handler[k].want
          /\ handler'[k].course = handler[k].course
      BY <3>1, <3>2, MarkedKeeps
    <3> QED BY <3>3 DEF TypeInv, AsksAllowed
  <2> QED BY <2>1, <2>2
<1>3. ASSUME NEW k \in Handler PROVE AsksAllowed(handler[k])'
  BY <1>2 DEF AsksAllowed
<1> QED BY <1>1, <1>3 DEF TypeInv

LEMMA OutsideType ==
  ASSUME TypeInv, NEW gone, handler' = Disturbed(gone), UNCHANGED taken,
         catalog' \in [Course -> {"future", "offered", "deleted"}],
         program' \in Doc(ProgramStatus)
  PROVE  TypeInv'
<1>1. TypeOK /\ handler' \in [Handler -> Request]
  BY DisturbedIs DEF TypeInv
<1>2. ASSUME NEW k \in Handler PROVE AsksAllowed(handler'[k])
  <2>1. handler'[k] = Marked(handler[k], k, gone)
    BY <1>1, DisturbedIs
  <2>2. handler[k] \in Request
    BY <1>1 DEF TypeOK
  <2>3. /\ handler'[k].at = handler[k].at
          /\ handler'[k].want = handler[k].want
          /\ handler'[k].course = handler[k].course
    BY <2>1, <2>2, MarkedKeeps
  <2> QED BY <2>3 DEF TypeInv, AsksAllowed
<1>3. ASSUME NEW k \in Handler PROVE AsksAllowed(handler[k])'
  BY <1>2 DEF AsksAllowed
<1> QED BY <1>1, <1>3 DEF TypeInv, TypeOK

(* What begins a request, and what ends one without a write, keeps types. *)
LEMMA BeginType ==
  ASSUME TypeInv, NEW h \in Handler, NEW at \in Steps, NEW c \in Course \cup {NoCourse},
         NEW want \in {"none"} \cup CourseStatus \cup ProgramStatus,
         NEW dated \in BOOLEAN, NEW copy \in Doc(CourseStatus \cup ProgramStatus),
         Begin(h, at, c, want, dated, copy),
         at = "insert" => want \in CourseStatus,
         at = "save" => want \in {"none"} \cup CourseStatus,
         at = "update" => want \in {"none"} \cup ProgramBody,
         at = "assign" => want \in ManualStatus,
         at \in {"insert", "save", "remove"} => c \in Course, at # "correct"
  PROVE  TypeInv'
<1> DEFINE mine == Ready(at, c, want, dated, copy)
<1>1. mine \in Request
  BY ReadyType
<1>2. AsksAllowed(mine)
  BY DEF AsksAllowed, Ready
<1>3. Step(h, mine) /\ UNCHANGED <<catalog, taken, program>>
  BY DEF Begin
<1> HIDE DEF mine
<1> QED BY <1>1, <1>2, <1>3, ReadType

LEMMA FailType ==
  ASSUME TypeInv, NEW h \in Handler, Fail(h)
  PROVE  TypeInv'
<1>1. AsksAllowed(Idle)
  BY DEF AsksAllowed, Idle, Ready
<1> QED BY <1>1, IdleType, ReadType DEF Fail

(* Saving into a document of either kind leaves a document of that kind. *)
LEMMA MergedType ==
  ASSUME NEW S, NEW doc \in Doc(S), NEW r \in Request, r.want \in {"none"} \cup S
  PROVE  Merged(doc, r) \in Doc(S)
BY DEF Merged, Enrolled, Doc, Request

(* Every step keeps types and allowed statuses. *)
LEMMA RequestType ==
  ASSUME TypeInv, NEW h \in Handler
  PROVE  handler[h] \in Request /\ AsksAllowed(handler[h])
BY DEF TypeInv, TypeOK

LEMMA BeginsType ==
  ASSUME TypeInv, NEW h \in Handler,
         \/ CreateCourseEnrollment(h) \/ UpdateCourseEnrollment(h)
         \/ DeleteCourseEnrollment(h) \/ UpdateProgramEnrollment(h) \/ SetLearnerStatus(h)
  PROVE  TypeInv'
<1> USE DEF Steps
<1>1. /\ None \in Doc(CourseStatus \cup ProgramStatus)
      /\ program \in Doc(CourseStatus \cup ProgramStatus)
      /\ \A c \in Course : taken[c] \in Doc(CourseStatus \cup ProgramStatus)
  BY DEF TypeInv, TypeOK, Doc, None
<1>2. ManualStatus \subseteq ProgramStatus /\ ProgramBody \subseteq ProgramStatus
  BY StatusAssumption DEF ProgramStatus, ProgramBody
<1>3. CASE CreateCourseEnrollment(h)
  <2>1. PICK c \in Course, want \in CourseStatus : Begin(h, "insert", c, want, FALSE, None)
    BY <1>3 DEF CreateCourseEnrollment, Offered
  <2> QED BY <2>1, <1>1, BeginType
<1>4. CASE UpdateCourseEnrollment(h)
  <2>1. PICK c \in Course, want \in {"none"} \cup CourseStatus, dated \in BOOLEAN :
          Begin(h, "save", c, want, dated, taken[c])
    BY <1>4 DEF UpdateCourseEnrollment, Taken
  <2> QED BY <2>1, <1>1, BeginType
<1>5. CASE DeleteCourseEnrollment(h)
  <2>1. PICK c \in Course : Begin(h, "remove", c, "none", FALSE, None)
    BY <1>5 DEF DeleteCourseEnrollment, Taken
  <2> QED BY <2>1, <1>1, BeginType
<1>6. CASE UpdateProgramEnrollment(h)
  <2>1. PICK want \in {"none"} \cup ProgramBody, dated \in BOOLEAN :
          Begin(h, "update", NoCourse, want, dated, program)
    BY <1>6 DEF UpdateProgramEnrollment
  <2> QED BY <2>1, <1>1, <1>2, BeginType
<1>7. CASE SetLearnerStatus(h)
  <2>1. PICK want \in ManualStatus : Begin(h, "assign", NoCourse, want, FALSE, program)
    BY <1>7 DEF SetLearnerStatus
  <2> QED BY <2>1, <1>1, <1>2, BeginType
<1> QED BY <1>3, <1>4, <1>5, <1>6, <1>7

LEMMA CourseWritesType ==
  ASSUME TypeInv, NEW h \in Handler,
         InsertEnrollment(h) \/ SaveEnrollment(h) \/ RemoveEnrollment(h)
  PROVE  TypeInv'
<1> DEFINE r == handler[h]
<1>1. r \in Request /\ AsksAllowed(r)
  BY RequestType
<1>2. TypeOK
  BY DEF TypeInv
<1>3. AsksAllowed(Recount)
  BY DEF AsksAllowed, Recount, Idle, Ready
<1>4. ASSUME Fail(h) PROVE TypeInv'
  BY <1>4, FailType
<1>5. ASSUME NEW gone, handler' = After(h, Recount, gone), UNCHANGED <<catalog, program>>,
             taken' \in [Course -> Doc(CourseStatus)]
      PROVE  TypeInv'
  BY <1>2, <1>3, <1>5, RecountType, WriteType DEF TypeOK
<1>6. CASE InsertEnrollment(h)
  <2>1. r.want \in CourseStatus
    BY <1>1, <1>6 DEF AsksAllowed, InsertEnrollment
  <2>2. Enrolled(r.want, r.want = "completed") \in Doc(CourseStatus)
    BY <2>1 DEF Enrolled, Doc
  <2>3. CASE Fail(h)
    BY <1>4, <2>3
  <2>4. CASE /\ taken' = [taken EXCEPT ![r.course] = Enrolled(r.want, r.want = "completed")]
             /\ handler' = After(h, Recount, {})
             /\ UNCHANGED <<catalog, program>>
    <3>1. taken' \in [Course -> Doc(CourseStatus)]
      BY <1>2, <2>2, <2>4 DEF TypeOK
    <3> QED BY <1>5, <2>4, <3>1
  <2> QED BY <1>6, <2>3, <2>4 DEF InsertEnrollment
<1>7. CASE SaveEnrollment(h)
  <2>1. r.want \in {"none"} \cup CourseStatus
    BY <1>1, <1>7 DEF AsksAllowed, SaveEnrollment
  <2>2. CASE Fail(h)
    BY <1>4, <2>2
  <2>3. CASE /\ taken' = [taken EXCEPT ![r.course] = Merged(@, r)]
             /\ handler' = After(h, Recount, {})
             /\ UNCHANGED <<catalog, program>>
    <3>1. taken' \in [Course -> Doc(CourseStatus)]
      <4>1. ASSUME r.course \in Course PROVE Merged(taken[r.course], r) \in Doc(CourseStatus)
        BY <1>1, <1>2, <2>1, <4>1, MergedType DEF TypeOK
      <4> HIDE DEF r
      <4> QED BY <1>2, <2>3, <4>1 DEF TypeOK
    <3> QED BY <1>5, <2>3, <3>1
  <2> QED BY <1>7, <2>2, <2>3 DEF SaveEnrollment
<1>8. CASE RemoveEnrollment(h)
  <2>1. CASE /\ taken' = [taken EXCEPT ![r.course] = None]
             /\ handler' = After(h, Recount, HoldCourse(r.course))
    <3>1. taken' \in [Course -> Doc(CourseStatus)]
      BY <1>2, <2>1 DEF TypeOK, None, Doc
    <3> QED BY <1>5, <1>8, <2>1, <3>1 DEF RemoveEnrollment
  <2>2. CASE Step(h, Recount) /\ UNCHANGED taken
    BY <1>3, <1>8, <2>2, RecountType, ReadType DEF RemoveEnrollment
  <2> QED BY <1>8, <2>1, <2>2 DEF RemoveEnrollment
<1> QED BY <1>6, <1>7, <1>8

(* The request updateProgramEnrollmentStatus returns to. *)
Replying(alone) == [Idle EXCEPT !.at = "reply", !.alone = alone]

LEMMA ReplyingIs ==
  ASSUME NEW alone \in BOOLEAN
  PROVE  /\ Replying(alone) \in Request
         /\ AsksAllowed(Replying(alone))
         /\ Replying(alone).at = "reply"
         /\ Replying(alone).alone = alone
BY DEF Replying, Idle, Ready, Request, None, Doc, Steps, AsksAllowed

LEMMA ReturnType ==
  ASSUME TypeInv, NEW h \in Handler, Return(h), UNCHANGED <<catalog, taken, program>>
  PROVE  TypeInv'
<1>1. handler[h].alone \in BOOLEAN
  BY RequestType DEF Request
<1>2. Step(h, Replying(handler[h].alone))
  BY DEF Return, Replying
<1> QED BY <1>1, <1>2, ReplyingIs, ReadType

LEMMA RecountsType ==
  ASSUME TypeInv, NEW h \in Handler,
         \/ LoadProgram(h) \/ CountCourses(h) \/ CountCompleted(h)
         \/ CorrectProgram(h) \/ Reply(h)
  PROVE  TypeInv'
<1> DEFINE r == handler[h]
<1>1. r \in Request /\ r.alone \in BOOLEAN
  BY RequestType DEF Request
<1>2. TypeOK /\ program \in Doc(CourseStatus \cup ProgramStatus)
  BY DEF TypeInv, TypeOK, Doc
<1>3. CASE LoadProgram(h)
  <2> DEFINE mine == [r EXCEPT !.at = "total", !.copy = program]
  <2>1. mine \in Request /\ AsksAllowed(mine)
    BY <1>1, <1>2 DEF Request, Steps, AsksAllowed
  <2>2. Return(h) \/ Step(h, mine)
    BY <1>3 DEF LoadProgram
  <2>3. UNCHANGED <<catalog, taken, program>>
    BY <1>3 DEF LoadProgram
  <2> HIDE DEF mine
  <2> QED BY <2>1, <2>2, <2>3, ReturnType, ReadType
<1>4. CASE CountCourses(h)
  <2> DEFINE mine == [r EXCEPT !.at = "completed", !.total = Cardinality(Offered)]
  <2>1. mine \in Request /\ AsksAllowed(mine)
    BY <1>1, CourseCounts DEF Request, Steps, AsksAllowed
  <2>2. Return(h) \/ Step(h, mine)
    BY <1>4 DEF CountCourses
  <2>3. UNCHANGED <<catalog, taken, program>>
    BY <1>4 DEF CountCourses
  <2> HIDE DEF mine
  <2> QED BY <2>1, <2>2, <2>3, ReturnType, ReadType
<1>5. CASE CountCompleted(h)
  <2> DEFINE verdict == Verdict(Cardinality(Completed), r.total)
             mine == [r EXCEPT !.at = "correct", !.want = verdict, !.total = 0]
  <2>1. verdict \in {"completed", "enrolled"}
    BY DEF Verdict
  <2>2. Return(h) \/ Step(h, mine)
    BY <1>5 DEF CountCompleted
  <2>3. UNCHANGED <<catalog, taken, program>>
    BY <1>5 DEF CountCompleted
  <2> HIDE DEF verdict
  <2>4. mine \in Request /\ AsksAllowed(mine)
    BY <1>1, <2>1 DEF Request, Steps, AsksAllowed, ProgramStatus
  <2> HIDE DEF mine
  <2> QED BY <2>2, <2>3, <2>4, ReturnType, ReadType
<1>6. CASE CorrectProgram(h)
  <2> DEFINE doc == Enrolled(r.want, IF r.want = "completed" THEN program.stamped \/ ~r.copy.stamped
                                     ELSE program.stamped /\ ~r.copy.stamped)
  <2>1. r.want \in {"completed", "enrolled"}
    BY <1>6, RequestType DEF AsksAllowed, CorrectProgram
  <2>2. program.stamped \in BOOLEAN /\ r.copy.stamped \in BOOLEAN
    BY <1>1, <1>2 DEF Doc, Request
  <2>3. doc \in Doc(ProgramStatus)
    BY <2>1, <2>2 DEF Enrolled, Doc, ProgramStatus
  <2>4. CASE Fail(h)
    BY <2>4, FailType
  <2>5. CASE /\ program' = doc
             /\ handler' = After(h, Replying(r.alone), {})
             /\ UNCHANGED <<catalog, taken>>
    BY <1>1, <1>2, <2>3, <2>5, ReplyingIs, WriteType DEF TypeOK
  <2> QED BY <1>6, <2>4, <2>5 DEF CorrectProgram, Replying
<1>7. CASE Reply(h)
  BY <1>7, FailType DEF Reply, Fail
<1> QED BY <1>3, <1>4, <1>5, <1>6, <1>7

LEMMA ProgramWritesType ==
  ASSUME TypeInv, NEW h \in Handler, SaveProgramEnrollment(h) \/ SaveLearnerStatus(h)
  PROVE  TypeInv'
<1> DEFINE r == handler[h]
<1>1. r \in Request /\ AsksAllowed(r) /\ TypeOK
  BY RequestType DEF TypeInv
<1>2. ManualStatus \subseteq ProgramStatus /\ ProgramBody \subseteq ProgramStatus
  BY StatusAssumption DEF ProgramStatus, ProgramBody
<1>3. AsksAllowed(Idle)
  BY DEF AsksAllowed, Idle, Ready
<1>4. CASE Fail(h)
  BY <1>4, FailType
<1>5. ASSUME program' \in Doc(ProgramStatus), handler' = After(h, Idle, {}),
             UNCHANGED <<catalog, taken>>
      PROVE  TypeInv'
  BY <1>1, <1>3, <1>5, IdleType, WriteType DEF TypeOK
<1>6. CASE SaveProgramEnrollment(h) /\ ~Fail(h)
  <2>1. r.want \in {"none"} \cup ProgramStatus
    BY <1>1, <1>2, <1>6 DEF AsksAllowed, SaveProgramEnrollment
  <2>2. Merged(program, r) \in Doc(ProgramStatus)
    BY <1>1, <2>1, MergedType DEF TypeOK
  <2> QED BY <1>5, <1>6, <2>2 DEF SaveProgramEnrollment
<1>7. CASE SaveLearnerStatus(h) /\ ~Fail(h)
  <2>1. r.want \in ProgramStatus
    BY <1>1, <1>2, <1>7 DEF AsksAllowed, SaveLearnerStatus
  <2>2. Merged(program, r) \in Doc(ProgramStatus)
    BY <1>1, <2>1, MergedType DEF TypeOK
  <2>3. Enrolled(r.want, FALSE) \in Doc(ProgramStatus)
    BY <2>1 DEF Enrolled, Doc
  <2>4. /\ program' = IF r.copy = None THEN Enrolled(r.want, FALSE) ELSE Merged(program, r)
        /\ handler' = After(h, Idle, {})
        /\ UNCHANGED <<catalog, taken>>
    BY <1>7 DEF SaveLearnerStatus
  <2>5. program' \in Doc(ProgramStatus)
    BY <2>2, <2>3, <2>4
  <2> QED BY <1>5, <2>4, <2>5
<1> QED BY <1>4, <1>6, <1>7

LEMMA OutsideStepsType ==
  ASSUME TypeInv,
         \/ CreateProgramEnrollment \/ BatchCreateProgramEnrollment
         \/ DeleteProgramEnrollment \/ CreateCourse \/ DeleteCourse
  PROVE  TypeInv'
<1>1. TypeOK
  BY DEF TypeInv
<1>2. \A want \in {"enrolled"} \cup ProgramBody, stamped \in BOOLEAN :
        Enrolled(want, stamped) \in Doc(ProgramStatus)
  BY DEF Enrolled, Doc, ProgramStatus, ProgramBody
<1>3. None \in Doc(ProgramStatus)
  BY DEF None, Doc
<1>4. CASE CreateProgramEnrollment
  BY <1>1, <1>2, <1>4, OutsideType DEF CreateProgramEnrollment, TypeOK
<1>5. CASE BatchCreateProgramEnrollment
  BY <1>1, <1>2, <1>5, OutsideType DEF BatchCreateProgramEnrollment, TypeOK
<1>6. CASE DeleteProgramEnrollment
  BY <1>1, <1>3, <1>6, OutsideType DEF DeleteProgramEnrollment, TypeOK
<1>7. CASE CreateCourse
  <2>1. catalog' \in [Course -> {"future", "offered", "deleted"}]
    BY <1>1, <1>7 DEF CreateCourse, TypeOK
  <2> QED BY <1>1, <1>7, <2>1, OutsideType DEF CreateCourse, TypeOK
<1>8. CASE DeleteCourse
  <2>1. catalog' \in [Course -> {"future", "offered", "deleted"}]
    BY <1>1, <1>8 DEF DeleteCourse, TypeOK
  <2> QED BY <1>1, <1>8, <2>1, OutsideType DEF DeleteCourse, TypeOK
<1> QED BY <1>4, <1>5, <1>6, <1>7, <1>8

LEMMA StepType == TypeInv /\ [Next]_vars => TypeInv'
<1> SUFFICES ASSUME TypeInv, [Next]_vars PROVE TypeInv'
  OBVIOUS
<1>1. CASE UNCHANGED vars
  BY <1>1 DEF vars, TypeInv, TypeOK, AsksAllowed
<1>2. ASSUME NEW h \in Handler, CourseRequest(h) PROVE TypeInv'
  BY <1>2, BeginsType, CourseWritesType, RecountsType DEF CourseRequest
<1>3. ASSUME NEW h \in Handler, ProgramRequest(h) PROVE TypeInv'
  BY <1>3, BeginsType, ProgramWritesType DEF ProgramRequest
<1> QED BY <1>1, <1>2, <1>3, OutsideStepsType DEF Next

LEMMA InitType == Init => TypeInv
<1> SUFFICES ASSUME Init PROVE TypeInv
  OBVIOUS
<1>1. TypeOK
  BY IdleType DEF Init, TypeOK, None, Doc
<1>2. \A h \in Handler : AsksAllowed(handler[h])
  BY DEF Init, AsksAllowed, Idle, Ready
<1> QED BY <1>1, <1>2 DEF TypeInv

(* Catalog, enrollments and requests keep their types, whatever the        *)
(* endpoints are asked and however requests interleave.                    *)
THEOREM TypeCorrect == Spec => []TypeOK
<1>1. TypeInv => TypeOK
  BY DEF TypeInv
<1> QED BY <1>1, InitType, StepType, PTL DEF Spec

-------------------------------------------------------------------------------

(* The dates of completed course enrollments. *)

LEMMA ReadDate ==
  ASSUME TypeInv, DateInv, NEW h \in Handler, NEW mine \in Request, Step(h, mine),
         UNCHANGED taken, CopyDated(mine)
  PROVE  DateInv'
<1>1. handler' = [handler EXCEPT ![h] = mine] /\ handler \in [Handler -> Request]
  BY DEF Step, TypeInv, TypeOK
<1>2. CompletionDated'
  BY DEF DateInv, CompletionDated, Completed
<1>3. ASSUME NEW k \in Handler PROVE CopyDated(handler'[k])
  BY <1>1 DEF DateInv
<1>4. ASSUME NEW k \in Handler PROVE CopyDated(handler[k])'
  BY <1>3 DEF CopyDated
<1> QED BY <1>2, <1>4 DEF DateInv

(* A write keeps the dates if it clears none under a live copy. *)
LEMMA WriteDate ==
  ASSUME TypeInv, DateInv, NEW h \in Handler, NEW mine \in Request, NEW gone,
         handler' = After(h, mine, gone), mine.at # "save", CompletionDated',
         \A k \in Handler \ {h} :
           handler[k].at = "save" /\ k \notin gone /\ taken[handler[k].course].stamped
             => taken'[handler[k].course].stamped
  PROVE  DateInv'
<1>1. TypeOK
  BY DEF TypeInv
<1>2. ASSUME NEW k \in Handler PROVE CopyDated(handler[k])'
  <2>1. CASE k = h
    <3>1. handler'[h] = mine
      BY <1>1, AfterIs
    <3> QED BY <2>1, <3>1 DEF CopyDated
  <2>2. CASE k # h
    <3>1. handler'[k] = Marked(handler[k], k, gone)
      BY <1>1, <2>2, AfterIs
    <3>2. handler[k] \in Request
      BY <1>1 DEF TypeOK
    <3>3. /\ handler'[k].at = handler[k].at
          /\ handler'[k].course = handler[k].course
          /\ handler'[k].copy = handler[k].copy
      BY <3>1, <3>2, MarkedKeeps
    <3>4. handler'[k].live => handler[k].live /\ k \notin gone
      BY <3>1, <3>2, MarkedLoses
    <3>5. CopyDated(handler[k])
      BY DEF DateInv
    <3> QED BY <2>2, <3>3, <3>4, <3>5 DEF CopyDated
  <2> QED BY <2>1, <2>2
<1> QED BY <1>2 DEF DateInv

LEMMA OutsideDate ==
  ASSUME TypeInv, DateInv, NEW gone, handler' = Disturbed(gone), UNCHANGED taken
  PROVE  DateInv'
<1>1. TypeOK
  BY DEF TypeInv
<1>2. ASSUME NEW k \in Handler PROVE CopyDated(handler[k])'
  <2>1. handler'[k] = Marked(handler[k], k, gone)
    BY <1>1, DisturbedIs
  <2>2. handler[k] \in Request
    BY <1>1 DEF TypeOK
  <2>3. /\ handler'[k].at = handler[k].at
        /\ handler'[k].course = handler[k].course
        /\ handler'[k].copy = handler[k].copy
    BY <2>1, <2>2, MarkedKeeps
  <2>4. handler'[k].live => handler[k].live
    BY <2>1, <2>2, MarkedLoses
  <2>5. CopyDated(handler[k])
    BY DEF DateInv
  <2> QED BY <2>3, <2>4, <2>5 DEF CopyDated
<1>3. CompletionDated'
  BY DEF DateInv, CompletionDated, Completed
<1> QED BY <1>2, <1>3 DEF DateInv

LEMMA FailDate ==
  ASSUME TypeInv, DateInv, NEW h \in Handler, Fail(h)
  PROVE  DateInv'
<1>1. CopyDated(Idle)
  BY DEF CopyDated, Idle, Ready
<1> QED BY <1>1, IdleType, ReadDate DEF Fail

LEMMA BeginsDate ==
  ASSUME TypeInv, DateInv, NEW h \in Handler,
         \/ CreateCourseEnrollment(h) \/ UpdateCourseEnrollment(h)
         \/ DeleteCourseEnrollment(h) \/ UpdateProgramEnrollment(h) \/ SetLearnerStatus(h)
  PROVE  DateInv'
<1>1. ASSUME NEW at \in Steps, NEW c \in Course \cup {NoCourse},
             NEW want \in {"none"} \cup CourseStatus \cup ProgramStatus,
             NEW dated \in BOOLEAN, NEW copy \in Doc(CourseStatus \cup ProgramStatus),
             Begin(h, at, c, want, dated, copy), at = "save" => copy = taken[c]
      PROVE  DateInv'
  <2> DEFINE mine == Ready(at, c, want, dated, copy)
  <2>1. mine \in Request /\ CopyDated(mine)
    BY <1>1, ReadyType DEF CopyDated, Ready
  <2>2. Step(h, mine) /\ UNCHANGED taken
    BY <1>1 DEF Begin
  <2> HIDE DEF mine
  <2> QED BY <2>1, <2>2, ReadDate
<1>2. /\ None \in Doc(CourseStatus \cup ProgramStatus)
      /\ program \in Doc(CourseStatus \cup ProgramStatus)
      /\ \A c \in Course : taken[c] \in Doc(CourseStatus \cup ProgramStatus)
  BY DEF TypeInv, TypeOK, Doc, None
<1>3. ManualStatus \subseteq ProgramStatus /\ ProgramBody \subseteq ProgramStatus
  BY StatusAssumption DEF ProgramStatus, ProgramBody
<1> USE DEF Steps
<1>4. CASE CreateCourseEnrollment(h)
  BY <1>1, <1>2, <1>4 DEF CreateCourseEnrollment, Offered
<1>5. CASE UpdateCourseEnrollment(h)
  BY <1>1, <1>2, <1>5 DEF UpdateCourseEnrollment, Taken
<1>6. CASE DeleteCourseEnrollment(h)
  BY <1>1, <1>2, <1>6 DEF DeleteCourseEnrollment, Taken
<1>7. CASE UpdateProgramEnrollment(h)
  BY <1>1, <1>2, <1>3, <1>7 DEF UpdateProgramEnrollment
<1>8. CASE SetLearnerStatus(h)
  BY <1>1, <1>2, <1>3, <1>8 DEF SetLearnerStatus
<1> QED BY <1>4, <1>5, <1>6, <1>7, <1>8

LEMMA CourseWritesDate ==
  ASSUME TypeInv, DateInv, NEW h \in Handler,
         InsertEnrollment(h) \/ SaveEnrollment(h) \/ RemoveEnrollment(h)
  PROVE  DateInv'
<1> DEFINE r == handler[h]
<1>1. r \in Request /\ AsksAllowed(r) /\ TypeOK
  BY RequestType DEF TypeInv
<1>2. Recount.at = "load"
  BY DEF Recount, Idle, Ready
<1>3. CASE Fail(h)
  BY <1>3, FailDate
<1>4. taken \in [Course -> Doc(CourseStatus)]
  BY <1>1 DEF TypeOK
<1>5. \A c \in Course : taken[c].status = "completed" => taken[c].stamped
  BY DEF DateInv, CompletionDated, Completed
<1>6. ASSUME NEW k \in Handler, handler[k].at = "save" PROVE handler[k].course \in Course
  BY <1>6, RequestType DEF AsksAllowed
<1>7. CASE InsertEnrollment(h) /\ ~Fail(h)
  <2> DEFINE doc == Enrolled(r.want, r.want = "completed")
  <2>1. /\ taken[r.course] = None
        /\ taken' = [taken EXCEPT ![r.course] = doc]
        /\ handler' = After(h, Recount, {})
    BY <1>7 DEF InsertEnrollment
  <2>2. doc.status = "completed" => doc.stamped
    BY DEF Enrolled
  <2>3. ~None.stamped
    BY DEF None
  <2> HIDE DEF doc
  <2>4. \A c \in Course : taken'[c].status = "completed" => taken'[c].stamped
    BY <1>4, <1>5, <2>1, <2>2
  <2>5. \A c \in Course : taken[c].stamped => c # r.course
    BY <2>1, <2>3
  <2>6. \A c \in Course : c # r.course => taken'[c] = taken[c]
    BY <1>4, <2>1
  <2>7. CompletionDated'
    BY <2>4 DEF CompletionDated, Completed
  <2> QED BY <1>2, <1>6, <2>1, <2>5, <2>6, <2>7, RecountType, WriteDate
<1>8. CASE SaveEnrollment(h) /\ ~Fail(h)
  <2> DEFINE doc == Merged(taken[r.course], r)
  <2>1. /\ r.at = "save" /\ r.live
        /\ taken' = [taken EXCEPT ![r.course] = doc]
        /\ handler' = After(h, Recount, {})
    BY <1>8 DEF SaveEnrollment, Saves
  <2>2. r.copy.stamped => taken[r.course].stamped
    BY <2>1 DEF DateInv, CopyDated
  <2>3. taken[r.course].stamped => doc.stamped
    BY DEF Merged, Enrolled
  <2>4. ASSUME r.course \in Course, doc.status = "completed" PROVE doc.stamped
    <3>1. CASE r.want \in {"none", r.copy.status}
      BY <1>5, <2>3, <2>4, <3>1 DEF Merged, Enrolled
    <3>2. CASE r.want \notin {"none", r.copy.status}
      BY <2>2, <2>4, <3>2 DEF Merged, Enrolled
    <3> QED BY <3>1, <3>2
  <2> HIDE DEF doc
  <2>5. \A c \in Course : taken'[c].status = "completed" => taken'[c].stamped
    BY <1>4, <1>5, <2>1, <2>4
  <2>6. \A c \in Course : taken[c].stamped => taken'[c].stamped
    BY <1>4, <2>1, <2>3
  <2>7. CompletionDated'
    BY <2>5 DEF CompletionDated, Completed
  <2> QED BY <1>2, <1>6, <2>1, <2>6, <2>7, RecountType, WriteDate
<1>9. CASE RemoveEnrollment(h)
  <2>1. CASE /\ taken' = [taken EXCEPT ![r.course] = None]
             /\ handler' = After(h, Recount, HoldCourse(r.course))
    <3>1. \A c \in Course : taken'[c].status = "completed" => taken'[c].stamped
      BY <1>4, <1>5, <2>1 DEF None
    <3>2. CompletionDated'
      BY <3>1 DEF CompletionDated, Completed
    <3>3. \A c \in Course : c # r.course => taken'[c] = taken[c]
      BY <1>4, <2>1
    <3>4. ASSUME NEW k \in Handler, handler[k].at = "save", k \notin HoldCourse(r.course)
          PROVE  handler[k].course # r.course
      BY <3>4 DEF HoldCourse
    <3> QED BY <1>2, <1>6, <2>1, <3>2, <3>3, <3>4, RecountType, WriteDate
  <2>2. CASE Step(h, Recount) /\ UNCHANGED taken
    BY <1>2, <2>2, RecountType, ReadDate DEF CopyDated
  <2> QED BY <1>9, <2>1, <2>2 DEF RemoveEnrollment
<1> QED BY <1>3, <1>7, <1>8, <1>9

LEMMA ReturnDate ==
  ASSUME TypeInv, DateInv, NEW h \in Handler, Return(h), UNCHANGED <<catalog, taken, program>>
  PROVE  DateInv'
<1>1. handler[h].alone \in BOOLEAN
  BY RequestType DEF Request
<1>2. Step(h, Replying(handler[h].alone))
  BY DEF Return, Replying
<1>3. CopyDated(Replying(handler[h].alone))
  BY <1>1, ReplyingIs DEF CopyDated
<1> QED BY <1>1, <1>2, <1>3, ReplyingIs, ReadDate

LEMMA RecountsDate ==
  ASSUME TypeInv, DateInv, NEW h \in Handler,
         \/ LoadProgram(h) \/ CountCourses(h) \/ CountCompleted(h)
         \/ CorrectProgram(h) \/ Reply(h)
  PROVE  DateInv'
<1> DEFINE r == handler[h]
<1>1. r \in Request /\ r.alone \in BOOLEAN /\ TypeOK
  BY RequestType DEF Request, TypeInv
<1>2. program \in Doc(CourseStatus \cup ProgramStatus)
  BY DEF TypeInv, TypeOK, Doc
<1>3. CASE LoadProgram(h)
  <2> DEFINE mine == [r EXCEPT !.at = "total", !.copy = program]
  <2>1. mine \in Request /\ CopyDated(mine)
    BY <1>1, <1>2 DEF Request, Steps, CopyDated
  <2>2. (Return(h) \/ Step(h, mine)) /\ UNCHANGED <<catalog, taken, program>>
    BY <1>3 DEF LoadProgram
  <2> HIDE DEF mine
  <2> QED BY <2>1, <2>2, ReturnDate, ReadDate
<1>4. CASE CountCourses(h)
  <2> DEFINE mine == [r EXCEPT !.at = "completed", !.total = Cardinality(Offered)]
  <2>1. mine \in Request /\ CopyDated(mine)
    BY <1>1, CourseCounts DEF Request, Steps, CopyDated
  <2>2. (Return(h) \/ Step(h, mine)) /\ UNCHANGED <<catalog, taken, program>>
    BY <1>4 DEF CountCourses
  <2> HIDE DEF mine
  <2> QED BY <2>1, <2>2, ReturnDate, ReadDate
<1>5. CASE CountCompleted(h)
  <2> DEFINE verdict == Verdict(Cardinality(Completed), r.total)
             mine == [r EXCEPT !.at = "correct", !.want = verdict, !.total = 0]
  <2>1. verdict \in {"completed", "enrolled"}
    BY DEF Verdict
  <2>2. (Return(h) \/ Step(h, mine)) /\ UNCHANGED <<catalog, taken, program>>
    BY <1>5 DEF CountCompleted
  <2> HIDE DEF verdict
  <2>3. mine \in Request /\ CopyDated(mine)
    BY <1>1, <2>1 DEF Request, Steps, CopyDated, ProgramStatus
  <2> HIDE DEF mine
  <2> QED BY <2>2, <2>3, ReturnDate, ReadDate
<1>6. CASE CorrectProgram(h)
  <2>1. CASE Fail(h)
    BY <2>1, FailDate
  <2>2. CASE handler' = After(h, Replying(r.alone), {}) /\ UNCHANGED taken
    <3>1. CompletionDated'
      BY <2>2 DEF DateInv, CompletionDated, Completed
    <3> QED BY <1>1, <2>2, <3>1, ReplyingIs, WriteDate
  <2> QED BY <1>6, <2>1, <2>2 DEF CorrectProgram, Replying
<1>7. CASE Reply(h)
  BY <1>7, FailDate DEF Reply, Fail
<1> QED BY <1>3, <1>4, <1>5, <1>6, <1>7

LEMMA ProgramWritesDate ==
  ASSUME TypeInv, DateInv, NEW h \in Handler, SaveProgramEnrollment(h) \/ SaveLearnerStatus(h)
  PROVE  DateInv'
<1>1. CASE Fail(h)
  BY <1>1, FailDate
<1>2. CASE handler' = After(h, Idle, {}) /\ UNCHANGED taken
  <2>1. Idle.at # "save"
    BY DEF Idle, Ready
  <2>2. CompletionDated'
    BY <1>2 DEF DateInv, CompletionDated, Completed
  <2> QED BY <1>2, <2>1, <2>2, IdleType, WriteDate
<1> QED BY <1>1, <1>2 DEF SaveProgramEnrollment, SaveLearnerStatus

LEMMA StepDate == TypeInv /\ DateInv /\ [Next]_vars => DateInv'
<1> SUFFICES ASSUME TypeInv, DateInv, [Next]_vars PROVE DateInv'
  OBVIOUS
<1>1. CASE UNCHANGED vars
  BY <1>1 DEF vars, DateInv, CompletionDated, Completed, CopyDated
<1>2. ASSUME NEW h \in Handler, CourseRequest(h) PROVE DateInv'
  BY <1>2, BeginsDate, CourseWritesDate, RecountsDate DEF CourseRequest
<1>3. ASSUME NEW h \in Handler, ProgramRequest(h) PROVE DateInv'
  BY <1>3, BeginsDate, ProgramWritesDate DEF ProgramRequest
<1>4. CASE CreateProgramEnrollment
  BY <1>4, OutsideDate DEF CreateProgramEnrollment
<1>5. CASE BatchCreateProgramEnrollment
  BY <1>5, OutsideDate DEF BatchCreateProgramEnrollment
<1>6. CASE DeleteProgramEnrollment
  BY <1>6, OutsideDate DEF DeleteProgramEnrollment
<1>7. CASE CreateCourse
  BY <1>7, OutsideDate DEF CreateCourse
<1>8. CASE DeleteCourse
  BY <1>8, OutsideDate DEF DeleteCourse
<1> QED BY <1>1, <1>2, <1>3, <1>4, <1>5, <1>6, <1>7, <1>8 DEF Next

(* Every completed course enrollment has its completedAt, however the      *)
(* requests that create, change and delete enrollments interleave.         *)
THEOREM CompletionDatedCorrect == Spec => []CompletionDated
<1>1. Init => DateInv
  <2> SUFFICES ASSUME Init PROVE DateInv
    OBVIOUS
  <2>1. CompletionDated
    BY DEF Init, CompletionDated, Completed, None
  <2>2. \A h \in Handler : CopyDated(handler[h])
    BY DEF Init, CopyDated, Idle, Ready
  <2> QED BY <2>1, <2>2 DEF DateInv
<1>2. DateInv => CompletionDated
  BY DEF DateInv
<1> QED BY <1>1, <1>2, InitType, StepType, StepDate, PTL DEF Spec

-------------------------------------------------------------------------------

(* What an undisturbed request has read. *)

LEMMA StoredSame ==
  ASSUME UNCHANGED <<catalog, taken, program>>
  PROVE  /\ Offered' = Offered
         /\ Completed' = Completed
         /\ Matching' = Matching
BY DEF Offered, Completed, Matching

LEMMA ReadFresh ==
  ASSUME TypeInv, FreshInv, NEW h \in Handler, NEW mine \in Request, Step(h, mine),
         UNCHANGED <<catalog, taken, program>>, ReadsFresh(mine)
  PROVE  FreshInv'
<1>1. handler' = [handler EXCEPT ![h] = mine] /\ handler \in [Handler -> Request]
  BY DEF Step, TypeInv, TypeOK
<1>2. ASSUME NEW k \in Handler PROVE ReadsFresh(handler'[k])
  BY <1>1 DEF FreshInv
<1>3. ASSUME NEW k \in Handler PROVE ReadsFresh(handler[k])'
  BY <1>2, StoredSame DEF ReadsFresh
<1> QED BY <1>3 DEF FreshInv

(* After a write only the request that wrote has anything to show for. *)
LEMMA WriteFresh ==
  ASSUME TypeInv, NEW h \in Handler, NEW mine \in Request, NEW gone,
         handler' = After(h, mine, gone),
         mine.at \in {"idle", "load", "reply"}, mine.at = "load" => mine.live,
         mine.at = "reply" /\ mine.alone => Matching'
  PROVE  FreshInv'
<1>1. TypeOK
  BY DEF TypeInv
<1>2. ASSUME NEW k \in Handler PROVE ReadsFresh(handler[k])'
  <2>1. CASE k = h
    <3>1. handler'[h] = mine
      BY <1>1, AfterIs
    <3> QED BY <2>1, <3>1 DEF ReadsFresh
  <2>2. CASE k # h
    <3>1. handler'[k] = Marked(handler[k], k, gone)
      BY <1>1, <2>2, AfterIs
    <3>2. handler[k] \in Request
      BY <1>1 DEF TypeOK
    <3>3. ~handler'[k].alone
      BY <3>1, <3>2, MarkedLoses
    <3> QED BY <3>3 DEF ReadsFresh
  <2> QED BY <2>1, <2>2
<1> QED BY <1>2 DEF FreshInv

LEMMA OutsideFresh ==
  ASSUME TypeInv, NEW gone, handler' = Disturbed(gone)
  PROVE  FreshInv'
<1>1. TypeOK
  BY DEF TypeInv
<1>2. ASSUME NEW k \in Handler PROVE ReadsFresh(handler[k])'
  <2>1. handler'[k] = Marked(handler[k], k, gone)
    BY <1>1, DisturbedIs
  <2>2. handler[k] \in Request
    BY <1>1 DEF TypeOK
  <2>3. ~handler'[k].alone
    BY <2>1, <2>2, MarkedLoses
  <2> QED BY <2>3 DEF ReadsFresh
<1> QED BY <1>2 DEF FreshInv

LEMMA FailFresh ==
  ASSUME TypeInv, FreshInv, NEW h \in Handler, Fail(h)
  PROVE  FreshInv'
<1>1. ReadsFresh(Idle)
  BY DEF ReadsFresh, Idle, Ready
<1> QED BY <1>1, IdleType, ReadFresh DEF Fail

LEMMA BeginsFresh ==
  ASSUME TypeInv, FreshInv, NEW h \in Handler,
         \/ CreateCourseEnrollment(h) \/ UpdateCourseEnrollment(h)
         \/ DeleteCourseEnrollment(h) \/ UpdateProgramEnrollment(h) \/ SetLearnerStatus(h)
  PROVE  FreshInv'
<1>1. ASSUME NEW at \in Steps, NEW c \in Course \cup {NoCourse},
             NEW want \in {"none"} \cup CourseStatus \cup ProgramStatus,
             NEW dated \in BOOLEAN, NEW copy \in Doc(CourseStatus \cup ProgramStatus),
             Begin(h, at, c, want, dated, copy)
      PROVE  FreshInv'
  <2> DEFINE mine == Ready(at, c, want, dated, copy)
  <2>1. mine \in Request /\ ReadsFresh(mine)
    BY <1>1, ReadyType DEF ReadsFresh, Ready
  <2>2. Step(h, mine) /\ UNCHANGED <<catalog, taken, program>>
    BY <1>1 DEF Begin
  <2> HIDE DEF mine
  <2> QED BY <2>1, <2>2, ReadFresh
<1>2. /\ None \in Doc(CourseStatus \cup ProgramStatus)
      /\ program \in Doc(CourseStatus \cup ProgramStatus)
      /\ \A c \in Course : taken[c] \in Doc(CourseStatus \cup ProgramStatus)
  BY DEF TypeInv, TypeOK, Doc, None
<1>3. ManualStatus \subseteq ProgramStatus /\ ProgramBody \subseteq ProgramStatus
  BY StatusAssumption DEF ProgramStatus, ProgramBody
<1> USE DEF Steps
<1>4. CASE CreateCourseEnrollment(h)
  BY <1>1, <1>2, <1>4 DEF CreateCourseEnrollment, Offered
<1>5. CASE UpdateCourseEnrollment(h)
  BY <1>1, <1>2, <1>5 DEF UpdateCourseEnrollment, Taken
<1>6. CASE DeleteCourseEnrollment(h)
  BY <1>1, <1>2, <1>6 DEF DeleteCourseEnrollment, Taken
<1>7. CASE UpdateProgramEnrollment(h)
  BY <1>1, <1>2, <1>3, <1>7 DEF UpdateProgramEnrollment
<1>8. CASE SetLearnerStatus(h)
  BY <1>1, <1>2, <1>3, <1>8 DEF SetLearnerStatus
<1> QED BY <1>4, <1>5, <1>6, <1>7, <1>8

LEMMA CourseWritesFresh ==
  ASSUME TypeInv, FreshInv, NEW h \in Handler,
         InsertEnrollment(h) \/ SaveEnrollment(h) \/ RemoveEnrollment(h)
  PROVE  FreshInv'
<1>1. Recount.at = "load" /\ Recount.live
  BY DEF Recount, Idle, Ready
<1>2. CASE Fail(h)
  BY <1>2, FailFresh
<1>3. ASSUME NEW gone, handler' = After(h, Recount, gone) PROVE FreshInv'
  BY <1>1, <1>3, RecountType, WriteFresh
<1>4. CASE RemoveEnrollment(h) /\ Step(h, Recount) /\ UNCHANGED taken
  <2>1. ReadsFresh(Recount)
    BY <1>1 DEF ReadsFresh
  <2> QED BY <1>4, <2>1, RecountType, ReadFresh DEF RemoveEnrollment
<1> QED BY <1>2, <1>3, <1>4 DEF InsertEnrollment, SaveEnrollment, RemoveEnrollment

LEMMA ReturnFresh ==
  ASSUME TypeInv, FreshInv, NEW h \in Handler, Return(h),
         UNCHANGED <<catalog, taken, program>>,
         handler[h].alone /\ program.status \notin {"none", "withdrawn"} /\ Offered # {}
           => Matching
  PROVE  FreshInv'
<1>1. handler[h].alone \in BOOLEAN
  BY RequestType DEF Request
<1>2. Step(h, Replying(handler[h].alone))
  BY DEF Return, Replying
<1>3. ReadsFresh(Replying(handler[h].alone))
  BY <1>1, ReplyingIs DEF ReadsFresh
<1> QED BY <1>1, <1>2, <1>3, ReplyingIs, ReadFresh

(* The decision rests on what was read, and what was read still stands. *)
LEMMA RecountsFresh ==
  ASSUME TypeInv, FreshInv, NEW h \in Handler,
         \/ LoadProgram(h) \/ CountCourses(h) \/ CountCompleted(h)
         \/ CorrectProgram(h) \/ Reply(h)
  PROVE  FreshInv'
<1> DEFINE r == handler[h]
<1>1. r \in Request /\ r.alone \in BOOLEAN /\ TypeOK /\ ReadsFresh(r)
  BY RequestType DEF Request, TypeInv, FreshInv
<1>2. program \in Doc(CourseStatus \cup ProgramStatus)
  BY DEF TypeInv, TypeOK, Doc
<1>3. CASE LoadProgram(h)
  <2> DEFINE mine == [r EXCEPT !.at = "total", !.copy = program]
  <2>1. mine \in Request /\ mine.at = "total" /\ mine.copy = program
    BY <1>1, <1>2 DEF Request, Steps
  <2>2. mine.alone = r.alone /\ mine.live = r.live
    BY <1>1 DEF Request
  <2>3. r.alone => r.live
    BY <1>1, <1>3 DEF ReadsFresh, LoadProgram
  <2>4. UNCHANGED <<catalog, taken, program>>
    BY <1>3 DEF LoadProgram
  <2>5. CASE program.status \in {"none", "withdrawn"}
    BY <1>3, <2>4, <2>5, ReturnFresh DEF LoadProgram
  <2>6. CASE program.status \notin {"none", "withdrawn"}
    <3>1. Step(h, mine)
      BY <1>3, <2>6 DEF LoadProgram
    <3> HIDE DEF mine
    <3>2. ReadsFresh(mine)
      BY <2>1, <2>2, <2>3 DEF ReadsFresh
    <3> QED BY <2>1, <2>4, <3>1, <3>2, ReadFresh
  <2> QED BY <2>5, <2>6
<1>4. CASE CountCourses(h)
  <2> DEFINE mine == [r EXCEPT !.at = "completed", !.total = Cardinality(Offered)]
  <2>1. mine \in Request /\ mine.at = "completed" /\ mine.total = Cardinality(Offered)
    BY <1>1, CourseCounts DEF Request, Steps
  <2>2. mine.alone = r.alone /\ mine.live = r.live /\ mine.copy = r.copy
    BY <1>1 DEF Request
  <2>3. r.alone => r.live /\ r.copy = program
    BY <1>1, <1>4 DEF ReadsFresh, CountCourses
  <2>4. UNCHANGED <<catalog, taken, program>>
    BY <1>4 DEF CountCourses
  <2>5. CASE Offered = {}
    BY <1>4, <2>4, <2>5, ReturnFresh DEF CountCourses
  <2>6. CASE Offered # {}
    <3>1. Step(h, mine)
      BY <1>4, <2>6 DEF CountCourses
    <3> HIDE DEF mine
    <3>2. ReadsFresh(mine)
      BY <2>1, <2>2, <2>3 DEF ReadsFresh
    <3> QED BY <2>1, <2>4, <3>1, <3>2, ReadFresh
  <2> QED BY <2>5, <2>6
<1>5. CASE CountCompleted(h)
  <2> DEFINE verdict == Verdict(Cardinality(Completed), r.total)
             mine == [r EXCEPT !.at = "correct", !.want = verdict, !.total = 0]
  <2>1. /\ verdict \in {"completed", "enrolled"}
        /\ (verdict = "completed") <=> (Cardinality(Completed) >= r.total)
    BY DEF Verdict
  <2>2. r.alone => r.live /\ r.copy = program /\ r.total = Cardinality(Offered)
    BY <1>1, <1>5 DEF ReadsFresh, CountCompleted
  <2>3. UNCHANGED <<catalog, taken, program>>
    BY <1>5 DEF CountCompleted
  <2>4. IF (verdict = "completed") = (r.copy.status = "completed") THEN Return(h)
        ELSE Step(h, mine)
    BY <1>5 DEF CountCompleted
  <2> HIDE DEF verdict
  <2>5. /\ mine \in Request /\ mine.at = "correct" /\ mine.want = verdict
    BY <1>1, <2>1 DEF Request, Steps, ProgramStatus
  <2>6. mine.alone = r.alone /\ mine.live = r.live /\ mine.copy = r.copy
    BY <1>1 DEF Request
  <2> HIDE DEF mine
  <2>7. CASE (verdict = "completed") = (r.copy.status = "completed")
    <3>1. r.alone => Matching
      BY <2>1, <2>2, <2>7 DEF Matching
    <3> QED BY <2>3, <2>4, <2>7, <3>1, ReturnFresh
  <2>8. CASE ~((verdict = "completed") = (r.copy.status = "completed"))
    <3>1. ReadsFresh(mine)
      BY <2>1, <2>2, <2>5, <2>6 DEF ReadsFresh
    <3> QED BY <2>3, <2>4, <2>5, <2>8, <3>1, ReadFresh
  <2> QED BY <2>7, <2>8
<1>6. CASE CorrectProgram(h)
  <2>1. CASE Fail(h)
    BY <2>1, FailFresh
  <2>2. CASE /\ program'.status = r.want
             /\ handler' = After(h, Replying(r.alone), {})
             /\ UNCHANGED <<catalog, taken>>
    <3>1. Offered' = Offered /\ Completed' = Completed
      BY <2>2 DEF Offered, Completed
    <3>2. r.alone => ((r.want = "completed") <=> (Cardinality(Completed) >= Cardinality(Offered)))
      BY <1>1, <1>6 DEF ReadsFresh, CorrectProgram
    <3>3. r.alone => Matching'
      BY <2>2, <3>1, <3>2 DEF Matching
    <3> QED BY <1>1, <2>2, <3>3, ReplyingIs, WriteFresh
  <2>3. ASSUME NEW stamped PROVE Enrolled(r.want, stamped).status = r.want
    BY DEF Enrolled
  <2> QED BY <1>6, <2>1, <2>2, <2>3 DEF CorrectProgram, Replying
<1>7. CASE Reply(h)
  BY <1>7, FailFresh DEF Reply, Fail
<1> QED BY <1>3, <1>4, <1>5, <1>6, <1>7

LEMMA StepFresh == TypeInv /\ FreshInv /\ [Next]_vars => FreshInv'
<1> SUFFICES ASSUME TypeInv, FreshInv, [Next]_vars PROVE FreshInv'
  OBVIOUS
<1>1. CASE UNCHANGED vars
  BY <1>1, StoredSame DEF vars, FreshInv, ReadsFresh
<1>2. ASSUME NEW h \in Handler, CourseRequest(h) PROVE FreshInv'
  BY <1>2, BeginsFresh, CourseWritesFresh, RecountsFresh DEF CourseRequest
<1>3. ASSUME NEW h \in Handler, SaveProgramEnrollment(h) \/ SaveLearnerStatus(h)
      PROVE  FreshInv'
  <2>1. CASE Fail(h)
    BY <2>1, FailFresh
  <2>2. CASE handler' = After(h, Idle, {})
    <3>1. Idle.at = "idle"
      BY DEF Idle, Ready
    <3> QED BY <2>2, <3>1, IdleType, WriteFresh
  <2> QED BY <1>3, <2>1, <2>2 DEF SaveProgramEnrollment, SaveLearnerStatus
<1>4. ASSUME NEW h \in Handler, ProgramRequest(h) PROVE FreshInv'
  BY <1>3, <1>4, BeginsFresh DEF ProgramRequest
<1>5. CASE CreateProgramEnrollment
  BY <1>5, OutsideFresh DEF CreateProgramEnrollment
<1>6. CASE BatchCreateProgramEnrollment
  BY <1>6, OutsideFresh DEF BatchCreateProgramEnrollment
<1>7. CASE DeleteProgramEnrollment
  BY <1>7, OutsideFresh DEF DeleteProgramEnrollment
<1>8. CASE CreateCourse
  BY <1>8, OutsideFresh DEF CreateCourse
<1>9. CASE DeleteCourse
  BY <1>9, OutsideFresh DEF DeleteCourse
<1> QED BY <1>1, <1>2, <1>4, <1>5, <1>6, <1>7, <1>8, <1>9 DEF Next

(* With every enrollment in a course on offer, as many completed courses   *)
(* as courses means that each of them is completed.                        *)
LEMMA CountDecides ==
  ASSUME TypeOK, Taken \subseteq Offered
  PROVE  (Cardinality(Completed) >= Cardinality(Offered)) <=> Offered \subseteq Completed
<1>1. IsFiniteSet(Offered) /\ IsFiniteSet(Completed)
  BY CourseAssumption, FS_Subset DEF Offered, Completed
<1>2. Completed \subseteq Taken
  BY DEF Completed, Taken, None
<1>3. Completed \in SUBSET Offered
  BY <1>2
<1>4. Cardinality(Completed) <= Cardinality(Offered)
  BY <1>1, <1>3, FS_Subset
<1>5. Cardinality(Offered) = Cardinality(Completed) => Offered = Completed
  BY <1>1, <1>3, FS_Subset
<1>6. Offered \subseteq Completed => Offered = Completed
  BY <1>3
<1> QED BY <1>4, <1>5, <1>6, CourseCounts

(* A course enrollment request that nothing is written after leaves the    *)
(* program enrollment completed exactly when every course is completed,    *)
(* for any number of courses and of other requests.                        *)
THEOREM MirrorsCorrect == Spec => []Mirrors
<1>1. Init => FreshInv
  BY DEF Init, FreshInv, ReadsFresh, Idle, Ready
<1>2. TypeInv /\ FreshInv => Mirrors
  <2> SUFFICES ASSUME TypeInv, FreshInv, NEW h \in Handler,
                      handler[h].at = "reply", handler[h].alone,
                      Offered # {}, Taken \subseteq Offered,
                      program.status \notin {"none", "withdrawn"}
               PROVE  (program.status = "completed") <=> Offered \subseteq Completed
    BY DEF Mirrors
  <2>1. ReadsFresh(handler[h]) /\ TypeOK
    BY DEF FreshInv, TypeInv
  <2>2. Matching
    BY <2>1 DEF ReadsFresh
  <2> QED BY <2>1, <2>2, CountDecides DEF Matching
<1> QED BY <1>1, <1>2, InitType, StepType, StepFresh, PTL DEF Spec

-------------------------------------------------------------------------------
(* The repair of the course catalog. *)

CrsDocs ==
  [at : {"new", "live", "gone"}, prog : Prog \cup {CHOOSE p \in Prog : TRUE}, field : Lev \cup {NoLev},
   status : {"none", "draft", "rendered", "published"}]
Kinds == {"practice", "other", "exercise", "custom", "exam"}
Writing ==
  [op : {"field", "list", "pull", "add", "close", "delete", "rendered", "published", "show"},
   on : SUBSET Crs, to : Lev \cup {NoLev}]
Plain == {w \in Writing : w.op # "published"}
LevDocs == [there : BOOLEAN, courses : SUBSET Crs]

MenderDoc(a, c, v, l, f) == [at |-> a, crs |-> c, lev |-> v, left |-> l, found |-> f]

RepairTyped ==
  /\ crs \in [Crs -> CrsDocs] /\ lev \in [Lev -> LevDocs] /\ kind \in [Piece -> Kinds]
  /\ writes \in Seq(Writing)
  /\ mender = MenderDoc(mender.at, mender.crs, mender.lev, mender.left, mender.found)
  /\ mender.found \in {"none", "draft", "rendered", "published"}

(* What is published, or is about to be, has a rendering. *)
OfRendered ==
  /\ \A c \in Live(crs) : crs[c].status = "published" => c \in shown
  /\ \A i \in 1..Len(writes) : writes[i].op = "published" => writes[i].on \subseteq shown
  /\ mender.at = "statuses" /\ mender.found = "published" => mender.crs \in shown

Filled == \A l \in There(lev) : Naming(crs, l) \subseteq lev[l].courses
Renamed(n) == \A d \in Piece : BatchOf[d] < n => kind[d] \notin OldKind
Stated(C) == \A c \in Live(crs) : crs[c].status = "none" => c \in C

(* What a run that no request disturbed has read is stored, and what it is *)
(* through with is mended.                                                 *)
FixGoes ==
  /\ mender.at = "fix courses" => mender.lev = lev /\ mender.left = There(lev)
  /\ mender.at = "fix" =>
       /\ mender.crs = crs
       /\ \A l \in There(lev) :
            IF l \in mender.left THEN mender.lev[l].courses = lev[l].courses
            ELSE lev[l].courses = Own(crs, l)
FillGoes ==
  /\ mender.at = "fill" =>
       /\ mender.crs = crs
       /\ \A l \in There(lev) : l \in mender.left \/ Naming(crs, l) \subseteq lev[l].courses
  /\ \A n \in 1..3 : mender.at = KindsAt[n] =>
       /\ Filled /\ Renamed(n)
       /\ \A d \in Piece : BatchOf[d] = n => d \in mender.left \/ kind[d] \notin OldKind
  /\ mender.at = "statuses" => Filled /\ Renamed(4) /\ Stated(mender.left)

Achieved ==
  /\ quiet = "run" => FixGoes /\ FillGoes
  /\ quiet \in {"fixed", "filled"} => mender.at = "idle"
  /\ quiet = "fixed" => \A l \in There(lev) : lev[l].courses = Own(crs, l)
  /\ quiet = "filled" => Filled /\ Renamed(4) /\ Stated({})

RepairInv == RepairTyped /\ OfRendered /\ Achieved

-------------------------------------------------------------------------------

LEMMA KindsAre ==
  KindsAt[1] = "kinds 1" /\ KindsAt[2] = "kinds 2" /\ KindsAt[3] = "kinds 3"
<1> DEFINE k == <<"kinds 1", "kinds 2", "kinds 3">>
<1>1. k[1] = "kinds 1" /\ k[2] = "kinds 2" /\ k[3] = "kinds 3"
  OBVIOUS
<1>2. KindsAt[1] = k[1] /\ KindsAt[2] = k[2] /\ KindsAt[3] = k[3]
  <2> HIDE DEF k
  <2>1. KindsAt = [n \in 1..3 |-> k[n]]
    BY Zenon DEF KindsAt, k
  <2> QED BY <2>1
<1> QED BY <1>1, <1>2

LEMMA InitRepair == RepairInit => RepairInv
<1> SUFFICES ASSUME RepairInit PROVE RepairInv
  OBVIOUS
<1>1. crs \in [Crs -> CrsDocs]
  <2>1. NoCrs \in CrsDocs /\ NewCrs \in CrsDocs
    BY DEF NoCrs, NewCrs, CrsDoc, CrsDocs
  <2>2. \A p \in Prog, l \in Lev \cup {NoLev} : CrsDoc(p, l, "none") \in CrsDocs
    BY DEF CrsDoc, CrsDocs
  <2> QED BY <2>1, <2>2 DEF RepairInit
<1>2. \A c \in Crs : crs[c].status # "published"
  <2>1. NoCrs.status = "draft" /\ NewCrs.status = "draft"
    BY DEF NoCrs, NewCrs, CrsDoc
  <2>2. \A p \in Prog, l \in Lev \cup {NoLev} : CrsDoc(p, l, "none").status = "none"
    BY DEF CrsDoc
  <2> QED BY <2>1, <2>2 DEF RepairInit
<1>3. RepairTyped
  BY <1>1 DEF RepairInit, RepairTyped, Resting, LevDocs, OldKind, Kinds, MenderDoc
<1>4. OfRendered
  BY <1>2 DEF RepairInit, OfRendered, Resting, Live
<1>5. Achieved
  BY DEF RepairInit, Achieved
<1> QED BY <1>3, <1>4, <1>5 DEF RepairInv

(* What the requests ask to be written: courses published only by publish. *)
LEMMA PlainIs ==
  ASSUME NEW C \in SUBSET Crs, NEW l \in Lev \cup {NoLev}
  PROVE  /\ Named(C, l) \in Plain /\ Listed(l, C) \in Plain
         /\ Pulled(l, C) \in Plain /\ Added(l, C) \in Plain /\ Closed(l) \in Plain
BY DEF Named, Listed, Pulled, Added, Closed, Plain, Writing

LEMMA ToIs ==
  ASSUME NEW c \in Crs
  PROVE  /\ To("delete", c) \in Plain /\ To("rendered", c) \in Plain /\ To("show", c) \in Plain
         /\ To("published", c) \in Writing
         /\ To("published", c).op = "published" /\ To("published", c).on = {c}
BY DEF To, Plain, Writing

LEMMA AsksPlain ==
  ASSUME RepairTyped,
         \/ \E c \in Crs : UpdateCrs(c) \/ DeleteCrs(c) \/ RenderCrs(c)
         \/ \E c \in Crs, l \in Lev \cup {NoLev} : MoveCrs(c, l)
         \/ \E l \in Lev : DeleteLev(l) \/ RewriteLev(l) \/ \E C \in SUBSET Crs : UpdateLev(l, C)
  PROVE  \E todo \in Seq(Plain) : Ask(todo)
<1>0. /\ \A c \in Crs : crs[c].field \in Lev \cup {NoLev}
      /\ \A l \in Lev : lev[l].courses \in SUBSET Crs
  BY DEF RepairTyped, CrsDocs, LevDocs
<1>9. <<>> \in Seq(Plain)
  OBVIOUS
<1> DEFINE Goal == \E todo \in Seq(Plain) : Ask(todo)
<1>1. ASSUME NEW c \in Crs, UpdateCrs(c) PROVE Goal
  <2>1. Named({c}, crs[c].field) \in Plain
    BY <1>0, PlainIs
  <2>2. <<Named({c}, crs[c].field)>> \in Seq(Plain)
    BY <2>1
  <2>3. Ask(<<Named({c}, crs[c].field)>>)
    BY <1>1 DEF UpdateCrs
  <2> QED BY <2>2, <2>3, Zenon
<1>2. ASSUME NEW c \in Crs, DeleteCrs(c) PROVE Goal
  <2> DEFINE s == <<To("delete", c)>>
             t == IF crs[c].field = NoLev THEN <<>> ELSE <<Pulled(crs[c].field, {c})>>
  <2>1. To("delete", c) \in Plain /\ Pulled(crs[c].field, {c}) \in Plain
    BY <1>0, PlainIs, ToIs
  <2>2. s \in Seq(Plain) /\ t \in Seq(Plain)
    BY <1>9, <2>1
  <2>3. Ask(s \o t)
    BY <1>2 DEF DeleteCrs
  <2> HIDE DEF s, t
  <2>4. s \o t \in Seq(Plain)
    BY <2>2
  <2> QED BY <2>3, <2>4, Zenon
<1>3. ASSUME NEW c \in Crs, RenderCrs(c) PROVE Goal
  <2> DEFINE s == IF crs[c].status \in {"none", "draft"} THEN <<To("rendered", c)>> ELSE <<>>
             t == <<To("show", c)>>
  <2>1. To("rendered", c) \in Plain /\ To("show", c) \in Plain
    BY ToIs
  <2>2. s \in Seq(Plain) /\ t \in Seq(Plain)
    BY <1>9, <2>1
  <2>3. Ask(s \o t)
    BY <1>3 DEF RenderCrs
  <2> HIDE DEF s, t
  <2>4. s \o t \in Seq(Plain)
    BY <2>2
  <2> QED BY <2>3, <2>4, Zenon
<1>4. ASSUME NEW c \in Crs, NEW l \in Lev \cup {NoLev}, MoveCrs(c, l) PROVE Goal
  <2> DEFINE s == <<Named({c}, l)>>
             t == IF crs[c].field \in {NoLev, l} THEN <<>> ELSE <<Pulled(crs[c].field, {c})>>
             u == IF l = NoLev THEN <<>> ELSE <<Added(l, {c})>>
  <2>1. Named({c}, l) \in Plain /\ Pulled(crs[c].field, {c}) \in Plain /\ Added(l, {c}) \in Plain
    BY <1>0, PlainIs
  <2>2. s \in Seq(Plain) /\ t \in Seq(Plain) /\ u \in Seq(Plain)
    BY <1>9, <2>1
  <2>3. Ask(s \o t \o u)
    BY <1>4 DEF MoveCrs
  <2> HIDE DEF s, t, u
  <2>4. s \o t \o u \in Seq(Plain)
    BY <2>2
  <2> QED BY <2>3, <2>4, Zenon
<1>5. ASSUME NEW l \in Lev, DeleteLev(l) \/ RewriteLev(l) PROVE Goal
  <2> DEFINE s == <<Named(lev[l].courses, NoLev), Closed(l)>>
             t == <<Listed(l, lev[l].courses)>>
  <2>1. Named(lev[l].courses, NoLev) \in Plain /\ Closed(l) \in Plain /\ Listed(l, lev[l].courses) \in Plain
    BY <1>0, PlainIs
  <2>2. s \in Seq(Plain) /\ t \in Seq(Plain)
    BY <2>1
  <2>3. Ask(s) \/ Ask(t)
    BY <1>5 DEF DeleteLev, RewriteLev
  <2> HIDE DEF s, t
  <2> QED BY <2>2, <2>3, Zenon
<1>6. ASSUME NEW l \in Lev, NEW C \in SUBSET Crs, UpdateLev(l, C) PROVE Goal
  <2> DEFINE s == <<Listed(l, C), Named(lev[l].courses \ C, NoLev), Named(C, l)>>
  <2>1. Listed(l, C) \in Plain /\ Named(lev[l].courses \ C, NoLev) \in Plain /\ Named(C, l) \in Plain
    BY <1>0, PlainIs
  <2>2. s \in Seq(Plain)
    BY <2>1
  <2>3. Ask(s)
    BY <1>6 DEF UpdateLev
  <2> HIDE DEF s
  <2> QED BY <2>2, <2>3, Zenon
<1> QED BY <1>1, <1>2, <1>3, <1>4, <1>5, <1>6

-------------------------------------------------------------------------------
(* What the next write leaves. *)
LEMMA WriteLeaves ==
  ASSUME RepairTyped, Write
  PROVE  RepairTyped'
<1> DEFINE w == Head(writes)
<1>1. w \in Writing /\ Tail(writes) \in Seq(Writing)
  BY DEF RepairTyped, Write
<1>2. ASSUME NEW c \in Crs PROVE crs'[c] \in CrsDocs
  <2>1. crs[c] \in CrsDocs
    BY DEF RepairTyped
  <2>2. NoCrs \in CrsDocs
    BY DEF NoCrs, CrsDoc, CrsDocs
  <2>3. [crs[c] EXCEPT !.field = w.to] \in CrsDocs
    BY <1>1, <2>1 DEF CrsDocs, Writing
  <2>4. w.op \in {"rendered", "published"} => [crs[c] EXCEPT !.status = w.op] \in CrsDocs
    BY <2>1 DEF CrsDocs
  <2> QED BY <2>1, <2>2, <2>3, <2>4, Zenon DEF Write
<1>3. ASSUME NEW l \in Lev PROVE lev'[l] \in LevDocs
  <2>1. lev[l] \in LevDocs /\ w.on \in SUBSET Crs
    BY <1>1 DEF RepairTyped, Writing
  <2>2. /\ [lev[l] EXCEPT !.courses = w.on] \in LevDocs
        /\ [lev[l] EXCEPT !.courses = @ \ w.on] \in LevDocs
        /\ [lev[l] EXCEPT !.courses = @ \cup w.on] \in LevDocs
        /\ [there |-> FALSE, courses |-> {}] \in LevDocs
    BY <2>1 DEF LevDocs
  <2> QED BY <2>1, <2>2, Zenon DEF Write
<1>4. crs' \in [Crs -> CrsDocs] /\ lev' \in [Lev -> LevDocs]
  BY <1>2, <1>3 DEF Write
<1> QED BY <1>1, <1>4 DEF RepairTyped, Write

LEMMA WriteShows ==
  ASSUME RepairTyped, OfRendered, Write
  PROVE  OfRendered'
<1> DEFINE w == Head(writes)
<1>1. /\ w \in Writing /\ w = writes[1] /\ Len(writes) \in Nat \ {0}
      /\ Len(Tail(writes)) = Len(writes) - 1
      /\ \A i \in 1..Len(Tail(writes)) : Tail(writes)[i] = writes[i + 1]
  BY DEF RepairTyped, Write
<1>2. w.op = "published" => w.on \subseteq shown
  BY <1>1 DEF OfRendered
<1>3. shown \subseteq shown'
  BY DEF Write
<1>4. ASSUME NEW c \in Live(crs'), crs'[c].status = "published" PROVE c \in shown'
  <2>0. c \in Crs /\ crs[c] \in CrsDocs
    BY DEF Live, RepairTyped
  <2>1. CASE crs'[c] = crs[c]
    BY <1>3, <1>4, <2>0, <2>1 DEF Live, OfRendered
  <2>2. CASE w.op = "field" /\ crs'[c] = [crs[c] EXCEPT !.field = w.to]
    <3>1. crs'[c].status = crs[c].status /\ crs'[c].at = crs[c].at
      BY <2>0, <2>2 DEF CrsDocs
    <3> QED BY <1>3, <1>4, <2>0, <3>1 DEF Live, OfRendered
  <2>3. CASE w.op \in {"rendered", "published"} /\ c \in w.on /\ crs'[c] = [crs[c] EXCEPT !.status = w.op]
    <3>1. crs'[c].status = w.op
      BY <2>0, <2>3 DEF CrsDocs
    <3> QED BY <1>2, <1>3, <1>4, <2>3, <3>1
  <2>4. CASE crs'[c] = NoCrs
    BY <1>4, <2>4 DEF NoCrs, CrsDoc, Live
  <2> QED BY <2>0, <2>1, <2>2, <2>3, <2>4, Zenon DEF Write
<1>5. \A i \in 1..Len(writes') : writes'[i].op = "published" => writes'[i].on \subseteq shown'
  BY <1>1, <1>3 DEF OfRendered, Write
<1>6. mender.at = "statuses" /\ mender.found = "published" => mender.crs \in shown'
  BY <1>3 DEF OfRendered
<1> QED BY <1>4, <1>5, <1>6 DEF OfRendered, Write

LEMMA RequestsTyped ==
  ASSUME RepairTyped, Requests
  PROVE  RepairTyped'
<1>1. CASE Write
  BY <1>1, WriteLeaves
<1>2. CASE CutShort
  BY <1>2 DEF CutShort, RepairTyped
<1>3. ASSUME NEW todo \in Seq(Plain), Ask(todo) PROVE RepairTyped'
  BY <1>3 DEF Ask, RepairTyped, Plain
<1>4. ASSUME NEW c \in Crs, PublishCrs(c) PROVE RepairTyped'
  <2>1. <<To("published", c)>> \in Seq(Writing)
    BY ToIs
  <2> QED BY <1>4, <2>1 DEF PublishCrs, Ask, RepairTyped
<1>5. ASSUME NEW c \in Crs, TogglePackage(c) PROVE RepairTyped'
  BY <1>5 DEF TogglePackage, RepairTyped
<1>6. ASSUME NEW c \in Crs, NEW l \in Lev \cup {NoLev}, NEW p \in Prog, CreateCrs(c, p, l) PROVE RepairTyped'
  <2>1. CrsDoc(p, l, "draft") \in CrsDocs
    BY DEF CrsDoc, CrsDocs
  <2>2. <<Added(l, {c})>> \in Seq(Writing) /\ <<>> \in Seq(Writing)
    BY PlainIs DEF Plain
  <2> QED BY <1>6, <2>1, <2>2 DEF CreateCrs, RepairTyped
<1>7. ASSUME NEW c \in Crs, NEW p \in Prog, MoveToProgram(c, p) PROVE RepairTyped'
  <2>1. [crs[c] EXCEPT !.prog = p] \in CrsDocs
    BY DEF RepairTyped, CrsDocs
  <2> QED BY <1>7, <2>1 DEF MoveToProgram, RepairTyped
<1>8. ASSUME NEW d \in Piece, WriteKind(d) PROVE RepairTyped'
  BY <1>8 DEF WriteKind, RepairTyped, Kinds
<1> QED BY <1>1, <1>2, <1>3, <1>4, <1>5, <1>6, <1>7, <1>8, AsksPlain DEF Requests

LEMMA RequestsShow ==
  ASSUME RepairTyped, OfRendered, Requests
  PROVE  OfRendered'
<1>1. CASE Write
  BY <1>1, WriteShows
<1>2. CASE CutShort
  BY <1>2 DEF CutShort, OfRendered
<1>3. ASSUME NEW todo \in Seq(Plain), Ask(todo) PROVE OfRendered'
  BY <1>3 DEF Ask, OfRendered, Plain
<1>4. ASSUME NEW c \in Crs, PublishCrs(c) PROVE OfRendered'
  BY <1>4, ToIs DEF PublishCrs, Ask, OfRendered
<1>5. ASSUME NEW c \in Crs, TogglePackage(c) PROVE OfRendered'
  BY <1>5 DEF TogglePackage, OfRendered
<1>6. ASSUME NEW c \in Crs, NEW l \in Lev \cup {NoLev}, NEW p \in Prog, CreateCrs(c, p, l) PROVE OfRendered'
  <2>1. CrsDoc(p, l, "draft").status = "draft" /\ Added(l, {c}).op = "add"
    BY DEF CrsDoc, Added
  <2>2. \A x \in Live(crs') : crs'[x].status = "published" => x \in Live(crs) /\ crs[x].status = "published"
    BY <1>6, <2>1 DEF CreateCrs, RepairTyped, Live
  <2>3. /\ shown' = shown /\ mender' = mender
        /\ writes' = <<>> \/ writes' = <<Added(l, {c})>>
    BY <1>6 DEF CreateCrs
  <2>4. \A i \in 1..Len(writes') : writes'[i].op # "published"
    BY <2>1, <2>3
  <2> QED BY <2>2, <2>3, <2>4 DEF OfRendered
<1>7. ASSUME NEW c \in Crs, NEW p \in Prog, MoveToProgram(c, p) PROVE OfRendered'
  <2>2. \A x \in Live(crs') : crs'[x].status = "published" => x \in Live(crs) /\ crs[x].status = "published"
    BY <1>7 DEF MoveToProgram, RepairTyped, CrsDocs, Live
  <2> QED BY <1>7, <2>2 DEF MoveToProgram, OfRendered
<1>8. ASSUME NEW d \in Piece, WriteKind(d) PROVE OfRendered'
  BY <1>8 DEF WriteKind, OfRendered
<1> QED BY <1>1, <1>2, <1>3, <1>4, <1>5, <1>6, <1>7, <1>8, AsksPlain DEF Requests

LEMMA RequestsLeave ==
  ASSUME RepairTyped, Achieved, Requests
  PROVE  Achieved'
<1>1. CASE Write
  BY <1>1 DEF Write, Achieved
<1>2. ASSUME UNCHANGED <<crs, lev, kind, mender, quiet>> PROVE Achieved'
  BY <1>2, Zenon DEF Achieved, FixGoes, FillGoes, Filled, Renamed, Stated
<1>3. ASSUME NEW todo \in Seq(Plain), Ask(todo) PROVE Achieved'
  BY <1>2, <1>3 DEF Ask
<1>4. ASSUME NEW c \in Crs, PublishCrs(c) \/ TogglePackage(c) PROVE Achieved'
  BY <1>2, <1>4 DEF PublishCrs, Ask, TogglePackage
<1>5. CASE CutShort
  BY <1>2, <1>5 DEF CutShort
<1>6. ASSUME NEW c \in Crs, NEW l \in Lev \cup {NoLev}, NEW p \in Prog, CreateCrs(c, p, l) PROVE Achieved'
  BY <1>6 DEF CreateCrs, Achieved
<1>7. ASSUME NEW c \in Crs, NEW p \in Prog, MoveToProgram(c, p) PROVE Achieved'
  BY <1>7 DEF MoveToProgram, Achieved
<1>8. ASSUME NEW d \in Piece, WriteKind(d) PROVE Achieved'
  <2>1. \A x \in Piece : kind'[x] = kind[x] \/ kind'[x] \notin OldKind
    BY <1>8 DEF WriteKind, RepairTyped, OldKind
  <2>2. FixGoes => FixGoes'
    BY <1>8, Zenon DEF WriteKind, FixGoes
  <2>3. /\ Filled => Filled'
        /\ \A n \in 1..4 : Renamed(n) => Renamed(n)'
        /\ \A C : Stated(C) => Stated(C)'
    BY <1>8, <2>1 DEF WriteKind, Filled, Renamed, Stated
  <2>4. FillGoes => FillGoes'
    BY <1>8, <2>1, <2>3 DEF WriteKind, FillGoes
  <2> QED BY <1>8, <2>2, <2>3, <2>4 DEF WriteKind, Achieved
<1> QED BY <1>1, <1>3, <1>4, <1>5, <1>6, <1>7, <1>8, AsksPlain DEF Requests

-------------------------------------------------------------------------------
(* The scripts. *)

LEMMA SetsTyped ==
  ASSUME RepairTyped, NEW l \in Lev, NEW C \in SUBSET Crs, Sets(l, C)
  PROVE  lev' \in [Lev -> LevDocs]
BY DEF RepairTyped, Sets, LevDocs

(* The records of the scripts, spelt out. *)
LEMMA MenderDocIs ==
  ASSUME NEW m, NEW a, NEW c, NEW v, NEW l, NEW f, m = MenderDoc(a, c, v, l, f)
  PROVE  m.at = a /\ m.crs = c /\ m.lev = v /\ m.left = l /\ m.found = f
BY DEF MenderDoc

LEMMA MenderIs ==
  ASSUME RepairTyped, NEW x, NEW y
  PROVE  /\ [mender EXCEPT !.at = x, !.crs = y] = MenderDoc(x, y, mender.lev, mender.left, mender.found)
         /\ [mender EXCEPT !.left = @ \ {x}]
              = MenderDoc(mender.at, mender.crs, mender.lev, mender.left \ {x}, mender.found)
         /\ [mender EXCEPT !.found = x, !.crs = y]
              = MenderDoc(mender.at, y, mender.lev, mender.left, x)
         /\ [mender EXCEPT !.found = "none", !.crs = <<>>, !.left = @ \ {x}]
              = MenderDoc(mender.at, <<>>, mender.lev, mender.left \ {x}, "none")
<1>1. mender = MenderDoc(mender.at, mender.crs, mender.lev, mender.left, mender.found)
  BY DEF RepairTyped
<1>2. PICK m : m = mender
  OBVIOUS
<1>3. m = MenderDoc(m.at, m.crs, m.lev, m.left, m.found)
  BY <1>1, <1>2
<1>4. PICK w : w = [m EXCEPT !.at = x]
  OBVIOUS
<1>5. [w EXCEPT !.crs = y] = MenderDoc(x, y, m.lev, m.left, m.found)
  <2>1. w = MenderDoc(x, m.crs, m.lev, m.left, m.found)
    BY <1>3, <1>4 DEF MenderDoc
  <2> QED BY <2>1 DEF MenderDoc
<1>6. [m EXCEPT !.left = m.left \ {x}] = MenderDoc(m.at, m.crs, m.lev, m.left \ {x}, m.found)
  BY <1>3 DEF MenderDoc
<1>7. PICK u : u = [m EXCEPT !.found = x]
  OBVIOUS
<1>8. [u EXCEPT !.crs = y] = MenderDoc(m.at, y, m.lev, m.left, x)
  <2>1. u = MenderDoc(m.at, m.crs, m.lev, m.left, x)
    BY <1>3, <1>7 DEF MenderDoc
  <2> QED BY <2>1 DEF MenderDoc
<1>9. PICK z : z = [m EXCEPT !.found = "none", !.crs = <<>>]
  OBVIOUS
<1>10. z = MenderDoc(m.at, <<>>, m.lev, m.left, "none")
  <2>1. PICK v : v = [m EXCEPT !.found = "none"]
    OBVIOUS
  <2>2. v = MenderDoc(m.at, m.crs, m.lev, m.left, "none")
    BY <1>3, <2>1 DEF MenderDoc
  <2>3. [v EXCEPT !.crs = <<>>] = MenderDoc(m.at, <<>>, m.lev, m.left, "none")
    BY <2>2 DEF MenderDoc
  <2> QED BY <1>9, <2>1, <2>3
<1>11. z.left = m.left
  BY <1>10, MenderDocIs
<1>12. [z EXCEPT !.left = m.left \ {x}] = MenderDoc(m.at, <<>>, m.lev, m.left \ {x}, "none")
  <2>1. ASSUME NEW d PROVE [z EXCEPT !.left = d] = MenderDoc(m.at, <<>>, m.lev, d, "none")
    BY <1>10 DEF MenderDoc
  <2> QED BY <2>1
<1>13. [m EXCEPT !.at = x, !.crs = y] = [w EXCEPT !.crs = y]
  BY <1>4
<1>14. [m EXCEPT !.found = x, !.crs = y] = [u EXCEPT !.crs = y]
  BY <1>7
<1>15. [m EXCEPT !.found = "none", !.crs = <<>>, !.left = @ \ {x}] = [z EXCEPT !.left = z.left \ {x}]
  BY <1>9
<1>16. [m EXCEPT !.at = x, !.crs = y] = MenderDoc(x, y, m.lev, m.left, m.found)
  BY <1>5, <1>13
<1>17. [m EXCEPT !.left = @ \ {x}] = MenderDoc(m.at, m.crs, m.lev, m.left \ {x}, m.found)
  BY <1>6
<1>18. [m EXCEPT !.found = x, !.crs = y] = MenderDoc(m.at, y, m.lev, m.left, x)
  BY <1>8, <1>14
<1>19. [m EXCEPT !.found = "none", !.crs = <<>>, !.left = @ \ {x}] = MenderDoc(m.at, <<>>, m.lev, m.left \ {x}, "none")
  BY <1>11, <1>12, <1>15
<1> QED BY <1>2, <1>16, <1>17, <1>18, <1>19, Zenon


LEMMA RestedLev ==
  ASSUME NEW a, NEW d, NEW x
  PROVE  [Resting EXCEPT !.at = a, !.lev = x, !.left = d] = MenderDoc(a, <<>>, x, d, "none")
<1>1. PICK w : w = [Resting EXCEPT !.at = a]
  OBVIOUS
<1>2. w = MenderDoc(a, <<>>, <<>>, {}, "none")
  BY <1>1 DEF Resting, MenderDoc
<1>3. PICK u : u = [w EXCEPT !.lev = x]
  OBVIOUS
<1>4. u = MenderDoc(a, <<>>, x, {}, "none")
  BY <1>2, <1>3 DEF MenderDoc
<1>5. [u EXCEPT !.left = d] = MenderDoc(a, <<>>, x, d, "none")
  BY <1>4 DEF MenderDoc
<1> QED BY <1>1, <1>3, <1>5

LEMMA RestedCrs ==
  ASSUME NEW a, NEW d, NEW x
  PROVE  [Resting EXCEPT !.at = a, !.crs = x, !.left = d] = MenderDoc(a, x, <<>>, d, "none")
<1>1. PICK w : w = [Resting EXCEPT !.at = a]
  OBVIOUS
<1>2. w = MenderDoc(a, <<>>, <<>>, {}, "none")
  BY <1>1 DEF Resting, MenderDoc
<1>3. PICK u : u = [w EXCEPT !.crs = x]
  OBVIOUS
<1>4. u = MenderDoc(a, x, <<>>, {}, "none")
  BY <1>2, <1>3 DEF MenderDoc
<1>5. [u EXCEPT !.left = d] = MenderDoc(a, x, <<>>, d, "none")
  BY <1>4 DEF MenderDoc
<1> QED BY <1>1, <1>3, <1>5

LEMMA Rested ==
  ASSUME NEW a, NEW d
  PROVE  [Resting EXCEPT !.at = a, !.left = d] = MenderDoc(a, <<>>, <<>>, d, "none")
<1>1. PICK w : w = [Resting EXCEPT !.at = a]
  OBVIOUS
<1>2. w = MenderDoc(a, <<>>, <<>>, {}, "none")
  BY <1>1 DEF Resting, MenderDoc
<1>3. [w EXCEPT !.left = d] = MenderDoc(a, <<>>, <<>>, d, "none")
  BY <1>2 DEF MenderDoc
<1> QED BY <1>1, <1>3

(* Where each step of a script leaves it. *)
Leaves(a, c, v, l, f) ==
  /\ mender' = MenderDoc(a, c, v, l, f)
  /\ mender'.at = a /\ mender'.crs = c /\ mender'.lev = v /\ mender'.left = l /\ mender'.found = f

LEMMA LeavesIs ==
  ASSUME NEW a, NEW c, NEW v, NEW l, NEW f, mender' = MenderDoc(a, c, v, l, f)
  PROVE  Leaves(a, c, v, l, f)
BY DEF Leaves, MenderDoc

LEMMA StartFixIs ==
  ASSUME StartFix
  PROVE  Leaves("fix courses", <<>>, lev, There(lev), "none")
<1>1. mender' = [Resting EXCEPT !.at = "fix courses", !.lev = lev, !.left = There(lev)]
  BY DEF StartFix, Mends
<1>2. mender' = MenderDoc("fix courses", <<>>, lev, There(lev), "none")
  BY <1>1, RestedLev, Zenon
<1> QED BY <1>2, LeavesIs

LEMMA StartFillIs ==
  ASSUME StartFill
  PROVE  Leaves("fill", crs, <<>>, {l \in Lev : Naming(crs, l) # {}}, "none")
<1>1. mender' = [Resting EXCEPT !.at = "fill", !.crs = crs, !.left = {l \in Lev : Naming(crs, l) # {}}]
  BY DEF StartFill, Mends
<1> DEFINE L == {l \in Lev : Naming(crs, l) # {}}
<1> HIDE DEF L
<1>2. mender' = [Resting EXCEPT !.at = "fill", !.crs = crs, !.left = L]
  BY <1>1 DEF L
<1>3. mender' = MenderDoc("fill", crs, <<>>, L, "none")
  BY <1>2, RestedCrs, Zenon
<1> QED BY <1>3, LeavesIs DEF L

LEMMA ReadCoursesIs ==
  ASSUME RepairTyped, ReadCourses
  PROVE  Leaves("fix", crs, mender.lev, mender.left, mender.found)
<1>1. mender' = MenderDoc("fix", crs, mender.lev, mender.left, mender.found)
  BY MenderIs, Zenon DEF ReadCourses, Mends
<1> QED BY <1>1, LeavesIs

LEMMA LevelIs ==
  ASSUME RepairTyped, NEW l \in Lev, FixLevel(l) \/ FillLevel(l)
  PROVE  Leaves(mender.at, mender.crs, mender.lev, mender.left \ {l}, mender.found)
<1>1. mender' = MenderDoc(mender.at, mender.crs, mender.lev, mender.left \ {l}, mender.found)
  BY MenderIs, Zenon DEF FixLevel, FillLevel, Mends
<1> QED BY <1>1, LeavesIs

LEMMA EndsIs ==
  ASSUME EndFix \/ EndFill \/ MenderKilled
  PROVE  Leaves("idle", <<>>, <<>>, {}, "none")
<1>1. mender' = Resting
  BY DEF EndFix, EndFill, MenderKilled, Mends
<1>2. Resting = MenderDoc("idle", <<>>, <<>>, {}, "none")
  BY DEF Resting, MenderDoc
<1> QED BY <1>1, <1>2, LeavesIs

LEMMA FillProgramsIs ==
  ASSUME FillPrograms
  PROVE  Leaves("kinds 1", <<>>, <<>>, Batch(1), "none")
<1>1. mender' = [Resting EXCEPT !.at = "kinds 1", !.left = Batch(1)]
  BY DEF FillPrograms, Mends
<1>2. mender' = MenderDoc("kinds 1", <<>>, <<>>, Batch(1), "none")
  BY <1>1, Rested
<1> QED BY <1>2, LeavesIs

LEMMA RenameKindIs ==
  ASSUME RepairTyped, NEW n \in 1..3, NEW d \in Piece, NEW k \in OldKind, RenameKind(d, n, k)
  PROVE  Leaves(mender.at, mender.crs, mender.lev, mender.left \ {d}, mender.found)
<1>1. mender' = MenderDoc(mender.at, mender.crs, mender.lev, mender.left \ {d}, mender.found)
  BY MenderIs, Zenon DEF RenameKind, Mends
<1> QED BY <1>1, LeavesIs

Undecided == {c \in Live(crs) : crs[c].status = "none"}

LEMMA NextBatchIs ==
  ASSUME NEW n \in 1..3, NextBatch(n)
  PROVE  /\ n < 3 => Leaves(KindsAt[n + 1], <<>>, <<>>, Batch(n + 1), "none")
         /\ n = 3 => Leaves("statuses", <<>>, <<>>, Undecided, "none")
<1>1. mender' = IF n < 3 THEN [Resting EXCEPT !.at = KindsAt[n + 1], !.left = Batch(n + 1)]
                ELSE [Resting EXCEPT !.at = "statuses", !.left = Undecided]
  BY DEF NextBatch, Mends, Undecided
<1>2. n < 3 => mender' = MenderDoc(KindsAt[n + 1], <<>>, <<>>, Batch(n + 1), "none")
  BY <1>1, Rested, Zenon
<1>3. n = 3 => mender' = MenderDoc("statuses", <<>>, <<>>, Undecided, "none")
  <2>1. ASSUME n = 3 PROVE mender' = [Resting EXCEPT !.at = "statuses", !.left = Undecided]
    <3>1. ~(n < 3)
      BY <2>1
    <3> QED BY <1>1, <3>1, Zenon
  <2> QED BY <2>1, Rested, Zenon
<1> QED BY <1>2, <1>3, LeavesIs

LEMMA ResolveStatusIs ==
  ASSUME RepairTyped, NEW c \in Crs, ResolveStatus(c)
  PROVE  \E f \in {"draft", "rendered", "published"} :
           Leaves(mender.at, c, mender.lev, mender.left, f) /\ (f = "published" => c \in shown)
<1> DEFINE f == IF c \notin shown THEN "draft" ELSE IF c \in packed THEN "published" ELSE "rendered"
<1>1. f \in {"draft", "rendered", "published"} /\ (f = "published" => c \in shown)
  OBVIOUS
<1>2. mender' = [mender EXCEPT !.found = f, !.crs = c]
  BY DEF ResolveStatus, Mends
<1> HIDE DEF f
<1>3. mender' = MenderDoc(mender.at, c, mender.lev, mender.left, f)
  BY <1>2, MenderIs, Zenon
<1> QED BY <1>1, <1>3, LeavesIs

LEMMA WriteStatusIs ==
  ASSUME RepairTyped, NEW c \in Crs, WriteStatusOf(c)
  PROVE  Leaves(mender.at, <<>>, mender.lev, mender.left \ {c}, "none")
<1>1. mender' = MenderDoc(mender.at, <<>>, mender.lev, mender.left \ {c}, "none")
  BY MenderIs, Zenon DEF WriteStatusOf, Mends
<1> QED BY <1>1, LeavesIs

MenderTyped ==
  /\ mender = MenderDoc(mender.at, mender.crs, mender.lev, mender.left, mender.found)
  /\ mender.found \in {"none", "draft", "rendered", "published"}
CollectionsTyped ==
  crs \in [Crs -> CrsDocs] /\ lev \in [Lev -> LevDocs] /\ kind \in [Piece -> Kinds]

LEMMA ScriptsTyped ==
  ASSUME RepairTyped, Scripts
  PROVE  RepairTyped'
<1>0. writes' = writes /\ shown' = shown
  BY DEF Scripts, Mends, StartFix, ReadCourses, EndFix, StartFill, FillPrograms, EndFill, MenderKilled,
         FixLevel, FillLevel, NextBatch, RenameKind, ResolveStatus, WriteStatusOf
<1>1. CollectionsTyped'
  <2>0. crs \in [Crs -> CrsDocs] /\ lev \in [Lev -> LevDocs] /\ kind \in [Piece -> Kinds]
    BY DEF RepairTyped
  <2>1. ASSUME crs' = crs, lev' = lev, kind' = kind PROVE CollectionsTyped'
    BY <2>0, <2>1 DEF CollectionsTyped
  <2>2. CASE StartFix \/ ReadCourses \/ EndFix \/ StartFill \/ FillPrograms \/ EndFill \/ MenderKilled
    BY <2>1, <2>2, Zenon DEF StartFix, ReadCourses, EndFix, StartFill, FillPrograms, EndFill, MenderKilled,
         Mends, Keeps
  <2>3. ASSUME NEW l \in Lev, FixLevel(l) PROVE CollectionsTyped'
    <3>1. Own(mender.crs, l) \in SUBSET Crs
      BY DEF Own, Naming, Live
    <3> QED BY <2>0, <2>3, <3>1, SetsTyped DEF FixLevel, Mends, CollectionsTyped
  <2>4. ASSUME NEW l \in Lev, FillLevel(l) PROVE CollectionsTyped'
    <3>1. Naming(mender.crs, l) \in SUBSET Crs
      BY DEF Naming, Live
    <3> QED BY <2>0, <2>4, <3>1, SetsTyped DEF FillLevel, Mends, CollectionsTyped
  <2>5. ASSUME NEW n \in 1..3, NextBatch(n) PROVE CollectionsTyped'
    BY <2>1, <2>5 DEF NextBatch, Mends, Keeps
  <2>6. ASSUME NEW n \in 1..3, NEW d \in Piece, NEW k \in OldKind, RenameKind(d, n, k) PROVE CollectionsTyped'
    BY <2>0, <2>6 DEF RenameKind, Mends, Normalized, Kinds, CollectionsTyped
  <2>7. ASSUME NEW c \in Crs, ResolveStatus(c) PROVE CollectionsTyped'
    BY <2>1, <2>7 DEF ResolveStatus, Mends, Keeps
  <2>8. ASSUME NEW c \in Crs, WriteStatusOf(c) PROVE CollectionsTyped'
    <3>1. [crs[c] EXCEPT !.status = mender.found] \in CrsDocs
      BY DEF RepairTyped, CrsDocs
    <3> QED BY <2>0, <2>8, <3>1 DEF WriteStatusOf, Mends, CollectionsTyped
  <2> QED BY <2>2, <2>3, <2>4, <2>5, <2>6, <2>7, <2>8, Zenon DEF Scripts
<1>2. MenderTyped'
  <2>0. mender.found \in {"none", "draft", "rendered", "published"}
    BY DEF RepairTyped
  <2> DEFINE Found == \E a, c, v, l : \E f \in {"none", "draft", "rendered", "published"} :
                        Leaves(a, c, v, l, f)
  <2>1. CASE StartFix \/ StartFill \/ EndFix \/ EndFill \/ FillPrograms \/ MenderKilled
    <3>1. Found
      BY <2>1, StartFixIs, StartFillIs, EndsIs, FillProgramsIs
    <3> QED BY <3>1 DEF Leaves, MenderTyped
  <2>2. CASE ReadCourses
    BY <2>0, <2>2, ReadCoursesIs DEF Leaves, MenderTyped
  <2>3. ASSUME NEW l \in Lev, FixLevel(l) \/ FillLevel(l) PROVE MenderTyped'
    BY <2>0, <2>3, LevelIs DEF Leaves, MenderTyped
  <2>4. ASSUME NEW n \in 1..3, NextBatch(n) PROVE MenderTyped'
    BY <2>4, NextBatchIs DEF Leaves, MenderTyped
  <2>5. ASSUME NEW n \in 1..3, NEW d \in Piece, NEW k \in OldKind, RenameKind(d, n, k) PROVE MenderTyped'
    BY <2>0, <2>5, RenameKindIs DEF Leaves, MenderTyped
  <2>6. ASSUME NEW c \in Crs, ResolveStatus(c) PROVE MenderTyped'
    BY <2>6, ResolveStatusIs DEF Leaves, MenderTyped
  <2>7. ASSUME NEW c \in Crs, WriteStatusOf(c) PROVE MenderTyped'
    BY <2>7, WriteStatusIs DEF Leaves, MenderTyped
  <2> QED BY <2>1, <2>2, <2>3, <2>4, <2>5, <2>6, <2>7, Zenon DEF Scripts
<1> QED BY <1>0, <1>1, <1>2 DEF RepairTyped, MenderTyped, CollectionsTyped

LEMMA ScriptsShow ==
  ASSUME RepairTyped, OfRendered, Scripts
  PROVE  OfRendered'
<1>0. writes' = writes /\ shown' = shown
  BY DEF Scripts, Mends, StartFix, ReadCourses, EndFix, StartFill, FillPrograms, EndFill, MenderKilled,
         FixLevel, FillLevel, NextBatch, RenameKind, ResolveStatus, WriteStatusOf
<1>1. ASSUME crs' = crs, mender'.at = "statuses" /\ mender'.found = "published" => mender'.crs \in shown
      PROVE  OfRendered'
  BY <1>0, <1>1 DEF OfRendered
<1>2. ASSUME mender'.at = mender.at, mender'.crs = mender.crs, mender'.found = mender.found, crs' = crs
      PROVE  OfRendered'
  BY <1>1, <1>2 DEF OfRendered
<1>a. CASE StartFix \/ StartFill \/ EndFix \/ EndFill \/ FillPrograms \/ MenderKilled
  <2>1. mender'.found = "none"
    BY <1>a, StartFixIs, StartFillIs, EndsIs, FillProgramsIs DEF Leaves
  <2>2. crs' = crs
    BY <1>a, Zenon DEF StartFix, StartFill, EndFix, EndFill, FillPrograms, MenderKilled, Mends, Keeps
  <2> QED BY <1>1, <2>1, <2>2
<1>b. CASE ReadCourses
  <2>1. mender'.at = "fix"
    BY <1>b, ReadCoursesIs DEF Leaves
  <2>2. crs' = crs
    BY <1>b DEF ReadCourses, Mends, Keeps
  <2> QED BY <1>1, <2>1, <2>2
<1>c. ASSUME NEW l \in Lev, FixLevel(l) \/ FillLevel(l) PROVE OfRendered'
  <2>1. mender'.at = mender.at /\ mender'.crs = mender.crs /\ mender'.found = mender.found
    BY <1>c, LevelIs DEF Leaves
  <2>2. crs' = crs
    BY <1>c DEF FixLevel, FillLevel, Mends
  <2> QED BY <1>2, <2>1, <2>2
<1>d. ASSUME NEW n \in 1..3, NextBatch(n) PROVE OfRendered'
  <2>1. mender'.found = "none"
    BY <1>d, NextBatchIs DEF Leaves
  <2>2. crs' = crs
    BY <1>d DEF NextBatch, Mends, Keeps
  <2> QED BY <1>1, <2>1, <2>2
<1>e. ASSUME NEW n \in 1..3, NEW d \in Piece, NEW k \in OldKind, RenameKind(d, n, k) PROVE OfRendered'
  <2>1. mender'.at = mender.at /\ mender'.crs = mender.crs /\ mender'.found = mender.found
    BY <1>e, RenameKindIs DEF Leaves
  <2>2. crs' = crs
    BY <1>e DEF RenameKind, Mends
  <2> QED BY <1>2, <2>1, <2>2
<1>f. ASSUME NEW c \in Crs, ResolveStatus(c) PROVE OfRendered'
  <2>1. mender'.crs = c /\ (mender'.found = "published" => c \in shown)
    BY <1>f, ResolveStatusIs DEF Leaves
  <2>2. crs' = crs
    BY <1>f DEF ResolveStatus, Mends, Keeps
  <2> QED BY <1>1, <2>1, <2>2
<1>g. ASSUME NEW c \in Crs, WriteStatusOf(c) PROVE OfRendered'
  <2>1. mender'.found = "none"
    BY <1>g, WriteStatusIs DEF Leaves
  <2>2. \A x \in Live(crs') : crs'[x].status = "published" => x \in shown
    <3>1. /\ mender.found = "published" => c \in shown
          /\ crs' = IF c \in Live(crs) THEN [crs EXCEPT ![c].status = mender.found] ELSE crs
      BY <1>g DEF WriteStatusOf, Mends, OfRendered
    <3>2. /\ crs \in [Crs -> CrsDocs] /\ \A x \in Live(crs) : crs[x].status = "published" => x \in shown
      BY DEF RepairTyped, OfRendered
    <3> QED BY <3>1, <3>2 DEF CrsDocs, Live
  <2> QED BY <1>0, <2>1, <2>2 DEF OfRendered
<1> QED BY <1>a, <1>b, <1>c, <1>d, <1>e, <1>f, <1>g, Zenon DEF Scripts

(* What a script has achieved, step by step. *)
KindSteps == {"kinds 1", "kinds 2", "kinds 3"}

LEMMA KindsIn ==
  ASSUME NEW n \in 1..3
  PROVE  /\ KindsAt[n] \in KindSteps
         /\ \A i \in 1..3 : KindsAt[n] = KindsAt[i] => i = n
<1> DEFINE K(i) == KindsAt[i]
<1>1. K(1) = "kinds 1" /\ K(2) = "kinds 2" /\ K(3) = "kinds 3"
  BY KindsAre
<1> HIDE DEF K
<1>2. \A i \in 1..3 : i = 1 \/ i = 2 \/ i = 3
  OBVIOUS
<1>3. K(n) \in KindSteps /\ \A i \in 1..3 : K(n) = K(i) => i = n
  BY <1>1, <1>2 DEF KindSteps
<1> QED BY <1>3 DEF K

LEMMA GoesOn ==
  ASSUME Achieved, mender.at # "idle", quiet' = quiet, quiet = "run" => FixGoes' /\ FillGoes'
  PROVE  Achieved'
BY DEF Achieved

LEMMA FixAchieves ==
  ASSUME RepairTyped, Achieved, StartFix \/ ReadCourses \/ EndFix \/ \E l \in Lev : FixLevel(l)
  PROVE  Achieved'
<1>0. \A n \in 1..3 : KindsAt[n] \in KindSteps
  BY KindsIn
<1>9. ASSUME mender'.at \in {"fix courses", "fix"} PROVE FillGoes'
  BY <1>0, <1>9 DEF FillGoes, KindSteps
<1>1. CASE StartFix
  <2>1. /\ mender'.at = "fix courses" /\ mender'.lev = lev /\ mender'.left = There(lev)
        /\ lev' = lev /\ quiet' = "run"
    BY <1>1, StartFixIs DEF Leaves, StartFix, Mends
  <2>2. FixGoes'
    BY <2>1 DEF FixGoes
  <2> QED BY <1>9, <2>1, <2>2 DEF Achieved
<1>2. CASE ReadCourses
  <2>1. /\ mender'.at = "fix" /\ mender'.crs = crs /\ mender'.lev = mender.lev /\ mender'.left = mender.left
        /\ mender.at = "fix courses" /\ lev' = lev /\ crs' = crs /\ quiet' = quiet
    BY <1>2, ReadCoursesIs DEF Leaves, ReadCourses, Mends, Keeps
  <2>2. ASSUME quiet = "run" PROVE FixGoes'
    <3>1. mender.lev = lev /\ mender.left = There(lev)
      BY <2>1, <2>2 DEF Achieved, FixGoes
    <3> QED BY <2>1, <3>1 DEF FixGoes
  <2> QED BY <1>9, <2>1, <2>2, GoesOn
<1>3. ASSUME NEW l \in Lev, FixLevel(l) PROVE Achieved'
  <2>1. /\ mender'.at = mender.at /\ mender'.crs = mender.crs /\ mender'.lev = mender.lev
        /\ mender'.left = mender.left \ {l}
        /\ mender.at = "fix" /\ l \in mender.left /\ crs' = crs /\ quiet' = quiet
        /\ \/ Sets(l, Own(mender.crs, l))
           \/ Own(mender.crs, l) = mender.lev[l].courses /\ lev' = lev
    BY <1>3, LevelIs DEF Leaves, FixLevel, Mends
  <2>2. ASSUME quiet = "run" PROVE FixGoes'
    <3>1. /\ mender.crs = crs
          /\ \A k \in There(lev) :
               IF k \in mender.left THEN mender.lev[k].courses = lev[k].courses
               ELSE lev[k].courses = Own(crs, k)
      BY <2>1, <2>2 DEF Achieved, FixGoes
    <3>2. /\ There(lev') = There(lev) /\ \A k \in Lev \ {l} : lev'[k] = lev[k]
          /\ l \in There(lev) => lev'[l].courses = Own(crs, l)
      <4>1. CASE lev' = lev /\ Own(crs, l) = mender.lev[l].courses
        BY <2>1, <3>1, <4>1
      <4>2. CASE Sets(l, Own(crs, l))
        BY <4>2 DEF Sets, There, RepairTyped, LevDocs
      <4> QED BY <2>1, <3>1, <4>1, <4>2
    <3>3. \A k \in There(lev') :
               IF k \in mender'.left THEN mender'.lev[k].courses = lev'[k].courses
               ELSE lev'[k].courses = Own(crs, k)
      BY <2>1, <3>1, <3>2 DEF There
    <3> QED BY <2>1, <3>1, <3>3, Zenon DEF FixGoes
  <2> QED BY <1>9, <2>1, <2>2, GoesOn
<1>4. CASE EndFix
  <2>1. /\ mender'.at = "idle" /\ mender.at = "fix" /\ mender.left = {} /\ crs' = crs /\ lev' = lev
        /\ quiet' = IF quiet = "run" THEN "fixed" ELSE quiet
    BY <1>4, EndsIs DEF Leaves, EndFix, Mends
  <2>2. quiet = "run" => \A l \in There(lev) : lev[l].courses = Own(crs, l)
    BY <2>1 DEF Achieved, FixGoes
  <2> QED BY <2>1, <2>2 DEF Achieved
<1> QED BY <1>1, <1>2, <1>3, <1>4

LEMMA FillAchieves ==
  ASSUME RepairTyped, Achieved,
         StartFill \/ FillPrograms \/ \E l \in Lev : FillLevel(l)
  PROVE  Achieved'
<1>0. \A n \in 1..3 : KindsAt[n] \in KindSteps
  BY KindsIn
<1>9. ASSUME mender'.at \in {"fill"} \cup KindSteps PROVE FixGoes'
  BY <1>9 DEF FixGoes, KindSteps
<1>8. ASSUME mender'.at = "fill", mender'.crs = crs',
             \A l \in There(lev') : l \in mender'.left \/ Naming(crs', l) \subseteq lev'[l].courses
      PROVE  FixGoes' /\ FillGoes'
  <2>1. FillGoes'
    BY <1>0, <1>8 DEF FillGoes, KindSteps
  <2> QED BY <1>8, <1>9, <2>1
<1>1. CASE StartFill
  <2>1. /\ mender'.at = "fill" /\ mender'.crs = crs /\ mender'.left = {l \in Lev : Naming(crs, l) # {}}
        /\ crs' = crs /\ lev' = lev /\ quiet' = "run"
    BY <1>1, StartFillIs DEF Leaves, StartFill, Mends
  <2> QED BY <1>8, <2>1 DEF Achieved, There
<1>2. ASSUME NEW l \in Lev, FillLevel(l) PROVE Achieved'
  <2>1. /\ mender'.at = mender.at /\ mender'.crs = mender.crs /\ mender'.left = mender.left \ {l}
        /\ mender.at = "fill" /\ crs' = crs /\ quiet' = quiet /\ Sets(l, Naming(mender.crs, l))
    BY <1>2, LevelIs DEF Leaves, FillLevel, Mends
  <2>2. ASSUME quiet = "run" PROVE FixGoes' /\ FillGoes'
    <3>1. /\ mender.crs = crs
          /\ \A k \in There(lev) : k \in mender.left \/ Naming(crs, k) \subseteq lev[k].courses
      BY <2>1, <2>2 DEF Achieved, FillGoes
    <3>2. /\ There(lev') = There(lev) /\ \A k \in Lev \ {l} : lev'[k] = lev[k]
          /\ l \in There(lev) => lev'[l].courses = Naming(crs, l)
      BY <2>1, <3>1 DEF Sets, There, RepairTyped, LevDocs
    <3>3. \A k \in There(lev') : k \in mender'.left \/ Naming(crs, k) \subseteq lev'[k].courses
      BY <2>1, <3>1, <3>2 DEF There
    <3> QED BY <1>8, <2>1, <3>1, <3>3
  <2> QED BY <2>1, <2>2, GoesOn
<1>3. CASE FillPrograms
  <2>1. /\ mender'.at = "kinds 1" /\ mender'.left = Batch(1)
        /\ mender.at = "fill" /\ mender.left = {} /\ crs' = crs /\ lev' = lev /\ kind' = kind /\ quiet' = quiet
    BY <1>3, FillProgramsIs DEF Leaves, FillPrograms, Mends, Keeps
  <2>2. ASSUME quiet = "run" PROVE FillGoes'
    <3>1. Filled'
      BY <2>1, <2>2 DEF Achieved, FillGoes, Filled
    <3>2. Renamed(1)'
      BY RepairAssumption DEF Renamed
    <3>3. \A d \in Piece : BatchOf[d] = 1 => d \in mender'.left \/ kind'[d] \notin OldKind
      BY <2>1 DEF Batch
    <3>4. \A i \in 1..3 : mender'.at = KindsAt[i] => i = 1
      <4>1. mender'.at = KindsAt[1]
        BY <2>1, KindsAre, Zenon
      <4>2. 1 \in 1..3
        OBVIOUS
      <4> QED BY <4>1, <4>2, KindsIn, Zenon
    <3> QED BY <2>1, <3>1, <3>2, <3>3, <3>4 DEF FillGoes
  <2> QED BY <1>9, <2>1, <2>2, GoesOn DEF KindSteps
<1> QED BY <1>1, <1>2, <1>3

LEMMA KindsAchieve ==
  ASSUME RepairTyped, Achieved, NEW n \in 1..3,
         NextBatch(n) \/ \E d \in Piece, k \in OldKind : RenameKind(d, n, k)
  PROVE  Achieved'
<1>0. \A i \in 1..3 : KindsAt[i] \in KindSteps /\ \A j \in 1..3 : KindsAt[i] = KindsAt[j] => i = j
  BY KindsIn
<1>9. ASSUME mender'.at \in {"statuses"} \cup KindSteps PROVE FixGoes'
  BY <1>9 DEF FixGoes, KindSteps
<1>1. mender.at = KindsAt[n] /\ mender.at # "idle"
  BY <1>0 DEF NextBatch, RenameKind, KindSteps
<1>2. ASSUME quiet = "run"
      PROVE  /\ Filled /\ Renamed(n)
             /\ \A d \in Piece : BatchOf[d] = n => d \in mender.left \/ kind[d] \notin OldKind
  BY <1>1, <1>2 DEF Achieved, FillGoes
<1>3. ASSUME NEW d \in Piece, NEW k \in OldKind, RenameKind(d, n, k) PROVE Achieved'
  <2>1. /\ mender'.at = mender.at /\ mender'.left = mender.left \ {d}
        /\ crs' = crs /\ lev' = lev /\ quiet' = quiet
        /\ kind' = [kind EXCEPT ![d] = Normalized(k)]
    BY <1>3, RenameKindIs DEF Leaves, RenameKind, Mends
  <2>2. \A x \in Piece : kind'[x] = kind[x] \/ kind'[x] \notin OldKind
    BY <2>1 DEF Normalized, OldKind, RepairTyped
  <2>3. kind'[d] \notin OldKind
    BY <2>1 DEF Normalized, OldKind, RepairTyped
  <2>4. ASSUME quiet = "run" PROVE FillGoes'
    <3>1. Filled' /\ Renamed(n)'
      BY <1>2, <2>1, <2>2, <2>4 DEF Filled, Renamed
    <3>2. \A x \in Piece : BatchOf[x] = n => x \in mender'.left \/ kind'[x] \notin OldKind
      BY <1>2, <2>1, <2>2, <2>3, <2>4
    <3>3. mender'.at # "fill" /\ mender'.at # "statuses"
      BY <1>0, <1>1, <2>1 DEF KindSteps
    <3> QED BY <1>0, <1>1, <2>1, <3>1, <3>2, <3>3 DEF FillGoes
  <2> QED BY <1>0, <1>1, <1>9, <2>1, <2>4, GoesOn
<1>4. ASSUME NextBatch(n) PROVE Achieved'
  <2>1. /\ mender.left = {} /\ crs' = crs /\ lev' = lev /\ kind' = kind /\ quiet' = quiet
        /\ n < 3 => mender'.at = KindsAt[n + 1] /\ mender'.left = Batch(n + 1)
        /\ n = 3 => mender'.at = "statuses" /\ mender'.left = Undecided
    BY <1>4, NextBatchIs DEF Leaves, NextBatch, Mends, Keeps
  <2>2. ASSUME quiet = "run" PROVE Filled' /\ Renamed(n + 1)'
    BY <1>2, <2>1, <2>2, RepairAssumption DEF Filled, Renamed
  <2>3. ASSUME n < 3 PROVE Achieved'
    <3>1. n + 1 \in 1..3
      BY <2>3
    <3>2. mender'.at = KindsAt[n + 1] /\ mender'.left = Batch(n + 1)
      BY <2>1, <2>3
    <3>3. \A d \in Piece : BatchOf[d] = n + 1 => d \in mender'.left \/ kind'[d] \notin OldKind
      BY <2>1, <3>2 DEF Batch
    <3>4. mender'.at # "fill" /\ mender'.at # "statuses" /\ mender'.at \in KindSteps
      BY <1>0, <3>1, <3>2 DEF KindSteps
    <3>5. \A i \in 1..3 : mender'.at = KindsAt[i] => i = n + 1
      BY <1>0, <3>1, <3>2
    <3>6. ASSUME quiet = "run" PROVE FillGoes'
      BY <2>2, <3>3, <3>4, <3>5, <3>6 DEF FillGoes
    <3> QED BY <1>1, <1>9, <2>1, <3>4, <3>6, GoesOn
  <2>4. ASSUME n = 3 PROVE Achieved'
    <3>1. mender'.at = "statuses" /\ mender'.left = Undecided
      BY <2>1, <2>4
    <3>2. Stated(mender.left)'
      BY <2>1, <3>1 DEF Stated, Undecided
    <3>3. \A i \in 1..3 : mender'.at # KindsAt[i]
      BY <1>0, <3>1 DEF KindSteps
    <3>4. ASSUME quiet = "run" PROVE FillGoes'
      <4>1. Filled' /\ Renamed(4)'
        BY <2>2, <2>4, <3>4
      <4> QED BY <3>1, <3>2, <3>3, <4>1 DEF FillGoes
    <3> QED BY <1>1, <1>9, <2>1, <3>1, <3>4, GoesOn
  <2> QED BY <2>3, <2>4
<1> QED BY <1>3, <1>4

LEMMA StatusesAchieve ==
  ASSUME RepairTyped, Achieved,
         EndFill \/ MenderKilled \/ \E c \in Crs : ResolveStatus(c) \/ WriteStatusOf(c)
  PROVE  Achieved'
<1>0. \A i \in 1..3 : KindsAt[i] # "statuses"
  BY KindsIn DEF KindSteps
<1>1. ASSUME quiet = "run", mender.at = "statuses" PROVE Filled /\ Renamed(4) /\ Stated(mender.left)
  BY <1>1 DEF Achieved, FillGoes
<1>2. ASSUME mender'.at = "statuses", Filled' /\ Renamed(4)' /\ Stated(mender.left)'
      PROVE  FixGoes' /\ FillGoes'
  BY <1>0, <1>2 DEF FixGoes, FillGoes
<1>3. CASE MenderKilled
  BY <1>3 DEF MenderKilled, Mends, Achieved
<1>4. CASE EndFill
  <2>1. /\ mender'.at = "idle" /\ mender.at = "statuses" /\ mender.left = {}
        /\ crs' = crs /\ lev' = lev /\ kind' = kind
        /\ quiet' = IF quiet = "run" THEN "filled" ELSE quiet
    BY <1>4, EndsIs DEF Leaves, EndFill, Mends
  <2>2. quiet = "run" => Filled' /\ Renamed(4)' /\ Stated({})'
    BY <1>1, <2>1 DEF Filled, Renamed, Stated
  <2> QED BY <2>1, <2>2 DEF Achieved
<1>5. ASSUME NEW c \in Crs, ResolveStatus(c) PROVE Achieved'
  <2>1. /\ mender'.at = mender.at /\ mender.at = "statuses" /\ mender'.left = mender.left
        /\ crs' = crs /\ lev' = lev /\ kind' = kind /\ quiet' = quiet
    BY <1>5, ResolveStatusIs DEF Leaves, ResolveStatus, Mends, Keeps
  <2>2. quiet = "run" => Filled' /\ Renamed(4)' /\ Stated(mender.left)'
    BY <1>1, <2>1 DEF Filled, Renamed, Stated
  <2> QED BY <1>2, <2>1, <2>2, GoesOn
<1>6. ASSUME NEW c \in Crs, WriteStatusOf(c) PROVE Achieved'
  <2>1. /\ mender'.at = mender.at /\ mender.at = "statuses" /\ mender'.left = mender.left \ {c}
        /\ mender.found # "none" /\ lev' = lev /\ kind' = kind /\ quiet' = quiet
        /\ crs' = IF c \in Live(crs) THEN [crs EXCEPT ![c].status = mender.found] ELSE crs
    BY <1>6, WriteStatusIs DEF Leaves, WriteStatusOf, Mends
  <2>2. /\ Live(crs') = Live(crs)
        /\ \A x \in Crs : crs'[x].field = crs[x].field /\ (x # c => crs'[x] = crs[x])
        /\ c \in Live(crs) => crs'[c].status # "none"
    BY <2>1 DEF Live, RepairTyped, CrsDocs
  <2>3. quiet = "run" => Filled' /\ Renamed(4)'
    <3>1. \A l : Naming(crs', l) = Naming(crs, l)
      BY <2>2 DEF Naming, Live
    <3> QED BY <1>1, <2>1, <3>1 DEF Filled, Renamed
  <2>4. quiet = "run" => Stated(mender.left)'
    BY <1>1, <2>1, <2>2 DEF Stated, Live
  <2> QED BY <1>2, <2>1, <2>3, <2>4, GoesOn
<1> QED BY <1>3, <1>4, <1>5, <1>6

LEMMA RepairStep == RepairInv /\ [RepairNext]_repair => RepairInv'
<1> SUFFICES ASSUME RepairInv, [RepairNext]_repair PROVE RepairInv'
  OBVIOUS
<1> USE DEF RepairInv
<1>1. CASE Requests
  BY <1>1, RequestsTyped, RequestsShow, RequestsLeave
<1>2. CASE Scripts
  <2>1. Achieved'
    BY <1>2, FixAchieves, FillAchieves, KindsAchieve, StatusesAchieve, Zenon DEF Scripts
  <2> QED BY <1>2, <2>1, ScriptsTyped, ScriptsShow
<1>3. CASE UNCHANGED repair
  BY <1>3 DEF repair, RepairTyped, OfRendered, Achieved, FixGoes, FillGoes, Filled, Renamed, Stated
<1> QED BY <1>1, <1>2, <1>3 DEF RepairNext

LEMMA InvConverges == RepairInv => RepairConverges
<1> SUFFICES ASSUME RepairInv PROVE RepairConverges
  OBVIOUS
<1>1. ASSUME quiet = "fixed"
      PROVE  /\ DeadRefs = {} /\ ForeignRefs = {}
             /\ \A r \in UnlistedRefs : crs[r[1]].prog # ProgOf[r[2]]
  <2>1. \A l \in There(lev) : lev[l].courses = Own(crs, l)
    BY <1>1 DEF RepairInv, Achieved
  <2> QED BY <2>1 DEF DeadRefs, ForeignRefs, UnlistedRefs, Own, Naming
<1>2. ASSUME quiet = "filled"
      PROVE  /\ UnlistedRefs = {}
             /\ \A d \in Piece : kind[d] \notin OldKind
             /\ \A c \in Live(crs) : crs[c].status # "none"
  <2>1. Filled /\ Renamed(4) /\ Stated({})
    BY <1>2 DEF RepairInv, Achieved
  <2>2. UnlistedRefs = {}
    BY <2>1 DEF UnlistedRefs, Filled
  <2> QED BY <2>1, <2>2, RepairAssumption DEF Renamed, Stated
<1> QED BY <1>1, <1>2 DEF RepairInv, OfRendered, RepairConverges

(* Whatever requests and killed runs have left of the two sides, a run of  *)
(* either script that no request disturbs mends all that it can: the       *)
(* report then finds nothing of its own kind to mend, the backfill leaves  *)
(* no course unlisted and nothing of old; and a course is published for a  *)
(* rendering only.                                                         *)
THEOREM RepairConvergesCorrect == RepairSpec => []RepairConverges
<1>1. RepairSpec => []RepairInv
  BY InitRepair, RepairStep, PTL DEF RepairSpec
<1> QED BY <1>1, InvConverges, PTL

===============================================================================
