------------------------------ MODULE ContentLists ------------------------------
(***************************************************************************)
(* The lists of content by department: listDepartmentContent of            *)
(* departmentResourcesCtrl.ts (packages and exams) and listContent of      *)
(* contentCtrl.ts (packages and custom content), beside the requests that  *)
(* move content, and those that file exams and custom content.             *)
(*                                                                         *)
(* An exam lies in the department of its course, a course in that of its   *)
(* program.  A list reads programs, courses, departments and exams one     *)
(* after the other, so anything may move between two of its reads.         *)
(***************************************************************************)
EXTENDS DepartmentContent, Sequences

CONSTANTS
  Exam,      \* the exams that may be filed
  Custom,    \* the custom content that may be filed
  Unfiled    \* in place of an exam or a custom content that is not there

ASSUME ListsAssumption ==
  /\ Unfiled \notin Unit \cup Course \cup {Nowhere}
  /\ Parcel \cap Exam = {} /\ Parcel \cap Custom = {} /\ Exam \cap Custom = {}

VARIABLES
  exam,      \* exam[x]: the course of x, or Unfiled
  custom,    \* custom[u]: the department of u, Nowhere, or Unfiled
  lister,    \* the list under way and what it has read
  unmoved    \* what has not moved since the list began (no variable of the code)

listing == <<exam, custom, lister, unmoved>>

-------------------------------------------------------------------------------

(* `kind`: listDepartmentContent or listContent; `every`: the list of       *)
(* somebody with a global scope who names no department; `within`: the     *)
(* departments it is otherwise about.                                      *)
NoList ==
  [at |-> "idle", kind |-> "none", every |-> FALSE, within |-> {}, left |-> {}, programs |-> {},
   courses |-> <<>>, shown |-> {}]

ListsInit ==
  /\ ContentInit
  /\ exam = [x \in Exam |-> Unfiled]
  /\ custom = [u \in Custom |-> Unfiled]
  /\ lister = NoList
  /\ unmoved = {}

(* Where a package, an exam or a custom content lies, and through what. *)
Whereabouts(i) ==
  IF i \in Parcel THEN <<parcel[i]>>
  ELSE IF i \in Custom THEN <<custom[i]>>
  ELSE IF exam[i] = Unfiled THEN <<Unfiled>>
  ELSE <<exam[i], course[exam[i]], DepartmentOf(exam[i])>>

LiesIn(i) == Whereabouts(i)[Len(Whereabouts(i))]

-------------------------------------------------------------------------------

(* createDepartmentContent looks whether the course is there and whether   *)
(* the program is within reach.  A course itself has no department, so     *)
(* that no course is out of reach.                                         *)
StartCreateExam(o, x, c, q) ==
  /\ officer[o].at = "idle"
  /\ exam[x] = Unfiled
  /\ course[c] # Nowhere
  /\ program[q] # Nowhere /\ InReach(o, program[q])
  /\ Move(o, [at |-> "exam", of |-> x, from |-> Unfiled, to |-> c])
  /\ UNCHANGED <<reach, whole, program, course, parcel, astray, exam, custom>>

(* updateDepartmentContent of an exam: it may go to any course that is     *)
(* there.                                                                  *)
StartMoveExam(o, x, c) ==
  /\ officer[o].at = "idle"
  /\ exam[x] # Unfiled
  /\ course[c] # Nowhere
  /\ Move(o, [at |-> "exam", of |-> x, from |-> exam[x], to |-> c])
  /\ UNCHANGED <<reach, whole, program, course, parcel, astray, exam, custom>>

SaveExam(o) ==
  LET move == officer[o] IN
  /\ move.at = "exam"
  /\ move.from = Unfiled => exam[move.of] = Unfiled
  /\ exam' = [exam EXCEPT ![move.of] = IF move.to = move.from THEN @ ELSE move.to]
  /\ Move(o, NoMove)
  /\ UNCHANGED <<reach, whole, program, course, parcel, astray, custom>>

(* createCustomContent; no department is allowed. *)
CreateCustomContent(o, u, d) ==
  /\ officer[o].at = "idle"
  /\ custom[u] = Unfiled
  /\ InReach(o, d)
  /\ custom' = [custom EXCEPT ![u] = d]
  /\ UNCHANGED <<placing, exam>>

(* updateCustomContent looks where the content is to go, never where it is. *)
StartMoveCustom(o, u, d) ==
  /\ officer[o].at = "idle"
  /\ custom[u] # Unfiled
  /\ InReach(o, d)
  /\ Move(o, [at |-> "custom", of |-> u, from |-> custom[u], to |-> d])
  /\ UNCHANGED <<reach, whole, program, course, parcel, astray, exam, custom>>

SaveCustom(o) ==
  LET move == officer[o] IN
  /\ move.at = "custom"
  /\ custom' = [custom EXCEPT ![move.of] = IF move.to = move.from THEN @ ELSE move.to]
  /\ Move(o, NoMove)
  /\ UNCHANGED <<reach, whole, program, course, parcel, astray, exam>>

FilingStep ==
  \/ ContentNext /\ UNCHANGED <<exam, custom>>
  \/ \E o \in Officer :
       \/ SaveExam(o) \/ SaveCustom(o)
       \/ \E x \in Exam, c \in Course :
            StartMoveExam(o, x, c) \/ \E q \in Program : StartCreateExam(o, x, c, q)
       \/ \E u \in Custom, d \in Unit \cup {Nowhere} :
            CreateCustomContent(o, u, d) \/ StartMoveCustom(o, u, d)

-------------------------------------------------------------------------------

Within(d) == lister.every \/ d \in lister.within

(* What is shown of a department outside the list is null.                 *)
Summary(d) == IF d \in Unit /\ Within(d) THEN d ELSE Nowhere

Read(l) == lister' = l /\ UNCHANGED <<placing, exam, custom, unmoved>>

(* A list of one department or of a scope, which may be the whole; a       *)
(* global one of everything needs no programs.                             *)
StartList(kind, every, within) ==
  /\ lister.at = "idle"
  /\ every <=> within = {}
  /\ lister' = [NoList EXCEPT
       !.at = IF kind = "department" /\ ~every THEN "programs" ELSE "content",
       !.kind = kind, !.every = every, !.within = within,
       !.left = IF kind = "department" THEN {"packages", "courses"} ELSE {"packages", "custom"}]
  /\ unmoved' = Parcel \cup Exam \cup Custom
  /\ UNCHANGED <<placing, exam, custom>>

FindPrograms ==
  /\ lister.at = "programs"
  /\ Read([lister EXCEPT !.at = "content", !.programs = {p \in Program : Within(program[p])}])

(* Two queries at once: each may be the first.  After them listContent     *)
(* answers; the departments of the courses found and the exams come next   *)
(* in the other.                                                           *)
Found(part) ==
  LET left == lister.left \ {part} IN
  [lister EXCEPT !.left = left,
     !.at = IF left # {} THEN "content"
            ELSE IF lister.kind = "department" THEN "departments" ELSE "answered"]

ListedOf(S, lies) == {<<i, Summary(lies[i])>> : i \in {j \in S : lister.every \/ lies[j] \in lister.within}}

FindPackages ==
  /\ lister.at = "content" /\ "packages" \in lister.left
  /\ Read([Found("packages") EXCEPT !.shown = @ \cup ListedOf(Parcel, parcel)])

FindCustomContent ==
  /\ lister.at = "content" /\ "custom" \in lister.left
  /\ Read([Found("custom") EXCEPT
             !.shown = @ \cup ListedOf({u \in Custom : custom[u] # Unfiled}, custom)])

(* Mutant: the courses of every program. *)
AnyCourse(c) == course[c] # Nowhere

CourseFound(c) == course[c] # Nowhere /\ (lister.every \/ course[c] \in lister.programs)

FindCourses ==
  /\ lister.at = "content" /\ "courses" \in lister.left
  /\ Read([Found("courses") EXCEPT !.courses = [c \in {d \in Course : CourseFound(d)} |-> course[c]]])

(* programDeptMap: from here on `courses` holds departments. *)
FindDepartments ==
  /\ lister.at = "departments"
  /\ Read([lister EXCEPT !.at = "exams",
             !.courses = [c \in DOMAIN @ |-> program[@[c]]]])

(* Without a course the exams are those of everybody. *)
ExamsFound ==
  {x \in Exam : /\ exam[x] # Unfiled
                /\ DOMAIN lister.courses # {} => exam[x] \in DOMAIN lister.courses}

DepartmentShown(x) ==
  IF exam[x] \in DOMAIN lister.courses THEN Summary(lister.courses[exam[x]]) ELSE Nowhere

(* A list of packages alone has no exams. *)
FindExams ==
  /\ lister.at = "exams"
  /\ Read([lister EXCEPT !.at = "answered",
             !.shown = @ \cup {<<x, DepartmentShown(x)>> : x \in ExamsFound}])

EndList == lister.at \in {"exams", "answered"} /\ Read(NoList)

ListsNext ==
  \/ /\ FilingStep
     /\ UNCHANGED lister
     /\ unmoved' = {i \in unmoved : Whereabouts(i)' = Whereabouts(i)}
  \/ \E kind \in {"department", "content"}, every \in BOOLEAN, within \in SUBSET Unit :
       StartList(kind, every, within)
  \/ FindPrograms \/ FindPackages \/ FindCustomContent \/ FindCourses
  \/ FindDepartments \/ FindExams \/ EndList

ListsSpec == ListsInit /\ [][ListsNext]_<<placing, listing>>

-------------------------------------------------------------------------------

(* Whatever moves while a list is made, what does not move is listed       *)
(* exactly when it lies in the departments asked for, and with its own     *)
(* department: a package, custom content in the list that has it, and an   *)
(* exam in the other as long as that found a course                        *)
(* (departmentResourcesCtrl.ts:374-470; contentCtrl.ts:130-170).           *)
ListedWhereItLies ==
  LET Right(i) ==
        \A d \in Unit \cup {Nowhere} :
          <<i, d>> \in lister.shown <=> Within(LiesIn(i)) /\ d = LiesIn(i)
  IN  lister.at = "answered" =>
        /\ \A k \in Parcel \cap unmoved : Right(k)
        /\ lister.kind = "content" =>
             \A u \in Custom \cap unmoved : custom[u] # Unfiled => Right(u)
        /\ DOMAIN lister.courses # {} =>
             \A x \in Exam \cap unmoved : exam[x] # Unfiled => Right(x)

===============================================================================
