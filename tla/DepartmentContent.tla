--------------------------- MODULE DepartmentContent ---------------------------
(***************************************************************************)
(* Programs, courses and packages moved from department to department by   *)
(* the requests of departmentResourcesCtrl.ts.  A course lies in the       *)
(* department of its program, a package in its own or in none.  Every      *)
(* request looks where a document lies, looks where it is to go, and saves *)
(* later, when the document, its program or the target may have moved.     *)
(***************************************************************************)
EXTENDS FiniteSets

CONSTANTS
  Officer,      \* the requests in flight at once
  Unit,         \* departments
  Program, Course, Parcel,   \* parcels: the SCORM packages
  Nowhere       \* no department; the program of a course that is not there

ASSUME ContentAssumption == Nowhere \notin Unit \cup Program

VARIABLES
  reach,        \* reach[o]: the departments whose content o may touch
  whole,        \* the requests of those who may touch everything
  program,      \* program[p]: the department of p; Nowhere if there is no p
  course,       \* course[c]: the program of c; Nowhere if there is no c
  parcel,       \* parcel[k]: the department of package k, or Nowhere
  officer,      \* officer[o]: the request in flight
  astray        \* courses and packages that were lost sight of (no variable of the code)

placing == <<reach, whole, program, course, parcel, officer, astray>>

-------------------------------------------------------------------------------

NoMove == [at |-> "idle"]

ContentInit ==
  /\ reach \in [Officer -> SUBSET Unit]
  /\ whole \in SUBSET Officer
  /\ program \in [Program -> Unit \cup {Nowhere}]
  /\ course = [c \in Course |-> Nowhere]
  /\ parcel \in [Parcel -> Unit \cup {Nowhere}]
  /\ officer = [o \in Officer |-> NoMove]
  /\ astray = {}

(* ensureDepartmentScope: what lies nowhere is open to everybody. *)
InReach(o, d) == o \in whole \/ d = Nowhere \/ d \in reach[o]

DepartmentOf(c) == IF course[c] = Nowhere THEN Nowhere ELSE program[course[c]]

Move(o, move) == officer' = [officer EXCEPT ![o] = move]

-------------------------------------------------------------------------------

(* Nothing knows p, as nothing knows the id of a document to be created. *)
Fresh(p) ==
  /\ program[p] = Nowhere /\ \A c \in Course : course[c] # p
  /\ \A o \in Officer : \A f \in DOMAIN officer[o] : officer[o][f] # p

(* createDepartmentProgram, once the name is found free. *)
CreateProgram(o, p, d) ==
  /\ officer[o].at = "idle"
  /\ Fresh(p)
  /\ InReach(o, d)
  /\ program' = [program EXCEPT ![p] = d]
  /\ UNCHANGED <<reach, whole, course, parcel, officer, astray>>

(* Mutant: only where the program lies is looked at. *)
MovesWithin(o, from, to) == InReach(o, from)

(* Both ends of a move must be within reach. *)
BothInReach(o, from, to) == InReach(o, from) /\ InReach(o, to)

(* updateProgramDepartment, up to its save.                                *)
StartMoveProgram(o, p, d) ==
  /\ officer[o].at = "idle"
  /\ program[p] # Nowhere
  /\ BothInReach(o, program[p], d)
  /\ Move(o, [at |-> "program", of |-> p, from |-> program[p], to |-> d])
  /\ UNCHANGED <<reach, whole, program, course, parcel, astray>>

(* The save of a program deleted since fails; one that writes back what it *)
(* loaded writes nothing.                                                  *)
SaveProgram(o) ==
  LET move == officer[o] IN
  /\ move.at = "program"
  /\ program' = [program EXCEPT ![move.of] =
       IF @ = Nowhere \/ move.to = move.from THEN @ ELSE move.to]
  /\ Move(o, NoMove)
  /\ UNCHANGED <<reach, whole, course, parcel, astray>>

(* deleteProgram leaves the courses of the program behind, and a request   *)
(* that has loaded a course of it finds the course open to everybody.      *)
DeleteProgram(o, p) ==
  /\ officer[o].at = "idle"
  /\ program[p] # Nowhere
  /\ o \in whole \/ program[p] \in reach[o]
  /\ program' = [program EXCEPT ![p] = Nowhere]
  /\ astray' = astray \cup {c \in Course : course[c] = p \/ \E n \in Officer :
       officer[n].at = "current" /\ officer[n].of = c /\ officer[n].from = p}
  /\ UNCHANGED <<reach, whole, course, parcel, officer>>

(* createDepartmentCourse, once the title is found free: the department it *)
(* is given is checked and, since the schema has none, not stored.         *)
StartCreateCourse(o, c, q) ==
  /\ officer[o].at = "idle"
  /\ course[c] = Nowhere
  /\ program[q] # Nowhere
  /\ InReach(o, program[q])
  /\ Move(o, [at |-> "create", of |-> c, to |-> q])
  /\ UNCHANGED <<reach, whole, program, course, parcel, astray>>

CreateCourse(o) ==
  LET c == officer[o].of IN
  /\ officer[o].at = "create"
  /\ course[c] = Nowhere
  /\ course' = [course EXCEPT ![c] = officer[o].to]
  /\ astray' = IF program[officer[o].to] = Nowhere THEN astray \cup {c} ELSE astray
  /\ Move(o, NoMove)
  /\ UNCHANGED <<reach, whole, program, parcel>>

(* updateCourseProgram and updateDepartmentCourse load the course, look    *)
(* for its program, look for the program it is to have, and save.          *)
LoadCourse(o, c, q) ==
  /\ officer[o].at = "idle"
  /\ course[c] # Nowhere
  /\ Move(o, [at |-> "current", of |-> c, from |-> course[c], to |-> q])
  /\ UNCHANGED <<reach, whole, program, course, parcel, astray>>

CheckCurrent(o) ==
  /\ officer[o].at = "current"
  /\ InReach(o, program[officer[o].from])
  /\ Move(o, [officer[o] EXCEPT !.at = "target"])
  /\ UNCHANGED <<reach, whole, program, course, parcel, astray>>

CheckTarget(o) ==
  LET q == officer[o].to IN
  /\ officer[o].at = "target"
  /\ program[q] # Nowhere
  /\ InReach(o, program[q])
  /\ Move(o, [officer[o] EXCEPT !.at = "course"])
  /\ UNCHANGED <<reach, whole, program, course, parcel, astray>>

SaveCourse(o) ==
  LET move == officer[o]
      to == IF move.to = move.from THEN course[move.of] ELSE move.to IN
  /\ move.at = "course"
  /\ course' = [course EXCEPT ![move.of] = to]
  /\ astray' = IF program[to] = Nowhere THEN astray \cup {move.of} ELSE astray
  /\ Move(o, NoMove)
  /\ UNCHANGED <<reach, whole, program, parcel>>

(* updateDepartmentContent of a package: only who may touch everything may *)
(* take the department away.                                               *)
StartMoveParcel(o, k, d) ==
  /\ officer[o].at = "idle"
  /\ d = Nowhere => o \in whole
  /\ BothInReach(o, parcel[k], d)
  /\ Move(o, [at |-> "parcel", of |-> k, from |-> parcel[k], to |-> d])
  /\ UNCHANGED <<reach, whole, program, course, parcel, astray>>

SaveParcel(o) ==
  LET move == officer[o] IN
  /\ move.at = "parcel"
  /\ parcel' = [parcel EXCEPT ![move.of] = IF move.to = move.from THEN @ ELSE move.to]
  /\ astray' = IF move.from = Nowhere /\ parcel[move.of] # Nowhere
               THEN astray \cup {move.of} ELSE astray
  /\ Move(o, NoMove)
  /\ UNCHANGED <<reach, whole, program, course>>

(* Refused, failed, or cut off by a restart. *)
AbandonMove(o) ==
  /\ officer[o].at # "idle"
  /\ Move(o, NoMove)
  /\ UNCHANGED <<reach, whole, program, course, parcel, astray>>

(* updateDepartmentProgram writes no department; updateCourseDepartment     *)
(* refuses every request, for a course has none of its own.                *)
UpdateProgram == UNCHANGED placing
UpdateCourseDepartment == UNCHANGED placing

ContentNext ==
  \/ UpdateProgram \/ UpdateCourseDepartment
  \/ \E o \in Officer :
    \/ SaveProgram(o) \/ CreateCourse(o) \/ CheckCurrent(o) \/ CheckTarget(o)
    \/ SaveCourse(o) \/ SaveParcel(o) \/ AbandonMove(o)
    \/ \E p \in Program :
         \/ DeleteProgram(o, p)
         \/ \E d \in Unit : CreateProgram(o, p, d) \/ StartMoveProgram(o, p, d)
         \/ \E c \in Course : StartCreateCourse(o, c, p) \/ LoadCourse(o, c, p)
    \/ \E k \in Parcel, d \in Unit \cup {Nowhere} : StartMoveParcel(o, k, d)

ContentSpec == ContentInit /\ [][ContentNext]_placing

-------------------------------------------------------------------------------

(* The departments between which somebody can move content: those of one   *)
(* reach, and of reaches that meet.                                        *)
Linked(d) ==
  LET Closed(D) == \A o \in Officer : reach[o] \cap D # {} => reach[o] \subseteq D IN
  {e \in Unit : \A D \in SUBSET Unit : d \in D /\ Closed(D) => e \in D}

(* As long as nobody may touch everything, no content leaves the           *)
(* departments that are linked to its own, whatever requests overlap: not  *)
(* a program; nor a course, unless a program was deleted that it had, or   *)
(* that a request had found it in; nor a package, unless two requests      *)
(* found it without a department                                           *)
(* (departmentResourcesCtrl.ts:775-797, 1046-1064, 1212-1241).             *)
StaysLinked ==
  [][whole = {} =>
       /\ \A p \in Program :
            program[p] \in Unit /\ program'[p] \in Unit => program'[p] \in Linked(program[p])
       /\ \A c \in Course \ astray' :
            course[c] # Nowhere => DepartmentOf(c)' \in Linked(DepartmentOf(c))
       /\ \A k \in Parcel \ astray' :
            parcel[k] \in Unit => parcel'[k] \in Linked(parcel[k])]_placing

===============================================================================
