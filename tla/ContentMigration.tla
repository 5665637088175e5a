---------------------------- MODULE ContentMigration ----------------------------
(***************************************************************************)
(* The scripts that move content, attempts and levels to the collections   *)
(* of the present schema:                                                  *)
(*                                                                         *)
(*   migrate-content-to-coursecontent.js         "subjects", then "exams", *)
(*                                               then "packages"           *)
(*   migrate-scormattempt-to-contentattempt.js   "attempts"                *)
(*   migrate-classlevel-to-programlevel.js       "levels"                  *)
(*                                                                         *)
(* Each reads what there is to move when it starts, then looks for what it *)
(* is about to create and creates it, document by document, while the      *)
(* server is live.  A script may be killed, or die of a duplicate key, and *)
(* is run again.                                                           *)
(***************************************************************************)
EXTENDS Integers, FiniteSets

CONSTANTS
  Subject, Exam, Package, Sitting, ClassLevel,   \* what is to be moved
  Segment,        \* content that the server adds to courses
  CourseOf,       \* CourseOf[s]: the program and title of subject s, or Unmapped
  SubjectOf,      \* SubjectOf[e]: the subject of exam e, or Unmapped
  PlaceOf,        \* PlaceOf[k]: the course the map gives for package k, or Unmapped
  Mapped,         \* the sittings (ScormAttempts) of packages the map names
  LevelOf,        \* LevelOf[c]: [program, name, order] from the map, or Unmapped
  Unmapped,
  MaxOrder        \* a bound on the places of a course that are filled

Titles == ({CourseOf[s] : s \in Subject} \cup {PlaceOf[k] : k \in Package}) \ {Unmapped}

ASSUME MovesAssumption ==
  /\ MaxOrder \in Nat
  /\ Unmapped \notin Subject \cup Titles
  /\ SubjectOf \in [Exam -> Subject \cup {Unmapped}]
  /\ Mapped \subseteq Sitting

VARIABLES
  courses,    \* the courses there are, by program and title
  contents,   \* the CourseContents: course, item, order, and who made them
  copied,     \* copied[a]: how many ContentAttempts the script made of sitting a
  synced,     \* the sittings the server has written a ContentAttempt of
  levels,     \* the ProgramLevels: program, name, order
  job,        \* the script at work
  spoiled     \* content was deleted since the script started (no variable of the code)

moved == <<courses, contents, copied, synced, levels>>
moving == <<moved, job, spoiled>>

NoJob == [script |-> "none", phase |-> "none", todo |-> {}, known |-> {}, found |-> {}]

MovesInit ==
  /\ courses = {} /\ contents = {} /\ synced = {} /\ levels = {}
  /\ copied = [a \in Sitting |-> 0]
  /\ job = NoJob
  /\ spoiled = FALSE

-------------------------------------------------------------------------------

Filled(c) == {x \in contents : x.course = c}
OrderTaken(c, n) == \E x \in contents : x.course = c /\ x.order = n

Start(phase, todo) ==
  /\ job.phase \in {"none", "done"}
  /\ job' = [NoJob EXCEPT !.script = phase, !.phase = phase, !.todo = todo]
  /\ spoiled' = FALSE
  /\ UNCHANGED moved

Doing(phase, x) == job.phase = phase /\ x \in job.todo /\ job.found = {}

(* What is found missing is created in the next step: a document of a unique *)
(* key that another has taken by then kills the script.                      *)
Missing(x, doc) == job' = [job EXCEPT !.found = {[of |-> x, doc |-> doc]}] /\ UNCHANGED <<moved, spoiled>>
Past(x) == job' = [job EXCEPT !.todo = @ \ {x}, !.found = {}]
Skip(x) == Past(x) /\ UNCHANGED <<moved, spoiled>>
Creating(phase, x) == job.phase = phase /\ \E f \in job.found : f.of = x
NewDoc == (CHOOSE f \in job.found : TRUE).doc

(* Mutant: only the courses that this run creates are known to it. *)
KnownWhenCreated(s) == job' = [job EXCEPT !.todo = @ \ {s}, !.found = {}]

KnownWhenFound(s) == job' = [job EXCEPT !.todo = @ \ {s}, !.found = {}, !.known = @ \cup {s}]

(* ensureCourse of one subject. *)
LookSubject(s) ==
  /\ Doing("subjects", s)
  /\ IF CourseOf[s] = Unmapped THEN Skip(s)
     ELSE IF CourseOf[s] \in courses
     THEN KnownWhenFound(s) /\ UNCHANGED <<moved, spoiled>>
     ELSE Missing(s, CourseOf[s])
CreateCourseOf(s) ==
  /\ Creating("subjects", s)
  /\ courses' = courses \cup {NewDoc}
  /\ job' = [job EXCEPT !.todo = @ \ {s}, !.found = {}, !.known = @ \cup {s}]
  /\ UNCHANGED <<contents, copied, synced, levels, spoiled>>

(* Mutant: looks for the order it is about to give. *)
ThereByOrder(c, x) == OrderTaken(c, Cardinality(Filled(c)) + 1)

There(c, x) == \E y \in Filled(c) : y.item = x

(* An exam goes to the course of its subject, a package to the one the map  *)
(* names; the order is one more than the course has contents.               *)
LookContent(phase, x, c) ==
  /\ Doing(phase, x)
  /\ IF c = Unmapped \/ There(c, x) THEN Skip(x)
     ELSE Missing(x, [course |-> c, item |-> x, order |-> Cardinality(Filled(c)) + 1,
                      scripted |-> TRUE])
CreateContentOf(phase, x) ==
  /\ Creating(phase, x)
  /\ ~OrderTaken(NewDoc.course, NewDoc.order)
  /\ contents' = contents \cup {NewDoc}
  /\ Past(x)
  /\ UNCHANGED <<courses, copied, synced, levels, spoiled>>

ExamPlace(e) == IF SubjectOf[e] \in job.known THEN CourseOf[SubjectOf[e]] ELSE Unmapped
MoveExam(e) == LookContent("exams", e, ExamPlace(e)) \/ CreateContentOf("exams", e)
MovePackage(k) == LookContent("packages", k, PlaceOf[k]) \/ CreateContentOf("packages", k)

(* A sitting is looked for by learner, segment and start, which a copy and *)
(* the ContentAttempt of the server have in common.                        *)
LookSitting(a) ==
  /\ Doing("attempts", a)
  /\ IF a \notin Mapped \/ copied[a] > 0 \/ a \in synced THEN Skip(a) ELSE Missing(a, a)
CreateAttempt(a) ==
  /\ Creating("attempts", a)
  /\ copied' = [copied EXCEPT ![a] = @ + 1]
  /\ Past(a)
  /\ UNCHANGED <<courses, contents, synced, levels, spoiled>>

(* A level is looked for by program and name; the index is on program and  *)
(* order.                                                                  *)
SameName(l, m) == l.program = m.program /\ l.name = m.name
SameOrder(l, m) == l.program = m.program /\ l.order = m.order
LookLevel(c) ==
  /\ Doing("levels", c)
  /\ IF LevelOf[c] = Unmapped \/ \E l \in levels : SameName(l, LevelOf[c])
     THEN Skip(c) ELSE Missing(c, LevelOf[c])
CreateLevel(c) ==
  /\ Creating("levels", c)
  /\ \A l \in levels : ~SameOrder(l, NewDoc)
  /\ levels' = levels \cup {NewDoc}
  /\ Past(c)
  /\ UNCHANGED <<courses, contents, copied, synced, spoiled>>

(* The next phase, or the end of the script. *)
Following(phase) ==
  CASE phase = "subjects" -> "exams" [] phase = "exams" -> "packages" [] OTHER -> "done"
WorkOf(phase) ==
  CASE phase = "exams" -> Exam [] phase = "packages" -> Package [] OTHER -> {}
EndPhase ==
  /\ job.phase \notin {"none", "done"} /\ job.todo = {}
  /\ job' = [job EXCEPT !.phase = Following(@), !.todo = WorkOf(Following(job.phase))]
  /\ UNCHANGED <<moved, spoiled>>

(* Killed, or dead of a duplicate key. *)
Die ==
  /\ job.phase \notin {"none", "done"}
  /\ job' = NoJob
  /\ UNCHANGED <<moved, spoiled>>

-------------------------------------------------------------------------------
(* The live server. *)

(* createCourseContent, at a place of the client's choice; it may put an    *)
(* exam there that the script has just found missing.                       *)
AddSegment(c, x, n) ==
  /\ c \in courses /\ ~There(c, x) /\ ~OrderTaken(c, n)
  /\ contents' = contents \cup {[course |-> c, item |-> x, order |-> n, scripted |-> FALSE]}
  /\ UNCHANGED <<courses, copied, synced, levels, job, spoiled>>
DeleteSegment(x) ==
  /\ contents' = contents \ {x}
  /\ spoiled' = TRUE
  /\ UNCHANGED <<courses, copied, synced, levels, job>>
(* The hook of a save of the attempt: its ContentAttempt has its id.       *)
SyncSitting(a) ==
  /\ synced' = synced \cup {a}
  /\ UNCHANGED <<courses, contents, copied, levels, job, spoiled>>

MovesNext ==
  \/ Start("subjects", Subject) \/ Start("attempts", Sitting) \/ Start("levels", ClassLevel)
  \/ \E s \in Subject : LookSubject(s) \/ CreateCourseOf(s)
  \/ \E e \in Exam : MoveExam(e)
  \/ \E k \in Package : MovePackage(k)
  \/ \E a \in Sitting : LookSitting(a) \/ CreateAttempt(a) \/ SyncSitting(a)
  \/ \E c \in ClassLevel : LookLevel(c) \/ CreateLevel(c)
  \/ EndPhase \/ Die
  \/ \E c \in Titles, x \in Segment \cup Exam, n \in 1..MaxOrder : AddSegment(c, x, n)
  \/ \E x \in contents : DeleteSegment(x)

MovesSpec == MovesInit /\ [][MovesNext]_moving

-------------------------------------------------------------------------------

(* However often the scripts are killed and run again beside the server,   *)
(* they move nothing twice: an exam or package they put in a course once,  *)
(* and of a sitting they make one copy (migrate-content-to-coursecontent.js:190,   *)
(* 218; migrate-scormattempt-to-contentattempt.js:111).                    *)
MovedOnce ==
  /\ \A x, y \in contents : x.scripted /\ y.scripted /\ x.course = y.course /\ x.item = y.item => x = y
  /\ \A a \in Sitting : copied[a] <= 1

(* A script that has come to its end has left nothing behind, also when it *)
(* found the work of runs that were killed, unless content was deleted     *)
(* while it ran.                                                           *)
MovedWhole ==
  job.phase = "done" /\ ~spoiled =>
    /\ job.script = "attempts" => \A a \in Mapped : copied[a] = 1 \/ a \in synced
    /\ job.script = "levels" =>
         \A c \in ClassLevel : LevelOf[c] # Unmapped => \E l \in levels : SameName(l, LevelOf[c])
    /\ job.script = "subjects" =>
         /\ \A e \in Exam : SubjectOf[e] # Unmapped /\ CourseOf[SubjectOf[e]] # Unmapped =>
              There(CourseOf[SubjectOf[e]], e)
         /\ \A k \in Package : PlaceOf[k] # Unmapped => There(PlaceOf[k], k)

(* The scripts move everything, and nothing twice.                         *)
MovedAllOnce == MovedOnce /\ MovedWhole

===============================================================================
