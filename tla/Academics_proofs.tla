------------------------- MODULE Academics_proofs -------------------------
(***************************************************************************)
(* Proofs about CourseCatalog, AcademicRecords and ContentProgress, for any*)
(* courses, levels, records, questions, contents and requests: a published *)
(* course is rendered, the cached list differs from the levels only while  *)
(* somebody is about to drop it or until its TTL ends, what was answered   *)
(* of a record stays so, and progress says what its attempts add up to.    *)
(***************************************************************************)
EXTENDS CourseCatalog, AcademicRecords, ContentProgress, FiniteSetTheorems, TLAPS

(* The steps that are about a course. *)
OfCourse == {"status", "delete", "render", "pull", "add"}

(* What a task is about exists as a name, and what it is to publish has    *)
(* been rendered, which is never undone: R are the rendered courses.       *)
Sound(task, R) ==
  /\ task.at \in OfCourse => task.of \in Course
  /\ task.at = "status" /\ task.status = "published" => task.of \in R

CatalogInv ==
  /\ CatalogTypeOK
  /\ PublishedIsRendered
  /\ \A a \in Author : Sound(author[a], rendered)

-------------------------------------------------------------------------------

LEMMA AuthorIs ==
  ASSUME CatalogInv, NEW a \in Author
  PROVE  author[a] \in Task /\ Sound(author[a], rendered)
BY DEF CatalogInv, CatalogTypeOK

LEMMA NoTaskIs == NoTask \in Task /\ NoTask.at = "idle"
<1>1. {} \in Listing /\ {} \in SUBSET Course
  BY DEF Listing
<1> QED
  BY <1>1 DEF NoTask, Task, CourseStatus

(* A step of one request.  The others go on as they were: what they hold   *)
(* stays sound, because no rendering is ever undone.                       *)
LEMMA AssignKeeps ==
  ASSUME CatalogInv, NEW a \in Author, NEW task \in Task, Assign(a, task),
         rendered \subseteq rendered', Sound(task, rendered')
  PROVE  /\ author' \in [Author -> Task]
         /\ author'[a] = task
         /\ \A b \in Author \ {a} : author'[b] = author[b]
         /\ \A b \in Author : Sound(author'[b], rendered')
<1>1. author \in [Author -> Task] /\ author' = [author EXCEPT ![a] = task]
  BY DEF CatalogInv, CatalogTypeOK, Assign
<1>2. author' \in [Author -> Task] /\ author'[a] = task
      /\ \A b \in Author \ {a} : author'[b] = author[b]
  BY <1>1
<1>3. ASSUME NEW b \in Author PROVE Sound(author'[b], rendered')
  <2>1. CASE b = a
    BY <1>2, <2>1
  <2>2. CASE b # a
    BY <1>2, <2>2, AuthorIs DEF Sound
  <2> QED
    BY <2>1, <2>2
<1> QED
  BY <1>2, <1>3

(* A step that gives a request its next task and changes nothing else.     *)
LEMMA TaskStep ==
  ASSUME CatalogInv, NEW a \in Author, NEW task \in Task, Assign(a, task),
         Sound(task, rendered), UNCHANGED <<course, rendered, level, cached>>,
         overdue' \in BOOLEAN
  PROVE  CatalogInv'
<1>1. author' \in [Author -> Task] /\ \A b \in Author : Sound(author'[b], rendered')
  BY AssignKeeps
<1> QED
  BY <1>1 DEF CatalogInv, CatalogTypeOK, PublishedIsRendered

(* The task that follows is about the same course. *)
LEMMA OnwardIs ==
  ASSUME CatalogInv, NEW a \in Author, author[a].at \in OfCourse,
         NEW at \in {"idle", "render", "pull", "add"}, Onward(a, at)
  PROVE  \E task \in Task :
           /\ Assign(a, task) /\ task.at = at
           /\ \A R : Sound(task, R)
<1> DEFINE task == [NoTask EXCEPT !.at = at, !.of = author[a].of,
                                  !.from = author[a].from, !.to = author[a].to]
<1>1. author[a] \in Task /\ author[a].of \in Course
  BY AuthorIs DEF Sound
<1>2. task \in Task /\ task.at = at /\ task.of = author[a].of
  BY <1>1, NoTaskIs DEF Task, NoTask
<1>3. \A R : Sound(task, R)
  BY <1>1, <1>2 DEF Sound
<1>4. Assign(a, task)
  BY DEF Onward
<1> QED
  BY <1>2, <1>3, <1>4

LEMMA InvalidateNextIs ==
  ASSUME NEW a \in Author, InvalidateNext(a)
  PROVE  \E task \in Task :
           /\ Assign(a, task) /\ task.at = "invalidate"
           /\ \A R : Sound(task, R)
<1> DEFINE task == [NoTask EXCEPT !.at = "invalidate"]
<1>1. task \in Task /\ task.at = "invalidate"
  BY NoTaskIs DEF Task, NoTask
<1>2. \A R : Sound(task, R)
  BY <1>1 DEF Sound, OfCourse
<1> QED
  BY <1>1, <1>2 DEF InvalidateNext

LEMMA RestIs == \A R : Sound(NoTask, R)
BY NoTaskIs DEF Sound, OfCourse

LEMMA CatalogIs == Catalog \in Listing
BY DEF Catalog, Listing

-------------------------------------------------------------------------------

LEMMA InitCatalog == CatalogInit => CatalogInv
<1> SUFFICES ASSUME CatalogInit PROVE CatalogInv
  OBVIOUS
<1>1. Empty \in Entry
  BY DEF Empty, Entry, Listing
<1>2. CatalogTypeOK
  BY <1>1, NoTaskIs DEF CatalogInit, CatalogTypeOK, CourseDoc, LevelDoc, CourseStatus
<1>3. PublishedIsRendered
  BY DEF CatalogInit, PublishedIsRendered
<1>4. \A a \in Author : Sound(author[a], rendered)
  BY RestIs DEF CatalogInit
<1> QED
  BY <1>2, <1>3, <1>4 DEF CatalogInv

(* A request that begins with the status of course c. *)
LEMMA StatusBegins ==
  ASSUME CatalogInv, NEW a \in Author, NEW c \in Course,
         NEW task \in Task, Assign(a, task), task.at = "status", task.of = c,
         task.status = "published" => c \in rendered,
         UNCHANGED <<course, rendered, level, cached, overdue>>
  PROVE  CatalogInv'
<1>1. Sound(task, rendered)
  BY DEF Sound
<1>2. overdue' \in BOOLEAN
  BY DEF CatalogInv, CatalogTypeOK
<1> QED
  BY <1>1, <1>2, TaskStep

LEMMA StatusSteps ==
  ASSUME CatalogInv, NEW a \in Author, NEW c \in Course
  PROVE  /\ \A s \in CourseStatus \cup {"same"}, from \in Level \cup {Nothing},
              to \in Level \cup {Nothing} : UpdateCourse(a, c, s, from, to) => CatalogInv'
         /\ \A s \in CourseStatus \cup {"same"} : UpdateContentCourse(a, c, s) => CatalogInv'
         /\ PublishCourse(a, c) \/ UnpublishCourse(a, c) \/ StartRender(a, c) => CatalogInv'
<1>1. ASSUME NEW s \in CourseStatus \cup {"same"}, NEW from \in Level \cup {Nothing},
             NEW to \in Level \cup {Nothing}, UpdateCourse(a, c, s, from, to)
      PROVE  CatalogInv'
  <2> DEFINE task == [NoTask EXCEPT !.at = "status", !.of = c, !.status = s,
                                    !.after = "pull", !.from = from, !.to = to]
  <2>1. Assign(a, task) /\ UNCHANGED <<course, rendered, level, cached, overdue>>
        /\ (s = "published" => c \in rendered)
    BY <1>1 DEF UpdateCourse
  <2>2. task \in Task /\ task.at = "status" /\ task.of = c /\ task.status = s
    BY NoTaskIs DEF Task, NoTask
  <2> HIDE DEF task
  <2> QED
    BY <2>1, <2>2, StatusBegins
<1>2. ASSUME NEW s \in CourseStatus \cup {"same"}, UpdateContentCourse(a, c, s)
      PROVE  CatalogInv'
  <2> DEFINE task == [NoTask EXCEPT !.at = "status", !.of = c, !.status = s,
                                    !.after = "invalidate"]
  <2>1. Assign(a, task) /\ UNCHANGED <<course, rendered, level, cached, overdue>>
        /\ s # "published"
    BY <1>2 DEF UpdateContentCourse
  <2>2. task \in Task /\ task.at = "status" /\ task.of = c /\ task.status = s
    BY NoTaskIs DEF Task, NoTask
  <2> HIDE DEF task
  <2> QED
    BY <2>1, <2>2, StatusBegins
<1>3. ASSUME PublishCourse(a, c) PROVE CatalogInv'
  <2> DEFINE s == IF course[c].status = "published" THEN "same" ELSE "published"
             task == [NoTask EXCEPT !.at = "status", !.of = c, !.after = "invalidate", !.status = s]
  <2>1. Assign(a, task) /\ UNCHANGED <<course, rendered, level, cached, overdue>>
        /\ (s = "published" => c \in rendered)
    BY <1>3 DEF PublishCourse
  <2>2. s \in CourseStatus \cup {"same"}
    BY DEF CourseStatus
  <2>3. task \in Task /\ task.at = "status" /\ task.of = c /\ task.status = s
    BY <2>2, NoTaskIs DEF Task, NoTask
  <2> HIDE DEF s, task
  <2> QED
    BY <2>1, <2>3, StatusBegins
<1>4. ASSUME UnpublishCourse(a, c) PROVE CatalogInv'
  <2> DEFINE s == IF course[c].status = "published" THEN "rendered" ELSE "same"
             task == [NoTask EXCEPT !.at = "status", !.of = c, !.after = "invalidate", !.status = s]
  <2>1. Assign(a, task) /\ UNCHANGED <<course, rendered, level, cached, overdue>>
        /\ (s = "published" => c \in rendered)
    BY <1>4 DEF UnpublishCourse
  <2>2. s \in CourseStatus \cup {"same"}
    BY DEF CourseStatus
  <2>3. task \in Task /\ task.at = "status" /\ task.of = c /\ task.status = s
    BY <2>2, NoTaskIs DEF Task, NoTask
  <2> HIDE DEF s, task
  <2> QED
    BY <2>1, <2>3, StatusBegins
<1>5. ASSUME StartRender(a, c) PROVE CatalogInv'
  <2> DEFINE s == IF course[c].status = "draft" THEN "rendered" ELSE "same"
             task == [NoTask EXCEPT !.at = "status", !.of = c, !.after = "render", !.status = s]
  <2>1. Assign(a, task) /\ UNCHANGED <<course, rendered, level, cached, overdue>>
        /\ (s = "published" => c \in rendered)
    BY <1>5 DEF StartRender
  <2>2. s \in CourseStatus \cup {"same"}
    BY DEF CourseStatus
  <2>3. task \in Task /\ task.at = "status" /\ task.of = c /\ task.status = s
    BY <2>2, NoTaskIs DEF Task, NoTask
  <2> HIDE DEF s, task
  <2> QED
    BY <2>1, <2>3, StatusBegins
<1> QED
  BY <1>1, <1>2, <1>3, <1>4, <1>5

(* The other requests that begin, and change nothing but their task.       *)
LEMMA OtherBegins ==
  ASSUME CatalogInv, NEW a \in Author
  PROVE  /\ \A c \in Course, from \in Level \cup {Nothing} : DeleteCourse(a, c, from) => CatalogInv'
         /\ \A courses \in SUBSET Course : StartCreateLevel(a, courses) => CatalogInv'
         /\ \A courses \in SUBSET Course, l \in Level :
              StartUpdateLevel(a, l, courses) => CatalogInv'
         /\ ReadCatalog(a) => CatalogInv'
         /\ CutOffAuthor(a) => CatalogInv'
<1>1. overdue \in BOOLEAN /\ cached.filled \in BOOLEAN
  BY DEF CatalogInv, CatalogTypeOK, Entry
<1>2. ASSUME NEW c \in Course, NEW from \in Level \cup {Nothing}, DeleteCourse(a, c, from)
      PROVE  CatalogInv'
  <2> DEFINE task == [NoTask EXCEPT !.at = "delete", !.of = c, !.from = from]
  <2>1. task \in Task /\ task.at = "delete" /\ task.of = c
    BY NoTaskIs DEF Task, NoTask
  <2>2. Sound(task, rendered)
    BY <2>1 DEF Sound
  <2>3. Assign(a, task) /\ UNCHANGED <<course, rendered, level, cached, overdue>>
    BY <1>2 DEF DeleteCourse
  <2> HIDE DEF task
  <2> QED
    BY <1>1, <2>1, <2>2, <2>3, TaskStep
<1>3. ASSUME NEW courses \in SUBSET Course, StartCreateLevel(a, courses) PROVE CatalogInv'
  <2> DEFINE task == [NoTask EXCEPT !.at = "level", !.courses = courses]
  <2>1. task \in Task /\ task.at = "level"
    BY NoTaskIs DEF Task, NoTask
  <2>2. Sound(task, rendered)
    BY <2>1 DEF Sound, OfCourse
  <2>3. Assign(a, task) /\ UNCHANGED <<course, rendered, level, cached, overdue>>
    BY <1>3 DEF StartCreateLevel
  <2> HIDE DEF task
  <2> QED
    BY <1>1, <2>1, <2>2, <2>3, TaskStep
<1>4. ASSUME NEW courses \in SUBSET Course, NEW l \in Level, StartUpdateLevel(a, l, courses)
      PROVE  CatalogInv'
  <2> DEFINE task == [NoTask EXCEPT !.at = "level", !.to = l, !.courses = courses]
  <2>1. task \in Task /\ task.at = "level"
    BY NoTaskIs DEF Task, NoTask
  <2>2. Sound(task, rendered)
    BY <2>1 DEF Sound, OfCourse
  <2>3. Assign(a, task) /\ UNCHANGED <<course, rendered, level, cached, overdue>>
    BY <1>4 DEF StartUpdateLevel
  <2> HIDE DEF task
  <2> QED
    BY <1>1, <2>1, <2>2, <2>3, TaskStep
<1>5. ASSUME ReadCatalog(a) PROVE CatalogInv'
  <2> DEFINE task == [NoTask EXCEPT !.at = "fill", !.entries = Catalog]
  <2>1. task \in Task /\ task.at = "fill"
    BY NoTaskIs, CatalogIs DEF Task, NoTask
  <2>2. Sound(task, rendered)
    BY <2>1 DEF Sound, OfCourse
  <2>3. Assign(a, task) /\ UNCHANGED <<course, rendered, level, cached, overdue>>
    BY <1>5 DEF ReadCatalog
  <2> HIDE DEF task
  <2> QED
    BY <1>1, <2>1, <2>2, <2>3, TaskStep
<1>6. ASSUME CutOffAuthor(a) PROVE CatalogInv'
  <2>1. overdue' \in BOOLEAN
    BY <1>1, <1>6 DEF CutOffAuthor, Pending
  <2> QED
    BY <1>6, <2>1, NoTaskIs, RestIs, TaskStep DEF CutOffAuthor
<1> QED
  BY <1>2, <1>3, <1>4, <1>5, <1>6

-------------------------------------------------------------------------------

(* A write of a request that goes on with the invalidation, or with a task *)
(* about the same course: what is left to show is what it has written.     *)
LEMMA WriteKeeps ==
  ASSUME CatalogInv, NEW a \in Author,
         \E task \in Task : Assign(a, task) /\ \A R : Sound(task, R),
         rendered \subseteq rendered', rendered' \subseteq Course,
         course' \in [Course -> CourseDoc], level' \in [Level -> LevelDoc],
         cached' \in Entry, overdue' \in BOOLEAN, PublishedIsRendered'
  PROVE  CatalogInv'
<1>1. PICK task \in Task : Assign(a, task) /\ \A R : Sound(task, R)
  OBVIOUS
<1>2. author' \in [Author -> Task] /\ \A b \in Author : Sound(author'[b], rendered')
  BY <1>1, AssignKeeps
<1> QED
  BY <1>2 DEF CatalogInv, CatalogTypeOK

LEMMA CoursesCreated ==
  ASSUME CatalogInv, NEW c \in Course
  PROVE  /\ CreateDepartmentCourse(c) => CatalogInv'
         /\ \A a \in Author, to \in Level \cup {Nothing} :
              CreateCourse(a, c, to) => CatalogInv'
<1>1. ASSUME course' = [course EXCEPT ![c].at = "live"], rendered' = rendered
      PROVE  course' \in [Course -> CourseDoc] /\ PublishedIsRendered'
  <2>1. course \in [Course -> CourseDoc]
    BY DEF CatalogInv, CatalogTypeOK
  <2>2. course' \in [Course -> CourseDoc] /\ \A d \in Course : course'[d].status = course[d].status
    BY <1>1, <2>1 DEF CourseDoc
  <2> QED
    BY <1>1, <2>2 DEF CatalogInv, PublishedIsRendered
<1>2. CreateDepartmentCourse(c) => CatalogInv'
  BY <1>1 DEF CreateDepartmentCourse, CatalogInv, CatalogTypeOK
<1>3. ASSUME NEW a \in Author, NEW to \in Level \cup {Nothing}, CreateCourse(a, c, to)
      PROVE  CatalogInv'
  <2> DEFINE task == [NoTask EXCEPT !.at = "add", !.of = c, !.to = to]
  <2>1. task \in Task /\ task.at = "add" /\ task.of = c
    BY NoTaskIs DEF Task, NoTask
  <2>2. \A R : Sound(task, R)
    BY <2>1 DEF Sound
  <2>3. Assign(a, task)
    BY <1>3 DEF CreateCourse
  <2> HIDE DEF task
  <2>4. course' \in [Course -> CourseDoc] /\ PublishedIsRendered'
    BY <1>1, <1>3 DEF CreateCourse
  <2>5. rendered' = rendered /\ level' = level /\ cached' = cached /\ overdue' = overdue
    BY <1>3 DEF CreateCourse
  <2> QED
    BY <2>1, <2>2, <2>3, <2>4, <2>5, WriteKeeps DEF CatalogInv, CatalogTypeOK
<1> QED
  BY <1>2, <1>3

(* Publishing writes what was checked before, and no rendering has gone.   *)
LEMMA StatusWritten ==
  ASSUME CatalogInv, NEW a \in Author, WriteStatus(a)
  PROVE  CatalogInv'
<1> DEFINE c == author[a].of
<1>1. author[a].at = "status" /\ c \in Course /\ author[a] \in Task
      /\ (author[a].status = "published" => c \in rendered)
  BY AuthorIs DEF WriteStatus, Sound, OfCourse
<1>2. \E task \in Task : Assign(a, task) /\ \A R : Sound(task, R)
  <2>1. CASE author[a].after = "invalidate"
    BY <2>1, InvalidateNextIs DEF WriteStatus
  <2>2. CASE author[a].after # "invalidate"
    <3>1. author[a].after \in {"idle", "render", "pull", "add"}
      BY <1>1, <2>2 DEF Task
    <3>2. Onward(a, author[a].after) /\ author[a].at \in OfCourse
      BY <1>1, <2>2 DEF WriteStatus, OfCourse
    <3> QED
      BY <3>1, <3>2, OnwardIs
  <2> QED
    BY <2>1, <2>2
<1>3. course' \in [Course -> CourseDoc] /\ PublishedIsRendered'
  <2>1. course \in [Course -> CourseDoc] /\ PublishedIsRendered /\ rendered' = rendered
    BY DEF WriteStatus, CatalogInv, CatalogTypeOK
  <2>2. CASE course' = course
    BY <2>1, <2>2 DEF PublishedIsRendered
  <2>3. CASE course' = [course EXCEPT ![c].status = author[a].status] /\ author[a].status # "same"
    <3>1. author[a].status \in CourseStatus
      BY <1>1, <2>3 DEF Task
    <3>2. course' \in [Course -> CourseDoc] /\ course'[c].status = author[a].status
          /\ \A d \in Course \ {c} : course'[d] = course[d]
      BY <1>1, <2>1, <2>3, <3>1 DEF CourseDoc
    <3> QED
      BY <1>1, <2>1, <3>2 DEF PublishedIsRendered
  <2> QED
    BY <2>2, <2>3 DEF WriteStatus
<1>4. rendered' = rendered /\ level' = level /\ cached' = cached /\ overdue' = overdue
  BY DEF WriteStatus
<1> QED
  BY <1>2, <1>3, <1>4, WriteKeeps DEF CatalogInv, CatalogTypeOK

LEMMA Rendering ==
  ASSUME CatalogInv, NEW a \in Author, Render(a)
  PROVE  CatalogInv'
<1>1. author[a].of \in Course
  BY AuthorIs DEF Render, Sound, OfCourse
<1>2. rendered \subseteq rendered' /\ rendered' \subseteq Course
  BY <1>1 DEF Render, CatalogInv, CatalogTypeOK
<1>3. \E task \in Task : Assign(a, task) /\ \A R : Sound(task, R)
  BY InvalidateNextIs, NoTaskIs, RestIs DEF Render
<1>4. course' = course /\ level' = level /\ cached' = cached /\ overdue' = overdue
  BY DEF Render
<1>5. PublishedIsRendered'
  BY <1>2, <1>4 DEF PublishedIsRendered, CatalogInv
<1> QED
  BY <1>2, <1>3, <1>4, <1>5, WriteKeeps DEF CatalogInv, CatalogTypeOK

LEMMA Removing ==
  ASSUME CatalogInv, NEW a \in Author, RemoveCourse(a)
  PROVE  CatalogInv'
<1>1. author[a].of \in Course /\ author[a].at \in OfCourse
  BY AuthorIs DEF RemoveCourse, Sound, OfCourse
<1>2. \E task \in Task : Assign(a, task) /\ \A R : Sound(task, R)
  BY <1>1, OnwardIs DEF RemoveCourse
<1>3. course' \in [Course -> CourseDoc] /\ \A d \in Course : course'[d].status = course[d].status
  BY <1>1 DEF RemoveCourse, CatalogInv, CatalogTypeOK, CourseDoc
<1>4. rendered' = rendered /\ level' = level /\ cached' = cached /\ overdue' = overdue
  BY DEF RemoveCourse
<1>5. PublishedIsRendered'
  BY <1>3, <1>4 DEF PublishedIsRendered, CatalogInv
<1> QED
  BY <1>2, <1>3, <1>4, <1>5, WriteKeeps DEF CatalogInv, CatalogTypeOK

(* The writes of the lists of the levels. *)
LEMMA ListsWritten ==
  ASSUME CatalogInv, NEW a \in Author,
         PullCourse(a) \/ AddCourse(a) \/ \E l \in Level : WriteLevel(a, l) \/ DeleteProgramLevel(a, l)
  PROVE  CatalogInv'
<1>1. level \in [Level -> LevelDoc] /\ author[a] \in Task /\ author[a].courses \subseteq Course
  BY AuthorIs DEF CatalogInv, CatalogTypeOK, Task
<1>2. level' \in [Level -> LevelDoc]
  <2>1. ASSUME PullCourse(a) PROVE level' \in [Level -> LevelDoc]
    <3>1. \A l \in Level : [level[l] EXCEPT !.courses = @ \ {author[a].of}] \in LevelDoc
      BY <1>1 DEF LevelDoc
    <3> QED
      BY <1>1, <2>1, <3>1 DEF PullCourse
  <2>2. ASSUME AddCourse(a) PROVE level' \in [Level -> LevelDoc]
    <3>1. author[a].of \in Course
      BY <2>2, AuthorIs DEF AddCourse, Sound, OfCourse
    <3>2. \A l \in Level : [level[l] EXCEPT !.courses = @ \cup {author[a].of}] \in LevelDoc
      BY <1>1, <3>1 DEF LevelDoc
    <3> QED
      BY <1>1, <2>2, <3>2 DEF AddCourse
  <2>3. ASSUME NEW l \in Level, WriteLevel(a, l) PROVE level' \in [Level -> LevelDoc]
    <3>1. [at |-> "live", courses |-> author[a].courses] \in LevelDoc
      BY <1>1 DEF LevelDoc
    <3> QED
      BY <1>1, <2>3, <3>1 DEF WriteLevel
  <2>4. ASSUME NEW l \in Level, DeleteProgramLevel(a, l) PROVE level' \in [Level -> LevelDoc]
    BY <1>1, <2>4 DEF DeleteProgramLevel, LevelDoc
  <2> QED
    BY <2>1, <2>2, <2>3, <2>4
<1>3. \E task \in Task : Assign(a, task) /\ \A R : Sound(task, R)
  <2>1. ASSUME PullCourse(a) PROVE \E task \in Task : Assign(a, task) /\ \A R : Sound(task, R)
    BY <2>1, OnwardIs DEF PullCourse, OfCourse
  <2>2. PullCourse(a) \/ InvalidateNext(a)
    BY DEF AddCourse, WriteLevel, DeleteProgramLevel
  <2> QED
    BY <2>1, <2>2, InvalidateNextIs
<1>4. course' = course /\ rendered' = rendered /\ cached' = cached /\ overdue' = overdue
  BY DEF PullCourse, AddCourse, WriteLevel, DeleteProgramLevel
<1>5. PublishedIsRendered'
  BY <1>4 DEF PublishedIsRendered, CatalogInv
<1> QED
  BY <1>2, <1>3, <1>4, <1>5, WriteKeeps DEF CatalogInv, CatalogTypeOK

LEMMA Caching ==
  ASSUME CatalogInv,
         ExpireEntry \/ \E a \in Author : Invalidate(a) \/ FillCache(a)
  PROVE  CatalogInv'
<1>1. Empty \in Entry /\ cached \in Entry /\ cached.filled \in BOOLEAN
  BY DEF Empty, Entry, Listing, CatalogInv, CatalogTypeOK
<1>2. CASE ExpireEntry
  BY <1>1, <1>2 DEF ExpireEntry, CatalogInv, CatalogTypeOK, PublishedIsRendered
<1>3. ASSUME NEW a \in Author, Invalidate(a) \/ FillCache(a) PROVE CatalogInv'
  <2>1. cached' \in Entry /\ overdue' \in BOOLEAN
    <3>1. author[a].entries \in Listing
      BY AuthorIs DEF Task
    <3>2. [filled |-> TRUE, entries |-> author[a].entries] \in Entry
      BY <3>1 DEF Entry
    <3> QED
      BY <1>1, <1>3, <3>2 DEF Invalidate, FillCache
  <2>2. Assign(a, NoTask) /\ course' = course /\ rendered' = rendered /\ level' = level
    BY <1>3 DEF Invalidate, FillCache
  <2>3. PublishedIsRendered'
    BY <2>2 DEF PublishedIsRendered, CatalogInv
  <2> QED
    BY <2>1, <2>2, <2>3, NoTaskIs, RestIs, WriteKeeps DEF CatalogInv, CatalogTypeOK
<1> QED
  BY <1>2, <1>3

-------------------------------------------------------------------------------

LEMMA CatalogStep == CatalogInv /\ [CatalogNext]_catalog => CatalogInv'
<1> SUFFICES ASSUME CatalogInv, [CatalogNext]_catalog PROVE CatalogInv'
  OBVIOUS
<1>1. CASE UNCHANGED catalog
  BY <1>1 DEF catalog, CatalogInv, CatalogTypeOK, PublishedIsRendered
<1>2. CASE NoChange
  BY <1>1, <1>2 DEF NoChange
<1>3. CASE ExpireEntry
  BY <1>3, Caching
<1>4. ASSUME NEW c \in Course, CreateDepartmentCourse(c) PROVE CatalogInv'
  BY <1>4, CoursesCreated
<1>5. ASSUME NEW a \in Author, NEW c \in Course, NEW to \in Level \cup {Nothing},
             CreateCourse(a, c, to)
      PROVE  CatalogInv'
  BY <1>5, CoursesCreated
<1>6. ASSUME NEW a \in Author, NEW c \in Course, NEW from \in Level \cup {Nothing},
             NEW to \in Level \cup {Nothing},
             \/ \E s \in CourseStatus \cup {"same"} : UpdateCourse(a, c, s, from, to)
             \/ DeleteCourse(a, c, from)
      PROVE  CatalogInv'
  BY <1>6, StatusSteps, OtherBegins
<1>7. ASSUME NEW a \in Author, NEW c \in Course,
             \/ \E s \in CourseStatus \cup {"same"} : UpdateContentCourse(a, c, s)
             \/ PublishCourse(a, c) \/ UnpublishCourse(a, c) \/ StartRender(a, c)
      PROVE  CatalogInv'
  BY <1>7, StatusSteps
<1>8. ASSUME NEW a \in Author,
             WriteStatus(a) \/ Render(a) \/ RemoveCourse(a) \/ PullCourse(a) \/ AddCourse(a)
      PROVE  CatalogInv'
  BY <1>8, StatusWritten, Rendering, Removing, ListsWritten
<1>9. ASSUME NEW a \in Author, NEW courses \in SUBSET Course,
             \/ StartCreateLevel(a, courses)
             \/ \E l \in Level : StartUpdateLevel(a, l, courses)
      PROVE  CatalogInv'
  BY <1>9, OtherBegins
<1>10. ASSUME NEW a \in Author, NEW l \in Level, WriteLevel(a, l) \/ DeleteProgramLevel(a, l)
       PROVE  CatalogInv'
  BY <1>10, ListsWritten
<1>11. ASSUME NEW a \in Author,
              Invalidate(a) \/ ReadCatalog(a) \/ FillCache(a) \/ CutOffAuthor(a)
       PROVE  CatalogInv'
  BY <1>11, Caching, OtherBegins
<1> QED
  BY <1>1, <1>2, <1>3, <1>4, <1>5, <1>6, <1>7, <1>8, <1>9, <1>10, <1>11 DEF CatalogNext

(* Every reachable state is well typed, and a request that is to publish a *)
(* course, read as rendered before, still finds it so when it writes       *)
(* (courseCtrl.ts, programLevelCtrl.ts, courseCatalogCache.ts).            *)
THEOREM CatalogCorrect == CatalogSpec => []CatalogInv
BY InitCatalog, CatalogStep, PTL DEF CatalogSpec

(* Every variable has its type, however the requests interleave. *)
THEOREM CatalogTypeCorrect == CatalogSpec => []CatalogTypeOK
<1>1. CatalogInv => CatalogTypeOK
  BY DEF CatalogInv
<1> QED
  BY <1>1, CatalogCorrect, PTL

(* A published course has a rendered version, for any number of courses    *)
(* and of overlapping requests (courseCtrl.ts:246-253, 395-414).           *)
THEOREM PublishedIsRenderedCorrect == CatalogSpec => []PublishedIsRendered
<1>1. CatalogInv => PublishedIsRendered
  BY DEF CatalogInv
<1> QED
  BY <1>1, CatalogCorrect, PTL

-------------------------------------------------------------------------------
(* The cached list.  Of a step it matters which lists of levels it writes, *)
(* what it does to the entry, and who waits to invalidate before and after.*)

LEMMA InitTrails == CatalogInit => CatalogTrails
BY DEF CatalogInit, Empty, CatalogTrails

(* Without a write of a list, of the entry or of the mark, the list trails *)
(* as long as nobody who is to invalidate it gives that up.                *)
LEMMA NoWriteTrails ==
  ASSUME CatalogTrails, UNCHANGED <<level, cached, overdue>>,
         \A b \in Author : Pending(b) => Pending(b)'
  PROVE  CatalogTrails'
BY DEF CatalogTrails, Catalog

(* A request that was not to invalidate takes another task. *)
LEMMA FreeStays ==
  ASSUME CatalogInv, NEW a \in Author, NEW task, Assign(a, task), ~Pending(a)
  PROVE  \A b \in Author : Pending(b) => Pending(b)'
BY DEF CatalogInv, CatalogTypeOK, Assign, Pending

(* Who goes on to a write of a list or to the invalidation is pending.     *)
LEMMA GoesOnPending ==
  ASSUME CatalogInv, NEW a \in Author,
         InvalidateNext(a) \/ Onward(a, "pull") \/ Onward(a, "add")
  PROVE  Pending(a)' /\ \A b \in Author : Pending(b) => Pending(b)'
<1>1. author \in [Author -> Task]
  BY DEF CatalogInv, CatalogTypeOK
<1>2. author'[a].at \in {"invalidate", "pull", "add"} /\ \A b \in Author \ {a} : author'[b] = author[b]
  BY <1>1 DEF InvalidateNext, Onward, Assign, NoTask
<1> QED
  BY <1>2 DEF Pending

(* The first tasks of requests.  All but two begin free and write nothing; *)
(* the two create a course, which changes no list.                         *)
LEMMA BeginTrails ==
  ASSUME CatalogInv, CatalogTrails, NEW a \in Author, NEW task, Free(a), Assign(a, task),
         UNCHANGED <<level, cached, overdue>>
  PROVE  CatalogTrails'
<1>1. ~Pending(a)
  BY DEF Free, Pending
<1> QED
  BY <1>1, FreeStays, NoWriteTrails

(* Deletions, renderings and writes of a status touch no list. *)
LEMMA CourseTrails ==
  ASSUME CatalogInv, CatalogTrails, NEW a \in Author,
         WriteStatus(a) \/ Render(a) \/ RemoveCourse(a)
  PROVE  CatalogTrails'
<1>1. ~Pending(a) /\ UNCHANGED <<level, cached, overdue>>
  BY DEF WriteStatus, Render, RemoveCourse, Pending
<1>2. \E task : Assign(a, task)
  BY DEF WriteStatus, Render, RemoveCourse, Onward, InvalidateNext
<1> QED
  BY <1>1, <1>2, FreeStays, NoWriteTrails

(* Whoever writes a list waits to invalidate afterwards. *)
LEMMA ListTrails ==
  ASSUME CatalogInv, CatalogTrails, NEW a \in Author,
         PullCourse(a) \/ AddCourse(a) \/ \E l \in Level : WriteLevel(a, l) \/ DeleteProgramLevel(a, l)
  PROVE  CatalogTrails'
<1>1. InvalidateNext(a) \/ Onward(a, "add")
  BY DEF PullCourse, AddCourse, WriteLevel, DeleteProgramLevel
<1>2. Pending(a)'
  BY <1>1, GoesOnPending
<1> QED
  BY <1>2 DEF CatalogTrails

(* An invalidation empties the entry or marks it, and so does the cut of a *)
(* request that was on its way there.                                      *)
LEMMA CacheTrails ==
  ASSUME CatalogInv, CatalogTrails,
         ExpireEntry \/ \E a \in Author : Invalidate(a) \/ FillCache(a) \/ CutOffAuthor(a)
  PROVE  CatalogTrails'
<1>1. Empty.filled = FALSE
  BY DEF Empty
<1>2. CASE ExpireEntry
  BY <1>1, <1>2 DEF ExpireEntry, CatalogTrails
<1>3. ASSUME NEW a \in Author, Invalidate(a) PROVE CatalogTrails'
  BY <1>1, <1>3 DEF Invalidate, CatalogTrails
<1>4. ASSUME NEW a \in Author, FillCache(a) PROVE CatalogTrails'
  <2>1. cached' = [filled |-> TRUE, entries |-> author[a].entries] /\ Catalog' = Catalog
    BY <1>4 DEF FillCache, Catalog
  <2>2. overdue' = (author[a].entries # Catalog)
    BY <1>4 DEF FillCache
  <2> QED
    BY <2>1, <2>2 DEF CatalogTrails
<1>5. ASSUME NEW a \in Author, CutOffAuthor(a) PROVE CatalogTrails'
  <2>1. cached' = cached /\ Catalog' = Catalog /\ overdue' = (overdue \/ (Pending(a) /\ cached.filled))
    BY <1>5 DEF CutOffAuthor, Catalog
  <2>2. CASE Pending(a)
    BY <2>1, <2>2 DEF CatalogTrails
  <2>3. CASE ~Pending(a)
    <3>1. \A b \in Author : Pending(b) => Pending(b)'
      BY <1>5, <2>3, FreeStays DEF CutOffAuthor
    <3> QED
      BY <2>1, <3>1 DEF CatalogTrails
  <2> QED
    BY <2>2, <2>3
<1> QED
  BY <1>2, <1>3, <1>4, <1>5

LEMMA TrailsStep ==
  CatalogInv /\ CatalogTrails /\ [CatalogNext]_catalog => CatalogTrails'
<1> SUFFICES ASSUME CatalogInv, CatalogTrails, [CatalogNext]_catalog PROVE CatalogTrails'
  OBVIOUS
<1>1. CASE UNCHANGED catalog
  BY <1>1 DEF catalog, CatalogTrails, Catalog, Pending
<1>2. CASE NoChange
  BY <1>1, <1>2 DEF NoChange
<1>3. CASE ExpireEntry
  BY <1>3, CacheTrails
<1>4. ASSUME NEW c \in Course, CreateDepartmentCourse(c) PROVE CatalogTrails'
  BY <1>4, NoWriteTrails DEF CreateDepartmentCourse, Pending
<1>5. ASSUME NEW a \in Author, NEW c \in Course, NEW to \in Level \cup {Nothing},
             CreateCourse(a, c, to)
      PROVE  CatalogTrails'
  BY <1>5, BeginTrails DEF CreateCourse
<1>6. ASSUME NEW a \in Author, NEW c \in Course, NEW from \in Level \cup {Nothing},
             NEW to \in Level \cup {Nothing},
             \/ \E s \in CourseStatus \cup {"same"} : UpdateCourse(a, c, s, from, to)
             \/ DeleteCourse(a, c, from)
      PROVE  CatalogTrails'
  BY <1>6, BeginTrails DEF UpdateCourse, DeleteCourse
<1>7. ASSUME NEW a \in Author, NEW c \in Course,
             \/ \E s \in CourseStatus \cup {"same"} : UpdateContentCourse(a, c, s)
             \/ PublishCourse(a, c) \/ UnpublishCourse(a, c) \/ StartRender(a, c)
      PROVE  CatalogTrails'
  BY <1>7, BeginTrails DEF UpdateContentCourse, PublishCourse, UnpublishCourse, StartRender
<1>8. ASSUME NEW a \in Author,
             WriteStatus(a) \/ Render(a) \/ RemoveCourse(a) \/ PullCourse(a) \/ AddCourse(a)
      PROVE  CatalogTrails'
  BY <1>8, CourseTrails, ListTrails
<1>9. ASSUME NEW a \in Author, NEW courses \in SUBSET Course,
             \/ StartCreateLevel(a, courses)
             \/ \E l \in Level : StartUpdateLevel(a, l, courses)
      PROVE  CatalogTrails'
  BY <1>9, BeginTrails DEF StartCreateLevel, StartUpdateLevel
<1>10. ASSUME NEW a \in Author, NEW l \in Level, WriteLevel(a, l) \/ DeleteProgramLevel(a, l)
       PROVE  CatalogTrails'
  BY <1>10, ListTrails
<1>11. ASSUME NEW a \in Author,
              Invalidate(a) \/ ReadCatalog(a) \/ FillCache(a) \/ CutOffAuthor(a)
       PROVE  CatalogTrails'
  BY <1>11, CacheTrails, BeginTrails DEF ReadCatalog
<1> QED
  BY <1>1, <1>2, <1>3, <1>4, <1>5, <1>6, <1>7, <1>8, <1>9, <1>10, <1>11 DEF CatalogNext

(* The cached list of a program is the one the levels give, or somebody is *)
(* on the way to drop it, or it is marked to run out: for any number of    *)
(* overlapping requests, with Redis there or not                           *)
(* (courseCatalogCache.ts:76-108).                                         *)
THEOREM CatalogTrailsCorrect == CatalogSpec => []CatalogTrails
BY InitTrails, TrailsStep, CatalogCorrect, PTL DEF CatalogSpec

-------------------------------------------------------------------------------
(* The academic records. *)

(* What a request may be about to write: a question that is about to be    *)
(* filed has been stored, and stored questions are never removed.          *)
AskedIsReady(work, stored) ==
  work # NoName =>
    /\ work.at = "ask" => work.question \in Question /\ work.name \in Name
    /\ work.at = "push" => work.question \in Question /\ stored[work.question] # NoName

RecordsInv ==
  /\ RecordsTypeOK
  /\ RecordsKept
  /\ \A v \in Clerk : AskedIsReady(clerk[v], question)

LEMMA RecordsBegin == RecordsInit => RecordsInv
<1> SUFFICES ASSUME RecordsInit PROVE RecordsInv
  OBVIOUS
<1>1. NewRecord \in Records /\ NewRecord.questions = {} /\ ~NewRecord.archived
      /\ ~NewRecord.dated
  BY DEF NewRecord, Records
<1>2. RecordsTypeOK
  BY <1>1 DEF RecordsInit, RecordsTypeOK, Work
<1>3. RecordsKept
  BY <1>1 DEF RecordsInit, RecordsKept, ArchivedDated, QuestionsFiled
<1> QED
  BY <1>2, <1>3 DEF RecordsInit, RecordsInv, AskedIsReady

(* A step that begins or ends a request and leaves the records alone.      *)
LEMMA ClerkKeeps ==
  ASSUME RecordsInv, NEW v \in Clerk, NEW work \in Work, AskedIsReady(work, question),
         clerk' = [clerk EXCEPT ![v] = work], UNCHANGED <<record, question, filed>>
  PROVE  RecordsInv'
<1>1. RecordsTypeOK'
  BY DEF RecordsInv, RecordsTypeOK
<1>2. RecordsKept'
  BY DEF RecordsInv, RecordsKept, ArchivedDated, QuestionsFiled
<1>3. \A w \in Clerk : AskedIsReady(clerk'[w], question')
  BY DEF RecordsInv, RecordsTypeOK, AskedIsReady
<1> QED
  BY <1>1, <1>2, <1>3 DEF RecordsInv

(* A request that begins. *)
LEMMA BeginsKeeps ==
  ASSUME RecordsInv, NEW v \in Clerk, NEW i \in Item, NEW n \in Name \cup {NoName},
         NEW q \in Question \cup {NoName},
         NEW at \in {"insert", "rename", "archive", "unarchive", "ask"},
         at = "ask" => q \in Question /\ n \in Name, Begins(v, at, i, n, q)
  PROVE  RecordsInv'
<1> DEFINE work == [at |-> at, record |-> i, name |-> n, question |-> q]
<1>1. work \in Work /\ AskedIsReady(work, question)
  BY DEF Work, AskedIsReady
<1>2. clerk' = [clerk EXCEPT ![v] = work] /\ UNCHANGED <<record, question, filed>>
  BY DEF Begins
<1> HIDE DEF work
<1> QED
  BY <1>1, <1>2, ClerkKeeps

LEMMA ClerkIs ==
  ASSUME RecordsInv, NEW v \in Clerk, clerk[v] # NoName
  PROVE  /\ clerk[v].record \in Item
         /\ clerk[v].name \in Name \cup {NoName}
         /\ clerk[v].question \in Question \cup {NoName}
         /\ AskedIsReady(clerk[v], question)
BY DEF RecordsInv, RecordsTypeOK, Work

(* A write of a record that leaves the questions of all records alone, and *)
(* the dates of archiving true, whatever becomes of the request.           *)
LEMMA RecordKeeps ==
  ASSUME RecordsInv, NEW i \in Item, NEW new \in Records,
         new.questions = record[i].questions, new.archived <=> new.dated,
         record' = [record EXCEPT ![i] = new],
         \/ UNCHANGED clerk
         \/ \E v \in Clerk : Ends(v),
         UNCHANGED <<question, filed>>
  PROVE  RecordsInv'
<1>1. record \in [Item -> Records] /\ clerk \in [Clerk -> Work]
  BY DEF RecordsInv, RecordsTypeOK
<1>2. record' \in [Item -> Records] /\ clerk' \in [Clerk -> Work]
  BY <1>1 DEF Ends, Work
<1>3. RecordsTypeOK'
  BY <1>2 DEF RecordsInv, RecordsTypeOK
<1>4. \A j \in Item : record'[j].questions = record[j].questions
                     /\ (record'[j].archived <=> record'[j].dated)
  BY <1>1 DEF RecordsInv, RecordsKept, ArchivedDated
<1>5. RecordsKept'
  BY <1>4, <1>3 DEF RecordsInv, RecordsKept, ArchivedDated, QuestionsFiled, RecordsTypeOK
<1>6. \A w \in Clerk : AskedIsReady(clerk'[w], question')
  BY <1>1 DEF RecordsInv, AskedIsReady, Ends
<1> QED
  BY <1>3, <1>5, <1>6 DEF RecordsInv

(* A request that ends without a write. *)
LEMMA EndsKeeps ==
  ASSUME RecordsInv, NEW v \in Clerk, Ends(v), UNCHANGED <<record, question, filed>>
  PROVE  RecordsInv'
<1>1. NoName \in Work /\ AskedIsReady(NoName, question)
  BY DEF Work, AskedIsReady
<1> QED
  BY <1>1, ClerkKeeps DEF Ends

LEMMA RecordIs ==
  ASSUME RecordsInv, NEW i \in Item
  PROVE  record[i] \in Records /\ (record[i].archived <=> record[i].dated)
BY DEF RecordsInv, RecordsTypeOK, RecordsKept, ArchivedDated

LEMMA NamesKeep ==
  ASSUME RecordsInv, NEW v \in Clerk, Insert(v) \/ WriteName(v)
  PROVE  RecordsInv'
<1> PICK i \in Item : i = clerk[v].record
  BY ClerkIs DEF Insert, WriteName, At
<1> PICK n \in Name \cup {NoName} : n = clerk[v].name
  BY ClerkIs DEF Insert, WriteName, At
<1>1. CASE Ends(v) /\ UNCHANGED <<record, question, filed>>
  BY <1>1, EndsKeeps
<1>2. CASE Insert(v) /\ ~UNCHANGED record
  <2> DEFINE live == [record[i] EXCEPT !.at = "live"]
  <2>1. live \in Records /\ live.questions = record[i].questions
        /\ (live.archived <=> live.dated)
    BY RecordIs DEF Records
  <2> DEFINE new == [live EXCEPT !.name = n]
  <2>2. record' = [record EXCEPT ![i] = new]
    BY <1>2, RecordIs DEF Insert, Records, RecordsInv, RecordsTypeOK
  <2> HIDE DEF live
  <2>3. new \in Records /\ new.questions = record[i].questions
        /\ (new.archived <=> new.dated)
    BY <2>1 DEF Records
  <2> HIDE DEF new
  <2>4. Ends(v) /\ UNCHANGED <<question, filed>>
    BY <1>2 DEF Insert
  <2> QED
    BY <2>2, <2>3, <2>4, RecordKeeps
<1>3. CASE WriteName(v) /\ ~UNCHANGED record
  <2> DEFINE new == [record[i] EXCEPT !.name = n]
  <2>1. record' = [record EXCEPT ![i] = new]
    BY <1>3 DEF WriteName
  <2>2. new \in Records /\ new.questions = record[i].questions
        /\ (new.archived <=> new.dated)
    BY RecordIs DEF Records
  <2> HIDE DEF new
  <2>3. Ends(v) /\ UNCHANGED <<question, filed>>
    BY <1>3 DEF WriteName
  <2> QED
    BY <2>1, <2>2, <2>3, RecordKeeps
<1> QED
  BY <1>1, <1>2, <1>3 DEF Insert, WriteName

(* Archiving sets the flag and the date by one write, and so does undoing  *)
(* it: an overlapping request finds the two together.                      *)
LEMMA ArchivesKeep ==
  ASSUME RecordsInv, NEW v \in Clerk, SaveArchived(v) \/ SaveUnarchived(v)
  PROVE  RecordsInv'
<1> PICK i \in Item : i = clerk[v].record
  BY ClerkIs DEF SaveArchived, SaveUnarchived, At
<1>1. CASE ~LiveRecord(i)
  BY <1>1, EndsKeeps DEF SaveArchived, SaveUnarchived
<1>2. CASE LiveRecord(i)
  <2> PICK to \in BOOLEAN :
        record' = [record EXCEPT ![i].archived = to, ![i].dated = to]
    BY <1>2 DEF SaveArchived, SaveUnarchived
  <2> DEFINE half == [record[i] EXCEPT !.archived = to]
  <2>1. half \in Records /\ half.questions = record[i].questions /\ half.archived = to
    BY RecordIs DEF Records
  <2> DEFINE new == [half EXCEPT !.dated = to]
  <2>2. record' = [record EXCEPT ![i] = new]
    BY RecordIs DEF Records, RecordsInv, RecordsTypeOK
  <2> HIDE DEF half
  <2>3. new \in Records /\ new.questions = record[i].questions
        /\ (new.archived <=> new.dated)
    BY <2>1 DEF Records
  <2> HIDE DEF new
  <2>4. Ends(v) /\ UNCHANGED <<question, filed>>
    BY DEF SaveArchived, SaveUnarchived
  <2> QED
    BY <2>2, <2>3, <2>4, RecordKeeps
<1> QED
  BY <1>1, <1>2

LEMMA DeletesKeep ==
  ASSUME RecordsInv, NEW i \in Item, Deletes(i)
  PROVE  RecordsInv'
<1> DEFINE new == [record[i] EXCEPT !.at = "gone"]
<1>1. record' = [record EXCEPT ![i] = new] /\ UNCHANGED <<question, clerk, filed>>
  BY DEF Deletes, deleteProgram, deleteAcademicTerm, deleteAcademicYear, deleteYearGroup,
         deleteExam, Delete
<1>2. new \in Records /\ new.questions = record[i].questions
      /\ (new.archived <=> new.dated)
  BY RecordIs DEF Records
<1> HIDE DEF new
<1> QED
  BY <1>1, <1>2, RecordKeeps

(* A question keeps being stored once it is. *)
LEMMA StoredKeeps ==
  ASSUME RecordsInv, NEW q \in Question, NEW text \in Name,
         question' = [question EXCEPT ![q] = text], UNCHANGED <<record, filed>>
  PROVE  /\ question' \in [Question -> Name \cup {NoName}]
         /\ question'[q] # NoName
         /\ \A other \in Question : question[other] # NoName => question'[other] # NoName
         /\ RecordsKept'
         /\ \A w \in Clerk : AskedIsReady(clerk[w], question')
<1>1. question \in [Question -> Name \cup {NoName}] /\ record \in [Item -> Records]
  BY DEF RecordsInv, RecordsTypeOK
<1>2. question' \in [Question -> Name \cup {NoName}] /\ question'[q] # NoName
      /\ \A other \in Question : question[other] # NoName => question'[other] # NoName
  BY <1>1, RecordsAssumption
<1>3. \A i \in Item : record[i].questions \subseteq Question
  BY <1>1 DEF Records
<1>4. RecordsKept'
  BY <1>2, <1>3 DEF RecordsInv, RecordsKept, ArchivedDated, QuestionsFiled
<1>5. \A w \in Clerk : AskedIsReady(clerk[w], question')
  BY <1>2 DEF RecordsInv, AskedIsReady
<1> QED
  BY <1>2, <1>4, <1>5

LEMMA StoreQuestionKeeps ==
  ASSUME RecordsInv, NEW v \in Clerk, StoreQuestion(v)
  PROVE  RecordsInv'
<1>1. clerk[v] # NoName /\ clerk[v].at = "ask" /\ clerk[v] \in Work
  BY DEF StoreQuestion, At, RecordsInv, RecordsTypeOK
<1> PICK q \in Question : q = clerk[v].question
  BY <1>1, ClerkIs DEF AskedIsReady
<1> PICK text \in Name : text = clerk[v].name
  BY <1>1, ClerkIs DEF AskedIsReady
<1>2. question' = [question EXCEPT ![q] = text] /\ UNCHANGED <<record, filed>>
  BY DEF StoreQuestion
<1> DEFINE next == [clerk[v] EXCEPT !.at = "push"]
<1>3. clerk' = [clerk EXCEPT ![v] = next]
  BY DEF StoreQuestion
<1>4. next \in Work /\ next.question = q /\ next.at = "push"
  BY <1>1 DEF Work
<1> HIDE DEF next
<1>5. clerk' \in [Clerk -> Work]
  BY <1>3, <1>4 DEF RecordsInv, RecordsTypeOK
<1>6. RecordsTypeOK'
  BY <1>2, <1>5, StoredKeeps DEF RecordsInv, RecordsTypeOK
<1>7. AskedIsReady(next, question')
  BY <1>2, <1>4, StoredKeeps DEF AskedIsReady
<1>8. \A w \in Clerk : AskedIsReady(clerk'[w], question')
  BY <1>2, <1>3, <1>7, StoredKeeps DEF RecordsInv, RecordsTypeOK
<1> QED
  BY <1>2, <1>6, <1>8, StoredKeeps DEF RecordsInv

LEMMA PushQuestionKeeps ==
  ASSUME RecordsInv, NEW v \in Clerk, PushQuestion(v)
  PROVE  RecordsInv'
<1>1. clerk[v] # NoName /\ clerk[v].at = "push"
  BY DEF PushQuestion, At
<1> PICK i \in Item : i = clerk[v].record
  BY <1>1, ClerkIs
<1> PICK q \in Question : q = clerk[v].question /\ question[q] # NoName
  BY <1>1, ClerkIs DEF AskedIsReady
<1>2. CASE ~LiveRecord(i)
  BY <1>2, EndsKeeps DEF PushQuestion
<1>3. CASE LiveRecord(i)
  <2> DEFINE new == [record[i] EXCEPT !.questions = @ \cup {q}]
  <2>1. record' = [record EXCEPT ![i] = new] /\ filed' = [filed EXCEPT ![q] = i]
        /\ Ends(v) /\ UNCHANGED question
    BY <1>3 DEF PushQuestion
  <2>2. new \in Records /\ new.questions = record[i].questions \cup {q}
        /\ (new.archived <=> new.dated)
    BY RecordIs DEF Records
  <2> HIDE DEF new
  <2>3. RecordsTypeOK'
    BY <2>1, <2>2 DEF RecordsInv, RecordsTypeOK, Ends, Work
  <2>4. \A j \in Item : /\ record[j].questions \subseteq record'[j].questions
                       /\ record'[j].questions \subseteq record[j].questions \cup {q}
    BY <2>1, <2>2 DEF RecordsInv, RecordsTypeOK
  <2>5. ArchivedDated'
    BY <2>1, <2>2 DEF RecordsInv, RecordsTypeOK, RecordsKept, ArchivedDated
  <2>6. q \in record'[i].questions
    BY <2>1, <2>2 DEF RecordsInv, RecordsTypeOK
  <2>7. \A p \in Question : filed'[p] # NoName => p \in record'[filed'[p]].questions
    <3> SUFFICES ASSUME NEW p \in Question, filed'[p] # NoName
                 PROVE  p \in record'[filed'[p]].questions
      OBVIOUS
    <3>1. CASE p = q
      BY <3>1, <2>1, <2>6 DEF RecordsInv, RecordsTypeOK
    <3>2. CASE p # q
      <4>1. filed'[p] = filed[p] /\ filed[p] \in Item
        BY <3>2, <2>1 DEF RecordsInv, RecordsTypeOK
      <4>2. p \in record[filed[p]].questions
        BY <4>1 DEF RecordsInv, RecordsKept, QuestionsFiled
      <4> QED
        BY <4>1, <4>2, <2>4
    <3> QED
      BY <3>1, <3>2
  <2>8. \A j \in Item : \A p \in record'[j].questions : question'[p] # NoName
    BY <2>1, <2>4 DEF RecordsInv, RecordsKept, QuestionsFiled
  <2>9. \A w \in Clerk : AskedIsReady(clerk'[w], question')
    BY <2>1 DEF RecordsInv, RecordsTypeOK, AskedIsReady, Ends
  <2> QED
    BY <2>3, <2>5, <2>7, <2>8, <2>9 DEF RecordsInv, RecordsKept, QuestionsFiled
<1> QED
  BY <1>2, <1>3

LEMMA RecordsStep == RecordsInv /\ [RecordsNext]_records => RecordsInv'
<1> SUFFICES ASSUME RecordsInv, [RecordsNext]_records PROVE RecordsInv'
  OBVIOUS
<1>1. CASE UNCHANGED records
  BY <1>1 DEF records, RecordsInv, RecordsTypeOK, RecordsKept, ArchivedDated,
              QuestionsFiled, AskedIsReady
<1>2. ASSUME NEW v \in Clerk, NEW i \in Item, Archives(v, i) PROVE RecordsInv'
  BY <1>2, BeginsKeeps DEF Archives, archiveProgram, unarchiveProgram, archiveAcademicTerm,
       unarchiveAcademicTerm, StartArchive, StartUnarchive
<1>3. ASSUME NEW v \in Clerk, NEW i \in Item, NEW n \in Name, Creates(v, i, n)
      PROVE  RecordsInv'
  BY <1>3, BeginsKeeps DEF Creates, createProgram, createAcademicTerm, createAcademicYear,
       createYearGroup, createExam, Create
<1>4. ASSUME NEW v \in Clerk, NEW i \in Item, NEW n \in Name \cup {NoName},
             Renames(v, i, n)
      PROVE  RecordsInv'
  BY <1>4, BeginsKeeps DEF Renames, updateProgram, updateAcademicTerms, updateAcademicYear,
       updateYearGroup, updateExam, Rename
<1>5. ASSUME NEW i \in Item, Deletes(i) PROVE RecordsInv'
  BY <1>5, DeletesKeep
<1>6. ASSUME NEW v \in Clerk, NEW i \in Item, NEW q \in Question, NEW n \in Name,
             createQuestion(v, i, q, n)
      PROVE  RecordsInv'
  BY <1>6, BeginsKeeps DEF createQuestion
<1>7. ASSUME NEW q \in Question, NEW n \in Name, updateQuestion(q, n) PROVE RecordsInv'
  BY <1>7, StoredKeeps DEF updateQuestion, RecordsInv, RecordsTypeOK
<1>8. ASSUME NEW v \in Clerk, Writes(v) PROVE RecordsInv'
  BY <1>8, NamesKeep, ArchivesKeep, StoreQuestionKeeps, PushQuestionKeeps, EndsKeeps
     DEF Writes, CutOffClerk
<1> QED
  BY <1>1, <1>2, <1>3, <1>4, <1>5, <1>6, <1>7, <1>8 DEF RecordsNext, Fetches

(* What each request of the academic records is about to write, and what   *)
(* the records hold, for any records, questions and overlapping requests.  *)
THEOREM RecordsCorrect == RecordsSpec => []RecordsInv
BY RecordsBegin, RecordsStep, PTL DEF RecordsSpec

(* However many archivings overlap, a record has its date exactly while it *)
(* is archived; a question whose creation was answered stays in its exam,  *)
(* and an exam names no question that was not stored                       *)
(* (programsCtrl.ts:342, questionsCtrl.ts:63).                             *)
THEOREM RecordsKeptCorrect == RecordsSpec => []RecordsKept
<1>1. RecordsInv => RecordsKept
  BY DEF RecordsInv
<1> QED
  BY <1>1, RecordsCorrect, PTL

-------------------------------------------------------------------------------
(* Sums, as the sizes of sets of pairs. *)

PairsUnder(f) == UNION {{x} \X (1..f[x]) : x \in DOMAIN f}

LEMMA PairIn ==
  ASSUME NEW f, NEW q
  PROVE  q \in PairsUnder(f) <=> \E x \in DOMAIN f : \E k \in 1..f[x] : q = <<x, k>>
BY DEF PairsUnder

LEMMA PairsOfOne ==
  ASSUME NEW x, NEW n \in Nat
  PROVE  IsFiniteSet({x} \X (1..n)) /\ Cardinality({x} \X (1..n)) = n
<1>1. IsFiniteSet(1..n) /\ Cardinality(1..n) = n
  <2>1. 1 \in Int /\ n \in Int
    OBVIOUS
  <2>2. IsFiniteSet(1..n) /\ Cardinality(1..n) = IF n < 1 THEN 0 ELSE n - 1 + 1
    BY <2>1, FS_Interval
  <2>3. QED
    BY <2>2
<1>2. IsFiniteSet({x}) /\ Cardinality({x}) = 1
  BY FS_Singleton
<1>3. /\ IsFiniteSet({x} \X (1..n))
      /\ Cardinality({x} \X (1..n)) = Cardinality({x}) * Cardinality(1..n)
  BY <1>1, <1>2, FS_Product
<1>4. QED
  BY <1>1, <1>2, <1>3

LEMMA PairsFinite ==
  ASSUME NEW f, IsFiniteSet(DOMAIN f), \A x \in DOMAIN f : f[x] \in Nat
  PROVE  IsFiniteSet(PairsUnder(f)) /\ Added(f) = Cardinality(PairsUnder(f)) /\ Added(f) \in Nat
<1> DEFINE g == [x \in DOMAIN f |-> {x} \X (1..f[x])]
           T == {g[x] : x \in DOMAIN f}
<1>1. IsFiniteSet(T)
  <2>1. DOMAIN g = DOMAIN f
    OBVIOUS
  <2>2. g \in Surjection(DOMAIN f, T)
    BY <2>1 DEF Surjection
  <2> HIDE DEF g
  <2>3. QED
    BY <2>2, FS_Surjection
<1>2. \A t \in T : IsFiniteSet(t)
  <2>1. ASSUME NEW x \in DOMAIN f PROVE IsFiniteSet({x} \X (1..f[x]))
    BY PairsOfOne
  <2>2. QED
    BY <2>1
<1>3. PairsUnder(f) = UNION T
  BY DEF PairsUnder
<1> HIDE DEF T, g
<1>4. IsFiniteSet(PairsUnder(f))
  BY <1>1, <1>2, <1>3, FS_UNION
<1>5. Added(f) = Cardinality(PairsUnder(f))
  BY DEF Added, PairsUnder
<1>6. QED
  BY <1>4, <1>5, FS_CardinalityType

LEMMA AddedEmpty ==
  ASSUME NEW f, DOMAIN f = {}
  PROVE  Added(f) = 0
<1>1. PairsUnder(f) = {}
  BY DEF PairsUnder
<1>2. QED
  BY <1>1, FS_EmptySet DEF Added, PairsUnder

(* One more place adds what it holds. *)
LEMMA AddedOneMore ==
  ASSUME NEW E, IsFiniteSet(E), NEW x \in E,
         NEW g \in [E -> Nat], NEW f \in [E \ {x} -> Nat], \A y \in E \ {x} : g[y] = f[y]
  PROVE  Added(g) = Added(f) + g[x] /\ Added(f) \in Nat
<1> DEFINE D == E \ {x}
<1>9. IsFiniteSet(D) /\ f \in [D -> Nat] /\ x \notin D /\ E = D \cup {x}
      /\ \A y \in D : g[y] = f[y]
  BY FS_RemoveElement
<1> HIDE DEF D
<1> DEFINE n == g[x]
           P == {x} \X (1..n)
<1>1. n \in Nat
  OBVIOUS
<1>2. IsFiniteSet(P) /\ Cardinality(P) = n
  BY <1>1, PairsOfOne
<1>3. IsFiniteSet(PairsUnder(f)) /\ Added(f) = Cardinality(PairsUnder(f)) /\ Added(f) \in Nat
  BY <1>9, PairsFinite
<1>4. Added(g) = Cardinality(PairsUnder(g))
  BY PairsFinite
<1>5. PairsUnder(g) = PairsUnder(f) \cup P
  <2>1. ASSUME NEW q PROVE q \in PairsUnder(g) <=> q \in PairsUnder(f) \/ q \in P
    <3>1. q \in P <=> \E k \in 1..n : q = <<x, k>>
      OBVIOUS
    <3>2. q \in PairsUnder(f) <=> \E y \in D : \E k \in 1..f[y] : q = <<y, k>>
      BY <1>9, PairIn
    <3>3. q \in PairsUnder(g) <=> \E y \in E : \E k \in 1..g[y] : q = <<y, k>>
      BY PairIn
    <3>4. QED
      BY <1>9, <3>1, <3>2, <3>3
  <2>2. QED
    BY <2>1
<1>6. PairsUnder(f) \cap P = {}
  <2> SUFFICES ASSUME NEW q \in PairsUnder(f), q \in P PROVE FALSE
    OBVIOUS
  <2>1. PICK y \in D : \E k \in 1..f[y] : q = <<y, k>>
    BY <1>9, PairIn
  <2>2. q[1] = y /\ q[1] = x
    BY <2>1
  <2>3. QED
    BY <1>9, <2>2
<1> HIDE DEF P, n
<1>7. Cardinality(PairsUnder(f) \cup P) = Cardinality(PairsUnder(f)) + Cardinality(P)
  <2>1. Cardinality(PairsUnder(f) \cup P)
          = Cardinality(PairsUnder(f)) + Cardinality(P) - Cardinality(PairsUnder(f) \cap P)
    BY <1>2, <1>3, FS_Union
  <2>2. Cardinality(PairsUnder(f) \cap P) = 0
    BY <1>6, FS_EmptySet
  <2>3. QED
    BY <1>1, <1>2, <1>3, <2>1, <2>2
<1>8. QED
  BY <1>2, <1>3, <1>4, <1>5, <1>7 DEF n

(* A change of one place changes the sum by as much. *)
LEMMA AddedChange ==
  ASSUME NEW D, IsFiniteSet(D), NEW x \in D,
         NEW f \in [D -> Nat], NEW g \in [D -> Nat], \A y \in D \ {x} : g[y] = f[y]
  PROVE  Added(g) + f[x] = Added(f) + g[x] /\ Added(f) \in Nat /\ Added(g) \in Nat
<1> DEFINE E == D \ {x}
           r == [y \in E |-> f[y]]
<1>2. r \in [E -> Nat] /\ (\A y \in E : f[y] = r[y] /\ g[y] = r[y])
  OBVIOUS
<1> HIDE DEF r
<1>3. Added(f) = Added(r) + f[x] /\ Added(r) \in Nat
  BY <1>2, AddedOneMore
<1>4. Added(g) = Added(r) + g[x]
  BY <1>2, AddedOneMore
<1>5. QED
  BY <1>3, <1>4

-------------------------------------------------------------------------------
(* Progress on custom content. *)

ProgressTyped ==
  /\ progress \in [Custom -> [Segment -> Seq(LearnerProgress)]]
  /\ attempts \in Seq(Attempt)
  /\ event \in [Call -> Event]
  /\ marred \subseteq Custom \X Segment
  /\ written \in [Custom -> [Segment -> Nat]]

LEMMA CountsIs ==
  ASSUME NEW docs \in Seq(LearnerProgress)
  PROVE  /\ IsFiniteSet(DOMAIN docs)
         /\ [i \in DOMAIN docs |-> docs[i].attemptCount] \in [DOMAIN docs -> Nat]
         /\ Counts(docs) \in Nat
<1>1. IsFiniteSet(DOMAIN docs)
  <2>1. Len(docs) \in Int /\ 1 \in Int /\ DOMAIN docs = 1..Len(docs)
    OBVIOUS
  <2>2. QED
    BY <2>1, FS_Interval
<1>2. \A i \in DOMAIN docs : docs[i].attemptCount \in Nat
  <2>1. \A i \in DOMAIN docs : docs[i] \in LearnerProgress
    OBVIOUS
  <2>2. QED
    BY <2>1 DEF LearnerProgress
<1> DEFINE f == [i \in DOMAIN docs |-> docs[i].attemptCount]
<1>3. f \in [DOMAIN docs -> Nat]
  BY <1>2
<1>4. Counts(docs) = Added(f)
  BY DEF Counts
<1> HIDE DEF f
<1>5. Added(f) \in Nat
  BY <1>1, <1>3, PairsFinite
<1>6. QED
  BY <1>1, <1>3, <1>4, <1>5 DEF f

LEMMA CountsEmpty == Counts(<<>>) = 0
BY AddedEmpty DEF Counts

(* An upsert that finds a document replaces the first. *)
LEMMA CountsReplaced ==
  ASSUME NEW docs \in Seq(LearnerProgress), docs # <<>>, NEW d \in LearnerProgress,
         NEW now, now = [docs EXCEPT ![1] = d]
  PROVE  /\ now \in Seq(LearnerProgress) /\ Len(now) = Len(docs) /\ now[1] = d
         /\ now # <<>> /\ docs[1] \in LearnerProgress
         /\ Counts(now) + docs[1].attemptCount = Counts(docs) + d.attemptCount
<1>1. /\ now \in Seq(LearnerProgress) /\ Len(now) = Len(docs) /\ now[1] = d
      /\ DOMAIN now = DOMAIN docs /\ 1 \in DOMAIN docs
      /\ \A i \in DOMAIN docs \ {1} : now[i] = docs[i]
      /\ docs[1] \in LearnerProgress /\ now # <<>>
  OBVIOUS
<1> DEFINE D == DOMAIN docs
           f == [i \in D |-> docs[i].attemptCount]
           g == [i \in D |-> now[i].attemptCount]
<1>2. Counts(docs) = Added(f) /\ Counts(now) = Added(g)
  BY <1>1 DEF Counts
<1>3. IsFiniteSet(D) /\ f \in [D -> Nat] /\ g \in [D -> Nat]
  <2>1. IsFiniteSet(D) /\ f \in [D -> Nat]
    BY CountsIs
  <2>2. g \in [D -> Nat]
    BY <1>1, CountsIs
  <2>3. QED
    BY <2>1, <2>2
<1>4. 1 \in D /\ f[1] = docs[1].attemptCount /\ g[1] = d.attemptCount
      /\ \A i \in D \ {1} : g[i] = f[i]
  BY <1>1
<1> HIDE DEF f, g, D
<1>5. Added(g) + f[1] = Added(f) + g[1]
  <2>1. \A y \in D \ {1} : g[y] = f[y]
    BY <1>4
  <2>2. 1 \in D
    BY <1>4
  <2>3. IsFiniteSet(D)
    BY <1>3
  <2>4. f \in [D -> Nat]
    BY <1>3
  <2>5. g \in [D -> Nat]
    BY <1>3
  <2>6. QED
    BY <2>1, <2>2, <2>3, <2>4, <2>5, AddedChange, Zenon
<1>6. QED
  BY <1>1, <1>2, <1>4, <1>5

(* An upsert that inserts appends a document. *)
LEMMA CountsAppended ==
  ASSUME NEW docs \in Seq(LearnerProgress), NEW d \in LearnerProgress,
         NEW now, now = Append(docs, d)
  PROVE  /\ now \in Seq(LearnerProgress) /\ Len(now) = Len(docs) + 1 /\ now # <<>>
         /\ now[1] = IF docs = <<>> THEN d ELSE docs[1]
         /\ Counts(now) = Counts(docs) + d.attemptCount
<1> DEFINE n == Len(docs) + 1
           D == DOMAIN docs
           E == D \cup {n}
<1>1. /\ now \in Seq(LearnerProgress) /\ Len(now) = n /\ now # <<>>
      /\ DOMAIN now = E /\ n \notin D /\ now[n] = d
      /\ \A i \in D : now[i] = docs[i]
  OBVIOUS
<1>2. now[1] = IF docs = <<>> THEN d ELSE docs[1]
  OBVIOUS
<1> DEFINE f == [i \in D |-> docs[i].attemptCount]
           g == [i \in E |-> now[i].attemptCount]
<1>3. Counts(docs) = Added(f) /\ Counts(now) = Added(g)
  BY <1>1 DEF Counts
<1>4. IsFiniteSet(D) /\ f \in [D -> Nat]
  BY CountsIs
<1>5. g \in [E -> Nat]
  BY <1>1, CountsIs
<1>6. g[n] = d.attemptCount /\ \A i \in D : g[i] = f[i]
  BY <1>1
<1> HIDE DEF f, g, D, E
<1>7. Added(g) = Added(f) + g[n]
  <2>1. n \in E /\ E \ {n} = D
    BY <1>1 DEF E
  <2>2. IsFiniteSet(E)
    <3>1. IsFiniteSet(D \cup {n})
      BY <1>4, FS_AddElement
    <3>2. QED
      BY <3>1 DEF E
  <2>3. f \in [E \ {n} -> Nat]
    BY <1>4, <2>1
  <2>4. \A i \in E \ {n} : g[i] = f[i]
    BY <1>6, <2>1
  <2> HIDE DEF n
  <2>5. QED
    BY <1>5, <2>1, <2>2, <2>3, <2>4, AddedOneMore, Zenon
<1>8. QED
  BY <1>1, <1>2, <1>3, <1>6, <1>7

(* The attempts made at a segment. *)
LEMMA MadeIs ==
  ASSUME attempts \in Seq(Attempt), NEW g
  PROVE  /\ MadeAt(g) = {i \in DOMAIN attempts : attempts[i].segment = g}
         /\ IsFiniteSet(MadeAt(g)) /\ MadeAt(g) \subseteq Nat
         /\ MadeAt(g) \subseteq DOMAIN attempts
         /\ Cardinality(MadeAt(g)) \in Nat
         /\ [i \in MadeAt(g) |-> attempts[i].timeSpentSec] \in [MadeAt(g) -> Nat]
         /\ Spent(MadeAt(g)) \in Nat
<1>1. MadeAt(g) = {i \in DOMAIN attempts : attempts[i].segment = g}
  BY DEF MadeAt, AttemptsAt
<1>2. IsFiniteSet(DOMAIN attempts) /\ DOMAIN attempts \subseteq Nat
  <2>1. Len(attempts) \in Int /\ 1 \in Int /\ DOMAIN attempts = 1..Len(attempts)
    OBVIOUS
  <2>2. QED
    BY <2>1, FS_Interval
<1>3. MadeAt(g) \in SUBSET DOMAIN attempts
  BY <1>1
<1>4. IsFiniteSet(MadeAt(g)) /\ Cardinality(MadeAt(g)) \in Nat
  BY <1>2, <1>3, FS_Subset, FS_CardinalityType
<1> DEFINE f == [i \in MadeAt(g) |-> attempts[i].timeSpentSec]
<1>5. f \in [MadeAt(g) -> Nat]
  <2>1. \A i \in DOMAIN attempts : attempts[i] \in Attempt
    OBVIOUS
  <2>2. QED
    BY <1>3, <2>1 DEF Attempt
<1>6. Spent(MadeAt(g)) = Added(f)
  BY DEF Spent
<1> HIDE DEF f
<1>7. Added(f) \in Nat
  BY <1>4, <1>5, PairsFinite
<1>8. QED
  BY <1>1, <1>2, <1>3, <1>4, <1>5, <1>6, <1>7 DEF f

(* What an attempt that is created changes of them. *)
LEMMA MadeMore ==
  ASSUME ProgressTyped, NEW a \in Attempt, attempts' = Append(attempts, a), NEW g
  PROVE  /\ a.segment # g => /\ MadeAt(g)' = MadeAt(g)
                             /\ Spent(MadeAt(g))' = Spent(MadeAt(g))
         /\ a.segment = g => /\ Cardinality(MadeAt(g)') = Cardinality(MadeAt(g)) + 1
                             /\ Spent(MadeAt(g))' = Spent(MadeAt(g)) + a.timeSpentSec
                             /\ MadeAt(g)' = MadeAt(g) \cup {Len(attempts) + 1}
         /\ \A i \in MadeAt(g) : attempts'[i] = attempts[i] /\ i <= Len(attempts) + 1
         /\ attempts'[Len(attempts) + 1] = a
<1> DEFINE n == Len(attempts) + 1
           M == MadeAt(g)
           N == MadeAt(g)'
           f == [i \in M |-> attempts[i].timeSpentSec]
           h == [i \in N |-> attempts'[i].timeSpentSec]
<1>1. attempts \in Seq(Attempt)
  BY DEF ProgressTyped
<1>2. /\ attempts' \in Seq(Attempt) /\ DOMAIN attempts' = DOMAIN attempts \cup {n}
      /\ n \notin DOMAIN attempts /\ attempts'[n] = a
      /\ \A i \in DOMAIN attempts : attempts'[i] = attempts[i] /\ i <= n
  BY <1>1
<1>3. /\ M = {i \in DOMAIN attempts : attempts[i].segment = g}
      /\ IsFiniteSet(M) /\ M \subseteq DOMAIN attempts
      /\ f \in [M -> Nat]
  BY <1>1, MadeIs
<1>4. N = {i \in DOMAIN attempts' : attempts'[i].segment = g}
  BY DEF MadeAt, AttemptsAt
<1>5. Spent(MadeAt(g)) = Added(f) /\ Spent(MadeAt(g))' = Added(h)
  BY DEF Spent
<1>6. n \notin M /\ \A i \in M : attempts'[i] = attempts[i] /\ i <= n
  BY <1>2, <1>3
<1>7. CASE a.segment # g
  <2>1. N = M
    BY <1>2, <1>3, <1>4, <1>7
  <2>2. h = f
    BY <1>6, <2>1
  <2>3. QED
    BY <1>2, <1>5, <1>6, <1>7, <2>1, <2>2
<1>8. CASE a.segment = g
  <2>1. N = M \cup {n}
    BY <1>2, <1>3, <1>4, <1>8
  <2>2. h \in [N -> Nat]
    <3>1. \A i \in DOMAIN attempts' : attempts'[i] \in Attempt
      BY <1>2
    <3>2. \A i \in N : attempts'[i] \in Attempt
      BY <1>4, <3>1
    <3>3. \A i \in N : attempts'[i].timeSpentSec \in Nat
      BY <3>2 DEF Attempt
    <3>4. QED
      BY <3>3
  <2>3. (\A i \in M : h[i] = f[i]) /\ h[n] = a.timeSpentSec
    BY <1>2, <1>6, <2>1
  <2>4. Cardinality(N) = Cardinality(M) + 1
    BY <1>3, <1>6, <2>1, FS_AddElement
  <2>5. Added(h) = Added(f) + h[n]
    <3>1. n \in N /\ N \ {n} = M
      BY <1>6, <2>1
    <3>2. IsFiniteSet(N)
      BY <1>3, <2>1, FS_AddElement
    <3>3. f \in [N \ {n} -> Nat]
      BY <1>3, <3>1
    <3>4. \A i \in N \ {n} : h[i] = f[i]
      BY <2>3, <3>1
    <3> HIDE DEF n, M, N, f, h
    <3>5. QED
      BY <2>2, <3>1, <3>2, <3>3, <3>4, AddedOneMore, Zenon
  <2>6. QED
    BY <1>2, <1>5, <1>6, <1>8, <2>1, <2>3, <2>4, <2>5
<1>9. QED
  BY <1>7, <1>8

-------------------------------------------------------------------------------
(* The type of progress, attempts and the events in flight. *)

LEMMA FoundType ==
  ASSUME ProgressTyped, NEW c \in Custom, NEW g \in Segment
  PROVE  /\ Found(c, g) \in LearnerProgress
         /\ progress[c][g] = <<>> => Found(c, g).attemptCount = 0 /\ Found(c, g).timeSpentSec = 0
                                     /\ Found(c, g).progressPercent = 0
         /\ progress[c][g] # <<>> => Found(c, g) = progress[c][g][1]
<1>1. progress[c][g] \in Seq(LearnerProgress)
  BY DEF ProgressTyped
<1>2. CASE progress[c][g] = <<>>
  BY <1>2 DEF Found, Unrecorded, LearnerProgress
<1>3. CASE progress[c][g] # <<>>
  <2>1. Found(c, g) = progress[c][g][1]
    BY <1>3 DEF Found
  <2>2. progress[c][g][1] \in LearnerProgress
    BY <1>1, <1>3
  <2>3. QED
    BY <1>3, <2>1, <2>2
<1>4. QED
  BY <1>2, <1>3

LEMMA RecordedType ==
  ASSUME NEW was \in LearnerProgress, NEW type \in {"answer", "quiz_complete"},
         NEW p \in Payload
  PROVE  /\ Recorded(was, type, p) \in LearnerProgress /\ p.sec \in Nat
         /\ Recorded(was, type, p).attemptCount = was.attemptCount + 1
         /\ Recorded(was, type, p).timeSpentSec = was.timeSpentSec + p.sec
         /\ Recorded(was, type, p).progressPercent = 100
              <=> Recorded(was, type, p).status = "completed" \/ was.progressPercent = 100
<1>1. /\ p.score \in Nat \cup {Unset} /\ p.maxScore \in Nat \cup {Unset} /\ p.sec \in Nat
  BY ProgressAssumption
<1>2. /\ was.score \in Nat /\ was.maxScore \in Nat /\ was.progressPercent \in {0, 100}
      /\ was.attemptCount \in Nat /\ was.timeSpentSec \in Nat
  BY DEF LearnerProgress
<1>3. Given(p.score, was.score) \in Nat /\ Given(p.maxScore, was.maxScore) \in Nat
  BY <1>1, <1>2 DEF Given
<1>4. Passes(Given(p.score, was.score), Given(p.maxScore, was.maxScore))
        \in {"yes", "no", "unset"}
  BY DEF Passes
<1>5. was.attemptCount + 1 \in Nat /\ was.timeSpentSec + p.sec \in Nat
  BY <1>1, <1>2
<1>6. Recorded(was, type, p) \in LearnerProgress
  BY <1>2, <1>3, <1>4, <1>5 DEF Recorded, LearnerProgress
<1>7. QED
  BY <1>1, <1>2, <1>6 DEF Recorded

LEMMA OverType ==
  ASSUME NEW was \in LearnerProgress, NEW new \in LearnerProgress
  PROVE  /\ Over(was, new) \in LearnerProgress
         /\ Over(was, new).attemptCount = new.attemptCount
         /\ Over(was, new).timeSpentSec = new.timeSpentSec
         /\ Over(was, new).status = new.status
         /\ Over(was, new).score = new.score
         /\ Over(was, new).progressPercent = new.progressPercent
BY DEF Over, LearnerProgress

LEMMA EventIs ==
  ASSUME ProgressTyped, NEW v \in Call, event[v] # None
  PROVE  /\ event[v] \in InFlight
         /\ event[v].of \in Custom /\ event[v].segment \in Segment
         /\ event[v].new \in LearnerProgress /\ event[v].sec \in Nat
         /\ event[v].at \in {"upsert", "insert", "create"}
BY DEF ProgressTyped, Event, InFlight

-------------------------------------------------------------------------------
(* The inductive invariant of progress. *)

(* No other content has progress in the segment, so its attempts are c's.  *)
Sole(c, g) == \A other \in Custom \ {c} : progress[other][g] = <<>>

(* An event that found no document counts one attempt; any other counts    *)
(* one more than a first document that was replaced since at most once     *)
(* for each time that progress was upserted.                               *)
Counted(c, g) ==
  LET docs == progress[c][g] IN
  /\ Counts(docs) <= written[c][g]
  /\ \A v \in Recorder(c, g) :
       /\ event[v].at = "insert" \/ (event[v].at = "upsert" /\ docs = <<>>) =>
            event[v].new.attemptCount = 1
       /\ event[v].at = "upsert" /\ docs # <<>> =>
            event[v].new.attemptCount + Counts(docs) <= written[c][g] + 1 + docs[1].attemptCount

(* What event e is about to write counts its own attempt beside those made.*)
OnTop(e, made) ==
  /\ e.new.attemptCount = Cardinality(made) + 1
  /\ e.new.timeSpentSec = Spent(made) + e.sec
  /\ e.new.progressPercent = 100
       <=> e.new.status = "completed" \/ \E i \in made : attempts[i].status = "completed"

(* The progress that event e has just written.                             *)
Wrote(e, doc) ==
  /\ doc.attemptCount = e.new.attemptCount /\ doc.timeSpentSec = e.new.timeSpentSec
  /\ doc.status = e.new.status /\ doc.score = e.new.score
  /\ doc.progressPercent = e.new.progressPercent

Told(docs, made) == IF docs = <<>> THEN made = {} ELSE Tallies(docs[1], made)

(* Where no events overlapped or broke off, one is in flight at most, and  *)
(* between its upsert and its attempt it is the one that is not yet told.  *)
Alone(c, g) ==
  LET docs == progress[c][g] IN
  /\ Len(docs) <= 1
  /\ (\A v \in Recorder(c, g) : event[v].at # "create") => Told(docs, MadeAt(g))
  /\ \A v \in Recorder(c, g) :
       /\ OnTop(event[v], MadeAt(g))
       /\ event[v].at = "insert" => docs = <<>>
       /\ event[v].at = "create" => docs # <<>> /\ Wrote(event[v], docs[1])
Settled(c, g) ==
  <<c, g>> \notin marred =>
    /\ \A v, w \in Recorder(c, g) : v = w
    /\ Sole(c, g) => Alone(c, g)

(* Attempts are made where there is progress. *)
Known ==
  /\ \A i \in DOMAIN attempts : \E c \in Custom : progress[c][attempts[i].segment] # <<>>
  /\ \A v \in Call : event[v] # None /\ event[v].at = "create" =>
       progress[event[v].of][event[v].segment] # <<>>

ProgressInv ==
  /\ ProgressTyped
  /\ Known
  /\ \A c \in Custom, g \in Segment : Counted(c, g) /\ Settled(c, g)

-------------------------------------------------------------------------------

LEMMA RecorderIs ==
  ASSUME NEW c, NEW g, NEW v
  PROVE  /\ v \in Recorder(c, g) <=> /\ v \in Call /\ event[v] # None
                                     /\ event[v].of = c /\ event[v].segment = g
         /\ (v \in Recorder(c, g))' <=> /\ v \in Call /\ event'[v] # None
                                        /\ event'[v].of = c /\ event'[v].segment = g
BY DEF Recorder

LEMMA NothingSpent == Spent({}) = 0 /\ Cardinality({}) = 0
BY AddedEmpty, FS_EmptySet DEF Spent

LEMMA ProgressInvInit == ProgressInit => ProgressInv
<1> SUFFICES ASSUME ProgressInit PROVE ProgressInv
  OBVIOUS
<1>1. ProgressTyped
  BY DEF ProgressInit, ProgressTyped, Event
<1>2. \A v \in Call : event[v] = None
  BY DEF ProgressInit
<1>3. Known
  BY <1>2 DEF ProgressInit, Known
<1>4. ASSUME NEW c \in Custom, NEW g \in Segment PROVE Counted(c, g) /\ Settled(c, g)
  <2>1. progress[c][g] = <<>> /\ written[c][g] = 0
    BY DEF ProgressInit
  <2>2. Recorder(c, g) = {}
    BY <1>2 DEF Recorder
  <2>3. Counted(c, g)
    BY <2>1, <2>2, CountsEmpty DEF Counted
  <2>4. MadeAt(g) = {}
    BY DEF ProgressInit, MadeAt, AttemptsAt
  <2>5. QED
    BY <2>1, <2>2, <2>3, <2>4 DEF Settled, Alone, Told
<1>5. QED
  BY <1>1, <1>3, <1>4 DEF ProgressInv

(* A step of one event. *)
LEMMA EventSet ==
  ASSUME ProgressTyped, NEW v \in Call, NEW e \in Event, event' = [event EXCEPT ![v] = e]
  PROVE  /\ event' \in [Call -> Event] /\ event'[v] = e
         /\ \A w \in Call \ {v} : event'[w] = event[w]
BY DEF ProgressTyped

(* A pair that the step of an event is not about stays as it was.          *)
LEMMA Aside ==
  ASSUME ProgressInv, NEW c \in Custom, NEW g \in Segment,
         NEW v \in Call, NEW e \in Event, event' = [event EXCEPT ![v] = e],
         event[v] = None \/ event[v].of # c \/ event[v].segment # g,
         e = None \/ e.of # c \/ e.segment # g,
         progress'[c][g] = progress[c][g], written'[c][g] = written[c][g],
         marred \subseteq marred',
         Sole(c, g)' => /\ Sole(c, g)
                        /\ MadeAt(g)' = MadeAt(g) /\ Spent(MadeAt(g))' = Spent(MadeAt(g))
                        /\ \A i \in MadeAt(g) : attempts'[i] = attempts[i]
  PROVE  Counted(c, g)' /\ Settled(c, g)'
<1>1. event'[v] = e /\ \A w \in Call \ {v} : event'[w] = event[w]
  BY EventSet DEF ProgressInv
<1>2. Recorder(c, g)' = Recorder(c, g) /\ v \notin Recorder(c, g)
  BY <1>1 DEF Recorder
<1>3. \A w \in Recorder(c, g) : event'[w] = event[w]
  BY <1>1, <1>2 DEF Recorder
<1>4. Counted(c, g) /\ Settled(c, g)
  BY DEF ProgressInv
<1>5. Counted(c, g)'
  BY <1>2, <1>3, <1>4 DEF Counted
<1>6. Settled(c, g)'
  <2> SUFFICES ASSUME <<c, g>> \notin marred'
               PROVE  /\ \A w, u \in Recorder(c, g) : w = u
                      /\ Sole(c, g)' => Alone(c, g)'
    BY <1>2 DEF Settled
  <2>1. \A w, u \in Recorder(c, g) : w = u
    BY <1>4 DEF Settled
  <2>2. ASSUME Sole(c, g)' PROVE Alone(c, g)'
    <3>1. Alone(c, g)
      BY <1>4, <2>2 DEF Settled
    <3>2. /\ MadeAt(g)' = MadeAt(g) /\ Spent(MadeAt(g))' = Spent(MadeAt(g))
          /\ \A i \in MadeAt(g) : attempts'[i] = attempts[i]
      BY <2>2
    <3>3. Told(progress[c][g], MadeAt(g)) => Told(progress[c][g], MadeAt(g))'
      BY <3>2 DEF Told, Tallies
    <3>4. \A w \in Recorder(c, g) : OnTop(event[w], MadeAt(g)) => OnTop(event[w], MadeAt(g))'
      BY <1>3, <3>2 DEF OnTop
    <3>5. QED
      BY <1>2, <1>3, <3>1, <3>3, <3>4 DEF Alone, Wrote
  <2>3. QED
    BY <2>1, <2>2
<1>7. QED
  BY <1>5, <1>6

LEMMA EndedAside ==
  ASSUME ProgressInv, NEW c \in Custom, NEW g \in Segment,
         NEW v \in Call, event' = [event EXCEPT ![v] = None],
         event[v] = None \/ event[v].of # c \/ event[v].segment # g,
         progress'[c][g] = progress[c][g], written'[c][g] = written[c][g],
         marred \subseteq marred',
         Sole(c, g)' => /\ Sole(c, g)
                        /\ MadeAt(g)' = MadeAt(g) /\ Spent(MadeAt(g))' = Spent(MadeAt(g))
                        /\ \A i \in MadeAt(g) : attempts'[i] = attempts[i]
  PROVE  Counted(c, g)' /\ Settled(c, g)'
<1> DEFINE e == None
<1>1. e = None /\ e \in Event /\ event' = [event EXCEPT ![v] = e]
  BY DEF Event
<1> HIDE DEF e
<1>2. QED
  BY <1>1, Aside

(* Progress is never taken away. *)
LEMMA KnownStays ==
  ASSUME ProgressInv, NEW v \in Call, NEW e \in Event, event' = [event EXCEPT ![v] = e],
         \A c \in Custom, g \in Segment : progress[c][g] # <<>> => progress'[c][g] # <<>>,
         attempts' = attempts,
         e # None /\ e.at = "create" => progress'[e.of][e.segment] # <<>>
  PROVE  Known'
<1>1. Known /\ attempts \in Seq(Attempt) /\ ProgressTyped
  BY DEF ProgressInv, ProgressTyped
<1>2. event'[v] = e /\ \A w \in Call \ {v} : event'[w] = event[w]
  BY <1>1, EventSet
<1>3. ASSUME NEW i \in DOMAIN attempts
      PROVE  \E c \in Custom : progress'[c][attempts[i].segment] # <<>>
  <2>1. attempts[i].segment \in Segment
    <3>1. attempts[i] \in Attempt
      BY <1>1
    <3>2. QED
      BY <3>1 DEF Attempt
  <2>2. PICK c \in Custom : progress[c][attempts[i].segment] # <<>>
    BY <1>1 DEF Known
  <2>3. QED
    BY <2>1, <2>2
<1>4. ASSUME NEW w \in Call, event'[w] # None, event'[w].at = "create"
      PROVE  progress'[event'[w].of][event'[w].segment] # <<>>
  <2>1. CASE w = v
    BY <1>2, <1>4, <2>1
  <2>2. CASE w # v
    <3>1. event'[w] = event[w]
      BY <1>2, <2>2
    <3>2. event[w].of \in Custom /\ event[w].segment \in Segment
      BY <1>1, <1>4, <3>1, EventIs
    <3>3. progress[event[w].of][event[w].segment] # <<>>
      BY <1>1, <1>4, <3>1 DEF Known
    <3>4. QED
      BY <3>1, <3>2, <3>3
  <2>3. QED
    BY <2>1, <2>2
<1>5. QED
  BY <1>3, <1>4 DEF Known

(* The event that begins works on what its copy says. *)
LEMMA TopOfCopy ==
  ASSUME ProgressTyped, NEW c \in Custom, NEW g \in Segment,
         NEW type \in {"answer", "quiz_complete"}, NEW p \in Payload,
         Told(progress[c][g], MadeAt(g)),
         NEW e, e.new = Recorded(Found(c, g), type, p), e.sec = p.sec
  PROVE  OnTop(e, MadeAt(g))
<1> DEFINE was == Found(c, g)
           made == MadeAt(g)
<1>1. was \in LearnerProgress
  BY FoundType
<1>2. /\ e.new.attemptCount = was.attemptCount + 1
      /\ e.new.timeSpentSec = was.timeSpentSec + p.sec
      /\ e.new.progressPercent = 100
           <=> e.new.status = "completed" \/ was.progressPercent = 100
  BY <1>1, RecordedType
<1>3. /\ was.attemptCount = Cardinality(made) /\ was.timeSpentSec = Spent(made)
      /\ was.progressPercent = 100 <=> \E i \in made : attempts[i].status = "completed"
  <2>1. CASE progress[c][g] = <<>>
    <3>1. made = {}
      BY <2>1 DEF Told
    <3>2. Spent(made) = 0 /\ Cardinality(made) = 0
      BY <3>1, NothingSpent
    <3>3. was.attemptCount = 0 /\ was.timeSpentSec = 0 /\ was.progressPercent = 0
      BY <2>1, FoundType
    <3>4. QED
      BY <3>1, <3>2, <3>3
  <2>2. CASE progress[c][g] # <<>>
    <3>1. was = progress[c][g][1]
      BY <2>2, FoundType
    <3>2. Tallies(was, made)
      BY <2>2, <3>1 DEF Told
    <3>3. QED
      BY <3>2 DEF Tallies
  <2>3. QED
    BY <2>1, <2>2
<1>4. QED
  BY <1>2, <1>3 DEF OnTop

LEMMA StartEventKeeps ==
  ASSUME ProgressInv, NEW v \in Call, NEW c \in Custom, NEW g \in Segment,
         NEW type \in {"answer", "quiz_complete"}, NEW p \in Payload,
         StartEvent(v, c, g, type, p)
  PROVE  ProgressInv'
<1> DEFINE new == Recorded(Found(c, g), type, p)
           e == [at |-> "upsert", of |-> c, segment |-> g, new |-> new, sec |-> p.sec]
<1>1. ProgressTyped /\ Found(c, g) \in LearnerProgress
  BY FoundType DEF ProgressInv
<1>2. new \in LearnerProgress /\ p.sec \in Nat /\ new.attemptCount = Found(c, g).attemptCount + 1
  BY <1>1, RecordedType
<1>3. /\ event[v] = None /\ event' = [event EXCEPT ![v] = e]
      /\ marred' = IF Recorder(c, g) = {} THEN marred ELSE marred \cup {<<c, g>>}
      /\ UNCHANGED <<progress, attempts, written>>
  BY DEF StartEvent
<1> HIDE DEF new
<1>4. e \in InFlight /\ e \in Event /\ e # None
  <2>1. e \in InFlight
    BY <1>2 DEF InFlight
  <2>2. QED
    BY <2>1, NoneAssumption DEF Event
<1>5. e.at = "upsert" /\ e.of = c /\ e.segment = g /\ e.new = new /\ e.sec = p.sec
  OBVIOUS
<1> HIDE DEF e
<1>6. event' \in [Call -> Event] /\ event'[v] = e /\ \A w \in Call \ {v} : event'[w] = event[w]
  BY <1>1, <1>3, <1>4, EventSet
<1>7. ProgressTyped'
  BY <1>1, <1>3, <1>6 DEF ProgressTyped
<1>8. Known'
  BY <1>3, <1>4, <1>5, KnownStays
<1>9. \A h : MadeAt(h)' = MadeAt(h) /\ Spent(MadeAt(h))' = Spent(MadeAt(h))
  BY <1>3 DEF MadeAt, AttemptsAt, Spent
<1>10. Counted(c, g) /\ Settled(c, g)
  BY DEF ProgressInv
<1>11. Recorder(c, g)' = Recorder(c, g) \cup {v} /\ v \notin Recorder(c, g)
       /\ \A w \in Recorder(c, g) : event'[w] = event[w]
  BY <1>3, <1>4, <1>5, <1>6 DEF Recorder
<1>12. Counted(c, g)'
  <2> DEFINE docs == progress[c][g]
  <2>1. docs \in Seq(LearnerProgress) /\ Counts(docs) \in Nat /\ written[c][g] \in Nat
    BY <1>1, CountsIs DEF ProgressTyped
  <2>2. docs = <<>> => new.attemptCount = 1
    BY <1>1, <1>2, FoundType
  <2>3. docs # <<>> => new.attemptCount + Counts(docs) <= written[c][g] + 1 + docs[1].attemptCount
    <3>1. Counts(docs) <= written[c][g]
      BY <1>10 DEF Counted
    <3>2. ASSUME docs # <<>>
          PROVE  new.attemptCount = docs[1].attemptCount + 1 /\ docs[1].attemptCount \in Nat
      <4>1. Found(c, g) = docs[1]
        BY <1>1, <3>2, FoundType
      <4>2. QED
        BY <1>1, <1>2, <4>1 DEF LearnerProgress
    <3> HIDE DEF docs
    <3>3. QED
      BY <2>1, <3>1, <3>2
  <2>4. QED
    BY <1>3, <1>5, <1>6, <1>10, <1>11, <2>2, <2>3 DEF Counted
<1>13. Settled(c, g)'
  <2> SUFFICES ASSUME <<c, g>> \notin marred'
               PROVE  /\ \A w, u \in Recorder(c, g)' : w = u
                      /\ Sole(c, g)' => Alone(c, g)'
    BY DEF Settled
  <2>1. Recorder(c, g) = {} /\ <<c, g>> \notin marred /\ Recorder(c, g)' = {v}
    BY <1>3, <1>11
  <2>2. ASSUME Sole(c, g)' PROVE Alone(c, g)'
    <3>1. Sole(c, g)
      BY <1>3, <2>2 DEF Sole
    <3>2. Alone(c, g)
      BY <1>10, <2>1, <3>1 DEF Settled
    <3>3. Told(progress[c][g], MadeAt(g)) /\ Len(progress[c][g]) <= 1
      BY <2>1, <3>2 DEF Alone
    <3>4. OnTop(e, MadeAt(g))
      BY <1>1, <1>5, <3>3, TopOfCopy DEF new
    <3>5. Told(progress[c][g], MadeAt(g))'
      BY <1>3, <1>9, <3>3 DEF Told, Tallies
    <3>6. OnTop(event[v], MadeAt(g))'
      BY <1>3, <1>6, <1>9, <3>4 DEF OnTop
    <3>7. QED
      BY <1>3, <1>5, <1>6, <2>1, <3>3, <3>5, <3>6 DEF Alone
  <2>3. QED
    BY <2>1, <2>2
<1>14. ASSUME NEW d \in Custom, NEW h \in Segment, d # c \/ h # g
       PROVE  Counted(d, h)' /\ Settled(d, h)'
  <2>1. marred \subseteq marred' /\ (Sole(d, h)' => Sole(d, h))
    BY <1>3 DEF Sole
  <2>2. progress'[d][h] = progress[d][h] /\ written'[d][h] = written[d][h]
    BY <1>3
  <2>3. \A i \in MadeAt(h) : attempts'[i] = attempts[i]
    BY <1>3
  <2>4. e.of # d \/ e.segment # h
    BY <1>5, <1>14
  <2>5. QED
    BY <1>3, <1>4, <1>9, <2>1, <2>2, <2>3, <2>4, Aside
<1>15. QED
  BY <1>7, <1>8, <1>12, <1>13, <1>14 DEF ProgressInv

(* An upsert that leaves docs in its place, however it came by them. *)
LEMMA UpsertedKeeps ==
  ASSUME ProgressInv, NEW v \in Call, event[v] # None, NEW c, NEW g,
         c = event[v].of, g = event[v].segment,
         NEW docs \in Seq(LearnerProgress), docs # <<>>, Upserted(v, docs),
         Counts(docs) <= written[c][g] + 1,
         \A w \in Recorder(c, g) \ {v} :
           event[w].at = "upsert" =>
             event[w].new.attemptCount + Counts(docs) <= written[c][g] + 2 + docs[1].attemptCount,
         <<c, g>> \notin marred /\ Sole(c, g) => Len(docs) <= 1 /\ Wrote(event[v], docs[1])
  PROVE  ProgressInv'
<1> DEFINE e == [event[v] EXCEPT !.at = "create"]
<1>1. /\ ProgressTyped /\ c \in Custom /\ g \in Segment /\ event[v] \in InFlight
  BY EventIs DEF ProgressInv
<1>2. /\ event' = [event EXCEPT ![v] = e]
      /\ progress' = [progress EXCEPT ![c][g] = docs]
      /\ written' = [written EXCEPT ![c][g] = written[c][g] + 1]
      /\ UNCHANGED <<attempts, marred>>
  BY <1>1 DEF Upserted, ProgressTyped
<1>3. /\ e \in InFlight /\ e.at = "create" /\ e.of = c /\ e.segment = g
      /\ e.new = event[v].new /\ e.sec = event[v].sec
  BY <1>1 DEF InFlight
<1>4. e \in Event /\ e # None
  BY <1>3, NoneAssumption DEF Event
<1> HIDE DEF e
<1>5. event' \in [Call -> Event] /\ event'[v] = e /\ \A w \in Call \ {v} : event'[w] = event[w]
  BY <1>1, <1>2, <1>4, EventSet
<1>6. /\ progress'[c][g] = docs /\ written'[c][g] = written[c][g] + 1
      /\ \A d \in Custom, h \in Segment : d # c \/ h # g =>
           progress'[d][h] = progress[d][h] /\ written'[d][h] = written[d][h]
  BY <1>1, <1>2 DEF ProgressTyped
<1>7. ProgressTyped'
  <2>1. progress' \in [Custom -> [Segment -> Seq(LearnerProgress)]]
    BY <1>1, <1>2 DEF ProgressTyped
  <2>2. written' \in [Custom -> [Segment -> Nat]]
    <3>1. written[c][g] + 1 \in Nat
      BY <1>1 DEF ProgressTyped
    <3>2. QED
      BY <1>1, <1>2, <3>1 DEF ProgressTyped
  <2>3. QED
    BY <1>1, <1>2, <1>5, <2>1, <2>2 DEF ProgressTyped
<1>8. Known'
  <2>1. \A d \in Custom, h \in Segment : progress[d][h] # <<>> => progress'[d][h] # <<>>
    BY <1>6
  <2>2. progress'[e.of][e.segment] # <<>>
    BY <1>3, <1>6
  <2>3. QED
    BY <1>2, <1>4, <2>1, <2>2, KnownStays
<1>9. \A h : MadeAt(h)' = MadeAt(h) /\ Spent(MadeAt(h))' = Spent(MadeAt(h))
  BY <1>2 DEF MadeAt, AttemptsAt, Spent
<1>10. Counted(c, g) /\ Settled(c, g)
  BY <1>1 DEF ProgressInv
<1>11. Recorder(c, g)' = Recorder(c, g) /\ v \in Recorder(c, g)
       /\ \A w \in Recorder(c, g) \ {v} : event'[w] = event[w]
  BY <1>3, <1>4, <1>5 DEF Recorder
<1>12. Counted(c, g)'
  <2>1. Counts(docs) <= written'[c][g]
    BY <1>6
  <2>2. ASSUME NEW w \in Recorder(c, g)
        PROVE  /\ event'[w].at = "insert" => event'[w].new.attemptCount = 1
               /\ event'[w].at = "upsert" => event'[w].new.attemptCount + Counts(docs)
                                               <= written'[c][g] + 1 + docs[1].attemptCount
    <3>1. CASE w = v
      BY <1>3, <1>5, <3>1
    <3>2. CASE w # v
      <4>1. event'[w] = event[w]
        BY <1>11, <3>2
      <4>2. event[w].at = "insert" => event[w].new.attemptCount = 1
        BY <1>10 DEF Counted
      <4>3. event[w].at = "upsert" =>
             event[w].new.attemptCount + Counts(docs) <= written[c][g] + 2 + docs[1].attemptCount
        BY <3>2
      <4>4. written'[c][g] + 1 = written[c][g] + 2 /\ written[c][g] \in Nat
        BY <1>1, <1>6 DEF ProgressTyped
      <4>5. QED
        BY <4>1, <4>2, <4>3, <4>4
    <3>3. QED
      BY <3>1, <3>2
  <2>3. QED
    BY <1>6, <1>11, <2>1, <2>2 DEF Counted
<1>13. Settled(c, g)'
  <2> SUFFICES ASSUME <<c, g>> \notin marred
               PROVE  /\ \A w, u \in Recorder(c, g) : w = u
                      /\ Sole(c, g)' => Alone(c, g)'
    BY <1>2, <1>11 DEF Settled
  <2>1. \A w, u \in Recorder(c, g) : w = u
    BY <1>10 DEF Settled
  <2>2. ASSUME Sole(c, g)' PROVE Alone(c, g)'
    <3>1. Sole(c, g)
      BY <1>1, <1>6, <2>2 DEF Sole
    <3>2. Alone(c, g)
      BY <1>10, <3>1 DEF Settled
    <3>3. OnTop(event[v], MadeAt(g))
      BY <1>11, <3>2 DEF Alone
    <3>4. OnTop(event[v], MadeAt(g))'
      BY <1>2, <1>3, <1>5, <1>9, <3>3 DEF OnTop
    <3>5. Len(docs) <= 1 /\ Wrote(event[v], docs[1])
      BY <3>1
    <3>6. Wrote(event'[v], docs[1])
      BY <1>3, <1>5, <3>5 DEF Wrote
    <3>7. \A w \in Recorder(c, g)' : w = v
      BY <1>11, <2>1
    <3>8. event'[v].at = "create" /\ v \in Recorder(c, g)'
      BY <1>3, <1>5, <1>11
    <3>9. QED
      BY <1>6, <3>4, <3>5, <3>6, <3>7, <3>8 DEF Alone, Wrote
  <2>3. QED
    BY <2>1, <2>2
<1>14. ASSUME NEW d \in Custom, NEW h \in Segment, d # c \/ h # g
       PROVE  Counted(d, h)' /\ Settled(d, h)'
  <2>1. Sole(d, h)' => Sole(d, h)
    BY <1>1, <1>6 DEF Sole
  <2>2. progress'[d][h] = progress[d][h] /\ written'[d][h] = written[d][h]
    BY <1>6, <1>14
  <2>3. \A i \in MadeAt(h) : attempts'[i] = attempts[i]
    BY <1>2
  <2>4. (e.of # d \/ e.segment # h) /\ (event[v].of # d \/ event[v].segment # h)
    BY <1>3, <1>14
  <2>5. QED
    BY <1>2, <1>4, <1>9, <2>1, <2>2, <2>3, <2>4, Aside
<1>15. QED
  BY <1>7, <1>8, <1>12, <1>13, <1>14 DEF ProgressInv

(* An upsert that finds a document replaces the first with what its event  *)
(* computed from an earlier copy.                                          *)
LEMMA UpsertFindsKeeps ==
  ASSUME ProgressInv, NEW v \in Call, UpsertFinds(v)
  PROVE  ProgressInv'
<1> DEFINE c == event[v].of
           g == event[v].segment
           was == progress[c][g]
           new == event[v].new
           d == Over(was[1], new)
           docs == [was EXCEPT ![1] = d]
<1>1. /\ event[v] # None /\ event[v].at = "upsert" /\ was # <<>> /\ Upserted(v, docs)
  BY DEF UpsertFinds
<1>2. ProgressTyped /\ c \in Custom /\ g \in Segment /\ new \in LearnerProgress
  BY <1>1, EventIs DEF ProgressInv
<1>3. was \in Seq(LearnerProgress) /\ written[c][g] \in Nat
  BY <1>2 DEF ProgressTyped
<1>4. was[1] \in LearnerProgress
  BY <1>1, <1>3
<1>5. d \in LearnerProgress /\ Wrote(event[v], d)
  BY <1>2, <1>4, OverType DEF Wrote
<1>6. v \in Recorder(c, g)
  BY <1>1 DEF Recorder
<1>7. Counted(c, g) /\ Settled(c, g)
  BY <1>2 DEF ProgressInv
<1> HIDE DEF d
<1>8. /\ docs \in Seq(LearnerProgress) /\ Len(docs) = Len(was) /\ docs[1] = d /\ docs # <<>>
      /\ Counts(docs) + was[1].attemptCount = Counts(was) + d.attemptCount
  BY <1>1, <1>3, <1>5, CountsReplaced
<1>9. /\ Counts(was) \in Nat /\ Counts(docs) \in Nat
      /\ was[1].attemptCount \in Nat /\ d.attemptCount \in Nat /\ d.attemptCount = new.attemptCount
  <2>1. Counts(was) \in Nat /\ Counts(docs) \in Nat
    BY <1>3, <1>8, CountsIs
  <2>2. QED
    BY <1>4, <1>5, <2>1 DEF LearnerProgress, Wrote
<1> DEFINE a == Counts(was)
           b == Counts(docs)
           x == was[1].attemptCount
           y == d.attemptCount
           n == written[c][g]
<1>10. b + x = a + y /\ {a, b, x, y, n} \subseteq Nat
  BY <1>3, <1>8, <1>9
<1>11. new.attemptCount + a <= n + 1 + x
  BY <1>1, <1>6, <1>7 DEF Counted
<1>12. y = new.attemptCount
  BY <1>9
<1>13. b <= n + 1
  <2> HIDE DEF a, b, x, y, n
  <2>1. y + a <= n + 1 + x
    BY <1>11, <1>12
  <2>2. QED
    BY <1>10, <2>1
<1>14. ASSUME NEW w \in Recorder(c, g) \ {v}, event[w].at = "upsert"
       PROVE  event[w].new.attemptCount + Counts(docs) <= written[c][g] + 2 + docs[1].attemptCount
  <2> DEFINE z == event[w].new.attemptCount
  <2>1. z + a <= n + 1 + x
    BY <1>1, <1>7, <1>14 DEF Counted
  <2>2. z \in Nat
    <3>1. event[w].new \in LearnerProgress
      BY <1>2, EventIs DEF Recorder
    <3>2. QED
      BY <3>1 DEF LearnerProgress
  <2>3. z + b <= n + 2 + y
    <3> HIDE DEF a, b, x, y, n, z
    <3>1. QED
      BY <1>10, <2>1, <2>2
  <2>4. QED
    BY <1>8, <2>3
<1>15. <<c, g>> \notin marred /\ Sole(c, g) => Len(docs) <= 1 /\ Wrote(event[v], docs[1])
  BY <1>5, <1>7, <1>8 DEF Settled, Alone
<1> HIDE DEF docs, was, new
<1>16. QED
  BY <1>1, <1>8, <1>13, <1>14, <1>15, UpsertedKeeps

LEMMA UpsertInsertsKeeps ==
  ASSUME ProgressInv, NEW v \in Call, UpsertInserts(v)
  PROVE  ProgressInv'
<1> DEFINE c == event[v].of
           g == event[v].segment
           was == progress[c][g]
           new == event[v].new
           docs == Append(was, new)
<1>1. /\ event[v] # None /\ event[v].at = "insert" /\ Upserted(v, docs)
  BY DEF UpsertInserts
<1>2. ProgressTyped /\ c \in Custom /\ g \in Segment /\ new \in LearnerProgress
  BY <1>1, EventIs DEF ProgressInv
<1>3. was \in Seq(LearnerProgress) /\ written[c][g] \in Nat
  BY <1>2 DEF ProgressTyped
<1>4. v \in Recorder(c, g)
  BY <1>1 DEF Recorder
<1>5. Counted(c, g) /\ Settled(c, g)
  BY <1>2 DEF ProgressInv
<1>6. new.attemptCount = 1 /\ Counts(was) <= written[c][g]
  BY <1>1, <1>4, <1>5 DEF Counted
<1>7. /\ docs \in Seq(LearnerProgress) /\ Len(docs) = Len(was) + 1 /\ docs # <<>>
      /\ docs[1] = IF was = <<>> THEN new ELSE was[1]
      /\ Counts(docs) = Counts(was) + 1
  <2> HIDE DEF was, new
  <2>1. docs = Append(was, new)
    OBVIOUS
  <2> HIDE DEF docs
  <2>2. /\ docs \in Seq(LearnerProgress) /\ Len(docs) = Len(was) + 1 /\ docs # <<>>
        /\ docs[1] = IF was = <<>> THEN new ELSE was[1]
        /\ Counts(docs) = Counts(was) + new.attemptCount
    BY <1>2, <1>3, <2>1, CountsAppended
  <2>3. QED
    BY <1>6, <2>2
<1>8. Counts(was) \in Nat
  BY <1>3, CountsIs
<1>9. ASSUME NEW w \in Recorder(c, g) \ {v}, event[w].at = "upsert"
      PROVE  event[w].new.attemptCount + Counts(docs) <= written[c][g] + 2 + docs[1].attemptCount
  <2> DEFINE z == event[w].new.attemptCount
             a == Counts(was)
             b == Counts(docs)
             x == docs[1].attemptCount
             n == written[c][g]
  <2> SUFFICES z + b <= n + 2 + x
    OBVIOUS
  <2>1. {a, n, z} \subseteq Nat /\ b = a + 1 /\ a <= n
    <3>1. event[w].new \in LearnerProgress
      BY <1>2, EventIs DEF Recorder
    <3>2. z \in Nat
      BY <3>1 DEF LearnerProgress
    <3>3. QED
      BY <1>3, <1>6, <1>7, <1>8, <3>2
  <2>2. x \in Nat
    <3>1. docs[1] \in LearnerProgress
      BY <1>7
    <3>2. QED
      BY <3>1 DEF LearnerProgress
  <2>3. CASE was = <<>>
    <3>1. z = 1
      BY <1>5, <1>9, <2>3 DEF Counted
    <3> HIDE DEF a, b, x, n, z
    <3>2. QED
      BY <2>1, <2>2, <3>1
  <2>4. CASE was # <<>>
    <3>1. z + a <= n + 1 + x
      BY <1>5, <1>7, <1>9, <2>4 DEF Counted
    <3> HIDE DEF a, b, x, n, z
    <3>2. QED
      BY <2>1, <2>2, <3>1
  <2>5. QED
    BY <2>3, <2>4
<1>10. <<c, g>> \notin marred /\ Sole(c, g) => was = <<>>
  BY <1>1, <1>4, <1>5 DEF Settled, Alone
<1>11. was = <<>> => Len(docs) = 1 /\ Wrote(event[v], docs[1])
  BY <1>7 DEF Wrote
<1>12. Counts(docs) <= written[c][g] + 1
  <2> HIDE DEF docs, was, new
  <2>1. QED
    BY <1>3, <1>6, <1>7, <1>8
<1> HIDE DEF docs, was, new
<1>13. QED
  BY <1>1, <1>7, <1>9, <1>10, <1>11, <1>12, UpsertedKeeps

LEMMA UpsertMissesKeeps ==
  ASSUME ProgressInv, NEW v \in Call, UpsertMisses(v),
         NEW c, NEW g, c = event[v].of, g = event[v].segment
  PROVE  ProgressInv'
<1> DEFINE e == [event[v] EXCEPT !.at = "insert"]
<1>1. /\ event[v] # None /\ event[v].at = "upsert" /\ progress[c][g] = <<>>
      /\ event' = [event EXCEPT ![v] = e]
      /\ UNCHANGED <<progress, attempts, marred, written>>
  <2>1. event' = [event EXCEPT ![v].at = "insert"]
    BY DEF UpsertMisses
  <2>2. event \in [Call -> Event]
    BY DEF ProgressInv, ProgressTyped
  <2>3. QED
    BY <2>1, <2>2 DEF UpsertMisses
<1>2. ProgressTyped /\ c \in Custom /\ g \in Segment /\ event[v] \in InFlight
  BY <1>1, EventIs DEF ProgressInv
<1>3. /\ e \in InFlight /\ e.at = "insert" /\ e.of = c /\ e.segment = g
      /\ e.new = event[v].new /\ e.sec = event[v].sec
  BY <1>2 DEF InFlight
<1>4. e \in Event /\ e # None
  BY <1>3, NoneAssumption DEF Event
<1> HIDE DEF e
<1>5. event' \in [Call -> Event] /\ event'[v] = e /\ \A w \in Call \ {v} : event'[w] = event[w]
  BY <1>1, <1>2, <1>4, EventSet
<1>6. ProgressTyped'
  BY <1>1, <1>2, <1>5 DEF ProgressTyped
<1>7. Known'
  BY <1>1, <1>3, <1>4, KnownStays
<1>8. \A h : MadeAt(h)' = MadeAt(h) /\ Spent(MadeAt(h))' = Spent(MadeAt(h))
  BY <1>1 DEF MadeAt, AttemptsAt, Spent
<1>9. Counted(c, g) /\ Settled(c, g)
  BY <1>2 DEF ProgressInv
<1>10. Recorder(c, g)' = Recorder(c, g) /\ v \in Recorder(c, g)
       /\ \A w \in Recorder(c, g) \ {v} : event'[w] = event[w]
  BY <1>1, <1>3, <1>4, <1>5 DEF Recorder
<1>11. Counted(c, g)'
  <2>1. e.new.attemptCount = 1
    BY <1>1, <1>3, <1>9, <1>10 DEF Counted
  <2>2. QED
    BY <1>1, <1>3, <1>5, <1>9, <1>10, <2>1 DEF Counted
<1>12. Settled(c, g)'
  <2> SUFFICES ASSUME <<c, g>> \notin marred
               PROVE  /\ \A w, u \in Recorder(c, g) : w = u
                      /\ Sole(c, g)' => Alone(c, g)'
    BY <1>1, <1>10 DEF Settled
  <2>1. \A w, u \in Recorder(c, g) : w = u
    BY <1>9 DEF Settled
  <2>2. ASSUME Sole(c, g)' PROVE Alone(c, g)'
    <3>1. Alone(c, g)
      BY <1>1, <1>9, <2>2 DEF Settled, Sole
    <3>2. \A w \in Recorder(c, g)' : w = v
      BY <1>10, <2>1
    <3>3. OnTop(event[v], MadeAt(g))
      BY <1>10, <3>1 DEF Alone
    <3>4. OnTop(event[v], MadeAt(g))'
      BY <1>1, <1>3, <1>5, <1>8, <3>3 DEF OnTop
    <3>5. Told(progress[c][g], MadeAt(g))
      <4>1. \A w \in Recorder(c, g) : event[w].at # "create"
        BY <1>1, <1>10, <2>1
      <4>2. QED
        BY <3>1, <4>1 DEF Alone
    <3>6. Told(progress[c][g], MadeAt(g))'
      BY <1>1, <1>8, <3>5 DEF Told
    <3>7. Len(progress[c][g]) <= 1
      BY <3>1 DEF Alone
    <3>8. QED
      BY <1>1, <1>3, <1>5, <3>2, <3>4, <3>6, <3>7 DEF Alone
  <2>3. QED
    BY <2>1, <2>2
<1>13. ASSUME NEW d \in Custom, NEW h \in Segment, d # c \/ h # g
       PROVE  Counted(d, h)' /\ Settled(d, h)'
  <2>1. (Sole(d, h)' => Sole(d, h)) /\ marred \subseteq marred'
    BY <1>1 DEF Sole
  <2>2. progress'[d][h] = progress[d][h] /\ written'[d][h] = written[d][h]
    BY <1>1
  <2>3. \A i \in MadeAt(h) : attempts'[i] = attempts[i]
    BY <1>1
  <2>4. (e.of # d \/ e.segment # h) /\ (event[v].of # d \/ event[v].segment # h)
    BY <1>3, <1>13
  <2>5. QED
    BY <1>1, <1>4, <1>8, <2>1, <2>2, <2>3, <2>4, Aside
<1>14. QED
  BY <1>6, <1>7, <1>11, <1>12, <1>13 DEF ProgressInv

(* An event that breaks off, or whose attempt is refused: what it wrote    *)
(* stays, and the pair is marred.                                          *)
LEMMA BreaksOff ==
  ASSUME ProgressInv, NEW v \in Call, event[v] # None,
         NEW c, NEW g, c = event[v].of, g = event[v].segment,
         event' = [event EXCEPT ![v] = None], marred' = marred \cup {<<c, g>>},
         UNCHANGED <<progress, attempts, written>>
  PROVE  ProgressInv'
<1>1. ProgressTyped /\ c \in Custom /\ g \in Segment /\ None \in Event
  BY EventIs DEF ProgressInv, Event
<1>2. event' \in [Call -> Event] /\ event'[v] = None /\ \A w \in Call \ {v} : event'[w] = event[w]
  BY <1>1, EventSet
<1>3. ProgressTyped'
  BY <1>1, <1>2 DEF ProgressTyped
<1>4. Known'
  BY <1>1, KnownStays
<1>5. \A h : MadeAt(h)' = MadeAt(h) /\ Spent(MadeAt(h))' = Spent(MadeAt(h))
  BY DEF MadeAt, AttemptsAt, Spent
<1>6. Recorder(c, g)' \subseteq Recorder(c, g)
      /\ \A w \in Recorder(c, g)' : event'[w] = event[w]
  BY <1>2 DEF Recorder
<1>7. Counted(c, g)
  BY <1>1 DEF ProgressInv
<1>8. Counted(c, g)' /\ Settled(c, g)'
  BY <1>6, <1>7 DEF Counted, Settled
<1>9. ASSUME NEW d \in Custom, NEW h \in Segment, d # c \/ h # g
      PROVE  Counted(d, h)' /\ Settled(d, h)'
  <2>1. (Sole(d, h)' => Sole(d, h)) /\ marred \subseteq marred'
    BY DEF Sole
  <2>2. progress'[d][h] = progress[d][h] /\ written'[d][h] = written[d][h]
    OBVIOUS
  <2>3. \A i \in MadeAt(h) : attempts'[i] = attempts[i]
    OBVIOUS
  <2>4. event[v] = None \/ event[v].of # d \/ event[v].segment # h
    BY <1>9
  <2>5. None \in Event
    BY <1>1
  <2>6. Sole(d, h)' => /\ Sole(d, h)
                       /\ MadeAt(h)' = MadeAt(h) /\ Spent(MadeAt(h))' = Spent(MadeAt(h))
                       /\ \A i \in MadeAt(h) : attempts'[i] = attempts[i]
    BY <1>5, <2>1, <2>3
  <2>7. marred \subseteq marred'
    OBVIOUS
  <2>8. QED
    BY <2>2, <2>4, <2>5, <2>6, <2>7, EndedAside
<1>10. QED
  BY <1>3, <1>4, <1>8, <1>9 DEF ProgressInv

(* The attempt is created: what was told last is told of it. *)
LEMMA AttemptCreated ==
  ASSUME ProgressInv, NEW v \in Call, event[v] # None, event[v].at = "create",
         NEW c, NEW g, c = event[v].of, g = event[v].segment,
         NEW a \in Attempt, a.segment = g, a.status = event[v].new.status,
         a.score = event[v].new.score, a.timeSpentSec = event[v].sec,
         attempts' = Append(attempts, a), event' = [event EXCEPT ![v] = None],
         UNCHANGED <<progress, marred, written>>
  PROVE  ProgressInv'
<1> DEFINE n == Len(attempts) + 1
<1>1. ProgressTyped /\ c \in Custom /\ g \in Segment /\ None \in Event
  BY EventIs DEF ProgressInv, Event
<1>2. event' \in [Call -> Event] /\ event'[v] = None /\ \A w \in Call \ {v} : event'[w] = event[w]
  BY <1>1, EventSet
<1>3. /\ attempts \in Seq(Attempt) /\ attempts' \in Seq(Attempt)
      /\ DOMAIN attempts' = DOMAIN attempts \cup {n} /\ attempts'[n] = a
      /\ \A i \in DOMAIN attempts : attempts'[i] = attempts[i]
  BY <1>1 DEF ProgressTyped
<1>4. ProgressTyped'
  BY <1>1, <1>2, <1>3 DEF ProgressTyped
<1>5. progress[c][g] # <<>>
  BY DEF ProgressInv, Known
<1>6. Known'
  <2>1. ASSUME NEW i \in DOMAIN attempts'
        PROVE  \E d \in Custom : progress[d][attempts'[i].segment] # <<>>
    <3>1. CASE i = n
      BY <1>1, <1>3, <1>5, <3>1
    <3>2. CASE i # n
      BY <1>3, <2>1, <3>2 DEF ProgressInv, Known
    <3>3. QED
      BY <3>1, <3>2
  <2>2. ASSUME NEW w \in Call, event'[w] # None, event'[w].at = "create"
        PROVE  progress[event'[w].of][event'[w].segment] # <<>>
    BY <1>2, <2>2 DEF ProgressInv, Known
  <2>3. QED
    BY <2>1, <2>2 DEF Known
<1>7. Counted(c, g) /\ Settled(c, g)
  BY <1>1 DEF ProgressInv
<1>8. /\ Recorder(c, g)' = Recorder(c, g) \ {v} /\ v \in Recorder(c, g)
      /\ \A w \in Recorder(c, g)' : event'[w] = event[w]
  BY <1>2 DEF Recorder
<1>9. Counted(c, g)'
  BY <1>7, <1>8 DEF Counted
<1>10. Settled(c, g)'
  <2> SUFFICES ASSUME <<c, g>> \notin marred
               PROVE  /\ \A w, u \in Recorder(c, g)' : w = u
                      /\ Sole(c, g)' => Alone(c, g)'
    BY DEF Settled
  <2>1. Recorder(c, g)' = {}
    BY <1>7, <1>8 DEF Settled
  <2>2. ASSUME Sole(c, g)' PROVE Alone(c, g)'
    <3> DEFINE made == MadeAt(g)
               now == MadeAt(g)'
               d == progress[c][g][1]
    <3>1. Alone(c, g)
      BY <1>7, <2>2 DEF Settled, Sole
    <3>2. Len(progress[c][g]) <= 1 /\ OnTop(event[v], made) /\ Wrote(event[v], d)
      BY <1>8, <3>1 DEF Alone
    <3>3. /\ Cardinality(now) = Cardinality(made) + 1
          /\ Spent(MadeAt(g))' = Spent(made) + a.timeSpentSec
          /\ now = made \cup {n} /\ attempts'[n] = a
          /\ \A i \in made : attempts'[i] = attempts[i] /\ i <= n
      BY <1>1, MadeMore
    <3> HIDE DEF made, now, d
    <3>4. d.attemptCount = Cardinality(now) /\ d.timeSpentSec = Spent(MadeAt(g))'
      BY <3>2, <3>3 DEF OnTop, Wrote
    <3>5. n \in now /\ (\A i \in now : i <= n)
          /\ d.status = attempts'[n].status /\ d.score = attempts'[n].score
      <4>1. n <= n
        BY <1>3
      <4>2. QED
        BY <3>2, <3>3, <4>1 DEF Wrote
    <3>6. d.progressPercent = 100 <=> \E i \in now : attempts'[i].status = "completed"
      <4>1. d.progressPercent = 100
              <=> a.status = "completed" \/ \E i \in made : attempts[i].status = "completed"
        BY <3>2 DEF OnTop, Wrote
      <4>2. attempts'[n] = a /\ now = made \cup {n}
        BY <3>3
      <4>3. \A i \in made : attempts'[i] = attempts[i]
        BY <3>3
      <4> HIDE DEF n
      <4>4. (\E i \in now : attempts'[i].status = "completed")
              <=> a.status = "completed" \/ \E i \in made : attempts[i].status = "completed"
        BY <4>2, <4>3
      <4>5. QED
        BY <4>1, <4>4
    <3> HIDE DEF n
    <3>7. Told(progress[c][g], MadeAt(g))'
      BY <1>5, <3>4, <3>5, <3>6 DEF Told, Tallies, now, d
    <3>8. QED
      BY <2>1, <3>2, <3>7 DEF Alone
  <2>3. QED
    BY <2>1, <2>2
<1>11. ASSUME NEW d \in Custom, NEW h \in Segment, d # c \/ h # g
       PROVE  Counted(d, h)' /\ Settled(d, h)'
  <2>1. marred \subseteq marred' /\ progress'[d][h] = progress[d][h]
        /\ written'[d][h] = written[d][h]
    OBVIOUS
  <2>2. \A i \in MadeAt(h) : attempts'[i] = attempts[i]
    BY <1>1, MadeMore
  <2>3. h # g => MadeAt(h)' = MadeAt(h) /\ Spent(MadeAt(h))' = Spent(MadeAt(h))
    BY <1>1, MadeMore
  <2>4. Sole(d, h)' => Sole(d, h) /\ h # g
    BY <1>1, <1>5, <1>11 DEF Sole
  <2>5. event[v] = None \/ event[v].of # d \/ event[v].segment # h
    BY <1>11
  <2>6. Sole(d, h)' => /\ Sole(d, h)
                       /\ MadeAt(h)' = MadeAt(h) /\ Spent(MadeAt(h))' = Spent(MadeAt(h))
                       /\ \A i \in MadeAt(h) : attempts'[i] = attempts[i]
    BY <2>2, <2>3, <2>4
  <2>7. QED
    BY <2>1, <2>5, <2>6, EndedAside
<1>12. QED
  BY <1>4, <1>6, <1>9, <1>10, <1>11 DEF ProgressInv

LEMMA CreateAttemptKeeps ==
  ASSUME ProgressInv, NEW v \in Call, CreateAttempt(v)
  PROVE  ProgressInv'
<1> DEFINE e == event[v]
           a == [segment |-> e.segment, contentType |-> "custom", status |-> e.new.status,
                 score |-> e.new.score, maxScore |-> e.new.maxScore, timeSpentSec |-> e.sec,
                 passed |-> e.new.passed]
<1>1. e # None /\ e.at = "create" /\ event' = [event EXCEPT ![v] = None]
      /\ UNCHANGED <<progress, written>>
  BY DEF CreateAttempt
<1>2. e.segment \in Segment /\ e.new \in LearnerProgress /\ e.sec \in Nat
  BY <1>1, EventIs DEF ProgressInv
<1>3. CASE Refused(e.new)
  <2>1. marred' = marred \cup {<<e.of, e.segment>>} /\ UNCHANGED attempts
    BY <1>3 DEF CreateAttempt
  <2>2. QED
    BY <1>1, <2>1, BreaksOff
<1>4. CASE ~Refused(e.new)
  <2>1. attempts' = Append(attempts, a) /\ UNCHANGED marred
    BY <1>4 DEF CreateAttempt
  <2>2. a \in Attempt
    <3>1. e.new.score \in 0..100
      BY <1>2, <1>4 DEF LearnerProgress, Refused
    <3>2. QED
      BY <1>2, <3>1 DEF LearnerProgress, Attempt
  <2>3. a.segment = e.segment /\ a.status = e.new.status /\ a.score = e.new.score
        /\ a.timeSpentSec = e.sec
    OBVIOUS
  <2> HIDE DEF a
  <2>4. QED
    BY <1>1, <2>1, <2>2, <2>3, AttemptCreated
<1>5. QED
  BY <1>3, <1>4

(* Nothing else touches what progress and attempts hold. *)
LEMMA NothingRecorded ==
  ASSUME ProgressInv, UNCHANGED <<progress, attempts, event, marred, written>>
  PROVE  ProgressInv'
<1>1. ProgressTyped' /\ Known'
  BY DEF ProgressInv, ProgressTyped, Known
<1>2. ASSUME NEW c \in Custom, NEW g \in Segment PROVE Counted(c, g)' /\ Settled(c, g)'
  <2>1. Counted(c, g) /\ Settled(c, g)
    BY DEF ProgressInv
  <2>2. Recorder(c, g)' = Recorder(c, g) /\ MadeAt(g)' = MadeAt(g)
        /\ Spent(MadeAt(g))' = Spent(MadeAt(g)) /\ Sole(c, g)' = Sole(c, g)
    BY DEF Recorder, MadeAt, AttemptsAt, Spent, Sole
  <2>3. Counted(c, g)'
    BY <2>1, <2>2 DEF Counted
  <2>4. Alone(c, g) => Alone(c, g)'
    <3>1. Told(progress[c][g], MadeAt(g)) => Told(progress[c][g], MadeAt(g))'
      BY <2>2 DEF Told, Tallies
    <3>2. \A v \in Recorder(c, g) : OnTop(event[v], MadeAt(g)) => OnTop(event[v], MadeAt(g))'
      BY <2>2 DEF OnTop
    <3>3. QED
      BY <2>2, <3>1, <3>2 DEF Alone, Wrote
  <2>5. QED
    BY <2>1, <2>2, <2>3, <2>4 DEF Settled
<1>3. QED
  BY <1>1, <1>2 DEF ProgressInv

LEMMA ProgressInvStep ==
  ProgressInv /\ [ProgressNext]_<<contents, recording>> => ProgressInv'
<1> SUFFICES ASSUME ProgressInv, [ProgressNext]_<<contents, recording>> PROVE ProgressInv'
  OBVIOUS
<1>1. CASE UNCHANGED recording
  BY <1>1, NothingRecorded DEF recording
<1>2. CASE RecordingNext
  <2>1. ASSUME NEW c \in Custom, CreateCustomContent(c) PROVE ProgressInv'
    BY <2>1, NothingRecorded DEF CreateCustomContent
  <2>2. ASSUME NEW v \in Call, NEW c \in Custom, NEW g \in Segment, NEW p \in Payload,
               NEW type \in {"answer", "quiz_complete"}, StartEvent(v, c, g, type, p)
        PROVE  ProgressInv'
    BY <2>2, StartEventKeeps
  <2>3. ASSUME NEW v \in Call, CutOffEvent(v) PROVE ProgressInv'
    BY <2>3, BreaksOff DEF CutOffEvent
  <2>4. ASSUME NEW v \in Call, UpsertFinds(v) \/ UpsertMisses(v) \/ UpsertInserts(v)
                               \/ CreateAttempt(v)
        PROVE  ProgressInv'
    BY <2>4, UpsertFindsKeeps, UpsertMissesKeeps, UpsertInsertsKeeps, CreateAttemptKeeps
  <2>5. QED
    BY <1>2, <2>1, <2>2, <2>3, <2>4 DEF RecordingNext
<1>3. QED
  BY <1>1, <1>2 DEF ProgressNext, Tells, contents, recording

(* What progress and its attempts say of each other, step by step of the   *)
(* events in flight, for any contents, segments, payloads and number of    *)
(* overlapping events (contentCtrl.ts:553-640).                            *)
THEOREM ProgressCorrect == ProgressSpec => []ProgressInv
BY ProgressInvInit, ProgressInvStep, PTL DEF ProgressSpec

(* Progress counts no attempt that was not recorded and, where no event    *)
(* broke off or overlapped another, says what its attempts add up to; and  *)
(* an attempt that is listed under a content is reported under it          *)
(* (contentCtrl.ts:583, 642, 726).                                         *)
THEOREM AttemptsTellCorrect == ProgressSpec => []AttemptsTell
<1>1. ASSUME ProgressInv, NEW c \in Custom, NEW g \in Segment
      PROVE  LET docs == progress[c][g] IN
             /\ Counts(docs) <= written[c][g]
             /\ <<c, g>> \notin marred /\ Recorder(c, g) = {} /\ docs # <<>>
                /\ (\A other \in Custom \ {c} : progress[other][g] = <<>>) =>
                  Len(docs) = 1 /\ Tallies(docs[1], MadeAt(g))
  <2>1. Counted(c, g) /\ Settled(c, g) /\ progress[c][g] \in Seq(LearnerProgress)
    BY <1>1 DEF ProgressInv, ProgressTyped
  <2>2. ASSUME <<c, g>> \notin marred, Recorder(c, g) = {}, progress[c][g] # <<>>, Sole(c, g)
        PROVE  Len(progress[c][g]) = 1 /\ Tallies(progress[c][g][1], MadeAt(g))
    <3>1. Alone(c, g)
      BY <2>1, <2>2 DEF Settled
    <3>2. Len(progress[c][g]) <= 1 /\ Told(progress[c][g], MadeAt(g))
      BY <2>2, <3>1 DEF Alone
    <3>3. Len(progress[c][g]) = 1
      <4> DEFINE docs == progress[c][g]
      <4>1. docs \in Seq(LearnerProgress) /\ docs # <<>> /\ Len(docs) <= 1
        BY <2>1, <2>2, <3>2
      <4> HIDE DEF docs
      <4>2. Len(docs) = 0 => docs = <<>>
        BY <4>1
      <4> DEFINE n == Len(docs)
      <4>3. n \in Nat /\ n <= 1 /\ n # 0
        BY <4>1, <4>2
      <4> HIDE DEF n
      <4>4. n = 1
        BY <4>3
      <4>5. QED
        BY <4>4 DEF docs, n
    <3>4. QED
      BY <2>2, <3>2, <3>3 DEF Told
  <2>3. QED
    BY <2>1, <2>2 DEF Counted, Sole
<1>2. ProgressInv => ProgressFollows
  BY <1>1 DEF ProgressFollows
<1>3. AttemptsReported
  <2> SUFFICES ASSUME NEW c \in Custom, NEW i \in DOMAIN attempts,
                      attempts[i].segment \in SegmentsOf(c)
               PROVE  listReports[i].content = c
    BY DEF AttemptsReported
  <2> DEFINE g == attempts[i].segment
  <2>1. g \in LiveSegments /\ ContentOf(g) = c
    BY DEF SegmentsOf, ContentOf
  <2>2. c # None
    BY ContentsAssumption
  <2>3. ReportedContent(g) = c
    BY <2>1, <2>2 DEF ReportedContent
  <2>4. QED
    BY <2>3 DEF listReports
<1>4. ProgressInv => AttemptsTell
  BY <1>2, <1>3 DEF AttemptsTell
<1>5. QED
  BY <1>4, ProgressCorrect, PTL

===============================================================================
