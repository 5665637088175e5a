----------------------------- MODULE CourseCatalog -----------------------------
(***************************************************************************)
(* The courses and levels of one program, and the list of its courses that *)
(* is kept in a cache: courseCtrl.ts, programLevelCtrl.ts, the course part *)
(* of contentCtrl.ts, and utils/courseCatalogCache.ts.                     *)
(*                                                                         *)
(* A course belongs to a level because the level lists it.  Every change   *)
(* of a list is followed, some operations later, by an invalidation of the *)
(* cache, which is skipped while Redis is not ready.  The field            *)
(* programLevel of a course is left out: from which level a request takes  *)
(* a course, and to which it adds it, is a choice.                         *)
(***************************************************************************)
EXTENDS FiniteSets

CONSTANTS
  Course,    \* the courses that may be created
  Level,     \* the levels that may be created
  Author,    \* the requests in flight at once
  Nothing    \* no course or level

ASSUME CatalogAssumption == Nothing \notin Course \cup Level

VARIABLES
  course,    \* course[c]: the Course document c
  rendered,  \* the courses that have a RenderedCourse
  level,     \* level[l]: the ProgramLevel document l
  cached,    \* the entry of the program in the cache
  overdue,   \* the cached entry waits for its TTL (no variable of the code)
  author     \* author[a]: where request a is and what it is to write

catalog == <<course, rendered, level, cached, overdue, author>>

-------------------------------------------------------------------------------

CourseStatus == {"draft", "rendered", "published"}
Listing == SUBSET (Course \X Level)

CourseDoc == [at : {"new", "live", "gone"}, status : CourseStatus]
LevelDoc == [at : {"new", "live", "gone"}, courses : SUBSET Course]
Entry == [filled : BOOLEAN, entries : Listing]

(* `after` is where the request goes once it has written the status;       *)
(* `entries` is the list it is to store in the cache, and `courses` the    *)
(* one it is to store in level `to`, or in a level that it creates.        *)
Task ==
  [at : {"idle", "status", "delete", "render", "pull", "add", "level",
         "invalidate", "fill"},
   of : Course \cup {Nothing}, status : CourseStatus \cup {"same"},
   after : {"idle", "render", "pull", "invalidate"},
   from : Level \cup {Nothing}, to : Level \cup {Nothing}, entries : Listing,
   courses : SUBSET Course]

NoTask ==
  [at |-> "idle", of |-> Nothing, status |-> "same", after |-> "idle",
   from |-> Nothing, to |-> Nothing, entries |-> {}, courses |-> {}]

Empty == [filled |-> FALSE, entries |-> {}]

CatalogInit ==
  /\ course = [c \in Course |-> [at |-> "new", status |-> "draft"]]
  /\ rendered = {}
  /\ level = [l \in Level |-> [at |-> "new", courses |-> {}]]
  /\ cached = Empty
  /\ overdue = FALSE
  /\ author = [a \in Author |-> NoTask]

Exists(c) == course[c].at = "live"

(* buildProgramCatalog: each level's courses, whether they exist or not. *)
Catalog == {e \in Course \X Level :
              level[e[2]].at = "live" /\ e[1] \in level[e[2]].courses}

Assign(a, task) == author' = [author EXCEPT ![a] = task]
Onward(a, at) ==
  Assign(a, [NoTask EXCEPT !.at = at, !.of = author[a].of,
                           !.from = author[a].from, !.to = author[a].to])
InvalidateNext(a) == Assign(a, [NoTask EXCEPT !.at = "invalidate"])
Free(a) == author[a].at = "idle"

-------------------------------------------------------------------------------

(* createCourse; createDepartmentCourse stores a course and no more.       *)
CreateCourse(a, c, to) ==
  /\ Free(a)
  /\ course[c].at = "new"
  /\ course' = [course EXCEPT ![c].at = "live"]
  /\ Assign(a, [NoTask EXCEPT !.at = "add", !.of = c, !.to = to])
  /\ UNCHANGED <<rendered, level, cached, overdue>>

CreateDepartmentCourse(c) ==
  /\ course[c].at = "new"
  /\ course' = [course EXCEPT ![c].at = "live"]
  /\ UNCHANGED <<rendered, level, cached, overdue, author>>

Transitions(s) ==
  CASE s = "draft" -> {"rendered"}
    [] s = "rendered" -> {"published"}
    [] s = "published" -> {"rendered"}

(* updateCourse of courseCtrl: the status, then the levels. *)
UpdateCourse(a, c, s, from, to) ==
  /\ Free(a)
  /\ Exists(c)
  /\ s = "same" \/ s \in Transitions(course[c].status)
  /\ s = "published" => c \in rendered
  /\ Assign(a, [NoTask EXCEPT !.at = "status", !.of = c, !.status = s,
                              !.after = "pull", !.from = from, !.to = to])
  /\ UNCHANGED <<course, rendered, level, cached, overdue>>

(* updateCourse of contentCtrl looks for a RenderedCourse by a field that  *)
(* none has: it never publishes.  It leaves the lists of the levels alone. *)
UpdateContentCourse(a, c, s) ==
  /\ Free(a)
  /\ Exists(c)
  /\ s = "same" \/ s \in Transitions(course[c].status) \ {"published"}
  /\ Assign(a, [NoTask EXCEPT !.at = "status", !.of = c, !.status = s,
                              !.after = "invalidate"])
  /\ UNCHANGED <<course, rendered, level, cached, overdue>>

(* Mutant: publishing asks for the status only. *)
PublishUnseen(a, c) ==
  /\ Free(a)
  /\ Exists(c)
  /\ course[c].status # "draft"
  /\ Assign(a, [NoTask EXCEPT !.at = "status", !.of = c, !.status = "published",
                              !.after = "invalidate"])
  /\ UNCHANGED <<course, rendered, level, cached, overdue>>

PublishCourse(a, c) ==
  /\ Free(a)
  /\ Exists(c)
  /\ course[c].status # "draft"
  /\ c \in rendered
  /\ Assign(a, [NoTask EXCEPT !.at = "status", !.of = c, !.after = "invalidate",
       !.status = IF course[c].status = "published" THEN "same" ELSE "published"])
  /\ UNCHANGED <<course, rendered, level, cached, overdue>>

UnpublishCourse(a, c) ==
  /\ Free(a)
  /\ Exists(c)
  /\ Assign(a, [NoTask EXCEPT !.at = "status", !.of = c, !.after = "invalidate",
       !.status = IF course[c].status = "published" THEN "rendered" ELSE "same"])
  /\ UNCHANGED <<course, rendered, level, cached, overdue>>

(* renderCourse and forceRenderCourse save the status before they render. *)
StartRender(a, c) ==
  /\ Free(a)
  /\ Exists(c)
  /\ Assign(a, [NoTask EXCEPT !.at = "status", !.of = c, !.after = "render",
       !.status = IF course[c].status = "draft" THEN "rendered" ELSE "same"])
  /\ UNCHANGED <<course, rendered, level, cached, overdue>>

(* The write of the status; of a deleted course nothing is written, which  *)
(* save() throws on (CutOff) and findByIdAndUpdate does not.               *)
WriteStatus(a) ==
  LET c == author[a].of IN
  /\ author[a].at = "status"
  /\ course' = IF Exists(c) /\ author[a].status # "same"
               THEN [course EXCEPT ![c].status = author[a].status]
               ELSE course
  /\ IF author[a].after = "invalidate" THEN InvalidateNext(a)
                                      ELSE Onward(a, author[a].after)
  /\ UNCHANGED <<rendered, level, cached, overdue>>

(* The version may be rendered already, and the answer goes out at once;   *)
(* else the contents are read, any of which may be missing (CutOff), and   *)
(* the result is stored.                                                   *)
Render(a) ==
  /\ author[a].at = "render"
  /\ \/ rendered' = rendered \cup {author[a].of} /\ InvalidateNext(a)
     \/ author[a].of \in rendered /\ UNCHANGED rendered /\ Assign(a, NoTask)
  /\ UNCHANGED <<course, level, cached, overdue>>

DeleteCourse(a, c, from) ==
  /\ Free(a)
  /\ Exists(c)
  /\ Assign(a, [NoTask EXCEPT !.at = "delete", !.of = c, !.from = from])
  /\ UNCHANGED <<course, rendered, level, cached, overdue>>

RemoveCourse(a) ==
  /\ author[a].at = "delete"
  /\ course' = [course EXCEPT ![author[a].of].at = "gone"]
  /\ Onward(a, "pull")
  /\ UNCHANGED <<rendered, level, cached, overdue>>

(* $pull and $addToSet; a level that is gone is not found.                 *)
PullCourse(a) ==
  /\ author[a].at = "pull"
  /\ level' = [l \in Level |->
       IF l = author[a].from /\ level[l].at = "live"
       THEN [level[l] EXCEPT !.courses = @ \ {author[a].of}]
       ELSE level[l]]
  /\ Onward(a, "add")
  /\ UNCHANGED <<course, rendered, cached, overdue>>

AddCourse(a) ==
  /\ author[a].at = "add"
  /\ level' = [l \in Level |->
       IF l = author[a].to /\ level[l].at = "live"
       THEN [level[l] EXCEPT !.courses = @ \cup {author[a].of}]
       ELSE level[l]]
  /\ InvalidateNext(a)
  /\ UNCHANGED <<course, rendered, cached, overdue>>

-------------------------------------------------------------------------------

(* createProgramLevel and updateProgramLevel look up the courses given;    *)
(* an update that gives none writes back the list it has read.             *)
StartCreateLevel(a, courses) ==
  /\ Free(a)
  /\ \A c \in courses : Exists(c)
  /\ Assign(a, [NoTask EXCEPT !.at = "level", !.courses = courses])
  /\ UNCHANGED <<course, rendered, level, cached, overdue>>

StartUpdateLevel(a, l, courses) ==
  /\ Free(a)
  /\ level[l].at = "live"
  /\ courses = level[l].courses \/ \A c \in courses : Exists(c)
  /\ Assign(a, [NoTask EXCEPT !.at = "level", !.to = l, !.courses = courses])
  /\ UNCHANGED <<course, rendered, level, cached, overdue>>

(* A level that is gone by then is not found. *)
WriteLevel(a, l) ==
  /\ author[a].at = "level"
  /\ IF author[a].to = Nothing THEN level[l].at = "new" ELSE l = author[a].to
  /\ level' = IF level[l].at = "gone"
              THEN level
              ELSE [level EXCEPT ![l] = [at |-> "live", courses |-> author[a].courses]]
  /\ InvalidateNext(a)
  /\ UNCHANGED <<course, rendered, cached, overdue>>

(* Mutant: a deleted level leaves the cache as it is. *)
DeleteLevelOnly(a, l) ==
  /\ Free(a)
  /\ level[l].at = "live"
  /\ level' = [level EXCEPT ![l].at = "gone"]
  /\ UNCHANGED <<course, rendered, cached, overdue, author>>

DeleteProgramLevel(a, l) ==
  /\ Free(a)
  /\ level[l].at = "live"
  /\ level' = [level EXCEPT ![l].at = "gone"]
  /\ InvalidateNext(a)
  /\ UNCHANGED <<course, rendered, cached, overdue>>

-------------------------------------------------------------------------------

(* del of the key; without Redis, or when it fails, the entry stays.       *)
Invalidate(a) ==
  /\ author[a].at = "invalidate"
  /\ \/ cached' = Empty /\ overdue' = FALSE
     \/ UNCHANGED cached /\ overdue' = cached.filled
  /\ Assign(a, NoTask)
  /\ UNCHANGED <<course, rendered, level>>

(* getProgramCourseCatalog: a miss reads the levels and then stores the    *)
(* result; a hit changes nothing.                                          *)
ReadCatalog(a) ==
  /\ Free(a)
  /\ ~cached.filled
  /\ Assign(a, [NoTask EXCEPT !.at = "fill", !.entries = Catalog])
  /\ UNCHANGED <<course, rendered, level, cached, overdue>>

FillCache(a) ==
  /\ author[a].at = "fill"
  /\ cached' = [filled |-> TRUE, entries |-> author[a].entries]
  /\ overdue' = (author[a].entries # Catalog)
  /\ Assign(a, NoTask)
  /\ UNCHANGED <<course, rendered, level>>

ExpireEntry ==
  /\ cached.filled
  /\ cached' = Empty
  /\ overdue' = FALSE
  /\ UNCHANGED <<course, rendered, level, author>>

(* A request that may have changed a list, and has not invalidated yet. *)
Pending(a) == author[a].at \in {"pull", "add", "invalidate"}

(* An operation fails, or a restart cuts the request off.                  *)
CutOffAuthor(a) ==
  /\ ~Free(a)
  /\ overdue' = (overdue \/ (Pending(a) /\ cached.filled))
  /\ Assign(a, NoTask)
  /\ UNCHANGED <<course, rendered, level, cached>>

(* Refused, not found, or an update of other fields. *)
NoChange == UNCHANGED catalog

CatalogNext ==
  \/ NoChange
  \/ ExpireEntry
  \/ \E c \in Course : CreateDepartmentCourse(c)
  \/ \E a \in Author :
       \/ \E c \in Course, to \in Level \cup {Nothing} : CreateCourse(a, c, to)
       \/ \E c \in Course, from, to \in Level \cup {Nothing} :
            \/ \E s \in CourseStatus \cup {"same"} : UpdateCourse(a, c, s, from, to)
            \/ DeleteCourse(a, c, from)
       \/ \E c \in Course :
            \/ \E s \in CourseStatus \cup {"same"} : UpdateContentCourse(a, c, s)
            \/ PublishCourse(a, c) \/ UnpublishCourse(a, c) \/ StartRender(a, c)
       \/ WriteStatus(a) \/ Render(a) \/ RemoveCourse(a) \/ PullCourse(a) \/ AddCourse(a)
       \/ \E courses \in SUBSET Course :
            \/ StartCreateLevel(a, courses)
            \/ \E l \in Level : StartUpdateLevel(a, l, courses)
       \/ \E l \in Level : WriteLevel(a, l) \/ DeleteProgramLevel(a, l)
       \/ Invalidate(a) \/ ReadCatalog(a) \/ FillCache(a) \/ CutOffAuthor(a)

CatalogSpec == CatalogInit /\ [][CatalogNext]_catalog

-------------------------------------------------------------------------------

(* Every variable has its type. *)
CatalogTypeOK ==
  /\ course \in [Course -> CourseDoc]
  /\ rendered \subseteq Course
  /\ level \in [Level -> LevelDoc]
  /\ cached \in Entry
  /\ overdue \in BOOLEAN
  /\ author \in [Author -> Task]

(* A published course has a rendered version to show, although the check   *)
(* and the write are apart, three handlers write the status over what they *)
(* read, and rendering sets it before there is a result                    *)
(* (courseCtrl.ts:246-253, 395-414; contentCtrl.ts:420-475).               *)
PublishedIsRendered ==
  \A c \in Course : course[c].status = "published" => c \in rendered

(* The cached list differs from the levels only while a request that has   *)
(* changed one is on its way to the invalidation, or until its TTL ends:   *)
(* when an invalidation was skipped or cut off, or when the list was       *)
(* stored after a change it had not seen (courseCatalogCache.ts:76-108).   *)
CatalogTrails ==
  cached.filled /\ cached.entries # Catalog =>
    overdue \/ \E a \in Author : Pending(a)

===============================================================================
