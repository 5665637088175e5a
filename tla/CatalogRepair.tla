------------------------------ MODULE CatalogRepair ------------------------------
(***************************************************************************)
(* A course names its level, and the level lists the course: the requests  *)
(* that write the two sides one after the other (courseCtrl.ts,            *)
(* programLevelCtrl.ts, updateCourseProgram of departmentResourcesCtrl.ts) *)
(* and the two scripts that mend what they leave behind: the backfill      *)
(* (migrate-course-catalog.ts), which also renames the kinds of content    *)
(* and gives courses a status, and the integrity report with --fix         *)
(* (report-course-catalog-integrity.ts).  A script reads everything and    *)
(* then writes document by document; it may be killed and run again.       *)
(***************************************************************************)
EXTENDS Integers, Sequences, FiniteSets

CONSTANTS
  Crs, Lev, Prog,   \* courses, levels and programs
  ProgOf,           \* ProgOf[l]: the program of level l, which never changes
  Piece,              \* custom contents, progress records and attempts
  BatchOf,          \* BatchOf[d]: which of these three, 1 to 3, d is
  NoLev             \* no level

ASSUME RepairAssumption ==
  /\ ProgOf \in [Lev -> Prog] /\ BatchOf \in [Piece -> 1..3] /\ NoLev \notin Lev

VARIABLES
  crs,      \* crs[c]: the course document c
  lev,      \* lev[l]: whether the level l is there, and the courses it lists
  shown,    \* the courses with a rendering
  packed,   \* the courses with a published SCORM package
  kind,     \* kind[d]: the customType of d
  writes,   \* what the request in flight has still to write
  mender,   \* the script: where it is and what it has read
  quiet     \* what a run has achieved that no request disturbed (not of the code)

repair == <<crs, lev, shown, packed, kind, writes, mender, quiet>>

CrsDoc(p, l, s) == [at |-> "live", prog |-> p, field |-> l, status |-> s]
NoCrs == [CrsDoc(CHOOSE p \in Prog : TRUE, NoLev, "draft") EXCEPT !.at = "gone"]
NewCrs == [NoCrs EXCEPT !.at = "new"]
Live(cs) == {c \in Crs : cs[c].at = "live"}
Resting == [at |-> "idle", crs |-> <<>>, lev |-> <<>>, left |-> {}, found |-> "none"]
OldKind == {"practice", "other"}

(* What crashes between the two writes, and requests that overlap, leave   *)
(* behind: any field and any list.  Courses of old have no status.         *)
RepairInit ==
  /\ crs \in [Crs -> {NewCrs, NoCrs} \cup {CrsDoc(p, l, "none") : p \in Prog, l \in Lev \cup {NoLev}}]
  /\ lev \in [Lev -> [there : BOOLEAN, courses : SUBSET Crs]]
  /\ shown \in SUBSET Live(crs) /\ packed \in SUBSET Live(crs)
  /\ kind \in [Piece -> OldKind]
  /\ \A l \in Lev : lev[l].courses \subseteq
       IF lev[l].there THEN {c \in Crs : crs[c].at # "new"} ELSE {}
  /\ writes = <<>> /\ mender = Resting /\ quiet = "no"

-------------------------------------------------------------------------------
(* The requests.  Each reads, and then writes what it has read to write,   *)
(* document by document; a document that is gone by then is not found.     *)

Named(C, l) == [op |-> "field", on |-> C, to |-> l]
Listed(l, C) == [op |-> "list", on |-> C, to |-> l]
Pulled(l, C) == [op |-> "pull", on |-> C, to |-> l]
Added(l, C) == [op |-> "add", on |-> C, to |-> l]
Closed(l) == [op |-> "close", on |-> {}, to |-> l]
To(op, c) == [op |-> op, on |-> {c}, to |-> NoLev]

Ask(todo) ==
  /\ writes = <<>>
  /\ writes' = todo
  /\ UNCHANGED <<crs, lev, shown, packed, kind, mender, quiet>>

Write ==
  LET w == Head(writes) IN
  /\ writes # <<>>
  /\ writes' = Tail(writes)
  /\ crs' = [c \in Crs |->
       IF c \notin w.on \/ crs[c].at # "live" THEN crs[c]
       ELSE CASE w.op = "field" -> [crs[c] EXCEPT !.field = w.to]
              [] w.op \in {"rendered", "published"} -> [crs[c] EXCEPT !.status = w.op]
              [] w.op = "delete" -> NoCrs
              [] OTHER -> crs[c]]
  /\ lev' = [l \in Lev |->
       IF l # w.to \/ ~lev[l].there THEN lev[l]
       ELSE CASE w.op = "list" -> [lev[l] EXCEPT !.courses = w.on]
              [] w.op = "pull" -> [lev[l] EXCEPT !.courses = @ \ w.on]
              [] w.op = "add" -> [lev[l] EXCEPT !.courses = @ \cup w.on]
              [] w.op = "close" -> [there |-> FALSE, courses |-> {}]
              [] OTHER -> lev[l]]
  /\ shown' = IF w.op = "show" THEN shown \cup w.on ELSE shown
  /\ quiet' = "no"
  /\ UNCHANGED <<packed, kind, mender>>

(* The server goes down, or the database fails, before the next write. *)
CutShort ==
  /\ writes # <<>>
  /\ writes' = <<>>
  /\ UNCHANGED <<crs, lev, shown, packed, kind, mender, quiet>>

(* createCourse: the document, and then the list of its level. *)
CreateCrs(c, p, l) ==
  /\ writes = <<>> /\ crs[c].at = "new"
  /\ crs' = [crs EXCEPT ![c] = CrsDoc(p, l, "draft")]
  /\ writes' = IF l = NoLev THEN <<>> ELSE <<Added(l, {c})>>
  /\ quiet' = "no"
  /\ UNCHANGED <<lev, shown, packed, kind, mender>>

(* updateCourse writes the level it has read, when it is not given one;    *)
(* given a level or null, the field, the old list and the new one.         *)
UpdateCrs(c) == c \in Live(crs) /\ crs[c].field # NoLev /\ Ask(<<Named({c}, crs[c].field)>>)
MoveCrs(c, l) ==
  /\ c \in Live(crs)
  /\ Ask(<<Named({c}, l)>> \o
         (IF crs[c].field \in {NoLev, l} THEN <<>> ELSE <<Pulled(crs[c].field, {c})>>) \o
         (IF l = NoLev THEN <<>> ELSE <<Added(l, {c})>>))

DeleteCrs(c) ==
  /\ c \in Live(crs)
  /\ Ask(<<To("delete", c)>> \o
         (IF crs[c].field = NoLev THEN <<>> ELSE <<Pulled(crs[c].field, {c})>>))

(* updateProgramLevel: courses of the program only, found beforehand; when *)
(* it is given none, it writes back the list that it has read.             *)
UpdateLev(l, C) ==
  /\ lev[l].there
  /\ \A c \in C : c \in Live(crs) /\ crs[c].prog = ProgOf[l]
  /\ Ask(<<Listed(l, C), Named(lev[l].courses \ C, NoLev), Named(C, l)>>)
RewriteLev(l) == lev[l].there /\ Ask(<<Listed(l, lev[l].courses)>>)

DeleteLev(l) == lev[l].there /\ Ask(<<Named(lev[l].courses, NoLev), Closed(l)>>)

(* updateCourseProgram leaves the level of the course as it is. *)
MoveToProgram(c, p) ==
  /\ c \in Live(crs)
  /\ crs' = [crs EXCEPT ![c].prog = p]
  /\ quiet' = "no"
  /\ UNCHANGED <<lev, shown, packed, kind, writes, mender>>

(* renderCourse saves the status of a draft, which a course without one is *)
(* read as, and then the rendering; publishCourse looks for both.          *)
RenderCrs(c) ==
  /\ c \in Live(crs)
  /\ Ask((IF crs[c].status \in {"none", "draft"} THEN <<To("rendered", c)>> ELSE <<>>) \o <<To("show", c)>>)
PublishCrs(c) ==
  /\ c \in Live(crs) \cap shown /\ crs[c].status \in {"rendered", "published"}
  /\ Ask(<<To("published", c)>>)
TogglePackage(c) ==
  /\ packed' = IF c \in packed THEN packed \ {c} ELSE packed \cup {c}
  /\ UNCHANGED <<crs, lev, shown, kind, writes, mender, quiet>>

(* updateCustomContent writes only kinds of today. *)
WriteKind(d) ==
  /\ BatchOf[d] = 1
  /\ kind' = [kind EXCEPT ![d] = "exam"]
  /\ UNCHANGED <<crs, lev, shown, packed, writes, mender, quiet>>

-------------------------------------------------------------------------------
(* The report, and what --fix does about it. *)

There(levs) == {l \in Lev : levs[l].there}
Naming(cs, l) == {c \in Live(cs) : cs[c].field = l}

(* Mutant: the program of a course is not looked at. *)
OwnOfAny(cs, l) == Naming(cs, l)

Own(cs, l) == {c \in Naming(cs, l) : cs[c].prog = ProgOf[l]}

(* missingCourseRefs, programMismatches and missingLevelRefs. *)
DeadRefs == {r \in Crs \X There(lev) : r[1] \in lev[r[2]].courses \ Live(crs)}
ForeignRefs == {r \in Crs \X There(lev) :
                  r[1] \in lev[r[2]].courses \cap Live(crs) /\ crs[r[1]].prog # ProgOf[r[2]]}
UnlistedRefs == {r \in Crs \X There(lev) : r[1] \in Naming(crs, r[2]) \ lev[r[2]].courses}

Mends(next, change) ==
  /\ mender' = next
  /\ change
  /\ UNCHANGED <<shown, packed, writes>>
Keeps == UNCHANGED <<crs, lev, kind, quiet>>
Sets(l, C) ==
  lev' = IF lev[l].there THEN [lev EXCEPT ![l].courses = C] ELSE lev

StartFix ==
  /\ mender.at = "idle"
  /\ Mends([Resting EXCEPT !.at = "fix courses", !.lev = lev, !.left = There(lev)],
           quiet' = "run" /\ UNCHANGED <<crs, lev, kind>>)
ReadCourses ==
  /\ mender.at = "fix courses"
  /\ Mends([mender EXCEPT !.at = "fix", !.crs = crs], Keeps)

(* A list that has the same courses in another order is written, too.      *)
FixLevel(l) ==
  LET next == Own(mender.crs, l) IN
  /\ mender.at = "fix" /\ l \in mender.left
  /\ Mends([mender EXCEPT !.left = @ \ {l}],
           /\ \/ Sets(l, next)
              \/ next = mender.lev[l].courses /\ lev' = lev
           /\ UNCHANGED <<crs, kind, quiet>>)
EndFix ==
  /\ mender.at = "fix" /\ mender.left = {}
  /\ Mends(Resting, quiet' = (IF quiet = "run" THEN "fixed" ELSE quiet) /\ UNCHANGED <<crs, lev, kind>>)

-------------------------------------------------------------------------------
(* The backfill: the lists of the levels that courses name, the programs   *)
(* (a field that their schema drops), the kinds, the statuses.             *)

StartFill ==
  /\ mender.at = "idle"
  /\ Mends([Resting EXCEPT !.at = "fill", !.crs = crs,
                        !.left = {l \in Lev : Naming(crs, l) # {}}],
           quiet' = "run" /\ UNCHANGED <<crs, lev, kind>>)
FillLevel(l) ==
  /\ mender.at = "fill" /\ l \in mender.left
  /\ Mends([mender EXCEPT !.left = @ \ {l}],
           Sets(l, Naming(mender.crs, l)) /\ UNCHANGED <<crs, kind, quiet>>)

Batch(n) == {d \in Piece : BatchOf[d] = n /\ kind[d] \in OldKind}
FillPrograms ==
  /\ mender.at = "fill" /\ mender.left = {}
  /\ Mends([Resting EXCEPT !.at = "kinds 1", !.left = Batch(1)], Keeps)

Normalized(k) == IF k = "practice" THEN "exercise" ELSE "custom"
KindsAt == [n \in 1..3 |-> <<"kinds 1", "kinds 2", "kinds 3">>[n]]
(* The value written is that of the kind that was read: requests only      *)
(* write a kind of today, which is overwritten.                            *)
RenameKind(d, n, k) ==
  /\ mender.at = KindsAt[n] /\ d \in mender.left
  /\ kind[d] \in OldKind => k = kind[d]
  /\ Mends([mender EXCEPT !.left = @ \ {d}],
           kind' = [kind EXCEPT ![d] = Normalized(k)] /\ UNCHANGED <<crs, lev, quiet>>)
NextBatch(n) ==
  /\ mender.at = KindsAt[n] /\ mender.left = {}
  /\ Mends(IF n < 3 THEN [Resting EXCEPT !.at = KindsAt[n + 1], !.left = Batch(n + 1)]
           ELSE [Resting EXCEPT !.at = "statuses", !.left = {c \in Live(crs) : crs[c].status = "none"}],
           Keeps)

ResolveStatus(c) ==
  /\ mender.at = "statuses" /\ c \in mender.left /\ mender.found = "none"
  /\ Mends([mender EXCEPT !.found =
              IF c \notin shown THEN "draft" ELSE IF c \in packed THEN "published" ELSE "rendered",
              !.crs = c], Keeps)
WriteStatusOf(c) ==
  /\ mender.at = "statuses" /\ mender.found # "none" /\ mender.crs = c
  /\ Mends([mender EXCEPT !.found = "none", !.crs = <<>>, !.left = @ \ {c}],
           /\ crs' = IF c \in Live(crs) THEN [crs EXCEPT ![c].status = mender.found] ELSE crs
           /\ UNCHANGED <<lev, kind, quiet>>)
EndFill ==
  /\ mender.at = "statuses" /\ mender.left = {}
  /\ Mends(Resting, quiet' = (IF quiet = "run" THEN "filled" ELSE quiet) /\ UNCHANGED <<crs, lev, kind>>)

MenderKilled == mender.at # "idle" /\ Mends(Resting, quiet' = "no" /\ UNCHANGED <<crs, lev, kind>>)

Requests ==
  \/ Write \/ CutShort
  \/ \E c \in Crs :
       \/ UpdateCrs(c) \/ DeleteCrs(c) \/ RenderCrs(c) \/ PublishCrs(c) \/ TogglePackage(c)
       \/ \E l \in Lev \cup {NoLev} : MoveCrs(c, l) \/ \E p \in Prog : CreateCrs(c, p, l)
       \/ \E p \in Prog : MoveToProgram(c, p)
  \/ \E l \in Lev : DeleteLev(l) \/ RewriteLev(l) \/ \E C \in SUBSET Crs : UpdateLev(l, C)
  \/ \E d \in Piece : WriteKind(d)

Scripts ==
  \/ StartFix \/ ReadCourses \/ EndFix
  \/ StartFill \/ FillPrograms \/ EndFill \/ MenderKilled
  \/ \E l \in Lev : FixLevel(l) \/ FillLevel(l)
  \/ \E n \in 1..3 : NextBatch(n) \/ \E d \in Piece, k \in OldKind : RenameKind(d, n, k)
  \/ \E c \in Crs : ResolveStatus(c) \/ WriteStatusOf(c)

RepairNext == Requests \/ Scripts

RepairSpec == RepairInit /\ [][RepairNext]_repair

-------------------------------------------------------------------------------

(* Whatever crashed and overlapping requests have left of the two sides,   *)
(* and wherever earlier runs were killed: after a run of the report with   *)
(* --fix that no request disturbed, the report finds no course that is     *)
(* gone or of another program, and only such courses unlisted as name a    *)
(* level of another program; after a run of the backfill every course is   *)
(* listed where its field says, has a status, and was published for a      *)
(* rendering only; and no content has a kind of old                        *)
(* (report-course-catalog-integrity.ts:57-107; migrate-course-catalog.ts). *)
RepairConverges ==
  /\ quiet = "fixed" =>
       /\ DeadRefs = {} /\ ForeignRefs = {}
       /\ \A r \in UnlistedRefs : crs[r[1]].prog # ProgOf[r[2]]
  /\ quiet = "filled" =>
       /\ UnlistedRefs = {}
       /\ \A d \in Piece : kind[d] \notin OldKind
       /\ \A c \in Live(crs) : crs[c].status # "none"
  /\ \A c \in Live(crs) : crs[c].status = "published" => c \in shown

===============================================================================
