------------------------------ MODULE PackageViews ------------------------------
(***************************************************************************)
(* What staff are shown of SCORM packages: the lists, the dashboard and    *)
(* the assignments of instructorPackageCtrl.ts, getAllPackages, getPackage *)
(* and getMyAssignments of scormPackageCtrl.ts, each computed by queries   *)
(* of its own over packages, classes, class enrollments and attempts.      *)
(*                                                                         *)
(* The lists come in pages, the last saved first.  A reader takes a page   *)
(* at a time, while packages are uploaded, saved and deleted.  How saves   *)
(* overlap is in ScormPublication; here each is one step.                  *)
(***************************************************************************)
EXTENDS Naturals, FiniteSets, SequencesExt

CONSTANTS
  Title,        \* the SCORM packages
  Class, Student, Segment,
  Person,       \* staff and administrators
  Instructor,   \* those of them that are staff
  Anywhere,     \* those of them whose scope is 'all'
  ScopeOf,      \* ScopeOf[u]: the departments the others see
  UploadedBy,   \* UploadedBy[p], DepartmentOf[p] and IsGlobal[p] stay as uploaded
  DepartmentOf, \* a set of at most one department
  IsGlobal,
  Teaches,      \* Teaches[c]: the instructors of class c
  PackageOf,    \* PackageOf[s]: the package in segment s of some course
  PageSize,     \* the size of a page
  MaxTries      \* bound: attempts of one learner at one segment

ASSUME ViewsAssumption ==
  /\ IsFiniteSet(Title) /\ IsFiniteSet(Class)
  /\ IsFiniteSet(Student) /\ IsFiniteSet(Segment)
  /\ Instructor \cup Anywhere \subseteq Person
  /\ PackageOf \in [Segment -> Title]
  /\ PageSize \in Nat \ {0} /\ MaxTries \in Nat

VARIABLES
  updatedAt,  \* updatedAt[p]: how many packages were saved no later than p; 0 without p
  state,      \* state[p]: status, isPublished and assignedTo.classes of p
  roster,     \* the ClassEnrollments
  tries,      \* tries[<<l, s>>]: ContentAttempts, the completed and the passed among them
  reader      \* who reads listInstructorPackages, up to which page; what was shown and is owed

views == <<updatedAt, state, roster, tries, reader>>

-------------------------------------------------------------------------------

Draft == [status |-> "draft", isPublished |-> FALSE, classes |-> {}]
Untried == [total |-> 0, completed |-> 0, passed |-> 0]
Nobody == [who |-> {}, page |-> 0, shown |-> {}, owed |-> {}, over |-> FALSE]

ShelfInit ==
  /\ updatedAt = [p \in Title |-> 0]
  /\ state = [p \in Title |-> Draft]
  /\ roster = {}
  /\ tries = [k \in Student \X Segment |-> Untried]
  /\ reader = Nobody

OnShelf == {p \in Title : updatedAt[p] > 0}

(* Those of P as a list, the last saved first. *)
Position(p, P) == Cardinality({q \in P : updatedAt[q] >= updatedAt[p]})
Listed(P) == [k \in 1..Cardinality(P) |-> CHOOSE p \in P : Position(p, P) = k]

(* Mutant: pages are counted from nought. *)
SkippedFromNought(page) == page * PageSize

Skipped(page) == (page - 1) * PageSize
PageOf(list, page) ==
  SubSeq(list, Skipped(page) + 1,
         IF Skipped(page) + PageSize < Len(list) THEN Skipped(page) + PageSize ELSE Len(list))

-------------------------------------------------------------------------------
(* instructorPackageCtrl.ts *)

Owns(u, p) == u \notin Instructor \/ UploadedBy[p] = u
ClassesOf(u) == {c \in Class : u \notin Instructor \/ u \in Teaches[c]}
Members(C) == {l \in Student : \E c \in C : <<c, l>> \in roster}

(* The sum of the numbers f[x], as the size of a set of pairs. *)
Summed(f) == Cardinality(UNION {{x} \X (1..f[x]) : x \in DOMAIN f})
Total(field, Keys) == Summed([k \in Keys |-> tries[k][field]])
Share(part, whole) == IF whole = 0 THEN 0 ELSE (200 * part + whole) \div (2 * whole)
Attempts(L, field) == Total(field, L \X Segment)

(* A row of listInstructorClasses. *)
ClassRow(c) ==
  [learners |-> Cardinality({l \in Student : <<c, l>> \in roster}),
   attempts |-> Attempts(Members({c}), "total"),
   passRate |-> Share(Attempts(Members({c}), "passed"), Attempts(Members({c}), "total"))]

(* Mutant: the packages are counted by their status. *)
ActiveByStatus(u) == {p \in OnShelf : Owns(u, p) /\ state[p].status = "published"}

Active(u) == {p \in OnShelf : Owns(u, p) /\ state[p].isPublished}

Dashboard(u) ==
  LET L == Members(ClassesOf(u)) IN
  [classes |-> Cardinality(ClassesOf(u)),
   learners |-> Cardinality({e \in roster : e[1] \in ClassesOf(u)}),
   activePackages |-> Cardinality(Active(u)),
   attempts |-> Attempts(L, "total"),
   avgCompletion |-> Share(Attempts(L, "completed"), Attempts(L, "total")),
   passRate |-> Share(Attempts(L, "passed"), Attempts(L, "total"))]

(* The total of listInstructorAttempts, of all packages or of one.         *)
AttemptsShown(u, C, P) ==
  Total("total", Members(C) \X {s \in Segment : PackageOf[s] \in P})

AssignedOf(u, C) == {p \in OnShelf : state[p].classes \cap C # {} /\ Owns(u, p)}
ListAssignments(u, C, page) == PageOf(Listed(AssignedOf(u, C)), page)

OwnPackages(u) == {p \in OnShelf : Owns(u, p)}
ListPackages(u, page) == PageOf(Listed(OwnPackages(u)), page)
AttemptsCount(p) == Total("total", Student \X {s \in Segment : PackageOf[s] = p})

(* scormPackageCtrl.ts *)

Reaches(u, p) ==
  u \in Anywhere \/ DepartmentOf[p] \cap ScopeOf[u] # {}
GetAllPackages(u) ==
  {p \in OnShelf :
     /\ Reaches(u, p) \/ IsGlobal[p]
     /\ \/ u \notin Instructor
        \/ UploadedBy[p] = u
        \/ IsGlobal[p]
        \/ u \notin Anywhere /\ Reaches(u, p)}

(* Mutant: getPackage has no word on packages for all. *)
GetPackageScoped(u, p) == Reaches(u, p)

GetPackage(u, p) == IsGlobal[p] \/ Reaches(u, p)

GetMyAssignments(l) ==
  {p \in OnShelf :
     /\ state[p].classes \cap {c \in Class : <<c, l>> \in roster} # {}
     /\ state[p].status = "published"}

-------------------------------------------------------------------------------

(* updatedAt of the others once p is taken out. *)
Without(p) ==
  [q \in Title |-> IF q = p THEN 0
                   ELSE IF updatedAt[q] > updatedAt[p] THEN updatedAt[q] - 1
                   ELSE updatedAt[q]]

(* The save of a package puts it first. *)
Saved(p, new) ==
  /\ p \in OnShelf
  /\ state' = [state EXCEPT ![p] = new]
  /\ updatedAt' = [Without(p) EXCEPT ![p] = Cardinality(OnShelf)]
  /\ reader' = [reader EXCEPT !.owed = @ \ {p}]
  /\ UNCHANGED <<roster, tries>>

(* Where nothing differs there is no save. *)
Changed(p, new) == new # state[p] /\ Saved(p, new)

UploadPackage(p) ==
  /\ p \notin OnShelf
  /\ updatedAt' = [updatedAt EXCEPT ![p] = Cardinality(OnShelf) + 1]
  /\ state' = [state EXCEPT ![p] = Draft]
  /\ UNCHANGED <<roster, tries, reader>>

(* What follows is shifted to an earlier page; nothing is owed any more.   *)
RemovePackage(p) ==
  /\ p \in OnShelf
  /\ updatedAt' = Without(p)
  /\ reader' = [reader EXCEPT !.owed = {}]
  /\ UNCHANGED <<state, roster, tries>>

PublishInstructorPackage(u, p) ==
  Owns(u, p) /\ Changed(p, [state[p] EXCEPT !.status = "published", !.isPublished = TRUE])
UnpublishInstructorPackage(u, p) ==
  Owns(u, p) /\ Changed(p, [state[p] EXCEPT !.status = "draft", !.isPublished = FALSE])
AssignInstructorPackage(u, p, C) ==
  /\ Owns(u, p)
  /\ \A c \in C : u \in Teaches[c]
  /\ Saved(p, [state[p] EXCEPT !.classes = @ \cup C])
(* updatePackage *)
SetPublished(u, p, b) ==
  /\ IsGlobal[p] \/ Reaches(u, p)
  /\ Changed(p, [state[p] EXCEPT !.isPublished = b])

EnrollInClass(c, l) ==
  /\ roster' = roster \cup {<<c, l>>}
  /\ UNCHANGED <<updatedAt, state, tries, reader>>

(* An attempt begins, completed and passed or not; either may come later.  *)
Try(l, s) ==
  /\ tries[<<l, s>>].total < MaxTries
  /\ tries' = [tries EXCEPT ![<<l, s>>].total = @ + 1]
  /\ UNCHANGED <<updatedAt, state, roster, reader>>
FinishTry(l, s, field) ==
  /\ tries[<<l, s>>][field] < tries[<<l, s>>].total
  /\ tries' = [tries EXCEPT ![<<l, s>>][field] = @ + 1]
  /\ UNCHANGED <<updatedAt, state, roster, reader>>

StartReading(u) ==
  /\ reader' = [Nobody EXCEPT !.who = {u}, !.owed = OwnPackages(u)]
  /\ UNCHANGED <<updatedAt, state, roster, tries>>

(* The reader is through when a page shows that the total is reached.      *)
ReadPackages(u) ==
  /\ reader.who = {u} /\ ~reader.over
  /\ LET page == reader.page + 1 IN
       reader' = [reader EXCEPT !.page = page,
                    !.shown = @ \cup Range(ListPackages(u, page)),
                    !.over = page * PageSize >= Cardinality(OwnPackages(u))]
  /\ UNCHANGED <<updatedAt, state, roster, tries>>

ViewsNext ==
  \/ \E p \in Title : UploadPackage(p) \/ RemovePackage(p)
  \/ \E u \in Person, p \in Title :
       \/ PublishInstructorPackage(u, p) \/ UnpublishInstructorPackage(u, p)
       \/ \E C \in SUBSET Class \ {{}} : AssignInstructorPackage(u, p, C)
       \/ \E b \in BOOLEAN : SetPublished(u, p, b)
  \/ \E c \in Class, l \in Student : EnrollInClass(c, l)
  \/ \E l \in Student, s \in Segment :
       Try(l, s) \/ \E field \in {"completed", "passed"} : FinishTry(l, s, field)
  \/ \E u \in Person : StartReading(u) \/ ReadPackages(u)

ViewsSpec == ShelfInit /\ [][ViewsNext]_views

-------------------------------------------------------------------------------

(* Who reads their packages page by page is shown each that was there when *)
(* they began and was not saved since, whatever is uploaded and saved      *)
(* between the pages; only a deletion may hide one                         *)
(* (instructorPackageCtrl.ts:475-479).                                     *)
PagesCover == reader.over => reader.owed \subseteq reader.shown

(* The dashboard, which counts by queries of its own, agrees with the      *)
(* lists: its learners are those of the rows of all classes, its attempts  *)
(* those listInstructorAttempts shows, its packages those of               *)
(* listInstructorPackages that are published; and no list shows more       *)
(* attempts at a package than its row counts                               *)
(* (instructorPackageCtrl.ts:229-273, 345-356, 525-535).                   *)
DashboardAgrees ==
  \A u \in Person :
    /\ Dashboard(u).learners = Summed([c \in ClassesOf(u) |-> ClassRow(c).learners])
    /\ Dashboard(u).attempts = AttemptsShown(u, ClassesOf(u), Title)
    /\ Dashboard(u).attempts <= Summed([c \in ClassesOf(u) |-> ClassRow(c).attempts])
    /\ Dashboard(u).activePackages =
         Cardinality({p \in OwnPackages(u) : state[p].isPublished})
    /\ \A p \in Title : AttemptsShown(u, ClassesOf(u), {p}) <= AttemptsCount(p)

(* A package getAllPackages lists opens for the one it is listed to, and a *)
(* published one that staff see assigned to a class is among the           *)
(* assignments of each learner of the class (scormPackageCtrl.ts:293-318,  *)
(* 376-382; ScormPackage.ts:315-343).                                      *)
ListedOpens ==
  \A u \in Person :
    /\ \A p \in GetAllPackages(u) : GetPackage(u, p)
    /\ \A c \in ClassesOf(u) : \A p \in AssignedOf(u, {c}) :
         state[p].status = "published" =>
           \A l \in Members({c}) : p \in GetMyAssignments(l)

(* The lists and the dashboard of packages agree, what they list opens, and *)
(* their pages show every package (instructorPackageCtrl.ts:229-551,        *)
(* scormPackageCtrl.ts:248-393).                                            *)
StaffViewsAgree == DashboardAgrees /\ ListedOpens /\ PagesCover

===============================================================================
