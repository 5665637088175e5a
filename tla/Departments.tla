------------------------------ MODULE Departments ------------------------------
(***************************************************************************)
(* The departments, created, renamed and deleted by requests that overlap  *)
(* (departmentCtrl.ts and the updateDepartment of                          *)
(* departmentResourcesCtrl.ts), and the scope that departmentScope.ts      *)
(* gives to staff: which departments a request may touch.                  *)
(*                                                                         *)
(* The master department is always there, is nobody's parent and gives the *)
(* scope of everything; it is left out.  So are the checks of who asks.    *)
(***************************************************************************)
EXTENDS FiniteSets

CONSTANTS
  Dept,        \* the _ids of departments other than the master
  Name,        \* names of departments
  Registrar,   \* the requests in flight at once
  NoDept,      \* the parent of a top department, and of a request with none
  NoName       \* the name of a request that gives none

ASSUME DepartmentsAssumption == NoDept \notin Dept /\ NoName \notin Name

VARIABLES
  dept,        \* dept[d]: the Department document d
  registrar,   \* registrar[r]: where request r is and what it is to write
  overlapped   \* departments stored while their parent was being deleted
               \* (no variable of the code)

departments == <<dept, registrar, overlapped>>

-------------------------------------------------------------------------------

Label == Name \cup {NoName}
Stage == {"new", "live", "gone"}

(* A sub-department has a parent, a top one has none. *)
Department ==
  [at : Stage, level : {"top"}, parent : {NoDept}, name : Label]
    \cup [at : Stage, level : {"sub"}, parent : Dept, name : Label]

Duty == {"idle", "insert", "rename", "remove"}
Filing ==
  [at : Duty, dept : Dept \cup {NoDept}, level : {"top"}, parent : {NoDept}, name : Label]
    \cup [at : Duty, dept : {NoDept}, level : {"sub"}, parent : Dept, name : Label]

NoFiling ==
  [at |-> "idle", dept |-> NoDept, level |-> "top", parent |-> NoDept,
   name |-> NoName]

DepartmentsInit ==
  /\ dept = [d \in Dept |->
       [at |-> "new", level |-> "top", parent |-> NoDept, name |-> NoName]]
  /\ registrar = [r \in Registrar |-> NoFiling]
  /\ overlapped = {}

Active == {d \in Dept : dept[d].at = "live"}
ChildrenOf(d) == {c \in Active : dept[c].parent = d}

(* The departments of this name and parent: there is a unique index on     *)
(* the two, and both handlers that ask before they write ask for them.     *)
Namesakes(n, p) == {d \in Active : dept[d].name = n /\ dept[d].parent = p}

(* Mutant: no unique index on name and parent. *)
NamesAllowed(n, p, d) == TRUE

NameAllowed(n, p, d) == Namesakes(n, p) \subseteq {d}

File(r, filing) == registrar' = [registrar EXCEPT ![r] = filing]

(* What r is to write of d, over whatever d is by then. *)
Filed(at, level, parent, name) ==
  [at |-> at, level |-> level, parent |-> parent, name |-> name]

-------------------------------------------------------------------------------

(* createDepartment of a top department. *)
StartCreateTop(r, n) ==
  /\ registrar[r].at = "idle"
  /\ Namesakes(n, NoDept) = {}
  /\ File(r, [at |-> "insert", dept |-> NoDept, level |-> "top",
               parent |-> NoDept, name |-> n])
  /\ UNCHANGED <<dept, overlapped>>

(* Mutant: any department may be the parent. *)
StartCreateUnder(r, p, n) ==
  /\ registrar[r].at = "idle"
  /\ p \in Active
  /\ Namesakes(n, p) = {}
  /\ File(r, [at |-> "insert", dept |-> NoDept, level |-> "sub",
               parent |-> p, name |-> n])
  /\ UNCHANGED <<dept, overlapped>>

(* Mutant: the parent is checked, and not stored. *)
StartCreateDetached(r, p, n) ==
  /\ registrar[r].at = "idle"
  /\ p \in Active
  /\ dept[p].level = "top"
  /\ File(r, [at |-> "insert", dept |-> NoDept, level |-> "sub",
               parent |-> NoDept, name |-> n])
  /\ UNCHANGED <<dept, overlapped>>

StartCreateSub(r, p, n) ==
  /\ registrar[r].at = "idle"
  /\ p \in Active
  /\ dept[p].level = "top"
  /\ Namesakes(n, p) = {}
  /\ File(r, [at |-> "insert", dept |-> NoDept, level |-> "sub",
               parent |-> p, name |-> n])
  /\ UNCHANGED <<dept, overlapped>>

(* Department.create: nothing asks again for the parent. *)
InsertDepartment(r, d) ==
  LET p == registrar[r].parent IN
  /\ registrar[r].at = "insert"
  /\ dept[d].at = "new"
  /\ NameAllowed(registrar[r].name, p, d)
  /\ dept' = [dept EXCEPT ![d] = Filed("live", registrar[r].level, p, registrar[r].name)]
  /\ overlapped' =
       IF p \in Dept \ Active \/ \E q \in Registrar :
                                   registrar[q].at = "remove" /\ registrar[q].dept = p
       THEN overlapped \cup {d}
       ELSE overlapped
  /\ File(r, NoFiling)

(* updateDepartment, of either controller: one of them asks for namesakes  *)
(* before it saves, the other leaves that to the index.                    *)
StartRename(r, d, n) ==
  /\ registrar[r].at = "idle"
  /\ d \in Active
  /\ File(r, [at |-> "rename", dept |-> d, level |-> "top", parent |-> NoDept,
               name |-> n])
  /\ UNCHANGED <<dept, overlapped>>

SaveName(r) ==
  LET d == registrar[r].dept IN
  /\ registrar[r].at = "rename"
  /\ d \in Active
  /\ NameAllowed(registrar[r].name, dept[d].parent, d)
  /\ dept' = [dept EXCEPT ![d] =
                Filed("live", dept[d].level, dept[d].parent, registrar[r].name)]
  /\ File(r, NoFiling)
  /\ UNCHANGED overlapped

(* Mutant: the children are not counted. *)
StartDeleteAny(r, d) ==
  /\ registrar[r].at = "idle"
  /\ d \in Active
  /\ File(r, [at |-> "remove", dept |-> d, level |-> "top", parent |-> NoDept,
               name |-> NoName])
  /\ UNCHANGED <<dept, overlapped>>

(* deleteDepartment counts the children, and the documents that name the   *)
(* department (left out: they may or may not refuse), and then deletes.    *)
StartDelete(r, d) ==
  /\ registrar[r].at = "idle"
  /\ d \in Active
  /\ ChildrenOf(d) = {}
  /\ File(r, [at |-> "remove", dept |-> d, level |-> "top", parent |-> NoDept,
               name |-> NoName])
  /\ UNCHANGED <<dept, overlapped>>

(* deleteOne: a department that is gone already stays so. *)
RemoveDepartment(r) ==
  LET d == registrar[r].dept IN
  /\ registrar[r].at = "remove"
  /\ dept' = [dept EXCEPT ![d] =
                Filed("gone", dept[d].level, dept[d].parent, dept[d].name)]
  /\ File(r, NoFiling)
  /\ UNCHANGED overlapped

(* Refused by the index or because the department is gone, an operation    *)
(* that fails, or a restart.                                               *)
DropFiling(r) ==
  /\ registrar[r].at # "idle"
  /\ File(r, NoFiling)
  /\ UNCHANGED <<dept, overlapped>>

(* Refused at the start, or an update of code or passing score. *)
NothingFiled == UNCHANGED departments

DepartmentsNext ==
  \/ NothingFiled
  \/ \E r \in Registrar :
       \/ \E n \in Name :
            \/ StartCreateTop(r, n)
            \/ \E d \in Dept : StartCreateSub(r, d, n) \/ StartRename(r, d, n)
       \/ \E d \in Dept : InsertDepartment(r, d) \/ StartDelete(r, d)
       \/ SaveName(r) \/ RemoveDepartment(r) \/ DropFiling(r)

DepartmentsSpec == DepartmentsInit /\ [][DepartmentsNext]_departments

-------------------------------------------------------------------------------

(* departmentScope, for the departments S that a request's user belongs to:*)
(* those that exist, and one level below the top ones.                     *)
Scope(S) ==
  (S \cap Active) \cup {c \in Active : \E t \in S \cap Active :
                                         dept[t].level = "top" /\ dept[c].parent = t}

(* The departments at or below d, however deep the tree is. *)
ClosedBelow(C) == \A c \in Active : dept[c].parent \in C => c \in C
Below(d) == {c \in Active : \A C \in SUBSET Dept : d \in C /\ ClosedBelow(C) => c \in C}

(* Every variable has its type. *)
DepartmentsTypeOK ==
  /\ dept \in [Dept -> Department]
  /\ registrar \in [Registrar -> Filing]
  /\ overlapped \subseteq Dept

(* No two departments of one parent have one name, although creating and   *)
(* renaming look for namesakes before others have stored theirs            *)
(* (departmentCtrl.ts:219-230, 381-390; Department.ts:54).                 *)
NamesApart ==
  \A d, e \in Active :
    dept[d].name = dept[e].name /\ dept[d].parent = dept[e].parent => d = e

(* The scope, which looks one level down, reaches every department below   *)
(* the ones a user belongs to (departmentScope.ts:28-62; it relies on what *)
(* departmentCtrl.ts:203-205 lets in).                                     *)
ScopeReachesAll ==
  \A S \in SUBSET Active : Scope(S) = UNION {Below(d) : d \in S}

(* A department whose parent is gone was stored while the parent was being *)
(* deleted: otherwise the deletion had counted it                          *)
(* (departmentCtrl.ts:450-478, 199-230).                                   *)
OrphansOverlapped ==
  \A d \in Active :
    dept[d].parent # NoDept /\ dept[d].parent \notin Active => d \in overlapped

===============================================================================
