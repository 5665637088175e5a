--------------------------- MODULE Departments_proofs --------------------------
(***************************************************************************)
(* Proofs about Departments, what is shown of them, StaffRoles and         *)
(* Templates, for any departments, names, roles, texts and requests.       *)
(* Departments: no two departments of one parent share a name, the scope   *)
(* that looks one level down reaches every department below, a department  *)
(* without its parent was stored while the parent was being deleted, and   *)
(* all requests show a department alike.  Staff: the roles on the User     *)
(* follow the memberships whenever the last request to write ran alone,    *)
(* and a save changes only what its request is about.  Templates: what is  *)
(* stored of a text is of that text.                                       *)
(***************************************************************************)
EXTENDS DepartmentViews, StaffRoles, Templates, TLAPS, FiniteSetTheorems

(* The parent of a department that is there was a top department, and a    *)
(* department never changes its level.                                     *)
Shallow ==
  \A d \in Active : dept[d].parent # NoDept =>
    /\ dept[d].parent \in Dept
    /\ dept[dept[d].parent].at # "new" /\ dept[dept[d].parent].level = "top"

(* What a request is to write, and what it has seen to be so. *)
FiledSoundly(r) ==
  /\ registrar[r].at = "insert" /\ registrar[r].parent # NoDept =>
       /\ dept[registrar[r].parent].at # "new"
       /\ dept[registrar[r].parent].level = "top"
  /\ registrar[r].at \in {"rename", "remove"} =>
       registrar[r].dept \in Dept /\ dept[registrar[r].dept].at # "new"
  /\ registrar[r].at = "remove" => ChildrenOf(registrar[r].dept) \subseteq overlapped

DeptInv ==
  /\ DepartmentsTypeOK
  /\ NamesApart
  /\ OrphansOverlapped
  /\ Shallow
  /\ \A r \in Registrar : FiledSoundly(r)

-------------------------------------------------------------------------------

LEMMA DepartmentIs ==
  ASSUME DepartmentsTypeOK, NEW d \in Dept
  PROVE  /\ dept[d] \in Department
         /\ dept[d].at \in Stage /\ dept[d].name \in Label
         /\ dept[d].parent = NoDept => dept[d].level = "top"
         /\ dept[d].parent # NoDept => dept[d].level = "sub" /\ dept[d].parent \in Dept
         /\ dept[d].level \in {"top", "sub"}
BY DepartmentsAssumption DEF DepartmentsTypeOK, Department

LEMMA FilingIs ==
  ASSUME DepartmentsTypeOK, NEW r \in Registrar
  PROVE  /\ registrar[r] \in Filing
         /\ registrar[r].name \in Label
         /\ registrar[r].dept \in Dept \cup {NoDept}
         /\ registrar[r].parent = NoDept => registrar[r].level = "top"
         /\ registrar[r].parent # NoDept =>
              registrar[r].level = "sub" /\ registrar[r].parent \in Dept
BY DepartmentsAssumption DEF DepartmentsTypeOK, Filing

(* A filing at rest, and the filings that the handlers make. *)
LEMMA FilingsAre ==
  /\ NoFiling \in Filing /\ NoFiling.at = "idle"
  /\ \A n \in Label, at \in Duty, d \in Dept \cup {NoDept} :
       [at |-> at, dept |-> d, level |-> "top", parent |-> NoDept, name |-> n] \in Filing
  /\ \A n \in Label, at \in Duty, p \in Dept :
       [at |-> at, dept |-> NoDept, level |-> "sub", parent |-> p, name |-> n] \in Filing
BY DEF NoFiling, Filing, Duty, Label

LEMMA FileIs ==
  ASSUME DepartmentsTypeOK, NEW r \in Registrar, NEW filing \in Filing, File(r, filing)
  PROVE  /\ registrar' \in [Registrar -> Filing]
         /\ registrar'[r] = filing
         /\ \A q \in Registrar \ {r} : registrar'[q] = registrar[q]
BY DEF File, DepartmentsTypeOK

(* A step that files a request and leaves the departments alone. *)
LEMMA FilingStep ==
  ASSUME DeptInv, NEW r \in Registrar, NEW filing \in Filing, File(r, filing),
         UNCHANGED <<dept, overlapped>>,
         filing.at = "insert" /\ filing.parent # NoDept =>
           dept[filing.parent].at # "new" /\ dept[filing.parent].level = "top",
         filing.at \in {"rename", "remove"} =>
           filing.dept \in Dept /\ dept[filing.dept].at # "new",
         filing.at = "remove" => ChildrenOf(filing.dept) \subseteq overlapped
  PROVE  DeptInv'
<1> USE DEF DeptInv
<1>1. Active' = Active /\ \A d : ChildrenOf(d)' = ChildrenOf(d)
  BY DEF Active, ChildrenOf
<1>2. DepartmentsTypeOK'
  BY FileIs DEF DepartmentsTypeOK
<1>3. NamesApart' /\ OrphansOverlapped' /\ Shallow'
  BY <1>1 DEF NamesApart, OrphansOverlapped, Shallow
<1>4. ASSUME NEW q \in Registrar PROVE FiledSoundly(q)'
  <2>1. CASE q = r
    BY <2>1, FileIs DEF FiledSoundly, ChildrenOf, Active
  <2>2. CASE q # r
    BY <2>2, FileIs DEF FiledSoundly, ChildrenOf, Active
  <2> QED
    BY <2>1, <2>2
<1> QED
  BY <1>2, <1>3, <1>4

LEMMA InitDepartments == DepartmentsInit => DeptInv
<1> SUFFICES ASSUME DepartmentsInit PROVE DeptInv
  OBVIOUS
<1>1. Active = {}
  BY DEF DepartmentsInit, Active
<1>2. DepartmentsTypeOK
  <2>1. [at |-> "new", level |-> "top", parent |-> NoDept, name |-> NoName] \in Department
    BY DEF Department, Stage, Label
  <2> QED
    BY <2>1, FilingsAre DEF DepartmentsInit, DepartmentsTypeOK
<1>3. \A r \in Registrar : FiledSoundly(r)
  BY FilingsAre DEF DepartmentsInit, FiledSoundly
<1> QED
  BY <1>1, <1>2, <1>3 DEF DeptInv, NamesApart, OrphansOverlapped, Shallow

LEMMA InsertKeeps ==
  ASSUME DeptInv, NEW r \in Registrar, NEW d \in Dept, InsertDepartment(r, d)
  PROVE  DeptInv'
<1> USE DEF DeptInv
<1> DEFINE p == registrar[r].parent
           new == Filed("live", registrar[r].level, p, registrar[r].name)
<1>1. /\ registrar[r].at = "insert" /\ dept[d].at = "new"
      /\ NameAllowed(registrar[r].name, p, d)
      /\ dept' = [dept EXCEPT ![d] = new]
      /\ File(r, NoFiling)
      /\ overlapped \subseteq overlapped' /\ overlapped' \subseteq overlapped \cup {d}
  BY DEF InsertDepartment
<1>2. new \in Department
  BY FilingIs DEF Filed, Department, Stage
<1>3. new.at = "live" /\ new.level = registrar[r].level /\ new.parent = p
      /\ new.name = registrar[r].name
  BY DEF Filed
<1> HIDE DEF new
<1>4. dept'[d] = new /\ \A e \in Dept \ {d} : dept'[e] = dept[e]
  BY <1>1 DEF DepartmentsTypeOK
<1>5. Active' = Active \cup {d} /\ d \notin Active
  BY <1>1, <1>3, <1>4 DEF Active
<1>6. DepartmentsTypeOK'
  BY <1>1, <1>2, FileIs, FilingsAre DEF DepartmentsTypeOK
<1>7. NamesApart'
  <2>1. \A e \in Active : ~(dept[e].name = new.name /\ dept[e].parent = new.parent)
    BY <1>1, <1>3, <1>5 DEF NameAllowed, Namesakes
  <2>2. \A e \in Active : dept'[e] = dept[e]
    BY <1>4, <1>5 DEF Active
  <2> QED
    BY <1>4, <1>5, <2>1, <2>2 DEF NamesApart
<1>8. p # NoDept => p \in Dept \ {d} /\ dept[p].at # "new" /\ dept[p].level = "top"
  BY <1>1, FilingIs DEF FiledSoundly
<1>9. Shallow'
  <2> SUFFICES ASSUME NEW e \in Active', dept'[e].parent # NoDept
               PROVE  /\ dept'[e].parent \in Dept
                      /\ dept'[dept'[e].parent].at # "new"
                      /\ dept'[dept'[e].parent].level = "top"
    BY DEF Shallow
  <2>1. CASE e = d
    BY <1>3, <1>4, <1>8, <2>1
  <2>2. CASE e # d
    <3>1. e \in Active /\ dept'[e] = dept[e]
      BY <1>4, <1>5, <2>2 DEF Active
    <3>2. dept[e].parent \in Dept /\ dept[dept[e].parent].at # "new"
          /\ dept[dept[e].parent].level = "top"
      BY <3>1 DEF Shallow
    <3>3. dept[e].parent # d
      BY <1>1, <3>2
    <3> QED
      BY <1>4, <3>1, <3>2, <3>3
  <2> QED
    BY <2>1, <2>2
<1>10. OrphansOverlapped'
  <2> SUFFICES ASSUME NEW e \in Active', dept'[e].parent # NoDept,
                      dept'[e].parent \notin Active'
               PROVE  e \in overlapped'
    BY DEF OrphansOverlapped
  <2>1. CASE e = d
    BY <1>3, <1>4, <1>5, <1>8, <2>1 DEF InsertDepartment
  <2>2. CASE e # d
    BY <1>1, <1>4, <1>5, <2>2 DEF OrphansOverlapped, Active
  <2> QED
    BY <2>1, <2>2
<1>11. ASSUME NEW q \in Registrar PROVE FiledSoundly(q)'
  <2>1. CASE q = r
    BY <2>1, <1>1, FileIs, FilingsAre DEF FiledSoundly
  <2>2. CASE q # r
    <3>1. registrar'[q] = registrar[q]
      BY <2>2, <1>1, FileIs, FilingsAre
    <3>2. registrar[q].at = "remove" =>
            ChildrenOf(registrar[q].dept)' \subseteq overlapped'
      <4> SUFFICES ASSUME registrar[q].at = "remove", NEW c \in Active',
                          dept'[c].parent = registrar[q].dept
                   PROVE  c \in overlapped'
        BY <3>1 DEF ChildrenOf
      <4>1. CASE c = d
        BY <1>3, <1>4, <4>1, FilingIs DEF InsertDepartment, FiledSoundly
      <4>2. CASE c # d
        BY <1>1, <1>4, <1>5, <4>2 DEF FiledSoundly, ChildrenOf, Active
      <4> QED
        BY <4>1, <4>2
    <3>3. \A e \in Dept : dept[e].at # "new" => dept'[e] = dept[e]
      BY <1>1, <1>4
    <3> QED
      BY <3>1, <3>2, <3>3, FilingIs DEF FiledSoundly
  <2> QED
    BY <2>1, <2>2
<1> QED
  BY <1>6, <1>7, <1>9, <1>10, <1>11

(* A step that ends a request and changes the department it was about, but *)
(* neither its level nor its parent, and never makes it new.               *)
LEMMA DepartmentStep ==
  ASSUME DeptInv, NEW r \in Registrar, File(r, NoFiling), UNCHANGED overlapped,
         NEW d \in Dept, dept[d].at # "new", NEW new \in Department,
         dept' = [dept EXCEPT ![d] = new],
         new.at # "new", new.level = dept[d].level, new.parent = dept[d].parent,
         new.at = "live" => dept[d].at = "live",
         NamesApart',
         new.at # "live" => ChildrenOf(d) \subseteq overlapped
  PROVE  DeptInv'
<1> USE DEF DeptInv
<1>1. dept'[d] = new /\ \A e \in Dept \ {d} : dept'[e] = dept[e]
  BY DEF DepartmentsTypeOK
<1>2. \A e \in Dept : /\ dept'[e].level = dept[e].level /\ dept'[e].parent = dept[e].parent
                      /\ dept[e].at # "new" => dept'[e].at # "new"
  BY <1>1
<1>3. Active' \subseteq Active /\ Active \ {d} \subseteq Active'
      /\ (new.at = "live" => Active' = Active)
  BY <1>1 DEF Active
<1>4. DepartmentsTypeOK'
  BY FileIs, FilingsAre DEF DepartmentsTypeOK
<1>5. Shallow'
  BY <1>2, <1>3 DEF Shallow, Active
<1>6. OrphansOverlapped'
  <2> SUFFICES ASSUME NEW e \in Active', dept'[e].parent # NoDept,
                      dept'[e].parent \notin Active'
               PROVE  e \in overlapped
    BY DEF OrphansOverlapped
  <2>1. e \in Active /\ e \in Dept /\ dept[e].parent = dept'[e].parent
    BY <1>2, <1>3 DEF Active
  <2>2. CASE dept[e].parent \notin Active
    BY <2>1, <2>2 DEF OrphansOverlapped
  <2>3. CASE dept[e].parent \in Active
    <3>1. dept[e].parent = d /\ new.at # "live"
      BY <1>3, <2>1, <2>3
    <3> QED
      BY <2>1, <3>1 DEF ChildrenOf
  <2> QED
    BY <2>2, <2>3
<1>7. ASSUME NEW q \in Registrar PROVE FiledSoundly(q)'
  <2>1. CASE q = r
    BY <2>1, FileIs, FilingsAre DEF FiledSoundly
  <2>2. CASE q # r
    <3>1. registrar'[q] = registrar[q]
      BY <2>2, FileIs, FilingsAre
    <3>2. \A e \in Dept : ChildrenOf(e)' \subseteq ChildrenOf(e)
      BY <1>2, <1>3 DEF ChildrenOf, Active
    <3>3. registrar[q].at = "remove" =>
            ChildrenOf(registrar[q].dept)' \subseteq overlapped
      BY <3>1, <3>2 DEF FiledSoundly
    <3> QED
      BY <1>2, <3>1, <3>3, FilingIs DEF FiledSoundly
  <2> QED
    BY <2>1, <2>2
<1> QED
  BY <1>4, <1>5, <1>6, <1>7

LEMMA SaveNameKeeps ==
  ASSUME DeptInv, NEW r \in Registrar, SaveName(r)
  PROVE  DeptInv'
<1> USE DEF DeptInv
<1> DEFINE d == registrar[r].dept
           new == Filed("live", dept[d].level, dept[d].parent, registrar[r].name)
<1>1. /\ d \in Active /\ NameAllowed(registrar[r].name, dept[d].parent, d)
      /\ dept' = [dept EXCEPT ![d] = new]
      /\ File(r, NoFiling) /\ UNCHANGED overlapped
  BY DEF SaveName
<1>2. d \in Dept /\ dept[d].at = "live"
  BY <1>1 DEF Active
<1>3. new \in Department
  BY <1>2, FilingIs, DepartmentIs DEF Filed, Department
<1>4. new.at = "live" /\ new.level = dept[d].level /\ new.parent = dept[d].parent
      /\ new.name = registrar[r].name
  BY DEF Filed
<1> HIDE DEF new
<1>5. dept'[d] = new /\ \A e \in Dept \ {d} : dept'[e] = dept[e]
  BY <1>1, <1>2 DEF DepartmentsTypeOK
<1>6. Active' = Active
  BY <1>2, <1>4, <1>5 DEF Active
<1>7. NamesApart'
  <2>1. \A e \in Active \ {d} : ~(dept[e].name = new.name /\ dept[e].parent = new.parent)
    BY <1>1, <1>4 DEF NameAllowed, Namesakes
  <2>2. \A e \in Active \ {d} : dept'[e] = dept[e]
    BY <1>5 DEF Active
  <2> QED
    BY <1>5, <1>6, <2>1, <2>2 DEF NamesApart
<1> HIDE DEF d
<1> QED
  BY <1>1, <1>2, <1>3, <1>4, <1>7, DepartmentStep DEF d

LEMMA RemoveKeeps ==
  ASSUME DeptInv, NEW r \in Registrar, RemoveDepartment(r)
  PROVE  DeptInv'
<1> USE DEF DeptInv
<1> DEFINE d == registrar[r].dept
           new == Filed("gone", dept[d].level, dept[d].parent, dept[d].name)
<1>1. /\ registrar[r].at = "remove" /\ dept' = [dept EXCEPT ![d] = new]
      /\ File(r, NoFiling) /\ UNCHANGED overlapped
  BY DEF RemoveDepartment
<1>2. d \in Dept /\ dept[d].at # "new" /\ ChildrenOf(d) \subseteq overlapped
  BY <1>1 DEF FiledSoundly
<1>3. new \in Department
  BY <1>2, DepartmentIs DEF Filed, Department, Stage
<1>4. new.at = "gone" /\ new.level = dept[d].level /\ new.parent = dept[d].parent
  BY DEF Filed
<1> HIDE DEF new
<1>5. dept'[d] = new /\ \A e \in Dept \ {d} : dept'[e] = dept[e]
  BY <1>1, <1>2 DEF DepartmentsTypeOK
<1>6. Active' = Active \ {d}
  BY <1>4, <1>5 DEF Active
<1>7. NamesApart'
  BY <1>5, <1>6 DEF NamesApart, Active
<1> HIDE DEF d
<1> QED
  BY <1>1, <1>2, <1>3, <1>4, <1>7, DepartmentStep DEF d

LEMMA StartKeeps ==
  ASSUME DeptInv, NEW r \in Registrar, NEW d \in Dept, NEW n \in Name,
         StartCreateSub(r, d, n) \/ StartRename(r, d, n)
  PROVE  DeptInv'
<1>1. n \in Label
  BY DEF Label
<1>2. CASE StartCreateSub(r, d, n)
  BY <1>1, <1>2, FilingsAre, FilingStep DEF StartCreateSub, Duty, Active
<1>3. CASE StartRename(r, d, n)
  BY <1>1, <1>3, FilingsAre, FilingStep DEF StartRename, Duty, Active
<1> QED
  BY <1>2, <1>3

LEMMA StartTopKeeps ==
  ASSUME DeptInv, NEW r \in Registrar, NEW n \in Name, StartCreateTop(r, n)
  PROVE  DeptInv'
<1>1. n \in Label
  BY DEF Label
<1> QED
  BY <1>1, FilingsAre, FilingStep DEF StartCreateTop, Duty

LEMMA StartDeleteKeeps ==
  ASSUME DeptInv, NEW r \in Registrar, NEW d \in Dept, StartDelete(r, d)
  PROVE  DeptInv'
<1>1. NoName \in Label
  BY DEF Label
<1> QED
  BY <1>1, FilingsAre, FilingStep DEF StartDelete, Duty, Active

LEMMA DropKeeps ==
  ASSUME DeptInv, NEW r \in Registrar, DropFiling(r)
  PROVE  DeptInv'
BY FilingsAre, FilingStep DEF DropFiling

LEMMA DepartmentsNextKeeps == DeptInv /\ [DepartmentsNext]_departments => DeptInv'
<1> SUFFICES ASSUME DeptInv, [DepartmentsNext]_departments PROVE DeptInv'
  OBVIOUS
<1>1. CASE UNCHANGED departments
  BY <1>1 DEF departments, DeptInv, DepartmentsTypeOK, NamesApart, OrphansOverlapped,
              Shallow, FiledSoundly, ChildrenOf, Active
<1>2. ASSUME NEW r \in Registrar, NEW n \in Name, StartCreateTop(r, n) PROVE DeptInv'
  BY <1>2, StartTopKeeps
<1>3. ASSUME NEW r \in Registrar, NEW d \in Dept, NEW n \in Name,
             StartCreateSub(r, d, n) \/ StartRename(r, d, n)
      PROVE  DeptInv'
  BY <1>3, StartKeeps
<1>4. ASSUME NEW r \in Registrar, NEW d \in Dept,
             InsertDepartment(r, d) \/ StartDelete(r, d)
      PROVE  DeptInv'
  BY <1>4, InsertKeeps, StartDeleteKeeps
<1>5. ASSUME NEW r \in Registrar, SaveName(r) \/ RemoveDepartment(r) \/ DropFiling(r)
      PROVE  DeptInv'
  BY <1>5, SaveNameKeeps, RemoveKeeps, DropKeeps
<1> QED
  BY <1>1, <1>2, <1>3, <1>4, <1>5 DEF DepartmentsNext, NothingFiled

(* The invariant that the properties follow from. *)
THEOREM DepartmentsCorrect == DepartmentsSpec => []DeptInv
BY InitDepartments, DepartmentsNextKeeps, PTL DEF DepartmentsSpec

(* No two departments of one parent share a name, whatever overlaps. *)
THEOREM NamesApartCorrect == DepartmentsSpec => []NamesApart
<1>1. DeptInv => NamesApart
  BY DEF DeptInv
<1> QED
  BY <1>1, DepartmentsCorrect, PTL

(* A department without its parent was stored during the deletion. *)
THEOREM OrphansCorrect == DepartmentsSpec => []OrphansOverlapped
<1>1. DeptInv => OrphansOverlapped
  BY DEF DeptInv
<1> QED
  BY <1>1, DepartmentsCorrect, PTL

-------------------------------------------------------------------------------

(* What is below d is d and its children: nothing is deeper. *)
LEMMA BelowIs ==
  ASSUME DeptInv, NEW d \in Active
  PROVE  Below(d) = {d} \cup {c \in Active : dept[d].level = "top" /\ dept[c].parent = d}
<1> DEFINE C == {d} \cup {c \in Active : dept[d].level = "top" /\ dept[c].parent = d}
<1>1. C \in SUBSET Dept /\ C \subseteq Active /\ d \in C
  BY DEF Active
<1>2. ClosedBelow(C)
  <2> SUFFICES ASSUME NEW c \in Active, dept[c].parent \in C PROVE c \in C
    BY DEF ClosedBelow
  <2>1. dept[c].parent \in Dept /\ dept[dept[c].parent].level = "top"
    BY <1>1, DepartmentsAssumption DEF DeptInv, Shallow
  <2>2. CASE dept[c].parent = d
    BY <2>1, <2>2
  <2>3. CASE dept[c].parent # d
    <3>1. dept[dept[c].parent].parent = d
      BY <2>3
    <3>2. dept[dept[c].parent].level = "sub"
      BY <2>1, <3>1, <1>1, DepartmentIs, DepartmentsAssumption DEF DeptInv
    <3> QED
      BY <2>1, <3>2
  <2> QED
    BY <2>2, <2>3
<1>3. Below(d) \subseteq C
  BY <1>1, <1>2 DEF Below
<1>4. ASSUME NEW c \in C, NEW D \in SUBSET Dept, d \in D, ClosedBelow(D) PROVE c \in D
  BY <1>4 DEF ClosedBelow
<1>5. C \subseteq Below(d)
  BY <1>1, <1>4 DEF Below
<1> QED
  BY <1>3, <1>5

(* The scope of a user reaches every department below the user's own, for  *)
(* any tree that the handlers can make.                                    *)
THEOREM ScopeCorrect == DepartmentsSpec => []ScopeReachesAll
<1>1. DeptInv => ScopeReachesAll
  <2> SUFFICES ASSUME DeptInv, NEW S \in SUBSET Active
               PROVE  Scope(S) = UNION {Below(d) : d \in S}
    BY DEF ScopeReachesAll
  <2>1. S \cap Active = S
    OBVIOUS
  <2>2. \A d \in S : Below(d) = {d} \cup {c \in Active :
                             dept[d].level = "top" /\ dept[c].parent = d}
    BY BelowIs
  <2> QED
    BY <2>1, <2>2 DEF Scope
<1> QED
  BY <1>1, DepartmentsCorrect, PTL

-------------------------------------------------------------------------------

(* What is shown of the departments.  The parent of a department that is   *)
(* there has no parent itself, so that the recursion along the parents     *)
(* ends with it, whichever departments were fetched.                       *)
LEMMA ParentIs ==
  ASSUME DeptInv, NEW d \in Active
  PROVE  /\ d \in Dept /\ NoDept \notin Active
         /\ dept[d].parent \in Active =>
              dept[d].parent \in Dept /\ dept[dept[d].parent].parent = NoDept
<1>1. d \in Dept /\ NoDept \notin Active
  BY DepartmentsAssumption DEF Active
<1>2. ASSUME dept[d].parent \in Active
      PROVE  dept[d].parent \in Dept /\ dept[dept[d].parent].parent = NoDept
  <2> DEFINE e == dept[d].parent
  <2>1. e \in Dept /\ dept[e].level = "top"
    BY <1>1, <1>2 DEF DeptInv, Shallow, Active
  <2>2. dept[e].parent # NoDept => dept[e].level = "sub"
    BY <2>1, DepartmentIs DEF DeptInv
  <2> QED
    BY <2>1, <2>2
<1> QED
  BY <1>1, <1>2

(* One step of the recursion, from the score f gives each parent. *)
ScoreUp(F, f) ==
  [e \in Dept |->
     IF e \notin F THEN passing[Master]
     ELSE IF passing[e] # NoPass THEN passing[e]
     ELSE IF dept[e].parent = NoDept THEN passing[Master]
     ELSE f[dept[e].parent]]

(* The score of d, from its own, its parent's among F and the master's. *)
ScoreOf(F, d) ==
  IF passing[d] # NoPass THEN passing[d]
  ELSE IF dept[d].parent \in F /\ passing[dept[d].parent] # NoPass THEN passing[dept[d].parent]
  ELSE passing[Master]

LEMMA ResolvedIs ==
  ASSUME DeptInv, NEW F \in SUBSET Active, NEW d \in F
  PROVE  ResolvedFrom(F, d) = ScoreOf(F, d)
<1> DEFINE g == [e \in Dept |-> IF e \in F THEN ScoreOf(F, e) ELSE passing[Master]]
           up == CHOOSE f : f = ScoreUp(F, f)
           p == dept[d].parent
<1>1. \A e \in F : /\ e \in Dept /\ e # NoDept
                   /\ dept[e].parent # NoDept => dept[e].parent \in Dept
                   /\ dept[e].parent \in F => dept[dept[e].parent].parent = NoDept
  <2> SUFFICES ASSUME NEW e \in F
               PROVE  /\ e \in Dept /\ e # NoDept
                      /\ dept[e].parent # NoDept => dept[e].parent \in Dept
                      /\ dept[e].parent \in F => dept[dept[e].parent].parent = NoDept
    OBVIOUS
  <2>1. e \in Active /\ e \in Dept /\ e # NoDept
    BY ParentIs
  <2>2. dept[e].parent # NoDept => dept[e].parent \in Dept
    BY <2>1 DEF DeptInv, Shallow
  <2>3. dept[e].parent \in F => dept[dept[e].parent].parent = NoDept
    BY <2>1, ParentIs
  <2> QED
    BY <2>1, <2>2, <2>3
<1>2. NoDept \notin F
  BY <1>1
<1>3. g = ScoreUp(F, g)
  <2>1. \A e \in Dept : g[e] = ScoreUp(F, g)[e]
    <3> SUFFICES ASSUME NEW e \in Dept
                 PROVE  g[e] = ScoreUp(F, g)[e]
      OBVIOUS
    <3>1. CASE e \notin F
      BY <3>1 DEF ScoreUp
    <3>2. CASE e \in F /\ passing[e] # NoPass
      BY <3>2 DEF ScoreUp, ScoreOf
    <3>3. CASE e \in F /\ passing[e] = NoPass /\ dept[e].parent = NoDept
      BY <3>3, <1>2 DEF ScoreUp, ScoreOf
    <3>4. CASE e \in F /\ passing[e] = NoPass /\ dept[e].parent # NoDept
      <4>1. ScoreUp(F, g)[e] = g[dept[e].parent] /\ dept[e].parent \in Dept
        BY <3>4, <1>1 DEF ScoreUp
      <4>2. CASE dept[e].parent \notin F
        BY <3>4, <4>1, <4>2 DEF ScoreOf
      <4>3. CASE dept[e].parent \in F
        <5>1. g[dept[e].parent] = ScoreOf(F, dept[e].parent)
          BY <4>1, <4>3
        <5>2. dept[dept[e].parent].parent \notin F
          BY <1>1, <1>2, <3>4, <4>3
        <5> QED
          BY <3>4, <4>1, <4>3, <5>1, <5>2 DEF ScoreOf
      <4> QED
        BY <4>2, <4>3
    <3> QED
      BY <3>1, <3>2, <3>3, <3>4
  <2>2. ScoreUp(F, g) = [e \in Dept |-> ScoreUp(F, g)[e]]
    BY DEF ScoreUp
  <2>3. g = [e \in Dept |-> g[e]]
    OBVIOUS
  <2> HIDE DEF g
  <2> QED
    BY <2>1, <2>2, <2>3
<1>4. up = ScoreUp(F, up)
  <2> HIDE DEF g
  <2> QED
    BY <1>3
<1>5. ResolvedFrom(F, d) = up[d]
  BY DEF ResolvedFrom, ScoreUp
<1> HIDE DEF up, g
<1>6. \A e \in Dept : up[e] = ScoreUp(F, up)[e]
  BY <1>4
<1>7. d \in Dept
  BY <1>1
<1>8. CASE passing[d] # NoPass
  BY <1>5, <1>6, <1>7, <1>8 DEF ScoreUp, ScoreOf
<1>9. CASE passing[d] = NoPass /\ p = NoDept
  BY <1>2, <1>5, <1>6, <1>7, <1>9 DEF ScoreUp, ScoreOf
<1>10. CASE passing[d] = NoPass /\ p # NoDept
  <2>1. up[d] = up[p] /\ p \in Dept
    BY <1>1, <1>6, <1>7, <1>10 DEF ScoreUp
  <2>2. up[p] = IF p \in F /\ passing[p] # NoPass THEN passing[p] ELSE passing[Master]
    BY <1>1, <1>6, <2>1 DEF ScoreUp
  <2> QED
    BY <1>5, <1>10, <2>1, <2>2 DEF ScoreOf
<1> QED
  BY <1>8, <1>9, <1>10

(* A department alone, with its ancestors, or among all: one answer. *)
LEMMA ScoresAre ==
  ASSUME DeptInv, NEW d \in Active
  PROVE  /\ GetDepartment(d) = ScoreOf(Active, d)
         /\ UpdateDepartmentAnswer(d) = ScoreOf({d}, d)
         /\ AncestorsOf(d) = {dept[d].parent} \cap Active
<1>1. d \in Dept /\ NoDept \notin Active
  BY ParentIs
<1>2. AncestorsOf(d) = {dept[d].parent} \cap Active
  BY <1>1 DEF AncestorsOf
<1>3. FetchedFor(d) \in SUBSET Active /\ d \in FetchedFor(d)
  BY <1>2 DEF FetchedFor
<1>4. GetDepartment(d) = ScoreOf(FetchedFor(d), d)
  BY <1>3, ResolvedIs DEF GetDepartment
<1>5. ScoreOf(FetchedFor(d), d) = ScoreOf(Active, d)
  BY <1>2 DEF ScoreOf, FetchedFor
<1>6. UpdateDepartmentAnswer(d) = ScoreOf({d}, d)
  BY ResolvedIs DEF UpdateDepartmentAnswer
<1> QED
  BY <1>2, <1>4, <1>5, <1>6

LEMMA ViewsAre == ASSUME DeptInv PROVE ViewsAgree
<1> SUFFICES ASSUME NEW d \in Active
             PROVE  LET shown == Hierarchy(Active).passing[d] IN
                    /\ GetDepartment(d) = shown
                    /\ TemplatePassing(d) = IF shown = NoPass THEN PASSING_STYLE_SCORE ELSE shown
                    /\ passing[d] # NoPass \/ AncestorsOf(d) = {} => UpdateDepartmentAnswer(d) = shown
  BY DEF ViewsAgree
<1>1. Hierarchy(Active).passing[d] = ScoreOf(Active, d)
  BY ResolvedIs DEF Hierarchy, FetchedBy
<1>2. TemplatePassing(d) =
        IF ScoreOf(Active, d) = NoPass THEN PASSING_STYLE_SCORE ELSE ScoreOf(Active, d)
  <2> DEFINE known == {e \in AncestorsOf(d) : passing[e] # NoPass}
  <2>1. CASE passing[d] # NoPass
    BY <2>1 DEF TemplatePassing, ScoreOf
  <2>2. CASE passing[d] = NoPass /\ known = {}
    <3>1. ~(dept[d].parent \in Active /\ passing[dept[d].parent] # NoPass)
      BY <2>2, ScoresAre
    <3> QED
      BY <2>2, <3>1 DEF TemplatePassing, ScoreOf
  <2>3. CASE passing[d] = NoPass /\ known # {}
    <3>1. known = {dept[d].parent} /\ dept[d].parent \in Active /\ passing[dept[d].parent] # NoPass
      BY <2>3, ScoresAre
    <3>2. (CHOOSE e \in known : TRUE) = dept[d].parent
      BY <3>1
    <3> QED
      BY <2>3, <3>1, <3>2 DEF TemplatePassing, ScoreOf
  <2> QED
    BY <2>1, <2>2, <2>3
<1>3. passing[d] # NoPass \/ AncestorsOf(d) = {} => ScoreOf({d}, d) = ScoreOf(Active, d)
  BY ScoresAre DEF ScoreOf
<1> QED
  BY <1>1, <1>2, <1>3, ScoresAre

LEMMA HierarchyIs == ASSUME DeptInv PROVE HierarchyShows
<1> SUFFICES ASSUME NEW S \in SUBSET Active, NEW d \in S
             PROVE  LET shown == Hierarchy(S) IN
                    /\ Cardinality({p \in S : d \in shown.children[p]}) =
                         IF d \in shown.roots THEN 0 ELSE 1
                    /\ AncestorsOf(d) \subseteq S =>
                         shown.passing[d] = GetDepartment(d) /\ ListedOn(S, d) = GetDepartment(d)
  BY DEF HierarchyShows
<1> DEFINE over == {p \in S : d \in Hierarchy(S).children[p]}
<1>1. FetchedBy(S) = S
  BY DEF FetchedBy
<1>2. over = {dept[d].parent} \cap S
  BY <1>1 DEF Hierarchy, ShownUnder
<1>3. d \in Hierarchy(S).roots <=> dept[d].parent \notin S
  BY <1>1 DEF Hierarchy, Roots
<1>4. Cardinality(over) = IF d \in Hierarchy(S).roots THEN 0 ELSE 1
  <2>1. dept[d].parent \notin S => over = {}
    BY <1>2
  <2>2. dept[d].parent \in S => over = {dept[d].parent}
    BY <1>2
  <2> HIDE DEF over
  <2> QED
    BY <1>3, <2>1, <2>2, FS_EmptySet, FS_Singleton
<1>5. Hierarchy(S).passing[d] = ScoreOf(S, d) /\ ListedOn(S, d) = ScoreOf(S, d)
  BY <1>1, ResolvedIs DEF Hierarchy, ListedOn
<1>6. AncestorsOf(d) \subseteq S => ScoreOf(S, d) = ScoreOf(Active, d)
  BY ScoresAre DEF ScoreOf
<1> QED
  BY <1>4, <1>5, <1>6, ScoresAre

(* The views change no department but as the requests do. *)
LEMMA ViewsInvariant == ViewsSpec => []DeptInv
<1>1. ViewsInit => DeptInv
  BY InitDepartments DEF ViewsInit
<1>2. DeptInv /\ [ViewsNext]_views => DeptInv'
  BY DepartmentsNextKeeps DEF ViewsNext, TreeChanges, SetPassing, views
<1> QED
  BY <1>1, <1>2, PTL DEF ViewsSpec

(* A department is shown alike whichever way it is shown, with whatever    *)
(* scores, and also while departments come and go                          *)
(* (departmentCtrl.ts:37-365; departmentResourcesCtrl.ts:482-509).         *)
THEOREM ShownAlikeCorrect == ViewsSpec => []ShownAlike
<1>1. DeptInv => ShownAlike
  BY ViewsAre, HierarchyIs DEF ShownAlike
<1> QED
  BY <1>1, ViewsInvariant, PTL

-------------------------------------------------------------------------------

(* A request that is alone is the only one; with its copy stored, it holds *)
(* the memberships there are.                                              *)
Alone(m) ==
  manager[m].alone /\ ~Idle(m) =>
    /\ \A k \in Manager \ {m} : Idle(k)
    /\ manager[m].at = "roles" => manager[m].memberships = staff.memberships

(* A copy of the version that is stored differs from it in the targets.    *)
Copied(m) ==
  manager[m].at = "save" =>
    /\ manager[m].version <= staff.version
    /\ manager[m].version = staff.version /\ ~manager[m].overtaken =>
         SameOutside(staff.memberships, manager[m].memberships, manager[m].targets)

StaffInv ==
  /\ StaffTypeOK
  /\ RolesFollow
  /\ \A m \in Manager : Alone(m)
  /\ \A m \in Manager : Copied(m)

-------------------------------------------------------------------------------

LEMMA MembershipsAre ==
  ASSUME NEW ms \in Memberships
  PROVE  /\ DOMAIN ms \subseteq Unit
         /\ \A d \in DOMAIN ms : ms[d] \subseteq Role
         /\ ms = [d \in DOMAIN ms |-> ms[d]]
         /\ UnionRoles(ms) \subseteq Role
<1>1. PICK D \in SUBSET Unit : ms \in [D -> SUBSET Role]
  BY DEF Memberships
<1>2. /\ DOMAIN ms \subseteq Unit /\ \A d \in DOMAIN ms : ms[d] \subseteq Role
      /\ ms = [d \in DOMAIN ms |-> ms[d]]
  BY <1>1
<1> QED
  BY <1>2 DEF UnionRoles

LEMMA AreMemberships ==
  ASSUME NEW D \in SUBSET Unit, NEW ms \in [D -> SUBSET Role]
  PROVE  ms \in Memberships
BY DEF Memberships

LEMMA NoneIs == None \in Memberships /\ NoOrder \in Order /\ NoOrder.at = "idle"
<1>1. None \in [{} -> SUBSET Role]
  BY DEF None
<1>2. None \in Memberships
  BY <1>1, AreMemberships
<1> QED
  BY <1>2 DEF NoOrder, Order

LEMMA WithIs ==
  ASSUME NEW ms \in Memberships, NEW d \in Unit, NEW roles \in SUBSET Role
  PROVE  /\ With(ms, d, roles) \in Memberships
         /\ SameOutside(ms, With(ms, d, roles), {d})
<1>1. DOMAIN ms \cup {d} \in SUBSET Unit
  BY MembershipsAre
<1>2. With(ms, d, roles) \in [DOMAIN ms \cup {d} -> SUBSET Role]
  BY MembershipsAre DEF With
<1>3. SameOutside(ms, With(ms, d, roles), {d})
  BY DEF SameOutside, With
<1> QED
  BY <1>1, <1>2, <1>3, AreMemberships

LEMMA WithoutIs ==
  ASSUME NEW ms \in Memberships, NEW d \in Unit
  PROVE  /\ Without(ms, d) \in Memberships
         /\ SameOutside(ms, Without(ms, d), {d})
<1>1. DOMAIN ms \ {d} \in SUBSET Unit
  BY MembershipsAre
<1>2. Without(ms, d) \in [DOMAIN ms \ {d} -> SUBSET Role]
  BY MembershipsAre DEF Without
<1>3. SameOutside(ms, Without(ms, d), {d})
  BY DEF SameOutside, Without
<1> QED
  BY <1>1, <1>2, <1>3, AreMemberships

LEMMA SameAsItself ==
  ASSUME NEW ms, NEW D PROVE SameOutside(ms, ms, D)
BY DEF SameOutside

LEMMA AnyOfAll ==
  ASSUME NEW ms, NEW ns PROVE SameOutside(ms, ns, Unit)
BY DEF SameOutside

LEMMA OrderIs ==
  ASSUME StaffTypeOK, NEW m \in Manager
  PROVE  /\ manager[m] \in Order
         /\ manager[m].memberships \in Memberships
         /\ manager[m].version \in Nat
         /\ manager[m].alone \in BOOLEAN
         /\ manager[m].overtaken \in BOOLEAN
         /\ staff \in StaffDoc
         /\ staff.memberships \in Memberships /\ staff.version \in Nat
BY DEF StaffTypeOK, Order, StaffDoc

(* What one order becomes when another request begins, or a profile update *)
(* writes.                                                                 *)
LEMMA CrowdedIs ==
  ASSUME NEW order \in Order
  PROVE  /\ [order EXCEPT !.alone = FALSE] \in Order
         /\ [order EXCEPT !.alone = FALSE].alone = FALSE
         /\ [order EXCEPT !.alone = FALSE].at = order.at
         /\ [order EXCEPT !.alone = FALSE].memberships = order.memberships
         /\ [order EXCEPT !.alone = FALSE].version = order.version
         /\ [order EXCEPT !.alone = FALSE].targets = order.targets
         /\ [order EXCEPT !.alone = FALSE].overtaken = order.overtaken
BY DEF Order

LEMMA OvertakenIs ==
  ASSUME NEW order \in Order
  PROVE  /\ [order EXCEPT !.alone = FALSE, !.overtaken = TRUE] \in Order
         /\ [order EXCEPT !.alone = FALSE, !.overtaken = TRUE].alone = FALSE
         /\ [order EXCEPT !.alone = FALSE, !.overtaken = TRUE].overtaken = TRUE
         /\ [order EXCEPT !.alone = FALSE, !.overtaken = TRUE].at = order.at
         /\ [order EXCEPT !.alone = FALSE, !.overtaken = TRUE].version = order.version
<1> DEFINE one == [order EXCEPT !.alone = FALSE]
           two == [one EXCEPT !.overtaken = TRUE]
<1>1. /\ one \in Order /\ one.alone = FALSE
      /\ one.at = order.at /\ one.version = order.version
  BY CrowdedIs
<1> HIDE DEF one
<1>2. /\ two \in Order /\ two.overtaken = TRUE /\ two.alone = one.alone
      /\ two.at = one.at /\ two.version = one.version
  BY <1>1 DEF Order
<1> QED
  BY <1>1, <1>2 DEF one

-------------------------------------------------------------------------------

LEMMA InitStaff == StaffInit => StaffInv
<1> SUFFICES ASSUME StaffInit PROVE StaffInv
  OBVIOUS
<1>1. PICK ms \in Memberships :
        /\ staff = [memberships |-> ms, version |-> 0]
        /\ staffRoles \in {{}, UnionRoles(ms)}
        /\ settled = (staffRoles = UnionRoles(ms))
  BY DEF StaffInit
<1>2. manager = [m \in Manager |-> NoOrder]
  BY DEF StaffInit
<1>3. StaffTypeOK
  <2>1. settled \in BOOLEAN
    BY <1>1
  <2>2. staff \in StaffDoc
    BY <1>1 DEF StaffDoc
  <2>3. staffRoles \subseteq Role
    BY <1>1, MembershipsAre
  <2>4. manager \in [Manager -> Order]
    BY <1>2, NoneIs
  <2> QED
    BY <2>1, <2>2, <2>3, <2>4 DEF StaffTypeOK
<1>4. RolesFollow
  BY <1>1 DEF RolesFollow
<1>5. \A m \in Manager : Idle(m)
  BY <1>2, NoneIs DEF Idle
<1> QED
  BY <1>3, <1>4, <1>5 DEF StaffInv, Alone, Copied, Idle

LEMMA BeginKeeps ==
  ASSUME StaffInv, NEW m \in Manager, NEW at \in {"save", "roles"},
         NEW ms \in Memberships, NEW targets \in SUBSET Unit,
         Begin(m, at, ms, targets),
         SameOutside(staff.memberships, ms, targets),
         at = "roles" => ms = staff.memberships
  PROVE  StaffInv'
<1> USE DEF StaffInv
<1> DEFINE order == OrderOf(m, at, ms, targets)
<1>1. /\ order \in Order /\ order.at = at /\ order.memberships = ms
      /\ order.version = staff.version /\ order.targets = targets
      /\ order.alone <=> \A k \in Manager : Idle(k)
  BY OrderIs DEF OrderOf, Order
<1> HIDE DEF order
<1>2. Crowded(m, order) /\ UNCHANGED <<staff, staffRoles, settled>>
  BY DEF Begin, order
<1>3. manager'[m] = order
  BY <1>2 DEF Crowded
<1>4. ASSUME NEW k \in Manager \ {m}
      PROVE  /\ manager'[k] \in Order /\ ~manager'[k].alone
             /\ manager'[k].at = manager[k].at
             /\ manager'[k].memberships = manager[k].memberships
             /\ manager'[k].version = manager[k].version
             /\ manager'[k].targets = manager[k].targets
             /\ manager'[k].overtaken = manager[k].overtaken
  <2>1. manager'[k] = [manager[k] EXCEPT !.alone = FALSE]
    BY <1>2, <1>4 DEF Crowded
  <2> QED
    BY <2>1, <1>4, OrderIs, CrowdedIs
<1>5. manager' \in [Manager -> Order]
  BY <1>1, <1>2, <1>3, <1>4 DEF Crowded
<1>6. StaffTypeOK' /\ RolesFollow'
  BY <1>2, <1>5 DEF StaffTypeOK, RolesFollow
<1>7. ASSUME NEW k \in Manager PROVE Alone(k)' /\ Copied(k)'
  <2>1. CASE k = m
    <3>1. Copied(k)'
      BY <2>1, <1>1, <1>2, <1>3, OrderIs DEF Copied
    <3>2. order.alone => \A j \in Manager \ {m} : Idle(j)'
      BY <1>1, <1>4 DEF Idle
    <3>3. Alone(k)'
      BY <2>1, <1>1, <1>2, <1>3, <3>2 DEF Alone
    <3> QED
      BY <3>1, <3>3
  <2>2. CASE k # m
    BY <2>2, <1>2, <1>4 DEF Alone, Copied
  <2> QED
    BY <2>1, <2>2
<1> QED
  BY <1>6, <1>7

LEMMA ProfileKeeps ==
  ASSUME StaffInv, NEW ms \in Memberships, StaffUpdateProfile(ms)
  PROVE  StaffInv'
<1> USE DEF StaffInv
<1>1. staff' = [memberships |-> ms, version |-> staff.version]
      /\ settled' = FALSE /\ UNCHANGED staffRoles
  BY DEF StaffUpdateProfile
<1>2. ASSUME NEW k \in Manager
      PROVE  /\ manager'[k] \in Order /\ manager'[k].at = manager[k].at
             /\ manager'[k].version = manager[k].version
             /\ ~Idle(k) => manager'[k].overtaken /\ ~manager'[k].alone
  <2>1. CASE Idle(k)
    BY <2>1, OrderIs DEF StaffUpdateProfile
  <2>2. CASE ~Idle(k)
    <3>1. manager'[k] = [manager[k] EXCEPT !.alone = FALSE, !.overtaken = TRUE]
      BY <2>2 DEF StaffUpdateProfile
    <3> QED
      BY <3>1, OrderIs, OvertakenIs
  <2> QED
    BY <2>1, <2>2
<1>3. manager' \in [Manager -> Order]
  BY <1>2 DEF StaffUpdateProfile
<1>4. staff' \in StaffDoc
  BY <1>1, OrderIs DEF StaffDoc, StaffTypeOK
<1>5. StaffTypeOK' /\ RolesFollow'
  BY <1>1, <1>3, <1>4 DEF StaffTypeOK, RolesFollow
<1>6. ASSUME NEW k \in Manager PROVE Alone(k)' /\ Copied(k)'
  BY <1>1, <1>2 DEF Alone, Copied, Idle
<1> QED
  BY <1>5, <1>6

LEMMA SaveStaffKeeps ==
  ASSUME StaffInv, NEW m \in Manager, SaveStaff(m)
  PROVE  StaffInv'
<1> USE DEF StaffInv
<1> DEFINE order == [manager[m] EXCEPT !.at = "roles"]
<1>1. /\ manager[m].at = "save" /\ settled' = FALSE /\ UNCHANGED staffRoles
      /\ staff' = [memberships |-> manager[m].memberships, version |-> staff.version + 1]
      /\ manager' = [manager EXCEPT ![m] = order]
  BY DEF SaveStaff
<1>2. /\ order \in Order /\ order.at = "roles"
      /\ order.memberships = manager[m].memberships /\ order.alone = manager[m].alone
  BY OrderIs DEF Order
<1> HIDE DEF order
<1>3. manager'[m] = order /\ \A k \in Manager \ {m} : manager'[k] = manager[k]
  BY <1>1 DEF StaffTypeOK
<1>4. StaffTypeOK' /\ RolesFollow'
  <2>1. staff' \in StaffDoc
    BY <1>1, OrderIs DEF StaffDoc, StaffTypeOK
  <2>2. manager' \in [Manager -> Order]
    BY <1>1, <1>2 DEF StaffTypeOK
  <2> QED
    BY <1>1, <2>1, <2>2 DEF StaffTypeOK, RolesFollow
<1>5. staff'.memberships = manager[m].memberships /\ staff'.version = staff.version + 1
  BY <1>1
<1>6. ASSUME NEW k \in Manager PROVE Alone(k)' /\ Copied(k)'
  <2>1. CASE k = m
    BY <2>1, <1>1, <1>2, <1>3, <1>5 DEF Alone, Copied, Idle
  <2>2. CASE k # m
    BY <2>2, <1>1, <1>2, <1>3, <1>5, OrderIs DEF Alone, Copied, Idle
  <2> QED
    BY <2>1, <2>2
<1> QED
  BY <1>4, <1>6

(* A request that goes, and leaves staff as it is. *)
LEMMA LeaveKeeps ==
  ASSUME StaffInv, NEW m \in Manager, manager' = [manager EXCEPT ![m] = NoOrder],
         UNCHANGED staff
  PROVE  /\ manager' \in [Manager -> Order]
         /\ \A k \in Manager : Alone(k)' /\ Copied(k)'
<1> USE DEF StaffInv
<1>1. manager'[m] = NoOrder /\ \A k \in Manager \ {m} : manager'[k] = manager[k]
  BY DEF StaffTypeOK
<1>2. manager' \in [Manager -> Order]
  BY NoneIs DEF StaffTypeOK
<1>3. ASSUME NEW k \in Manager PROVE Alone(k)' /\ Copied(k)'
  <2>1. CASE k = m
    BY <2>1, <1>1, NoneIs DEF Alone, Copied, Idle
  <2>2. CASE k # m
    BY <2>2, <1>1, NoneIs DEF Alone, Copied, Idle
  <2> QED
    BY <2>1, <2>2
<1> QED
  BY <1>2, <1>3

LEMMA WriteRolesKeeps ==
  ASSUME StaffInv, NEW m \in Manager, WriteRoles(m)
  PROVE  StaffInv'
<1> USE DEF StaffInv
<1>1. /\ manager[m].at = "roles" /\ UNCHANGED staff
      /\ staffRoles' = UnionRoles(manager[m].memberships)
      /\ settled' = manager[m].alone
      /\ manager' = [manager EXCEPT ![m] = NoOrder]
  BY DEF WriteRoles, RolesOf
<1>2. staffRoles' \subseteq Role
  BY <1>1, OrderIs, MembershipsAre
<1>3. settled' \in BOOLEAN
  BY <1>1, OrderIs
<1>4. manager[m].alone => manager[m].memberships = staff.memberships
  BY <1>1 DEF Alone, Idle
<1>5. RolesFollow'
  BY <1>1, <1>4 DEF RolesFollow
<1>6. StaffTypeOK'
  BY <1>1, <1>2, <1>3, LeaveKeeps DEF StaffTypeOK
<1> QED
  BY <1>1, <1>5, <1>6, LeaveKeeps

LEMMA DropOrderKeeps ==
  ASSUME StaffInv, NEW m \in Manager, DropOrder(m)
  PROVE  StaffInv'
<1>1. manager' = [manager EXCEPT ![m] = NoOrder] /\ UNCHANGED <<staff, staffRoles, settled>>
  BY DEF DropOrder
<1>2. StaffTypeOK' /\ RolesFollow'
  BY <1>1, LeaveKeeps DEF StaffInv, StaffTypeOK, RolesFollow
<1> QED
  BY <1>1, <1>2, LeaveKeeps DEF StaffInv

LEMMA StaffNextKeeps == StaffInv /\ [StaffNext]_membership => StaffInv'
<1> SUFFICES ASSUME StaffInv, [StaffNext]_membership PROVE StaffInv'
  OBVIOUS
<1>1. CASE UNCHANGED membership
  BY <1>1 DEF membership, StaffInv, StaffTypeOK, RolesFollow, Alone, Copied, Idle
<1>2. ASSUME NEW ms \in Memberships, StaffUpdateProfile(ms) PROVE StaffInv'
  BY <1>2, ProfileKeeps
<1>3. staff.memberships \in Memberships
  BY DEF StaffInv, StaffTypeOK, StaffDoc
<1>4. ASSUME NEW m \in Manager, NEW d \in Unit, NEW roles \in SUBSET Role,
             UpdateStaffRoles(m, d, roles)
      PROVE  StaffInv'
  BY <1>3, <1>4, WithIs, BeginKeeps DEF UpdateStaffRoles
<1>5. ASSUME NEW m \in Manager, NEW d \in Unit, AddStaffDepartment(m, d) PROVE StaffInv'
  <2>1. CASE d \in DOMAIN staff.memberships
    BY <1>3, <1>5, <2>1, SameAsItself, BeginKeeps DEF AddStaffDepartment
  <2>2. CASE d \notin DOMAIN staff.memberships
    BY <1>3, <1>5, <2>2, WithIs, BeginKeeps DEF AddStaffDepartment
  <2> QED
    BY <2>1, <2>2
<1>6. ASSUME NEW m \in Manager, NEW d \in Unit, RemoveStaffDepartment(m, d)
      PROVE  StaffInv'
  BY <1>3, <1>6, WithoutIs, BeginKeeps DEF RemoveStaffDepartment
<1>7. ASSUME NEW m \in Manager, NEW ms \in Memberships, AdminUpdateStaff(m, ms)
      PROVE  StaffInv'
  BY <1>7, AnyOfAll, BeginKeeps DEF AdminUpdateStaff
<1>8. ASSUME NEW m \in Manager, UpdateNoDepartment(m) PROVE StaffInv'
  BY <1>3, <1>8, SameAsItself, BeginKeeps DEF UpdateNoDepartment
<1>9. ASSUME NEW m \in Manager, SaveStaff(m) \/ WriteRoles(m) \/ DropOrder(m)
      PROVE  StaffInv'
  BY <1>9, SaveStaffKeeps, WriteRolesKeeps, DropOrderKeeps
<1> QED
  BY <1>1, <1>2, <1>4, <1>5, <1>6, <1>7, <1>8, <1>9 DEF StaffNext, NothingOrdered

(* The invariant that the properties follow from. *)
THEOREM StaffCorrect == StaffSpec => []StaffInv
BY InitStaff, StaffNextKeeps, PTL DEF StaffSpec

(* The roles on the User are the union of the memberships' roles whenever  *)
(* the last request to write ran alone, for any number of requests.        *)
THEOREM RolesFollowCorrect == StaffSpec => []RolesFollow
<1>1. StaffInv => RolesFollow
  BY DEF StaffInv
<1> QED
  BY <1>1, StaffCorrect, PTL

-------------------------------------------------------------------------------

(* Only its own save takes a request from "save" to "roles". *)
LEMMA OnlySaveStaff ==
  ASSUME StaffInv, [StaffNext]_membership, NEW m \in Manager,
         manager[m].at = "save", manager'[m].at = "roles"
  PROVE  SaveStaff(m)
<1> USE DEF StaffInv
<1>1. manager \in [Manager -> Order]
  BY DEF StaffTypeOK
<1>2. ASSUME NEW k \in Manager, NEW order,
             manager' = [manager EXCEPT ![k] = order], order.at # "roles" \/ k # m
      PROVE  FALSE
  BY <1>1, <1>2
<1>3. ASSUME NEW k \in Manager, NEW at, NEW ms, NEW targets, Begin(k, at, ms, targets)
      PROVE  FALSE
  <2>1. k # m
    BY <1>3 DEF Begin, Idle
  <2>2. manager'[m] = [manager[m] EXCEPT !.alone = FALSE]
    BY <1>3, <2>1 DEF Begin, Crowded
  <2> QED
    BY <1>1, <2>2, CrowdedIs
<1>4. ASSUME NEW ms \in Memberships, StaffUpdateProfile(ms) PROVE FALSE
  <2>1. manager'[m] = [manager[m] EXCEPT !.alone = FALSE, !.overtaken = TRUE]
    BY <1>4 DEF StaffUpdateProfile, Idle
  <2> QED
    BY <1>1, <2>1, OvertakenIs
<1>5. ASSUME NEW k \in Manager, SaveStaff(k) PROVE SaveStaff(m)
  <2>1. CASE k = m
    BY <1>5, <2>1
  <2>2. CASE k # m
    BY <1>1, <1>5, <2>2 DEF SaveStaff
  <2> QED
    BY <2>1, <2>2
<1>6. ASSUME NEW k \in Manager, WriteRoles(k) \/ DropOrder(k) PROVE FALSE
  BY <1>2, <1>6, NoneIs DEF WriteRoles, DropOrder
<1>7. ASSUME NEW k \in Manager, NEW d \in Unit, NEW roles, UpdateStaffRoles(k, d, roles)
      PROVE  FALSE
  BY <1>3, <1>7 DEF UpdateStaffRoles
<1>8. ASSUME NEW k \in Manager, NEW d \in Unit,
             AddStaffDepartment(k, d) \/ RemoveStaffDepartment(k, d)
      PROVE  FALSE
  BY <1>3, <1>8 DEF AddStaffDepartment, RemoveStaffDepartment
<1>9. ASSUME NEW k \in Manager, NEW ms, AdminUpdateStaff(k, ms) PROVE FALSE
  BY <1>3, <1>9 DEF AdminUpdateStaff
<1>10. ASSUME NEW k \in Manager, UpdateNoDepartment(k) PROVE FALSE
  BY <1>3, <1>10 DEF UpdateNoDepartment
<1>11. CASE UNCHANGED membership
  BY <1>11 DEF membership
<1> QED
  BY <1>4, <1>5, <1>6, <1>7, <1>8, <1>9, <1>10, <1>11 DEF StaffNext, NothingOrdered

(* A save changes only what its request is about, for any number of        *)
(* requests and any departments.                                           *)
THEOREM MembershipsCorrect == StaffSpec => MembershipsKept
<1> DEFINE Kept == \A m \in Manager :
       manager[m].at = "save" /\ manager'[m].at = "roles" /\ ~manager[m].overtaken =>
         SameOutside(staff.memberships, staff'.memberships, manager[m].targets)
<1>1. StaffInv /\ [StaffNext]_membership => [Kept]_membership
  <2> SUFFICES ASSUME StaffInv, [StaffNext]_membership, NEW m \in Manager,
                      manager[m].at = "save", manager'[m].at = "roles",
                      ~manager[m].overtaken
               PROVE  SameOutside(staff.memberships, staff'.memberships, manager[m].targets)
    OBVIOUS
  <2>1. SaveStaff(m)
    BY OnlySaveStaff
  <2>2. SameOutside(staff.memberships, manager[m].memberships, manager[m].targets)
    BY <2>1 DEF SaveStaff, FoundUnchanged, StaffInv, Copied
  <2>3. staff'.memberships = manager[m].memberships
    BY <2>1 DEF SaveStaff
  <2> QED
    BY <2>2, <2>3
<1> HIDE DEF Kept
<1>2. StaffSpec => [][Kept]_membership
  BY <1>1, StaffCorrect, PTL DEF StaffSpec
<1> QED
  BY <1>2 DEF MembershipsKept, Kept

-------------------------------------------------------------------------------
(* Templates and master stylesheets.  What is stored of a text was worked   *)
(* out from a copy, but saved only where it differs from it.                *)

(* A template whose score has a version; if it is not global, it has a     *)
(* department.                                                             *)
IsTemplate(x) ==
  /\ x = [at |-> x.at, dept |-> x.dept, global |-> x.global, css |-> x.css,
          score |-> x.score, override |-> x.override, status |-> x.status]
  /\ x.at \in {"new", "live"} /\ x.dept \in TDept \cup {NoTDept} /\ x.score.version \in Nat
  /\ x.at = "live" /\ ~x.global => x.dept # NoTDept

IsText(x) ==
  /\ x = [css |-> x.css, score |-> x.score, override |-> x.override]
  /\ x.score.version \in Nat

(* A score of css that may be compared to what department d has now. *)
Comparable(d, score, css, scored) ==
  d \in TDept \ crossed =>
    /\ score.version <= master[d].version
    /\ scored /\ score.version = master[d].version => score = Score(master[d], css)

(* What author a is about to write, w: a text is scored after it was read. *)
Writes(a, w) ==
  /\ w.at \in {"idle", "master", "create", "score", "save"}
  /\ w.at = "master" =>
       w.dept \in TDept /\ w.css \in Css /\ w.copy \in [css : Css, version : Nat]
  /\ w.at = "create" =>
       /\ IsTemplate(w.new) /\ w.new.at = "live"
       /\ w.new.override = OverrideOf(a, w.new.css)
       /\ Comparable(w.new.dept, w.new.score, w.new.css, w.scored)
  /\ w.at \in {"score", "save"} =>
       /\ w = [at |-> w.at, of |-> w.of, status |-> w.status, copy |-> w.copy, new |-> w.new]
       /\ w.of \in Live
  /\ w.at = "score" => IsText(w.new) /\ template[w.of].dept # NoTDept
  /\ w.at = "save" /\ w.copy # Unsaid =>
       /\ IsText(w.new)
       /\ template[w.of].dept # NoTDept =>
            /\ w.new.override = OverrideOf(a, w.new.css)
            /\ Comparable(template[w.of].dept, w.new.score, w.new.css, TRUE)

(* A template that is there, by what is told of it. *)
Tells(t) ==
  t \in Live /\ ~told[t].raced =>
    /\ template[t].dept # NoTDept =>
         template[t].override = OverrideOf(told[t].by, template[t].css)
    /\ Comparable(template[t].dept, template[t].score, template[t].css, told[t].scored)

TemplatesInv ==
  /\ template = [t \in Template |-> template[t]]
  /\ told = [t \in Template |-> told[t]]
  /\ author = [a \in Author |-> author[a]]
  /\ master \in [TDept -> [css : Css, version : Nat]]
  /\ \A t \in Template : IsTemplate(template[t]) /\ Tells(t)
  /\ \A a \in Author : Writes(a, author[a])

LEMMA TemplatesInvInit == TemplatesInit => TemplatesInv
<1> SUFFICES ASSUME TemplatesInit PROVE TemplatesInv
  OBVIOUS
<1>1. master \in [TDept -> [css : Css, version : Nat]]
  BY TemplatesAssumption DEF TemplatesInit, NoMaster
<1>2. ASSUME NEW t \in Template PROVE IsTemplate(template[t]) /\ template[t].at = "new"
  BY <1>2 DEF TemplatesInit, Unmade, Unscored, IsTemplate
<1>3. \A a \in Author : Writes(a, author[a])
  BY DEF TemplatesInit, NoWork, Writes
<1> QED
  BY <1>1, <1>2, <1>3 DEF TemplatesInv, TemplatesInit, Tells, Live

LEMMA TemplatesInvImplies == TemplatesInv => OverrideFollows /\ ScoresComparable /\ ListedIsReadable
<1> SUFFICES ASSUME TemplatesInv PROVE OverrideFollows /\ ScoresComparable /\ ListedIsReadable
  OBVIOUS
<1>1. \A t \in Live : Tells(t) /\ IsTemplate(template[t]) /\ template[t].at = "live"
  BY DEF TemplatesInv, Live
<1>2. OverrideFollows
  BY <1>1 DEF OverrideFollows, Tells
<1>3. ScoresComparable
  BY <1>1 DEF ScoresComparable, Tells, Comparable
<1>4. ListedIsReadable
  BY <1>1 DEF ListedIsReadable, ListTemplates, GetTemplate, Editable, InScope, IsTemplate
<1> QED
  BY <1>2, <1>3, <1>4

(* An author's own step, which stores nothing. *)
LEMMA OwnWork ==
  ASSUME TemplatesInv, NEW a \in Author, NEW w, Writes(a, w), Do(a, w),
         UNCHANGED <<template, master, told, crossed>>
  PROVE  TemplatesInv'
<1>1. author' = [b \in Author |-> author'[b]] /\ \A b \in Author : author'[b] = IF b = a THEN w ELSE author[b]
  BY DEF Do, TemplatesInv
<1>2. \A b \in Author : Writes(b, author'[b])
  BY <1>1 DEF TemplatesInv
<1>3. \A b \in Author : Writes(b, author[b])'
  BY <1>2 DEF Writes, Comparable, Live, Score
<1>4. \A t \in Template : IsTemplate(template[t])' /\ Tells(t)'
  BY DEF TemplatesInv, IsTemplate, Tells, Comparable, Live, Score
<1> QED
  BY <1>1, <1>3, <1>4 DEF TemplatesInv

LEMMA ScoreIs ==
  ASSUME NEW m \in [css : Css, version : Nat], NEW s
  PROVE  Score(m, s).version = m.version /\ m.version \in Nat
BY DEF Score

LEMMA StartTemplateKeeps ==
  ASSUME TemplatesInv, NEW a \in Author, NEW d \in TDept \cup {NoTDept}, NEW g \in BOOLEAN,
         NEW s, StartCreateTemplate(a, d, g, s)
  PROVE  TemplatesInv'
<1> DEFINE css == IF s = Unsaid THEN NoCss ELSE s
           score == IF d # NoTDept /\ s # Unsaid THEN Score(MasterOf(d), s)
                    ELSE Unscored(MasterOf(d).version)
           new == [at |-> "live", dept |-> d, global |-> g, css |-> css,
                   score |-> score, override |-> OverrideOf(a, css), status |-> "draft"]
           w == [at |-> "create", scored |-> s # Unsaid, new |-> new]
<1>1. Do(a, w) /\ UNCHANGED <<template, master, told, crossed>>
      /\ (g \/ d # NoTDept)
  BY DEF StartCreateTemplate, DepartmentRequired
<1>2. d \in TDept => d # NoTDept /\ MasterOf(d) = master[d] /\ master[d] \in [css : Css, version : Nat]
  BY TemplatesAssumption DEF MasterOf, TemplatesInv
<1>3. score.version \in Nat
  <2>1. MasterOf(d).version \in Nat
    BY <1>2 DEF MasterOf, NoMaster
  <2> QED
    BY <2>1, <1>2, ScoreIs DEF Unscored
<1>4. Comparable(d, score, css, s # Unsaid)
  <2> SUFFICES ASSUME d \in TDept \ crossed
               PROVE  /\ score.version <= master[d].version
                      /\ s # Unsaid /\ score.version = master[d].version =>
                           score = Score(master[d], css)
    BY DEF Comparable
  <2>1. CASE s = Unsaid
    BY <1>2, <1>3, <2>1 DEF Unscored
  <2>2. CASE s # Unsaid
    <3>1. score = Score(master[d], s) /\ css = s
      BY <1>2, <2>2
    <3> QED
      BY <1>2, <3>1, ScoreIs
  <2> QED
    BY <2>1, <2>2
<1> HIDE DEF score, css
<1>5. IsTemplate(new)
  BY <1>1, <1>3 DEF IsTemplate
<1>6. Writes(a, w)
  BY <1>4, <1>5 DEF Writes
<1> HIDE DEF w
<1> QED
  BY <1>1, <1>6, OwnWork

LEMMA StartUpdateKeeps ==
  ASSUME TemplatesInv, NEW a \in Author, NEW t \in Template, NEW s, NEW status,
         StartUpdateTemplate(a, t, s, status)
  PROVE  TemplatesInv'
<1> DEFINE now == template[t]
           st == IF status = now.status THEN Unsaid ELSE status
           w == [at |-> IF s # Unsaid /\ now.dept # NoTDept THEN "score" ELSE "save",
                 of |-> t, status |-> st,
                 copy |-> IF s = Unsaid THEN Unsaid ELSE TextOf(now),
                 new |-> IF s = Unsaid THEN Unsaid ELSE [TextOf(now) EXCEPT !.css = s]]
<1>1. Do(a, w) /\ UNCHANGED <<template, master, told, crossed>> /\ t \in Live
  BY DEF StartUpdateTemplate, Editable
<1>2. IsTemplate(now)
  BY DEF TemplatesInv
<1>3. [TextOf(now) EXCEPT !.css = s] = [css |-> s, score |-> now.score, override |-> now.override]
  BY DEF TextOf
<1>4. IsText([TextOf(now) EXCEPT !.css = s])
  BY <1>2, <1>3 DEF IsText, IsTemplate
<1> HIDE DEF st
<1>5. Writes(a, w)
  BY <1>1, <1>4 DEF Writes
<1> HIDE DEF w
<1> QED
  BY <1>1, <1>5, OwnWork

LEMMA StartStatusKeeps ==
  ASSUME TemplatesInv, NEW a \in Author, NEW t \in Template, NEW status,
         StartStatus(a, t, status)
  PROVE  TemplatesInv'
<1> DEFINE st == IF status = template[t].status THEN Unsaid ELSE status
           w == [at |-> "save", of |-> t, copy |-> Unsaid, new |-> Unsaid, status |-> st]
<1>1. Do(a, w) /\ UNCHANGED <<template, master, told, crossed>> /\ t \in Live
  BY DEF StartStatus, Editable
<1> HIDE DEF st
<1>2. Writes(a, w)
  BY <1>1 DEF Writes
<1> HIDE DEF w
<1> QED
  BY <1>1, <1>2, OwnWork

LEMMA ScoredIs ==
  ASSUME NEW v, IsText(v), NEW a, NEW m
  PROVE  Scored(a, v, m) =
           [css |-> v.css, score |-> Score(m, v.css), override |-> OverrideOf(a, v.css)]
<1> DEFINE score == Score(m, v.css)
           override == OverrideOf(a, v.css)
<1>1. Scored(a, v, m) = [v EXCEPT !.score = score, !.override = override]
  BY DEF Scored
<1> HIDE DEF score, override
<1>2. v = [css |-> v.css, score |-> v.score, override |-> v.override]
  BY DEF IsText
<1>3. [v EXCEPT !.score = score, !.override = override] =
        [css |-> v.css, score |-> score, override |-> override]
  <2> PICK w : w = [v EXCEPT !.score = score, !.override = override]
    OBVIOUS
  <2>1. w = [css |-> v.css, score |-> score, override |-> override]
    BY <1>2
  <2> QED
    BY <2>1
<1> QED
  BY <1>1, <1>3 DEF score, override

LEMMA ToSaveIs ==
  ASSUME NEW u, NEW new,
         u = [at |-> u.at, of |-> u.of, status |-> u.status, copy |-> u.copy, new |-> u.new]
  PROVE  [u EXCEPT !.at = "save", !.new = new] =
           [at |-> "save", of |-> u.of, status |-> u.status, copy |-> u.copy, new |-> new]
<1> PICK w : w = [u EXCEPT !.at = "save", !.new = new]
  OBVIOUS
<1>1. w = [at |-> "save", of |-> u.of, status |-> u.status, copy |-> u.copy, new |-> new]
  OBVIOUS
<1> QED
  BY <1>1

LEMMA ScoreTextKeeps ==
  ASSUME TemplatesInv, NEW a \in Author, ScoreText(a)
  PROVE  TemplatesInv'
<1> PICK u : u = author[a]
  OBVIOUS
<1> DEFINE d == template[u.of].dept
           m == master[d]
           new == Scored(a, u.new, m)
           w == [u EXCEPT !.at = "save", !.new = new]
<1>1. /\ u.at = "score" /\ Do(a, w) /\ UNCHANGED <<template, master, told, crossed>>
      /\ Writes(a, u)
  BY DEF ScoreText, TemplatesInv
<1>2. /\ u = [at |-> u.at, of |-> u.of, status |-> u.status, copy |-> u.copy, new |-> u.new]
      /\ u.of \in Live /\ IsText(u.new) /\ d # NoTDept
  BY <1>1 DEF Writes
<1>3. d \in TDept /\ m \in [css : Css, version : Nat]
  BY <1>2 DEF TemplatesInv, IsTemplate, Live
<1>4. new = [css |-> u.new.css, score |-> Score(m, u.new.css), override |-> OverrideOf(a, u.new.css)]
  <2> HIDE DEF m
  <2> QED
    BY <1>2, ScoredIs
<1>5. w = [at |-> "save", of |-> u.of, status |-> u.status, copy |-> u.copy, new |-> new]
  <2> HIDE DEF new
  <2> QED
    BY <1>2, ToSaveIs
<1>6. IsText(new) /\ new.override = OverrideOf(a, new.css)
  BY <1>3, <1>4, ScoreIs DEF IsText
<1>7. Comparable(d, new.score, new.css, TRUE)
  BY <1>3, <1>4, ScoreIs DEF Comparable
<1> HIDE DEF new, w
<1>8. Writes(a, w)
  BY <1>2, <1>5, <1>6, <1>7 DEF Writes
<1> QED
  BY <1>1, <1>8, OwnWork

LEMMA SaveMasterKeeps ==
  ASSUME TemplatesInv, NEW a \in Author, SaveMaster(a)
  PROVE  TemplatesInv'
<1> DEFINE u == author[a]
           e == u.dept
           now == master[e]
           new == IF u.copy.version = 0 THEN [css |-> u.css, version |-> 1]
                  ELSE MasterSaved(u.copy, now, u.css)
<1>1. /\ u.at = "master" /\ Writes(a, u) /\ master' = [master EXCEPT ![e] = new]
      /\ crossed' = IF u.copy = now THEN crossed ELSE crossed \cup {e}
      /\ Do(a, NoWork) /\ UNCHANGED <<template, told>>
  BY DEF SaveMaster, TemplatesInv
<1>2. e \in TDept /\ u.css \in Css /\ u.copy \in [css : Css, version : Nat]
      /\ now \in [css : Css, version : Nat]
  BY <1>1 DEF Writes, TemplatesInv
<1>3. new \in [css : Css, version : Nat] /\ new.version = u.copy.version + 1
  BY <1>2 DEF MasterSaved
<1> HIDE DEF new
<1>4. master' \in [TDept -> [css : Css, version : Nat]]
  BY <1>1, <1>3 DEF TemplatesInv
<1>5. ASSUME NEW d, NEW score, NEW css, NEW scored, score.version \in Nat,
             Comparable(d, score, css, scored)
      PROVE  Comparable(d, score, css, scored)'
  <2> SUFFICES ASSUME d \in TDept \ crossed'
               PROVE  /\ score.version <= master'[d].version
                      /\ scored /\ score.version = master'[d].version =>
                           score = Score(master'[d], css)
    BY DEF Comparable, Score
  <2>1. d \in TDept \ crossed
    BY <1>1
  <2>2. score.version <= master[d].version
    BY <1>5, <2>1 DEF Comparable
  <2>3. CASE d = e
    <3>1. u.copy = now /\ master'[d] = new
      BY <1>1, <1>2, <2>3 DEF TemplatesInv
    <3>2. score.version < master'[d].version
      BY <1>2, <1>3, <1>5, <2>2, <2>3, <3>1
    <3> QED
      BY <1>3, <1>5, <3>1, <3>2
  <2>4. CASE d # e
    <3>1. master'[d] = master[d]
      BY <1>1, <2>4, <2>1 DEF TemplatesInv
    <3> QED
      BY <1>5, <2>1, <3>1 DEF Comparable
  <2> QED
    BY <2>3, <2>4
<1>6. ASSUME NEW t \in Template PROVE IsTemplate(template[t])' /\ Tells(t)'
  <2>1. IsTemplate(template[t]) /\ Tells(t)
    BY DEF TemplatesInv
  <2>2. IsTemplate(template[t])'
    BY <1>1, <2>1 DEF IsTemplate
  <2>3. template[t].score.version \in Nat
    BY <2>1 DEF IsTemplate
  <2>4. Comparable(template[t].dept, template[t].score, template[t].css, told[t].scored) =>
          Comparable(template[t].dept, template[t].score, template[t].css, told[t].scored)'
    BY <1>1, <1>5, <2>3 DEF Comparable, Score
  <2> QED
    BY <1>1, <2>1, <2>2, <2>4 DEF Tells, Live
<1>7. ASSUME NEW b \in Author PROVE Writes(b, author[b])'
  <2>1. author'[b] = IF b = a THEN NoWork ELSE author[b]
    BY <1>1 DEF Do, TemplatesInv
  <2>2. CASE b = a
    BY <2>1, <2>2 DEF Writes, NoWork
  <2>3. CASE b # a
    <3> PICK w : w = author[b]
      OBVIOUS
    <3>1. Writes(b, w) /\ author'[b] = w /\ Live' = Live /\ template' = template
      BY <1>1, <2>1, <2>3 DEF TemplatesInv, Live
    <3>2. w.at = "create" => Comparable(w.new.dept, w.new.score, w.new.css, w.scored)'
      <4>1. w.at = "create" =>
              Comparable(w.new.dept, w.new.score, w.new.css, w.scored) /\ w.new.score.version \in Nat
        BY <3>1 DEF Writes, IsTemplate
      <4> QED
        BY <4>1, <1>5
    <3>3. ASSUME w.at = "save", w.copy # Unsaid, template[w.of].dept # NoTDept
          PROVE  Comparable(template[w.of].dept, w.new.score, w.new.css, TRUE)'
      <4> PICK d : d = template[w.of].dept
        OBVIOUS
      <4>1. Comparable(d, w.new.score, w.new.css, TRUE) /\ w.new.score.version \in Nat
        BY <3>1, <3>3 DEF Writes, IsText
      <4>2. Comparable(d, w.new.score, w.new.css, TRUE)'
        BY <4>1, <1>5
      <4> QED
        BY <3>1, <4>2 DEF Comparable
    <3>4. Writes(b, w)'
      BY <3>1, <3>2, <3>3 DEF Writes, IsTemplate, IsText
    <3> QED
      BY <3>1, <3>4
  <2> QED
    BY <2>2, <2>3
<1> QED
  BY <1>1, <1>4, <1>6, <1>7 DEF TemplatesInv, Do

LEMMA InsertTemplateKeeps ==
  ASSUME TemplatesInv, NEW a \in Author, NEW t \in Template, InsertTemplate(a, t)
  PROVE  TemplatesInv'
<1> PICK u : u = author[a]
  OBVIOUS
<1> DEFINE mark == [by |-> a, scored |-> u.scored, raced |-> FALSE]
<1>1. /\ u.at = "create" /\ Writes(a, u) /\ template[t].at = "new"
      /\ template' = [template EXCEPT ![t] = u.new]
      /\ told' = [told EXCEPT ![t] = mark]
      /\ Do(a, NoWork) /\ UNCHANGED <<master, crossed>>
  BY DEF InsertTemplate, TemplatesInv
<1>2. /\ IsTemplate(u.new) /\ u.new.at = "live" /\ u.new.override = OverrideOf(a, u.new.css)
      /\ Comparable(u.new.dept, u.new.score, u.new.css, u.scored)
  BY <1>1 DEF Writes
<1>3. /\ template' = [s \in Template |-> template'[s]]
      /\ \A s \in Template : template'[s] = IF s = t THEN u.new ELSE template[s]
  BY <1>1 DEF TemplatesInv
<1>4. /\ told' = [s \in Template |-> told'[s]]
      /\ \A s \in Template : told'[s] = IF s = t THEN mark ELSE told[s]
  BY <1>1 DEF TemplatesInv
<1>5. ASSUME NEW s \in Template PROVE IsTemplate(template[s])' /\ Tells(s)'
  <2>1. CASE s = t
    <3>1. template'[s] = u.new /\ told'[s] = mark
      BY <1>3, <1>4, <2>1
    <3>2. IsTemplate(template[s])'
      BY <1>2, <3>1 DEF IsTemplate
    <3>3. Tells(s)'
      BY <1>1, <1>2, <3>1 DEF Tells, Comparable, Score
    <3> QED
      BY <3>2, <3>3
  <2>2. CASE s # t
    <3>1. template'[s] = template[s] /\ told'[s] = told[s] /\ IsTemplate(template[s]) /\ Tells(s)
      BY <1>3, <1>4, <2>2 DEF TemplatesInv
    <3> QED
      BY <1>1, <3>1 DEF Tells, Live, Comparable, Score, IsTemplate
  <2> QED
    BY <2>1, <2>2
<1>6. ASSUME NEW b \in Author PROVE Writes(b, author[b])'
  <2>1. author'[b] = IF b = a THEN NoWork ELSE author[b]
    BY <1>1 DEF Do, TemplatesInv
  <2>2. CASE b = a
    BY <2>1, <2>2 DEF Writes, NoWork
  <2>3. CASE b # a
    <3> PICK w : w = author[b]
      OBVIOUS
    <3>1. Writes(b, w) /\ author'[b] = w
      BY <2>1, <2>3 DEF TemplatesInv
    <3>2. ASSUME w.at \in {"score", "save"}
          PROVE  w.of \in Live' /\ template'[w.of] = template[w.of]
      <4>1. w.of \in Live /\ w.of # t
        BY <1>1, <3>1, <3>2 DEF Writes, Live
      <4> QED
        BY <1>3, <4>1 DEF Live
    <3>3. Writes(b, w)'
      BY <1>1, <3>1, <3>2 DEF Writes, Comparable, Score, IsTemplate, IsText
    <3> QED
      BY <3>1, <3>3
  <2> QED
    BY <2>2, <2>3
<1> QED
  BY <1>1, <1>3, <1>4, <1>5, <1>6 DEF TemplatesInv, Do

(* What a save makes of a text: the new one, where nothing was stored over *)
(* the copy.                                                               *)
LEMMA TextSavedIs ==
  ASSUME NEW now, IsTemplate(now), NEW copy, NEW new, IsText(new), NEW status
  PROVE  LET to == StatusSaved(TextSaved(now, copy, new), status) IN
         /\ IsTemplate(to) /\ to.at = now.at /\ to.dept = now.dept /\ to.global = now.global
         /\ TextOf(now) = copy => to.css = new.css /\ to.score = new.score /\ to.override = new.override
<1> DEFINE css == IF new.css = copy.css THEN now.css ELSE new.css
           score == IF new.score = copy.score /\ new.score.diffs = {} THEN now.score ELSE new.score
           override == IF new.override = copy.override THEN now.override ELSE new.override
           st == IF status = Unsaid THEN now.status ELSE status
           to == StatusSaved(TextSaved(now, copy, new), status)
<1>1. now = [at |-> now.at, dept |-> now.dept, global |-> now.global, css |-> now.css,
             score |-> now.score, override |-> now.override, status |-> now.status]
  BY DEF IsTemplate
<1>2. score.version \in Nat
  BY DEF IsTemplate, IsText
<1>3. TextOf(now) = copy => css = new.css /\ score = new.score /\ override = new.override
  BY DEF TextOf
<1>4. TextSaved(now, copy, new) = [at |-> now.at, dept |-> now.dept, global |-> now.global,
             css |-> css, score |-> score, override |-> override, status |-> now.status]
  <2>1. TextSaved(now, copy, new) = [now EXCEPT !.css = css, !.score = score, !.override = override]
    BY DEF TextSaved
  <2> HIDE DEF css, score, override
  <2> QED
    BY <1>1, <2>1
<1>5. to = [at |-> now.at, dept |-> now.dept, global |-> now.global,
            css |-> css, score |-> score, override |-> override, status |-> st]
  <2> HIDE DEF css, score, override
  <2> QED
    BY <1>4 DEF StatusSaved
<1> HIDE DEF css, score, override, to, st
<1>6. IsTemplate(to)
  BY <1>2, <1>5 DEF IsTemplate
<1>7. /\ to.at = now.at /\ to.dept = now.dept /\ to.global = now.global
      /\ to.css = css /\ to.score = score /\ to.override = override
  BY <1>5
<1> QED
  BY <1>3, <1>6, <1>7 DEF to

LEMMA StatusSavedIs ==
  ASSUME NEW now, IsTemplate(now), NEW status
  PROVE  LET to == StatusSaved(now, status) IN
         /\ IsTemplate(to) /\ to.at = now.at /\ to.dept = now.dept
         /\ to.css = now.css /\ to.score = now.score /\ to.override = now.override
<1> DEFINE st == IF status = Unsaid THEN now.status ELSE status
           to == StatusSaved(now, status)
<1>1. now = [at |-> now.at, dept |-> now.dept, global |-> now.global, css |-> now.css,
             score |-> now.score, override |-> now.override, status |-> now.status]
  BY DEF IsTemplate
<1>2. to = [at |-> now.at, dept |-> now.dept, global |-> now.global, css |-> now.css,
            score |-> now.score, override |-> now.override, status |-> st]
  BY <1>1 DEF StatusSaved
<1> HIDE DEF to, st
<1>3. IsTemplate(to)
  BY <1>2 DEF IsTemplate
<1> QED
  BY <1>2, <1>3 DEF to

LEMMA SaveTemplateKeeps ==
  ASSUME TemplatesInv, NEW a \in Author, SaveTemplate(a)
  PROVE  TemplatesInv'
<1> PICK u : u = author[a]
  OBVIOUS
<1> DEFINE t == u.of
           texted == u.copy # Unsaid
           now == template[t]
           to == StatusSaved(IF texted THEN TextSaved(now, u.copy, u.new) ELSE now, u.status)
           mark == IF texted THEN [by |-> a, scored |-> TRUE, raced |-> TextOf(now) # u.copy]
                   ELSE told[t]
<1>1. /\ u.at = "save" /\ Writes(a, u)
      /\ template' = [template EXCEPT ![t] = to]
      /\ told' = IF ~texted THEN told ELSE [told EXCEPT ![t] = mark]
      /\ Do(a, NoWork) /\ UNCHANGED <<master, crossed>>
  BY DEF SaveTemplate, TemplatesInv
<1>2. t \in Template /\ t \in Live /\ IsTemplate(now) /\ Tells(t) /\ now.at = "live"
  BY <1>1 DEF Writes, TemplatesInv, Live
<1>3. texted => /\ IsText(u.new)
                /\ now.dept # NoTDept =>
                     /\ u.new.override = OverrideOf(a, u.new.css)
                     /\ Comparable(now.dept, u.new.score, u.new.css, TRUE)
  BY <1>1 DEF Writes
<1>4. /\ IsTemplate(to) /\ to.at = now.at /\ to.dept = now.dept
      /\ texted /\ TextOf(now) = u.copy =>
           to.css = u.new.css /\ to.score = u.new.score /\ to.override = u.new.override
      /\ ~texted => to.css = now.css /\ to.score = now.score /\ to.override = now.override
  <2>1. CASE texted
    <3> PICK x, copy, n, status : x = now /\ copy = u.copy /\ n = u.new /\ status = u.status
      OBVIOUS
    <3>1. to = StatusSaved(TextSaved(x, copy, n), status) /\ IsTemplate(x) /\ IsText(n)
      BY <1>2, <1>3, <2>1
    <3> HIDE DEF to
    <3> QED
      BY <2>1, <3>1, TextSavedIs
  <2>2. CASE ~texted
    BY <1>2, <2>2, StatusSavedIs
  <2> QED
    BY <2>1, <2>2
<1> HIDE DEF to
<1>5. /\ template' = [s \in Template |-> template'[s]]
      /\ \A s \in Template : template'[s] = IF s = t THEN to ELSE template[s]
  BY <1>1 DEF TemplatesInv
<1>6. /\ told' = [s \in Template |-> told'[s]]
      /\ \A s \in Template : told'[s] = IF s = t THEN mark ELSE told[s]
  <2>1. CASE texted
    <3> HIDE DEF mark
    <3> QED
      BY <1>1, <2>1 DEF TemplatesInv
  <2>2. CASE ~texted
    BY <1>1, <2>2 DEF TemplatesInv
  <2> QED
    BY <2>1, <2>2
<1>7. Live' = Live
  BY <1>2, <1>4, <1>5 DEF Live
<1>8. \A s \in Template : template'[s].dept = template[s].dept
  BY <1>4, <1>5
<1>9. Tells(t)'
  <2> SUFFICES ASSUME ~mark.raced
               PROVE  /\ to.dept # NoTDept => to.override = OverrideOf(mark.by, to.css)
                      /\ Comparable(to.dept, to.score, to.css, mark.scored)
    <3>1. template'[t] = to /\ told'[t] = mark
      BY <1>2, <1>5, <1>6
    <3> HIDE DEF mark
    <3> QED
      BY <1>1, <3>1 DEF Tells, Comparable, Score
  <2>1. CASE texted
    <3>1. mark.by = a /\ mark.scored = TRUE /\ TextOf(now) = u.copy
      BY <2>1
    <3>2. to.css = u.new.css /\ to.score = u.new.score /\ to.override = u.new.override
      BY <1>4, <2>1, <3>1
    <3>3. CASE now.dept # NoTDept
      BY <1>3, <1>4, <2>1, <3>1, <3>2, <3>3
    <3>4. CASE now.dept = NoTDept
      BY <1>4, <3>4, TemplatesAssumption DEF Comparable
    <3> QED
      BY <3>3, <3>4
  <2>2. CASE ~texted
    BY <1>2, <1>4, <2>2 DEF Tells
  <2> QED
    BY <2>1, <2>2
<1>10. ASSUME NEW s \in Template PROVE IsTemplate(template[s])' /\ Tells(s)'
  <2>1. CASE s = t
    <3>1. IsTemplate(template[s])'
      BY <1>4, <1>5, <2>1 DEF IsTemplate
    <3> QED
      BY <1>9, <2>1, <3>1
  <2>2. CASE s # t
    <3>1. template'[s] = template[s] /\ told'[s] = told[s] /\ IsTemplate(template[s]) /\ Tells(s)
      BY <1>5, <1>6, <2>2 DEF TemplatesInv
    <3> QED
      BY <1>1, <1>7, <3>1 DEF Tells, Comparable, Score, IsTemplate
  <2> QED
    BY <2>1, <2>2
<1>11. ASSUME NEW b \in Author PROVE Writes(b, author[b])'
  <2>1. author'[b] = IF b = a THEN NoWork ELSE author[b]
    BY <1>1 DEF Do, TemplatesInv
  <2>2. CASE b = a
    BY <2>1, <2>2 DEF Writes, NoWork
  <2>3. CASE b # a
    <3> PICK w : w = author[b]
      OBVIOUS
    <3>1. Writes(b, w) /\ author'[b] = w
      BY <2>1, <2>3 DEF TemplatesInv
    <3>2. w.at \in {"score", "save"} => w.of \in Live /\ template'[w.of].dept = template[w.of].dept
      BY <1>8, <3>1 DEF Writes, Live
    <3>3. Writes(b, w)'
      BY <1>1, <1>7, <3>1, <3>2 DEF Writes, Comparable, Score, IsTemplate, IsText
    <3> QED
      BY <3>1, <3>3
  <2> QED
    BY <2>2, <2>3
<1> QED
  BY <1>1, <1>5, <1>6, <1>10, <1>11 DEF TemplatesInv, Do

LEMMA TemplatesNextKeeps == TemplatesInv /\ [TemplatesNext]_templating => TemplatesInv'
<1> SUFFICES ASSUME TemplatesInv, [TemplatesNext]_templating PROVE TemplatesInv'
  OBVIOUS
<1>1. CASE UNCHANGED templating
  <2>1. ASSUME NEW t \in Template PROVE IsTemplate(template[t])' /\ Tells(t)'
    <3>1. IsTemplate(template[t]) /\ Tells(t)
      BY DEF TemplatesInv
    <3> QED
      BY <1>1, <3>1 DEF templating, IsTemplate, Tells, Comparable, Score, Live
  <2>2. ASSUME NEW a \in Author PROVE Writes(a, author[a])'
    <3> PICK w : w = author[a]
      OBVIOUS
    <3>1. Writes(a, w) /\ author'[a] = w
      BY <1>1 DEF templating, TemplatesInv
    <3>2. Writes(a, w)'
      BY <1>1, <3>1 DEF templating, Writes, IsTemplate, IsText, Comparable, Score, Live
    <3> QED
      BY <3>1, <3>2
  <2> QED
    BY <1>1, <2>1, <2>2 DEF templating, TemplatesInv
<1>2. ASSUME NEW a \in Author, AbandonTemplate(a) PROVE TemplatesInv'
  <2>1. Writes(a, NoWork)
    BY DEF Writes, NoWork
  <2> QED
    BY <1>2, <2>1, OwnWork DEF AbandonTemplate
<1>3. ASSUME NEW a \in Author, NEW d \in TDept, NEW s \in Css, StartMaster(a, d, s)
      PROVE  TemplatesInv'
  <2> DEFINE w == [at |-> "master", dept |-> d, css |-> s, copy |-> master[d]]
  <2>1. Writes(a, w)
    BY DEF Writes, TemplatesInv
  <2> HIDE DEF w
  <2> QED
    BY <1>3, <2>1, OwnWork DEF StartMaster, w
<1>4. ASSUME NEW a \in Author, NEW t \in Template, PublishTemplate(a, t) \/ ArchiveTemplate(a, t)
      PROVE  TemplatesInv'
  BY <1>4, StartStatusKeeps DEF PublishTemplate, ArchiveTemplate
<1> QED
  BY <1>1, <1>2, <1>3, <1>4, SaveMasterKeeps, ScoreTextKeeps, SaveTemplateKeeps,
     InsertTemplateKeeps, StartUpdateKeeps, StartTemplateKeeps DEF TemplatesNext

(* Whatever updates of templates and of master stylesheets overlap, fail or *)
(* are cut off: where none overlapped on a template, its override status    *)
(* tells who wrote its text, and a score of the present version is the      *)
(* score of the present texts; and templates are listed to who can open     *)
(* them (templatesCtrl.ts:199-475).                                        *)
THEOREM TemplatesTellCorrect == TemplatesSpec => []TemplatesTell
<1>1. TemplatesInv => TemplatesTell
  BY TemplatesInvImplies DEF TemplatesTell
<1> QED
  BY <1>1, TemplatesInvInit, TemplatesNextKeeps, PTL DEF TemplatesSpec

===============================================================================
