------------------------------ MODULE MCStructure ------------------------------
(* Courses and levels, departments, and staff memberships on small          *)
(* instances.  Each behaviour runs one of the three, chosen at the start,   *)
(* while the variables of the other two stay: they share no state.          *)
EXTENDS CourseCatalog, Departments, StaffRoles, TLC

VARIABLE part   \* which of the three runs

CatalogPart == CatalogNext /\ UNCHANGED <<departments, membership>>
DepartmentsPart == DepartmentsNext /\ UNCHANGED <<catalog, membership>>
StaffPart == StaffNext /\ UNCHANGED <<catalog, departments>>

Init ==
  /\ part \in {"catalog", "departments", "staff"}
  /\ CatalogInit
  /\ DepartmentsInit
  /\ StaffInit
  /\ part # "staff" => settled /\ staff.memberships = None

Next ==
  /\ UNCHANGED part
  /\ \/ part = "catalog" /\ CatalogPart
     \/ part = "departments" /\ DepartmentsPart
     \/ part = "staff" /\ StaffPart

Spec == Init /\ [][Next]_<<part, catalog, departments, membership>>

(* Every variable has its type. *)
TypeOK == CatalogTypeOK /\ DepartmentsTypeOK /\ StaffTypeOK

Symmetry == Permutations(Level) \cup Permutations(Author) \cup Permutations(Manager)
              \cup Permutations(Registrar)

===============================================================================
