------------------------------- MODULE StaffRoles ------------------------------
(***************************************************************************)
(* The memberships of one staff member, which name the departments and the *)
(* roles in each, and the copy of the roles on the User, staffRoles:       *)
(* updateStaffRoles and updateStaffDepartment of departmentResourcesCtrl,  *)
(* adminRegisterStaff, adminUpdateStaff and staffUpdateProfile of          *)
(* staffCtrl.                                                              *)
(*                                                                         *)
(* A request loads the Staff document, saves the whole array it has made   *)
(* of its memberships, and then writes the union of their roles to the     *)
(* User.  The order of the memberships, which says which one is meant when *)
(* a request names none, is left out: a request may mean any.              *)
(***************************************************************************)
EXTENDS Naturals

CONSTANTS
  Unit,          \* departments
  Role,          \* the roles that StaffRole documents name
  Manager,       \* the requests in flight at once
  MaxRevision    \* bound: the saves of the document

ASSUME StaffAssumption == MaxRevision \in Nat

VARIABLES
  staff,        \* the Staff document: its memberships and __v
  staffRoles,   \* the field of the User
  manager,      \* manager[m]: where request m is and what it holds
  settled       \* the last request that wrote ran alone (no variable of the
                \* code)

membership == <<staff, staffRoles, manager, settled>>

-------------------------------------------------------------------------------

(* Each department once, with its roles there. *)
Memberships == UNION {[D -> SUBSET Role] : D \in SUBSET Unit}
StaffDoc == [memberships : Memberships, version : Nat]

(* `targets` are the departments the request is to change; `alone`: nobody *)
(* has written since it loaded the document, or is about to; `overtaken`:  *)
(* a profile update has written since (no variables of the code).          *)
Order ==
  [at : {"idle", "save", "roles"}, memberships : Memberships, version : Nat,
   targets : SUBSET Unit, alone : BOOLEAN, overtaken : BOOLEAN]

None == [d \in {} |-> {}]
NoOrder ==
  [at |-> "idle", memberships |-> None, version |-> 0, targets |-> {},
   alone |-> FALSE, overtaken |-> FALSE]

UnionRoles(ms) == UNION {ms[d] : d \in DOMAIN ms}

(* A staff member who has just been registered: adminRegisterStaff writes  *)
(* staffRoles after the memberships, and may be cut off in between.        *)
StaffInit ==
  /\ \E ms \in Memberships :
       /\ staff = [memberships |-> ms, version |-> 0]
       /\ staffRoles \in {{}, UnionRoles(ms)}
       /\ settled = (staffRoles = UnionRoles(ms))
  /\ manager = [m \in Manager |-> NoOrder]

Idle(m) == manager[m].at = "idle"

(* Every other request that is under way is alone no more. *)
Crowded(m, order) ==
  manager' = [k \in Manager |->
    IF k = m THEN order ELSE [manager[k] EXCEPT !.alone = FALSE]]

OrderOf(m, at, ms, targets) ==
  [at |-> at, memberships |-> ms, version |-> staff.version, targets |-> targets,
   alone |-> \A k \in Manager : Idle(k), overtaken |-> FALSE]

Begin(m, at, ms, targets) ==
  /\ Idle(m)
  /\ staff.version < MaxRevision
  /\ Crowded(m, OrderOf(m, at, ms, targets))
  /\ UNCHANGED <<staff, staffRoles, settled>>

With(ms, d, roles) ==
  [e \in DOMAIN ms \cup {d} |-> IF e = d THEN roles ELSE ms[e]]

Without(ms, d) == [e \in DOMAIN ms \ {d} |-> ms[e]]

-------------------------------------------------------------------------------

(* The roles given are those of one department, a member already or not.   *)
UpdateStaffRoles(m, d, roles) ==
  Begin(m, "save", With(staff.memberships, d, roles), {d})

(* updateStaffDepartment adds a department without roles, brings one to    *)
(* the front, or removes one; with no department given, or none to remove, *)
(* nothing is saved.                                                       *)
AddStaffDepartment(m, d) ==
  Begin(m, "save",
    IF d \in DOMAIN staff.memberships
    THEN staff.memberships
    ELSE With(staff.memberships, d, {}),
    {d})

RemoveStaffDepartment(m, d) ==
  /\ d \in DOMAIN staff.memberships
  /\ Begin(m, "save", Without(staff.memberships, d), {d})

UpdateNoDepartment(m) == Begin(m, "roles", staff.memberships, {})

(* The memberships of the request replace all there were. *)
AdminUpdateStaff(m, ms) ==
  /\ ms # None
  /\ Begin(m, "save", ms, Unit)

(* findByIdAndUpdate sets the array and leaves __v and staffRoles alone.   *)
StaffUpdateProfile(ms) ==
  /\ ms # None
  /\ staff' = [memberships |-> ms, version |-> staff.version]
  /\ manager' = [k \in Manager |->
       IF Idle(k) THEN manager[k]
       ELSE [manager[k] EXCEPT !.alone = FALSE, !.overtaken = TRUE]]
  /\ settled' = FALSE
  /\ UNCHANGED staffRoles

(* Mutant: a save that does not compare __v. *)
FoundById(m) == TRUE

(* A save that assigns an array matches by _id and __v, and throws when    *)
(* nothing matches.                                                        *)
FoundUnchanged(m) == staff.version = manager[m].version

SaveStaff(m) ==
  /\ manager[m].at = "save"
  /\ FoundUnchanged(m)
  /\ staff' = [memberships |-> manager[m].memberships, version |-> staff.version + 1]
  /\ manager' = [manager EXCEPT ![m].at = "roles"]
  /\ settled' = FALSE
  /\ UNCHANGED staffRoles

(* Mutant: the User gets the roles that are new. *)
RolesAdded(m) == staffRoles \cup UnionRoles(manager[m].memberships)

RolesOf(m) == UnionRoles(manager[m].memberships)

(* The union is that of the request's copy. *)
WriteRoles(m) ==
  /\ manager[m].at = "roles"
  /\ staffRoles' = RolesOf(m)
  /\ settled' = manager[m].alone
  /\ manager' = [manager EXCEPT ![m] = NoOrder]
  /\ UNCHANGED staff

(* VersionError, an operation that fails, or a restart. *)
DropOrder(m) ==
  /\ ~Idle(m)
  /\ manager' = [manager EXCEPT ![m] = NoOrder]
  /\ UNCHANGED <<staff, staffRoles, settled>>

(* Refused: not found, out of scope, an unknown role, withdrawn. *)
NothingOrdered == UNCHANGED membership

StaffNext ==
  \/ NothingOrdered
  \/ \E ms \in Memberships : StaffUpdateProfile(ms)
  \/ \E m \in Manager :
       \/ \E d \in Unit :
            \/ \E roles \in SUBSET Role : UpdateStaffRoles(m, d, roles)
            \/ AddStaffDepartment(m, d) \/ RemoveStaffDepartment(m, d)
       \/ \E ms \in Memberships : AdminUpdateStaff(m, ms)
       \/ UpdateNoDepartment(m) \/ SaveStaff(m) \/ WriteRoles(m) \/ DropOrder(m)

StaffSpec == StaffInit /\ [][StaffNext]_membership

-------------------------------------------------------------------------------

(* Every variable has its type. *)
StaffTypeOK ==
  /\ staff \in StaffDoc
  /\ staffRoles \subseteq Role
  /\ manager \in [Manager -> Order]
  /\ settled \in BOOLEAN

(* Once a request has run alone, the roles on the User are the union of    *)
(* the memberships' roles, whatever failed, overlapped or was cut off      *)
(* before (departmentResourcesCtrl.ts:564-573, 645-650; staffCtrl.ts).     *)
RolesFollow == settled => staffRoles = UnionRoles(staff.memberships)

(* A save changes only the departments its request is about, however many  *)
(* other requests have saved since it loaded the document; a profile       *)
(* update alone is overwritten (departmentResourcesCtrl.ts:555-569).       *)
SameOutside(ms, ns, D) ==
  \A d \in Unit \ D :
    /\ d \in DOMAIN ms <=> d \in DOMAIN ns
    /\ d \in DOMAIN ms => ms[d] = ns[d]

MembershipsKept ==
  [][\A m \in Manager :
       manager[m].at = "save" /\ manager'[m].at = "roles" /\ ~manager[m].overtaken =>
         SameOutside(staff.memberships, staff'.memberships, manager[m].targets)]_membership

===============================================================================
