------------------------------ MODULE RoleMigration ------------------------------
(***************************************************************************)
(* The migration of users from `role` and `subroles` to `roles`,           *)
(* `primaryRole` and `staffRoles` (migrate-user-role-to-roles.ts).  It     *)
(* reads all users at once and updates them one by one from what it read,  *)
(* beside a server that registers users and writes staffRoles; it may be   *)
(* killed anywhere, is run again, and can be asked whether it is through.  *)
(***************************************************************************)
EXTENDS Integers, FiniteSets

CONSTANTS
  Person,        \* the users
  Role,          \* their roles, "learner" among them
  Duty,          \* values of staffRoles and of the older subroles
  Nobody         \* a field that is not there

ASSUME RolesAssumption == "learner" \in Role /\ Nobody \notin Role \cup Duty

VARIABLES
  person,        \* person[u]: what the document of u holds
  seen,          \* the users as the script read them; Nobody when it is off
  due,           \* the users it has still to update
  finished,      \* a run came to its end
  granted        \* granted[u]: the roles u was ever given (no variable of the code)

rolesVars == <<person, seen, due, finished, granted>>

(* Users of the old schema have a role, those of the new one roles and,    *)
(* when they were saved by the present code, a primary role among them.    *)
Persons ==
  [there : BOOLEAN, role : Role \cup {Nobody}, roles : SUBSET Role,
   primary : Role \cup {Nobody}, subroles : Duty \cup {Nobody}, staffRoles : Duty \cup {Nobody}]
Old(r, d) == [there |-> TRUE, role |-> r, roles |-> {}, primary |-> Nobody,
              subroles |-> d, staffRoles |-> Nobody]
New(r, p) == [there |-> TRUE, role |-> Nobody, roles |-> {r}, primary |-> p,
              subroles |-> Nobody, staffRoles |-> Nobody]
Unregistered == [Old(Nobody, Nobody) EXCEPT !.there = FALSE]
Both(r, d) == [Old(r, d) EXCEPT !.roles = {r}]

(* `seen` tells no run from the users a run has read. *)
ASSUME SeenAssumption == Nobody \notin [Person -> Persons]

RolesOfUser(p) == p.roles \cup ({p.role} \ {Nobody})

NobodyThere ==
  /\ person = [u \in Person |-> Unregistered]
  /\ seen = Nobody /\ due = {} /\ finished = FALSE
  /\ granted = [u \in Person |-> {}]

RolesInit ==
  /\ person \in [Person ->
       {Unregistered} \cup {Old(r, d) : r \in Role \cup {Nobody}, d \in Duty \cup {Nobody}}
         \cup {New(r, p) : r \in Role, p \in Role \cup {Nobody}}
         \cup {Both(r, Nobody) : r \in Role}]
  /\ \A u \in Person : person[u].primary \in person[u].roles \cup {Nobody}
  /\ seen = Nobody /\ due = {} /\ finished = FALSE
  /\ granted = [u \in Person |-> RolesOfUser(person[u])]

-------------------------------------------------------------------------------

StartRoles ==
  /\ seen = Nobody
  /\ seen' = person
  /\ due' = {u \in Person : person[u].there}
  /\ finished' = FALSE
  /\ UNCHANGED <<person, granted>>

(* Mutant: a user without roles gets the default, whatever the role was.   *)
RolesSetByDefault(old) == IF old.roles # {} THEN old.roles ELSE {"learner"}

RolesSet(old) ==
  IF old.roles # {} THEN old.roles
  ELSE IF old.role # Nobody THEN {old.role} ELSE {"learner"}

(* What is written over the document as it is now, from what was read: the *)
(* old role goes only where it becomes the roles.                          *)
MigratedUser(now, old) ==
  LET given == RolesSet(old)
      renames == old.subroles # Nobody /\ old.staffRoles = Nobody IN
  [now EXCEPT
     !.roles = IF old.roles = {} THEN given ELSE @,
     !.primary = IF old.roles = {} \/ old.primary = Nobody THEN CHOOSE r \in given : TRUE ELSE @,
     !.role = IF old.roles = {} THEN Nobody ELSE @,
     !.staffRoles = IF renames THEN old.subroles ELSE @,
     !.subroles = IF renames THEN Nobody ELSE @]

MigrateUser(u) ==
  /\ u \in due
  /\ person' = [person EXCEPT ![u] = MigratedUser(@, seen[u])]
  /\ due' = due \ {u}
  /\ UNCHANGED <<seen, finished, granted>>

(* An update that fails is counted and passed over. *)
MigrateUserFails(u) ==
  /\ u \in due
  /\ due' = due \ {u}
  /\ seen' = [seen EXCEPT ![u] = Unregistered]
  /\ UNCHANGED <<person, finished, granted>>

EndRoles ==
  /\ seen # Nobody /\ due = {}
  /\ finished' = (\A u \in Person : person[u].there => seen[u].there)
  /\ seen' = Nobody
  /\ UNCHANGED <<person, due, granted>>

RolesKilled ==
  /\ seen # Nobody
  /\ seen' = Nobody /\ due' = {}
  /\ UNCHANGED <<person, finished, granted>>

(* verifyMigration. *)
ValidUsers == {u \in Person : person[u].roles # {}}
LegacyUsers == {u \in Person : person[u].role # Nobody}
SubroleUsers == {u \in Person : person[u].subroles # Nobody}
InvalidUsers == Cardinality(LegacyUsers) + Cardinality(SubroleUsers)

-------------------------------------------------------------------------------
(* The live server: registerAdminCtrl, adminRegisterStaff and              *)
(* adminRegisterLearner; updateStaffRoles.                                 *)

Register(u, r) ==
  /\ ~person[u].there
  /\ person' = [person EXCEPT ![u] = New(r, r)]
  /\ granted' = [granted EXCEPT ![u] = {r}]
  /\ UNCHANGED <<seen, due, finished>>
WriteStaffRoles(u, d) ==
  /\ person[u].there
  /\ person' = [person EXCEPT ![u].staffRoles = d]
  /\ UNCHANGED <<seen, due, finished, granted>>

RolesNext ==
  \/ StartRoles \/ EndRoles \/ RolesKilled
  \/ \E u \in Person :
       \/ MigrateUser(u) \/ MigrateUserFails(u)
       \/ \E r \in Role : Register(u, r)
       \/ \E d \in Duty : WriteStaffRoles(u, d)

RolesSpec == RolesInit /\ [][RolesNext]_rolesVars

-------------------------------------------------------------------------------

(* Wherever the migration is killed, and however often it is run again     *)
(* beside the server, nobody loses a role: every role a user was given is  *)
(* in `role` or in `roles`; who got roles has a primary role among them as *)
(* soon as a run has ended without errors; and then the verification finds *)
(* as invalid only users who had both fields, or subroles beside           *)
(* staffRoles, from the start (migrate-user-role-to-roles.ts:74-105).      *)
RolesCarried ==
  /\ \A u \in Person : granted[u] \subseteq RolesOfUser(person[u])
  /\ finished =>
       /\ ValidUsers = {u \in Person : person[u].there}
       /\ \A u \in ValidUsers : person[u].primary \in person[u].roles
       /\ \A u \in LegacyUsers : granted[u] = person[u].roles
       /\ \A u \in SubroleUsers : person[u].staffRoles # Nobody

===============================================================================
