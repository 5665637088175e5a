------------------------------ MODULE MCAccounts -------------------------------
(* Accounts, and the migrations of enrollments, content and roles, on small *)
(* instances.  Each behaviour runs one of them, chosen at the start, while  *)
(* the variables of the others stay: they share no state, and neither do    *)
(* the three scripts of ContentMigration.                                   *)
EXTENDS Accounts, EnrollmentMigration, ContentMigration, RoleMigration, TLC

CONSTANTS
  o1, s1, e1, e2,                           \* of EnrollmentMigration
  b1, b2, x1, x2, k1, c1, a1, l1, l2        \* of ContentMigration

VARIABLE part   \* which of them runs

(* Of two class enrollments of a learner, one has a level without courses. *)
MCOwnerOf == s1 :> o1
MCEntryOwner == e1 :> o1 @@ e2 :> o1
MCEntrySeats == e1 :> {s1} @@ e2 :> {}

(* Two exams of one subject and a package go to the same course; a subject *)
(* of a class without a level goes nowhere.  Two old levels have a name in *)
(* common.                                                                 *)
MCCourseOf == b1 :> c1 @@ b2 :> Unmapped
MCSubjectOf == x1 :> b1 @@ x2 :> b1
MCPlaceOf == k1 :> c1
MCLevelOf == l1 :> [program |-> 1, name |-> 1, order |-> 1]
               @@ l2 :> [program |-> 1, name |-> 1, order |-> 2]

Scripts == {"subjects", "attempts", "levels"}

Init ==
  /\ part \in {"accounts", "enrollments", "roles"} \cup Scripts
  /\ AccountsInit
  /\ MigrationInit
  /\ MovesInit
  /\ IF part = "roles" THEN RolesInit ELSE NobodyThere

(* The server ends one current enrollment, among what the scripts move.     *)
Next ==
  /\ UNCHANGED part
  /\ \/ part = "accounts" /\ AccountsNext /\ UNCHANGED <<migration, moving, rolesVars>>
     \/ /\ part = "enrollments" /\ MigrationNext /\ UNCHANGED <<accounts, moving, rolesVars>>
        /\ \A s \in Seat : activity'[s].live <= 1
     \/ /\ part \in Scripts /\ MovesNext /\ UNCHANGED <<accounts, migration, rolesVars>>
        /\ job'.script \in {"none", part}
        /\ part # "attempts" => UNCHANGED synced
     \/ part = "roles" /\ RolesNext /\ UNCHANGED <<accounts, migration, moving>>

Spec == Init /\ [][Next]_<<part, accounts, migration, moving, rolesVars>>

Symmetry == Permutations(Id) \cup Permutations(Email) \cup Permutations(Visit)
              \cup Permutations(Token) \cup Permutations(Password)

===============================================================================
