------------------------------- MODULE MCLibrary -------------------------------
(* Templates, the content of departments, the lists of it, and what is      *)
(* shown of departments, on small instances.  Each behaviour runs one of    *)
(* them, chosen at the start, while the variables of the others stay.       *)
EXTENDS Templates, DepartmentViews, ContentLists, TLC

CONSTANTS c1, d1, a1, n1

VARIABLE part   \* which of them runs

(* A stylesheet with a declaration; an author with one department. *)
MCRulesOf == [s \in Css |-> [x \in Declaration |-> IF s = c1 THEN "red" ELSE Absent]]
MCScopeOf == [a \in Author |-> IF a = a1 THEN {d1} ELSE {}]

(* Nobody may touch everything, where StaysLinked is looked at.             *)
Init ==
  /\ part \in {"templates", "views", "content", "departments", "customs"}
  /\ TemplatesInit
  /\ ViewsInit
  /\ ListsInit
  /\ part # "content" => reach = [o \in Officer |-> {}]
  /\ whole = IF part = "content" THEN {} ELSE Officer
  /\ part # "content" =>
       /\ program = [p \in Program |-> Nowhere] /\ parcel = [k \in Parcel |-> Nowhere]

(* A list is of one department or of all, the other department being its   *)
(* mirror image; beside it at most one request that moves content is in    *)
(* flight: exams and their courses beside the list of a department,        *)
(* packages and custom content beside the other.                           *)
BesideList ==
  /\ \A o, n \in Officer : officer'[o].at # "idle" /\ officer'[n].at # "idle" => o = n
  /\ lister'.within \in {{}, {n1}}
  /\ IF part = "departments"
     THEN parcel' = parcel /\ custom' = custom /\ "custom" \notin lister'.left
     ELSE program' = program /\ "courses" \notin lister'.left

(* An archived template is like a published one; one is created at a time.  *)
TextsTold ==
  /\ \A t \in Template : template'[t].status # "archived"
  /\ \A a, b \in Author : a # b /\ author'[a].at = "create" => author'[b].at # "create"

Next ==
  /\ UNCHANGED part
  /\ \/ /\ part = "templates" /\ TemplatesNext /\ UNCHANGED <<views, placing, listing>>
        /\ TextsTold
     \/ part = "views" /\ ViewsNext /\ UNCHANGED <<templating, placing, listing>>
     \/ part = "content" /\ ContentNext /\ UNCHANGED <<templating, views, listing>>
     \/ part \in {"departments", "customs"} /\ ListsNext /\ BesideList /\ UNCHANGED <<templating, views>>

Spec == Init /\ [][Next]_<<part, templating, views, placing, listing>>

Symmetry == Permutations(Officer) \cup Permutations(Program) \cup Permutations(Registrar)

===============================================================================
