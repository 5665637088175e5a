---------------------------- MODULE DepartmentViews ----------------------------
(***************************************************************************)
(* What the department requests show of the tree that Departments models:  *)
(* the hierarchy (departmentCtrl.ts, departmentResourcesCtrl.ts), and the  *)
(* passing style score of each department, its own or inherited.  Four     *)
(* functions work that score out, from four different sets of departments  *)
(* they have fetched (templatesCtrl.ts has the fourth).                    *)
(***************************************************************************)
EXTENDS Departments, Integers

CONSTANTS
  Master,      \* the master department, nobody's parent
  PassScore,   \* passing style scores
  NoPass       \* null: the department has none of its own

ASSUME ViewsAssumption == Master \notin Dept \cup {NoDept} /\ NoPass \notin PassScore

VARIABLE passing   \* passing[d]: the passingStyleScore of d

views == <<departments, passing>>

PASSING_STYLE_SCORE == 80

ViewsInit == DepartmentsInit /\ passing = [d \in Dept \cup {Master} |-> NoPass]

(* updateDepartment, of either controller: the score given, or null. *)
SetPassing(d, score) ==
  /\ d \in Active \cup {Master}
  /\ passing' = [passing EXCEPT ![d] = score]
  /\ UNCHANGED departments

(* A new department starts without a score.                                *)
TreeChanges ==
  /\ DepartmentsNext
  /\ passing' = [d \in DOMAIN passing |->
                   IF d # Master /\ dept'[d].at # "live" THEN NoPass ELSE passing[d]]

ViewsNext ==
  \/ TreeChanges
  \/ \E d \in Dept \cup {Master}, score \in PassScore \cup {NoPass} : SetPassing(d, score)

ViewsSpec == ViewsInit /\ [][ViewsNext]_views

-------------------------------------------------------------------------------

(* resolvePassingStyleScore over the departments fetched: d itself, then   *)
(* its parents as long as they are among them, then the master.            *)
ResolvedFrom(fetched, d) ==
  LET Own(e) == passing[e] # NoPass
      up[e \in Dept] ==
        IF e \notin fetched THEN passing[Master]
        ELSE IF Own(e) THEN passing[e]
        ELSE IF dept[e].parent = NoDept THEN passing[Master]
        ELSE up[dept[e].parent] IN
  up[d]

(* ancestors: what createDepartment stored with d, nearest first.          *)
AncestorsOf(d) ==
  IF dept[d].parent = NoDept THEN {} ELSE {dept[d].parent} \cap Active

(* The departments a request of scope S fetches for the hierarchy.         *)
FetchedBy(S) == S \cap Active

(* Mutant: the parents are not fetched. *)
FetchedAlone(d) == {d}

FetchedFor(d) == {d} \cup AncestorsOf(d)

GetDepartment(d) == ResolvedFrom(FetchedFor(d), d)
UpdateDepartmentAnswer(d) == ResolvedFrom({d}, d)

(* getDepartments resolves one page of the list from that page alone.      *)
ListedOn(page, d) == ResolvedFrom(page, d)

(* The templates': a default instead of null. *)
TemplatePassing(d) ==
  LET known == {e \in AncestorsOf(d) : passing[e] # NoPass}
      default == IF passing[Master] = NoPass THEN PASSING_STYLE_SCORE ELSE passing[Master] IN
  IF passing[d] # NoPass THEN passing[d]
  ELSE IF known # {} THEN passing[CHOOSE e \in known : TRUE]
  ELSE default

(* Mutant: a root is a department without a parent. *)
ParentlessRoots(S) == {d \in FetchedBy(S) : dept[d].parent = NoDept}

(* The hierarchy that scope S shows: who is under whom, and the roots. *)
ShownUnder(S, d) == {c \in FetchedBy(S) : dept[c].parent = d}
Roots(S) == {d \in FetchedBy(S) : dept[d].parent \notin FetchedBy(S)}
Hierarchy(S) ==
  [roots |-> Roots(S),
   children |-> [d \in FetchedBy(S) |-> ShownUnder(S, d)],
   passing |-> [d \in FetchedBy(S) |-> ResolvedFrom(FetchedBy(S), d)]]

-------------------------------------------------------------------------------

(* The four agree, for who has access to everything, also on a department  *)
(* whose parent was deleted under it (departmentCtrl.ts:100-122, 263-266,  *)
(* 311-344; departmentResourcesCtrl.ts:172-192; templatesCtrl.ts:80-124):  *)
(* the tree is never deeper than the ancestors they fetch.  An update,     *)
(* which fetches none, answers the same of a department that needs none.   *)
ViewsAgree ==
  \A d \in Active :
    LET shown == Hierarchy(Active).passing[d] IN
    /\ GetDepartment(d) = shown
    /\ TemplatePassing(d) = IF shown = NoPass THEN PASSING_STYLE_SCORE ELSE shown
    /\ passing[d] # NoPass \/ AncestorsOf(d) = {} => UpdateDepartmentAnswer(d) = shown

(* The hierarchy of any scope shows each department in it once: as a root, *)
(* or under one department that is shown (departmentCtrl.ts:287-296); and  *)
(* the scope that a member of departments has shows it with the score that *)
(* getDepartment gives, if it has the parent too.                          *)
HierarchyShows ==
  \A S \in SUBSET Active :
    LET shown == Hierarchy(S) IN
    \A d \in S :
      /\ Cardinality({p \in S : d \in shown.children[p]}) = IF d \in shown.roots THEN 0 ELSE 1
      /\ AncestorsOf(d) \subseteq S =>
           shown.passing[d] = GetDepartment(d) /\ ListedOn(S, d) = GetDepartment(d)

(* Whichever way a department is shown, it is shown alike                  *)
(* (departmentCtrl.ts:37-365; departmentResourcesCtrl.ts:482-509).         *)
ShownAlike == ViewsAgree /\ HierarchyShows

===============================================================================
