------------------------------- MODULE MCReports -------------------------------
(* What staff are shown of SCORM content, on small instances: the reports,  *)
(* their aggregates, and the lists and the dashboard of packages.  Each     *)
(* behaviour runs one of the three, chosen at the start, while the          *)
(* variables of the others stay: they share no state.                       *)
EXTENDS ScormReports, ScormScores, PackageViews, TLC

CONSTANTS p1, p2, d1, i1, a1, c1, c2, g1

VARIABLE part   \* which of the three runs

(* The limits of bins and bands, scaled scores, times of both notations.   *)
AttemptWith(scaled, raw, seconds, iso) ==
  [scaled |-> scaled, raw |-> raw, seconds |-> seconds, iso |-> iso]
MCTracked ==
  {AttemptWith(Unset, raw, 0, FALSE) : raw \in {0, 59, 60, 89, 90, 100}}
    \cup {AttemptWith(scaled, 50, 300, TRUE) : scaled \in {-100, 79}}
    \cup {AttemptWith(Unset, Unset, seconds, FALSE) : seconds \in {299, 300, 3600}}

MCValues == [e \in Elements |-> {"passed"}]
MCDeptOf == [p \in Package |-> IF p = p1 THEN d1 ELSE NoDept]

(* An instructor with a package, and an administrator with one for all.    *)
(* Both teach the first class, the instructor alone the second.            *)
MCScopeOf == [u \in Person |-> {d1}]
MCUploadedBy == p1 :> i1 @@ p2 :> a1
MCDepartmentOf == p1 :> {d1} @@ p2 :> {}
MCIsGlobal == p1 :> FALSE @@ p2 :> TRUE
MCTeaches == c1 :> {i1, a1} @@ c2 :> {i1}
MCPackageOf == g1 :> p1

(* Of the viewers, staff are never given the scope 'all', which shows them  *)
(* their own packages only; enrollments and packages leave one at a time;   *)
(* one of the packages is given to classes.                                 *)
Init ==
  /\ part \in {"reports", "scores", "views"}
  /\ ReportsInit
  /\ ScoresInit
  /\ ShelfInit
  /\ viewer.scope = IF viewer.all THEN {} ELSE {d1}
  /\ part = "reports" => viewer.role = "global-admin" \/ ~viewer.all
  /\ part # "reports" => viewer.all /\ viewer.role = "staff"

Next ==
  /\ UNCHANGED part
  /\ \/ /\ part = "reports" /\ ReportsNext /\ UNCHANGED <<tracked, views>>
        /\ Cardinality(enrolled') + Cardinality(packages') > 2
     \/ part = "scores" /\ ScoresNext /\ UNCHANGED <<reporting, views>>
     \/ /\ part = "views" /\ ViewsNext /\ UNCHANGED <<reporting, tracked>>
        /\ state'[p2].classes = {}

Spec == Init /\ [][Next]_<<part, reporting, tracked, views>>

Symmetry == Permutations(Learner)

===============================================================================
