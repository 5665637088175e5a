---------------------------- MODULE Reports_proofs -----------------------------
(***************************************************************************)
(* Theorems about what staff are shown of SCORM content (ScormReports,     *)
(* ScormScores, PackageViews): the export covers what it listed, the       *)
(* reports agree with one another, the statistics are those of the scores, *)
(* and the lists and the dashboard of packages agree.                      *)
(*                                                                         *)
(* Both modules list a set in an order and cut the list into pages.  What  *)
(* makes the invariants inductive is the place of a row in its list: rows  *)
(* that come only push others to later places, so what was owed and not    *)
(* shown yet stays beyond the pages that were read.                        *)
(*                                                                         *)
(* The statistics of ScormScores hold of every list of scores: a sum is    *)
(* that of its totals, by induction over the places of the list, and what  *)
(* a median or a count tells follows from how many places lie below.       *)
(***************************************************************************)
EXTENDS ScormReports, ScormScores, PackageViews, FiniteSetTheorems, TLAPS

(* Any numbers have a least one. *)
LEMMA LeastOf ==
  ASSUME NEW S, S \subseteq Nat, S # {}
  PROVE  \E m \in S : \A n \in S : m <= n
<1> DEFINE R == OpToRel(<, Nat)
<1>1. IsWellFoundedOn(R, Nat)
  BY NatLessThanWellFounded, Zenon
<1>2. \A m, n \in Nat : <<m, n>> \in R <=> m < n
  BY DEF OpToRel
<1> HIDE DEF R
<1>3. PICK m \in S : \A n \in S : ~(<<n, m>> \in R)
  BY <1>1, WFMin
<1>4. ASSUME NEW n \in S PROVE m <= n
  <2>1. m \in Nat /\ n \in Nat
    OBVIOUS
  <2>2. ~(n < m)
    BY <1>2, <1>3, <2>1
  <2>3. QED
    BY <2>1, <2>2
<1>5. QED
  BY <1>4

LEMMA PlacesAreNumbers == \A n \in Nat : 1..n \subseteq Nat
OBVIOUS

LEMMA SmallerOf ==
  ASSUME NEW a \in Int, NEW b \in Int
  PROVE  Min({a, b}) = IF a <= b THEN a ELSE b
BY DEF Min

LEMMA LargerOf ==
  ASSUME NEW a \in Int, NEW b \in Int
  PROVE  Max({a, b}) = IF a >= b THEN a ELSE b
BY DEF Max

-------------------------------------------------------------------------------
(* The list of a report. *)

LEMMA PlaceIn ==
  ASSUME NEW S, IsFiniteSet(S), S \subseteq Nat, NEW i \in S
  PROVE  Place(i, S) \in 1..Cardinality(S)
<1> DEFINE T == {j \in S : j >= i}
<1>1. T \in SUBSET S
  OBVIOUS
<1>2. i \in T
  OBVIOUS
<1> HIDE DEF T
<1>3. IsFiniteSet(T) /\ Cardinality(T) <= Cardinality(S)
  BY <1>1, FS_Subset
<1>4. Cardinality(T) \in Nat /\ Cardinality(S) \in Nat
  BY <1>3, FS_CardinalityType
<1>5. Cardinality(T) # 0
  BY <1>2, <1>3, FS_EmptySet
<1>6. QED
  BY <1>3, <1>4, <1>5 DEF Place, T

LEMMA PlaceCounts ==
  ASSUME NEW S, IsFiniteSet(S), S \subseteq Nat, NEW i \in S
  PROVE  Place(i, S) \in Nat /\ Place(i, S) > 0
<1>1. Place(i, S) \in 1..Cardinality(S)
  BY PlaceIn
<1>2. Cardinality(S) \in Nat
  BY FS_CardinalityType
<1>3. QED
  BY <1>1, <1>2

LEMMA PlaceApart ==
  ASSUME NEW S, IsFiniteSet(S), S \subseteq Nat, NEW i \in S, NEW k \in S, i < k
  PROVE  Place(k, S) < Place(i, S)
<1> DEFINE T == {j \in S : j >= i}
           U == {j \in S : j >= k}
<1>1. T \in SUBSET S /\ U \in SUBSET T
  <2>1. \A j \in S : j >= k => j >= i
    <3>1. \A j, a, b \in Nat : a < b /\ j >= b => j >= a
      OBVIOUS
    <3>2. QED
      BY <3>1
  <2>2. QED
    BY <2>1
<1>2. i \in T /\ i \notin U
  OBVIOUS
<1> HIDE DEF T, U
<1>3. IsFiniteSet(T)
  BY <1>1, FS_Subset
<1>4. /\ IsFiniteSet(U) /\ Cardinality(U) <= Cardinality(T)
      /\ Cardinality(U) # Cardinality(T)
  <2>1. U # T
    BY <1>2
  <2>2. U \in SUBSET T
    BY <1>1
  <2>3. QED
    BY <1>3, <2>1, <2>2, FS_Subset
<1>5. Cardinality(T) \in Nat /\ Cardinality(U) \in Nat
  BY <1>3, <1>4, FS_CardinalityType
<1>6. QED
  BY <1>4, <1>5 DEF Place, T, U

(* Where more is found, a place is no smaller. *)
LEMMA PlaceGrows ==
  ASSUME NEW S, NEW T, IsFiniteSet(T), S \subseteq T, NEW i
  PROVE  Place(i, S) <= Place(i, T)
<1> DEFINE U == {j \in S : j >= i}
           V == {j \in T : j >= i}
<1>1. V \in SUBSET T /\ U \in SUBSET V
  OBVIOUS
<1> HIDE DEF U, V
<1>2. IsFiniteSet(V)
  BY <1>1, FS_Subset
<1>3. QED
  BY <1>1, <1>2, FS_Subset DEF Place, U, V

(* Each place of the list is somebody's. *)
LEMMA PlaceTaken ==
  ASSUME NEW S, IsFiniteSet(S), S \subseteq Nat, NEW k \in 1..Cardinality(S)
  PROVE  \E i \in S : Place(i, S) = k
<1> DEFINE n == Cardinality(S)
           f == [i \in S |-> Place(i, S)]
<1>1. n \in Nat
  BY FS_CardinalityType
<1>2. f \in [S -> 1..n]
  BY PlaceIn
<1>3. \A i, j \in S : i # j => f[i] # f[j]
  <2> SUFFICES ASSUME NEW i \in S, NEW j \in S, i # j PROVE f[i] # f[j]
    OBVIOUS
  <2>1. Place(i, S) \in 1..n /\ Place(j, S) \in 1..n
    BY PlaceIn
  <2>2. i < j \/ j < i
    OBVIOUS
  <2>3. Place(j, S) < Place(i, S) \/ Place(i, S) < Place(j, S)
    BY <2>2, PlaceApart
  <2>4. QED
    BY <2>1, <2>3
<1> HIDE DEF f
<1>4. f \in Injection(S, 1..n)
  BY <1>2, <1>3 DEF Injection, IsInjective
<1>5. IsFiniteSet(1..n) /\ Cardinality(1..n) = n
  BY <1>1, FS_Interval
<1>6. f \in Surjection(S, 1..n)
  BY <1>4, <1>5, FS_Injection
<1>7. \E i \in S : f[i] = k
  BY <1>6 DEF Surjection
<1>8. QED
  BY <1>7 DEF f

LEMMA FoundIs ==
  ASSUME NEW S, IsFiniteSet(S), S \subseteq Nat
  PROVE  /\ Cardinality(S) \in Nat
         /\ Found(S) \in Seq(S)
         /\ Len(Found(S)) = Cardinality(S)
         /\ \A k \in 1..Cardinality(S) :
              Found(S)[k] \in S /\ Place(Found(S)[k], S) = k
         /\ \A i \in S :
              Place(i, S) \in 1..Cardinality(S) /\ Found(S)[Place(i, S)] = i
<1> DEFINE n == Cardinality(S)
<1>1. n \in Nat
  BY FS_CardinalityType
<1>2. \A k \in 1..n : Found(S)[k] \in S /\ Place(Found(S)[k], S) = k
  BY PlaceTaken DEF Found
<1>3. ASSUME NEW i \in S
      PROVE  Place(i, S) \in 1..n /\ Found(S)[Place(i, S)] = i
  <2> DEFINE j == Found(S)[Place(i, S)]
  <2>1. Place(i, S) \in 1..n
    BY PlaceIn
  <2>2. j \in S /\ Place(j, S) = Place(i, S)
    BY <2>1, <1>2
  <2> HIDE DEF j
  <2>3. Place(j, S) \in Int
    BY <2>1, <2>2
  <2>4. ~(i < j) /\ ~(j < i)
    <3>1. j \in S /\ ~(Place(j, S) < Place(i, S)) /\ ~(Place(i, S) < Place(j, S))
      BY <2>2, <2>3
    <3>2. i < j => Place(j, S) < Place(i, S)
      BY <3>1, PlaceApart
    <3>3. j < i => Place(i, S) < Place(j, S)
      BY <3>1, PlaceApart
    <3>4. QED
      BY <3>1, <3>2, <3>3
  <2>5. i = j
    BY <2>2, <2>4
  <2>6. QED
    BY <2>1, <2>5 DEF j
<1>4. Found(S) \in [1..n -> S]
  BY <1>2 DEF Found
<1>5. Found(S) \in Seq(S) /\ Len(Found(S)) = n
  BY <1>1, <1>4
<1>6. QED
  BY <1>1, <1>2, <1>3, <1>5

-------------------------------------------------------------------------------
(* The pages of a list. *)

LEMMA DivisionBound ==
  ASSUME NEW a \in Nat, NEW b \in Nat, b > 0
  PROVE  /\ a \div b \in Nat
         /\ (a \div b) * b <= a
         /\ a < (a \div b) * b + b
OBVIOUS

LEMMA TimesGrows ==
  ASSUME NEW a \in Nat, NEW b \in Nat, NEW c \in Nat, a <= b
  PROVE  a * c <= b * c
OBVIOUS

(* The pages counted are enough for the list. *)
LEMMA PagesHold ==
  ASSUME NEW s, Len(s) \in Nat, NEW limit \in Nat, limit > 0,
         NEW page \in Nat, Pages(s, limit) <= page
  PROVE  Len(s) <= page * limit
<1> DEFINE q == (Len(s) + limit - 1) \div limit
<1>1. Len(s) + limit - 1 \in Nat
  OBVIOUS
<1>2. q \in Nat /\ Len(s) + limit - 1 < q * limit + limit
  BY <1>1, DivisionBound
<1>3. Pages(s, limit) = Max({q, 1})
  BY DEF Pages
<1> HIDE DEF q
<1>4. q <= page
  <2>1. Max({q, 1}) = IF q >= 1 THEN q ELSE 1
    BY <1>2, LargerOf
  <2>2. QED
    BY <1>2, <1>3, <2>1
<1>5. q * limit <= page * limit
  BY <1>2, <1>4, TimesGrows
<1>6. q * limit \in Nat /\ page * limit \in Nat
  BY <1>2
<1>7. QED
  BY <1>2, <1>5, <1>6

(* A page shows those whose place is on it. *)
LEMMA PageShows ==
  ASSUME NEW S, IsFiniteSet(S), S \subseteq Nat, NEW i \in S,
         NEW limit \in Nat, NEW page \in Nat \ {0},
         Place(i, S) > (page - 1) * limit, Place(i, S) <= page * limit
  PROVE  i \in ToSet(Page(Found(S), page, limit))
<1> DEFINE s == Found(S)
           k == Place(i, S)
           low == (page - 1) * limit
           high == page * limit
           top == Min({high, Len(s)})
<1>1. /\ s \in Seq(S) /\ Len(s) \in Nat
      /\ k \in 1..Len(s) /\ s[k] = i
  BY FoundIs
<1>2. low \in Nat /\ high \in Nat
  OBVIOUS
<1>3. k > low /\ k <= high
  OBVIOUS
<1>4. Page(s, page, limit) = SubSeq(s, low + 1, top)
  BY DEF Page
<1> HIDE DEF s, k, low, high
<1>5. top \in Nat /\ k <= top /\ top <= Len(s)
  <2>1. Min({high, Len(s)}) = IF high <= Len(s) THEN high ELSE Len(s)
    BY <1>1, <1>2, SmallerOf
  <2>2. QED
    BY <1>1, <1>2, <1>3, <2>1
<1> HIDE DEF top
<1> DEFINE t == SubSeq(s, low + 1, top)
<1>6. /\ Len(t) = top - low
      /\ DOMAIN t = 1..(top - low)
      /\ t[k - low] = s[k]
  BY <1>1, <1>2, <1>3, <1>5
<1>7. k - low \in DOMAIN t
  BY <1>1, <1>2, <1>3, <1>5, <1>6
<1> HIDE DEF t
<1>8. i \in ToSet(t)
  BY <1>1, <1>6, <1>7 DEF ToSet
<1>9. QED
  BY <1>4, <1>8 DEF t, s

LEMMA PageIsOfList ==
  ASSUME NEW S, IsFiniteSet(S), S \subseteq Nat, NEW limit \in Nat, NEW page \in Nat \ {0}
  PROVE  ToSet(Page(Found(S), page, limit)) \subseteq S
<1> DEFINE s == Found(S)
           low == (page - 1) * limit
           high == page * limit
           top == Min({high, Len(s)})
<1>1. s \in Seq(S) /\ Len(s) \in Nat
  BY FoundIs
<1>2. low \in Nat /\ high \in Nat
  OBVIOUS
<1>3. Page(s, page, limit) = SubSeq(s, low + 1, top)
  BY DEF Page
<1> HIDE DEF s, low, high
<1>4. top \in Nat /\ top <= Len(s)
  <2>1. Min({high, Len(s)}) = IF high <= Len(s) THEN high ELSE Len(s)
    BY <1>1, <1>2, SmallerOf
  <2>2. QED
    BY <1>1, <1>2, <2>1
<1> HIDE DEF top
<1>5. SubSeq(s, low + 1, top) \in Seq(S)
  BY <1>1, <1>2, <1>4
<1>6. ToSet(SubSeq(s, low + 1, top)) \subseteq S
  BY <1>5 DEF ToSet
<1>7. QED
  BY <1>3, <1>6 DEF s

LEMMA PagesType ==
  ASSUME NEW s, Len(s) \in Nat, NEW limit \in Nat, limit > 0
  PROVE  Pages(s, limit) \in Nat
<1> DEFINE q == (Len(s) + limit - 1) \div limit
<1>1. Len(s) + limit - 1 \in Nat
  OBVIOUS
<1>2. q \in Nat
  BY <1>1, DivisionBound
<1>3. Pages(s, limit) = Max({q, 1})
  BY DEF Pages
<1> HIDE DEF q
<1>4. Max({q, 1}) = IF q >= 1 THEN q ELSE 1
  BY <1>2, LargerOf
<1>5. QED
  BY <1>2, <1>3, <1>4

-------------------------------------------------------------------------------
(* Type correctness. *)

Document == [user : Learner \cup Previewer, package : Package, doc : Attempt]

(* The type invariant, and that the attempts are a sequence. *)
ReportsTyped == ReportsTypeOK /\ attempts \in Seq(Document)

LEMMA LimitType == Limit \in Nat /\ Limit > 0
BY ReportsAssumption

LEMMA OverlaidType ==
  ASSUME NEW cmi \in Cells, NEW pend \in Cells
  PROVE  Overlay(cmi, pend) \in Cells
BY DEF Overlay, Cells

LEMMA CalculatedType ==
  ASSUME NEW status \in Status, NEW cmi
  PROVE  CalculateCompletion(status, cmi) \in Status
BY DEF CalculateCompletion, Status

(* What is made of an attempt that is played is an attempt. *)
LEMMA PlayedType ==
  ASSUME NEW a \in Attempt, NEW pend \in Cells
  PROVE  /\ Committed(a, pend) \in Attempt
         /\ Finished(a, pend) \in Attempt
         /\ [a EXCEPT !.cmi = Overlay(@, pend)] \in Attempt
<1>1. a.status \in Status /\ a.cmi \in Cells /\ a.done \in BOOLEAN
  BY DEF Attempt
<1> DEFINE cmi == Overlay(a.cmi, pend)
<1>2. cmi \in Cells
  BY <1>1, OverlaidType
<1>3. ASSUME NEW s \in Status PROVE Stamped(s, cmi, a.done) \in Attempt
  BY <1>1, <1>2, <1>3 DEF Stamped, Attempt
<1>4. Committed(a, pend) \in Attempt
  BY <1>1, <1>3, CalculatedType DEF Committed, Status
<1>5. Finished(a, pend) \in Attempt
  BY <1>1, <1>3, CalculatedType DEF Finished, Status
<1>6. [a EXCEPT !.cmi = Overlay(@, pend)] \in Attempt
  BY <1>1, <1>2 DEF Attempt
<1>7. QED
  BY <1>4, <1>5, <1>6

(* A play leaves the user and the package of every attempt alone. *)
LEMMA PlayKeeps ==
  ASSUME attempts \in Seq(Document), NEW i \in DOMAIN attempts, NEW pend \in Cells, Play(i, pend)
  PROVE  /\ attempts' \in Seq(Document)
         /\ Len(attempts') = Len(attempts)
         /\ DOMAIN attempts' = DOMAIN attempts
         /\ \A j \in DOMAIN attempts :
              attempts'[j].user = attempts[j].user /\ attempts'[j].package = attempts[j].package
<1> DEFINE a == attempts[i]
<1>1. a \in Document /\ a.doc \in Attempt
  <2>1. a \in Document
    OBVIOUS
  <2> HIDE DEF a
  <2>2. QED
    BY <2>1 DEF Document
<1>2. PICK doc \in {Committed(a.doc, pend), Finished(a.doc, pend),
                    [a.doc EXCEPT !.cmi = Overlay(@, pend)]} :
        attempts' = [attempts EXCEPT ![i].doc = doc]
  BY DEF Play
<1>3. doc \in Attempt
  BY <1>1, <1>2, PlayedType
<1> DEFINE b == [a EXCEPT !.doc = doc]
<1>4. b \in Document /\ b.user = a.user /\ b.package = a.package
  BY <1>1, <1>3 DEF Document
<1>5. attempts' = [attempts EXCEPT ![i] = b]
  BY <1>2
<1> HIDE DEF a, b
<1>6. QED
  BY <1>4, <1>5 DEF a

LEMMA StartKeeps ==
  ASSUME attempts \in Seq(Document), NEW u \in Learner \cup Previewer, NEW p \in Package,
         StartAttempt(u, p)
  PROVE  /\ attempts' \in Seq(Document)
         /\ Len(attempts') = Len(attempts) + 1
         /\ DOMAIN attempts' = DOMAIN attempts \cup {Len(attempts) + 1}
         /\ attempts'[Len(attempts) + 1] = AttemptOf(u, p)
         /\ \A j \in DOMAIN attempts : attempts'[j] = attempts[j]
<1>1. NewAttempt \in Attempt
  BY DEF NewAttempt, Attempt, Status, NoCells, Cells
<1>2. AttemptOf(u, p) \in Document
  BY <1>1 DEF AttemptOf, Document
<1>3. QED
  BY <1>2 DEF StartAttempt

(* What an export lists. *)
LEMMA ExportedIs ==
  ASSUME attempts \in Seq(Document), NEW program
  PROVE  /\ Exported(program) \subseteq 1..Len(attempts)
         /\ IsFiniteSet(Exported(program))
         /\ Exported(program) \subseteq Nat
<1>1. Len(attempts) \in Nat /\ DOMAIN attempts = 1..Len(attempts)
  OBVIOUS
<1>2. Exported(program) \in SUBSET (1..Len(attempts))
  BY <1>1 DEF Exported
<1>3. IsFiniteSet(1..Len(attempts)) /\ 1..Len(attempts) \subseteq Nat
  BY <1>1, FS_Interval, PlacesAreNumbers
<1>4. QED
  BY <1>2, <1>3, FS_Subset

(* A page is an export of the program's list. *)
LEMMA ReadPageType ==
  ASSUME ReportsTyped, NEW program \in BOOLEAN, NEW page \in Nat \ {0}, ReadPage(program, page)
  PROVE  export' \in Export
<1> DEFINE rows == ExportRows(program)
           shown == ToSet(Page(rows, page, Limit))
           listed == Exported(program)
<1>1. /\ listed \subseteq 1..Len(attempts) /\ IsFiniteSet(listed) /\ listed \subseteq Nat
  BY ExportedIs DEF ReportsTyped
<1>2. rows = Found(listed)
  BY DEF ExportRows
<1> HIDE DEF rows, listed
<1>3. shown \subseteq listed
  BY <1>1, <1>2, LimitType, PageIsOfList
<1>4. Len(attempts) \in Nat /\ Len(attempts) <= MaxAttempts
  BY DEF ReportsTyped, ReportsTypeOK
<1>5. listed \subseteq Indices
  BY <1>1, <1>4, ReportsAssumption DEF Indices
<1>6. Len(rows) \in Nat
  BY <1>1, <1>2, FoundIs
<1>7. Pages(rows, Limit) \in Nat
  BY <1>6, LimitType, PagesType
<1>8. export' = IF page = 1
                THEN [page |-> 1, pages |-> Pages(rows, Limit), program |-> program,
                      rows |-> shown, first |-> listed, moved |-> FALSE]
                ELSE [export EXCEPT !.page = page, !.pages = Pages(rows, Limit),
                                    !.rows = @ \cup shown]
  BY DEF ReadPage, rows, listed
<1> HIDE DEF shown
<1>9. export \in Export
  BY DEF ReportsTyped, ReportsTypeOK
<1>10. CASE page = 1
  BY <1>3, <1>5, <1>7, <1>8, <1>10 DEF Export
<1>11. CASE page # 1
  BY <1>3, <1>5, <1>7, <1>8, <1>9, <1>11 DEF Export
<1>12. QED
  BY <1>10, <1>11

LEMMA RowsMoveType ==
  ASSUME export \in Export, RowsMove
  PROVE  export' \in Export
<1>1. Exporting \in BOOLEAN
  BY DEF Exporting
<1>2. QED
  BY <1>1 DEF RowsMove, Export

LEMMA ReportsTypedInit == ReportsInit => ReportsTyped
<1> SUFFICES ASSUME ReportsInit PROVE ReportsTyped
  OBVIOUS
<1>1. NoExport \in Export
  BY DEF NoExport, Export
<1>2. attempts \in Seq(Document) /\ Len(attempts) = 0 /\ DOMAIN attempts = {}
  BY DEF ReportsInit
<1>3. QED
  BY <1>1, <1>2, ReportsAssumption DEF ReportsInit, ReportsTyped, ReportsTypeOK

LEMMA ReportsTypedStep == ReportsTyped /\ [ReportsNext]_reporting => ReportsTyped'
<1> SUFFICES ASSUME ReportsTyped, [ReportsNext]_reporting PROVE ReportsTyped'
  OBVIOUS
<1> USE DEF ReportsTyped
<1>1. /\ attempts \in Seq(Document) /\ Len(attempts) <= MaxAttempts
      /\ packages \subseteq Package /\ enrolled \subseteq Learner
      /\ viewer \in Viewer /\ export \in Export
  BY DEF ReportsTypeOK
<1>2. SUFFICES /\ attempts' \in Seq(Document) /\ Len(attempts') <= MaxAttempts
               /\ packages' \subseteq Package /\ enrolled' \subseteq Learner
               /\ viewer' \in Viewer /\ export' \in Export
  <2>1. attempts' \in Seq(Document) =>
          \A i \in DOMAIN attempts' : attempts'[i] \in Document
    OBVIOUS
  <2>2. QED
    BY <1>2, <2>1 DEF ReportsTypeOK, Document, Viewer
<1>3. ASSUME NEW u \in Learner \cup Previewer, NEW p \in Package, StartAttempt(u, p)
      PROVE  <1>2!1
  <2>1. attempts' \in Seq(Document) /\ Len(attempts') = Len(attempts) + 1
    BY <1>1, <1>3, StartKeeps
  <2>2. Len(attempts) \in Nat /\ Len(attempts) < MaxAttempts
    BY <1>1, <1>3 DEF StartAttempt
  <2>3. QED
    BY <1>1, <1>3, <2>1, <2>2, ReportsAssumption DEF StartAttempt
<1>4. ASSUME NEW i \in DOMAIN attempts, NEW pend \in OneValue, Play(i, pend)
      PROVE  <1>2!1
  <2>1. pend \in Cells
    BY DEF OneValue
  <2>2. attempts' \in Seq(Document) /\ Len(attempts') = Len(attempts)
    BY <1>1, <1>4, <2>1, PlayKeeps
  <2>3. QED
    BY <1>1, <1>4, <2>2 DEF Play
<1>5. ASSUME NEW p \in packages, DeletePackage(p)
      PROVE  <1>2!1
  BY <1>1, <1>5, RowsMoveType DEF DeletePackage
<1>6. ASSUME NEW u \in Learner, Enroll(u) \/ DeleteEnrollment(u)
      PROVE  <1>2!1
  BY <1>1, <1>6, RowsMoveType DEF Enroll, DeleteEnrollment
<1>7. ASSUME NEW program \in BOOLEAN, ReadFirstPage(program)
      PROVE  <1>2!1
  BY <1>1, <1>7, ReadPageType DEF ReadFirstPage
<1>8. CASE ReadNextPage
  <2>1. export.program \in BOOLEAN /\ export.page + 1 \in Nat \ {0}
    BY <1>1 DEF Export
  <2>2. export' \in Export
    BY <1>8, <2>1, ReadPageType DEF ReadNextPage
  <2>3. QED
    BY <1>1, <1>8, <2>2 DEF ReadNextPage
<1>9. CASE UNCHANGED reporting
  BY <1>1, <1>9 DEF reporting
<1>10. QED
  BY <1>3, <1>4, <1>5, <1>6, <1>7, <1>8, <1>9 DEF ReportsNext

(* Every variable has its type. *)
THEOREM ReportsTypeCorrect == ReportsSpec => []ReportsTypeOK
<1>1. ReportsTyped => ReportsTypeOK
  BY DEF ReportsTyped
<1>2. QED
  BY <1>1, ReportsTypedInit, ReportsTypedStep, PTL DEF ReportsSpec

-------------------------------------------------------------------------------
(* An export read to its last page is complete.  What was listed when the  *)
(* first page was read is still listed, and what of it was not shown has   *)
(* its place beyond the pages read: places only grow while attempts come.  *)

ExportWellFormed ==
  Exporting /\ ~export.moved =>
    /\ export.first \subseteq Exported(export.program)
    /\ \A i \in export.first \ export.rows :
         Place(i, Exported(export.program)) > export.page * Limit
    /\ export.page >= export.pages => export.first \subseteq export.rows

ExportInv == ReportsTyped /\ ExportWellFormed

(* Reading a page. *)
LEMMA ReadPageCovers ==
  ASSUME ReportsTyped, NEW program \in BOOLEAN, NEW page \in Nat \ {0}, ReadPage(program, page),
         UNCHANGED <<attempts, packages, enrolled, viewer>>,
         page = 1 \/ (/\ page = export.page + 1 /\ Exporting /\ program = export.program
                     /\ ExportWellFormed)
  PROVE  ExportWellFormed'
<1> DEFINE rows == ExportRows(program)
           shown == ToSet(Page(rows, page, Limit))
           listed == Exported(program)
<1>1. /\ listed \subseteq 1..Len(attempts) /\ IsFiniteSet(listed) /\ listed \subseteq Nat
  BY ExportedIs DEF ReportsTyped
<1>2. rows = Found(listed)
  BY DEF ExportRows
<1>3. Exported(program)' = listed
  BY DEF Exported, Accessible, InScope, InProgram
<1>4. export' = IF page = 1
                THEN [page |-> 1, pages |-> Pages(rows, Limit), program |-> program,
                      rows |-> shown, first |-> listed, moved |-> FALSE]
                ELSE [export EXCEPT !.page = page, !.pages = Pages(rows, Limit),
                                    !.rows = @ \cup shown]
  BY DEF ReadPage
<1>5. export \in Export
  BY DEF ReportsTyped, ReportsTypeOK
<1>6. /\ export'.page = page /\ export'.pages = Pages(rows, Limit)
      /\ export'.program = program
  BY <1>4, <1>5 DEF Export
<1> HIDE DEF rows, listed
<1>7. ASSUME NEW i \in listed, i \notin shown, Place(i, listed) > (page - 1) * Limit
      PROVE  Place(i, listed) > page * Limit
  <2>1. Place(i, listed) \in Nat /\ page * Limit \in Nat
    <3>1. Place(i, listed) \in Nat
      BY <1>1, PlaceCounts
    <3>2. page * Limit \in Nat
      BY LimitType
    <3>3. QED
      BY <3>1, <3>2
  <2>2. ASSUME Place(i, listed) <= page * Limit PROVE FALSE
    <3>1. i \in ToSet(Page(Found(listed), page, Limit))
      <4>1. Place(i, listed) > (page - 1) * Limit
        BY <1>7
      <4>2. Limit \in Nat
        BY LimitType
      <4>3. QED
        BY <1>1, <2>2, <4>1, <4>2, PageShows
    <3>2. QED
      BY <1>2, <1>7, <3>1
  <2>3. QED
    BY <2>1, <2>2
<1>8. ASSUME NEW i \in listed, Place(i, listed) > page * Limit
      PROVE  ~(page >= Pages(rows, Limit))
  <2>1. /\ Len(rows) \in Nat /\ Len(rows) = Cardinality(listed)
        /\ Place(i, listed) \in 1..Len(rows)
    BY <1>1, <1>2, FoundIs
  <2>2. Pages(rows, Limit) \in Nat
    BY <2>1, LimitType, PagesType
  <2>3. Pages(rows, Limit) <= page => Len(rows) <= page * Limit
    BY <2>1, LimitType, PagesHold
  <2> DEFINE k == Place(i, listed)
             n == Len(rows)
             m == page * Limit
             c == Pages(rows, Limit)
  <2>4. /\ m \in Nat /\ n \in Nat /\ c \in Nat /\ k \in 1..n
        /\ k > m /\ (c <= page => n <= m)
    <3>1. k > m
      BY <1>8
    <3>2. m \in Nat
      BY LimitType
    <3> HIDE DEF k, n, m, c
    <3>3. QED
      BY <2>1, <2>2, <2>3, <3>1, <3>2 DEF k, n, c, m
  <2> HIDE DEF k, n, m, c
  <2>5. ~(page >= c)
    BY <2>4
  <2>6. QED
    BY <2>5 DEF c
<1> HIDE DEF shown
<1>9. ASSUME export'.moved = FALSE
      PROVE  /\ export'.first \subseteq listed
             /\ \A i \in export'.first \ export'.rows :
                  i \notin shown /\ Place(i, listed) > (page - 1) * Limit
  <2>1. CASE page = 1
    <3>1. (page - 1) * Limit = 0
      BY <2>1, LimitType
    <3>2. \A i \in listed : Place(i, listed) > 0
      BY <1>1, PlaceCounts
    <3>3. export'.first = listed /\ export'.rows = shown
      BY <1>4, <2>1
    <3> DEFINE before == (page - 1) * Limit
    <3>4. before = 0
      BY <3>1
    <3> HIDE DEF before
    <3>5. \A i \in listed : Place(i, listed) > before
      BY <3>2, <3>4
    <3>6. /\ export'.first \subseteq listed
          /\ \A i \in export'.first \ export'.rows :
               i \notin shown /\ Place(i, listed) > before
      BY <3>3, <3>5
    <3>7. QED
      BY <3>6 DEF before
  <2>2. CASE page # 1
    <3>1. /\ page = export.page + 1 /\ Exporting /\ listed = Exported(export.program)
          /\ ExportWellFormed
      BY <2>2 DEF listed
    <3>2. /\ export'.first = export.first /\ export'.rows = export.rows \cup shown
          /\ export'.moved = export.moved
      BY <1>4, <1>5, <2>2 DEF Export
    <3>3. export.page = page - 1
      BY <1>5, <3>1 DEF Export
    <3>4. QED
      BY <1>9, <3>1, <3>2, <3>3 DEF ExportWellFormed
  <2>3. QED
    BY <2>1, <2>2
<1>10. \/ export'.moved = TRUE \/ export'.moved = FALSE
  BY <1>4, <1>5 DEF Export
<1>11. ASSUME export'.moved = FALSE
       PROVE  /\ export'.first \subseteq listed
              /\ \A i \in export'.first \ export'.rows : Place(i, listed) > page * Limit
              /\ page >= Pages(rows, Limit) => export'.first \subseteq export'.rows
  <2>1. /\ export'.first \subseteq listed
        /\ \A i \in export'.first \ export'.rows :
              i \notin shown /\ Place(i, listed) > (page - 1) * Limit
    BY <1>9, <1>11
  <2>2. \A i \in export'.first \ export'.rows : Place(i, listed) > page * Limit
    BY <1>7, <2>1
  <2>3. QED
    BY <1>8, <2>1, <2>2
<1>12. QED
  BY <1>3, <1>6, <1>10, <1>11 DEF ExportWellFormed, Place

(* Whatever lets the list grow and leaves the export alone. *)
LEMMA GrowthKeepsExport ==
  ASSUME ReportsTyped, ReportsTyped', ExportWellFormed, UNCHANGED export,
         \A program \in BOOLEAN : Exported(program) \subseteq Exported(program)'
  PROVE  ExportWellFormed'
<1> SUFFICES ASSUME Exporting', ~export'.moved
             PROVE  /\ export.first \subseteq Exported(export.program)'
                    /\ \A i \in export.first \ export.rows :
                         Place(i, Exported(export.program)') > export.page * Limit
                    /\ export.page >= export.pages => export.first \subseteq export.rows
  BY DEF ExportWellFormed, Place
<1> DEFINE S == Exported(export.program)
           T == Exported(export.program)'
<1>1. Exporting /\ ~export.moved
  BY DEF Exporting
<1>2. export.program \in BOOLEAN /\ export.page \in Nat
  BY DEF ReportsTyped, ReportsTypeOK, Export
<1>3. S \subseteq T
  BY <1>2
<1>4. S \subseteq Nat /\ IsFiniteSet(S)
  BY ExportedIs DEF ReportsTyped
<1>5. IsFiniteSet(T)
  <2>1. attempts' \in Seq(Document)
    BY DEF ReportsTyped
  <2>2. Len(attempts') \in Nat /\ DOMAIN attempts' = 1..Len(attempts')
    BY <2>1
  <2>3. T \in SUBSET (1..Len(attempts'))
    BY <2>2 DEF Exported
  <2> HIDE DEF T
  <2>4. IsFiniteSet(1..Len(attempts'))
    BY <2>2, FS_Interval
  <2>5. QED
    BY <2>3, <2>4, FS_Subset
<1>6. /\ export.first \subseteq S
      /\ \A i \in export.first \ export.rows : Place(i, S) > export.page * Limit
      /\ export.page >= export.pages => export.first \subseteq export.rows
  BY <1>1 DEF ExportWellFormed
<1> HIDE DEF S, T
<1>7. ASSUME NEW i \in export.first \ export.rows PROVE Place(i, T) > export.page * Limit
  <2>1. i \in S /\ i \in T
    BY <1>3, <1>6
  <2>2. Place(i, S) <= Place(i, T)
    BY <1>3, <1>5, PlaceGrows
  <2>3. Place(i, S) \in Nat
    BY <1>4, <2>1, PlaceCounts
  <2>4. Place(i, T) \in Nat
    <3> DEFINE V == {j \in T : j >= i}
    <3>1. V \in SUBSET T
      OBVIOUS
    <3> HIDE DEF V
    <3>2. IsFiniteSet(V)
      BY <1>5, <3>1, FS_Subset
    <3>3. QED
      BY <3>2, FS_CardinalityType DEF Place, V
  <2> DEFINE m == export.page * Limit
  <2>5. m \in Nat
    BY <1>2, LimitType
  <2>6. Place(i, S) > m
    BY <1>6
  <2> HIDE DEF m
  <2>7. Place(i, T) > m
    BY <2>2, <2>3, <2>4, <2>5, <2>6
  <2>8. QED
    BY <2>7 DEF m
<1>8. QED
  BY <1>3, <1>6, <1>7 DEF S, T

LEMMA ExportInvInit == ReportsInit => ExportInv
<1> SUFFICES ASSUME ReportsInit PROVE ExportInv
  OBVIOUS
<1>1. ~Exporting
  BY DEF ReportsInit, NoExport, Exporting
<1>2. QED
  BY <1>1, ReportsTypedInit DEF ExportInv, ExportWellFormed

LEMMA ExportInvStep == ExportInv /\ [ReportsNext]_reporting => ExportInv'
<1> SUFFICES ASSUME ExportInv, [ReportsNext]_reporting PROVE ExportInv'
  OBVIOUS
<1>1. ReportsTyped /\ ExportWellFormed /\ ReportsTyped'
  BY ReportsTypedStep DEF ExportInv
<1> SUFFICES ExportWellFormed'
  BY <1>1 DEF ExportInv
<1>2. attempts \in Seq(Document) /\ export \in Export
  BY <1>1 DEF ReportsTyped, ReportsTypeOK
<1>3. ASSUME NEW u \in Learner \cup Previewer, NEW p \in Package, StartAttempt(u, p)
      PROVE  ExportWellFormed'
  <2>1. /\ DOMAIN attempts \subseteq DOMAIN attempts'
        /\ \A j \in DOMAIN attempts : attempts'[j] = attempts[j]
    BY <1>2, <1>3, StartKeeps
  <2>2. UNCHANGED <<packages, enrolled, viewer, export>>
    BY <1>3 DEF StartAttempt
  <2>3. \A program \in BOOLEAN : Exported(program) \subseteq Exported(program)'
    BY <2>1, <2>2 DEF Exported, Accessible, InScope, InProgram
  <2>4. QED
    BY <1>1, <2>2, <2>3, GrowthKeepsExport
<1>4. ASSUME NEW i \in DOMAIN attempts, NEW pend \in OneValue, Play(i, pend)
      PROVE  ExportWellFormed'
  <2>1. pend \in Cells
    BY DEF OneValue
  <2>2. /\ DOMAIN attempts' = DOMAIN attempts
        /\ \A j \in DOMAIN attempts :
             attempts'[j].user = attempts[j].user /\ attempts'[j].package = attempts[j].package
    BY <1>2, <1>4, <2>1, PlayKeeps
  <2>3. UNCHANGED <<packages, enrolled, viewer, export>>
    BY <1>4 DEF Play
  <2>4. \A program \in BOOLEAN : Exported(program) \subseteq Exported(program)'
    BY <2>2, <2>3 DEF Exported, Accessible, InScope, InProgram
  <2>5. QED
    BY <1>1, <2>3, <2>4, GrowthKeepsExport
<1>5. ASSUME RowsMove PROVE ExportWellFormed'
  <2>1. export'.moved = Exporting /\ Exporting' = Exporting
    BY <1>2, <1>5 DEF RowsMove, Export, Exporting
  <2>2. QED
    BY <2>1 DEF ExportWellFormed
<1>6. ASSUME NEW u \in Learner, Enroll(u) PROVE ExportWellFormed'
  <2>1. enrolled \subseteq enrolled' /\ UNCHANGED <<attempts, packages, viewer, export>>
    BY <1>6 DEF Enroll
  <2>2. \A program \in BOOLEAN : Exported(program) \subseteq Exported(program)'
    BY <2>1 DEF Exported, Accessible, InScope, InProgram
  <2>3. QED
    BY <1>1, <2>1, <2>2, GrowthKeepsExport
<1>7. ASSUME NEW program \in BOOLEAN, ReadFirstPage(program) PROVE ExportWellFormed'
  BY <1>1, <1>7, ReadPageCovers DEF ReadFirstPage
<1>8. CASE ReadNextPage
  <2>1. export.program \in BOOLEAN /\ export.page + 1 \in Nat \ {0}
    BY <1>2 DEF Export
  <2>2. QED
    BY <1>1, <1>8, <2>1, ReadPageCovers DEF ReadNextPage
<1>9. CASE UNCHANGED reporting
  <2>1. UNCHANGED <<attempts, packages, enrolled, viewer, export>>
    BY <1>9 DEF reporting
  <2>2. \A program \in BOOLEAN : Exported(program) \subseteq Exported(program)'
    BY <2>1 DEF Exported, Accessible, InScope, InProgram
  <2>3. QED
    BY <1>1, <2>1, <2>2, GrowthKeepsExport
<1>10. QED
  BY <1>3, <1>4, <1>5, <1>6, <1>7, <1>8, <1>9 DEF ReportsNext, DeletePackage, DeleteEnrollment

(* Whoever reads the export to its last page was shown every attempt that  *)
(* was listed when the first page was read, however many attempts start    *)
(* and however long the pages are, unless a package or an enrollment was   *)
(* deleted meanwhile (scormReportCtrl.ts:84-99, 592-646).                   *)
THEOREM ExportCoversCorrect == ReportsSpec => []ExportCovers
<1>1. ExportInv => ExportCovers
  BY DEF ExportInv, ExportWellFormed, ExportCovers, AtEnd
<1>2. QED
  BY <1>1, ExportInvInit, ExportInvStep, PTL DEF ReportsSpec

-------------------------------------------------------------------------------
(* Counting. *)

LEMMA ImageFinite ==
  ASSUME NEW S, IsFiniteSet(S), NEW f, DOMAIN f = S, NEW T, T = {f[i] : i \in S}
  PROVE  IsFiniteSet(T) /\ Cardinality(T) <= Cardinality(S)
<1> DEFINE g == [i \in S |-> f[i]]
<1>1. g \in Surjection(S, T)
  BY DEF Surjection
<1>2. QED
  BY <1>1, FS_Surjection

(* The members of S, counted kind by kind, are as many as S has. *)
LEMMA AddedByKind ==
  ASSUME NEW S, IsFiniteSet(S), S \subseteq Nat, NEW g, NEW f, \A i \in S : g[i] \in DOMAIN f,
         \A x \in DOMAIN f : f[x] = Cardinality({i \in S : g[i] = x})
  PROVE  Added(f) = Cardinality(S)
<1> DEFINE Kind(x) == {i \in S : g[i] = x}
           h == [i \in S |-> <<g[i], Place(i, Kind(g[i]))>>]
           Pairs == UNION {{x} \X (1..f[x]) : x \in DOMAIN f}
<1>1. \A x : Kind(x) \in SUBSET S /\ IsFiniteSet(Kind(x)) /\ Kind(x) \subseteq Nat
  <2> SUFFICES ASSUME NEW x PROVE Kind(x) \in SUBSET S /\ IsFiniteSet(Kind(x)) /\ Kind(x) \subseteq Nat
    OBVIOUS
  <2>1. Kind(x) \in SUBSET S
    OBVIOUS
  <2>2. QED
    BY <2>1, FS_Subset
<1>2. \A x : \A i \in Kind(x) : Place(i, Kind(x)) \in 1..Cardinality(Kind(x))
  <2> HIDE DEF Kind
  <2>1. QED
    BY <1>1, PlaceIn
<1>3. h \in [S -> Pairs]
  <2> SUFFICES ASSUME NEW i \in S PROVE h[i] \in Pairs
    OBVIOUS
  <2>1. i \in Kind(g[i]) /\ g[i] \in DOMAIN f
    OBVIOUS
  <2>2. Place(i, Kind(g[i])) \in 1..f[g[i]]
    BY <1>2, <2>1
  <2>3. h[i] \in {g[i]} \X (1..f[g[i]])
    BY <2>2
  <2>4. QED
    BY <2>1, <2>3
<1>4. ASSUME NEW i \in S, NEW j \in S, h[i] = h[j]
      PROVE  i = j
  <2>1. g[i] = g[j] /\ Place(i, Kind(g[i])) = Place(j, Kind(g[i]))
    BY <1>4
  <2>2. i \in Kind(g[i]) /\ j \in Kind(g[i])
    BY <2>1
  <2> DEFINE K == Kind(g[i])
  <2>3. IsFiniteSet(K) /\ K \subseteq Nat
    BY <1>1
  <2> HIDE DEF K
  <2>4. Found(K)[Place(i, K)] = i /\ Found(K)[Place(j, K)] = j
    BY <2>2, <2>3, FoundIs DEF K
  <2>5. QED
    BY <2>1, <2>4 DEF K
<1>5. ASSUME NEW q \in Pairs
      PROVE  \E i \in S : h[i] = q
  <2>1. PICK x \in DOMAIN f : q \in {x} \X (1..f[x])
    OBVIOUS
  <2>2. PICK k \in 1..f[x] : q = <<x, k>>
    BY <2>1
  <2> DEFINE K == Kind(x)
  <2>3. IsFiniteSet(K) /\ K \subseteq Nat /\ f[x] = Cardinality(K)
    BY <1>1
  <2>4. PICK i \in K : Place(i, K) = k
    <3> HIDE DEF K
    <3>1. QED
      BY <2>3, PlaceTaken
  <2>5. i \in S /\ g[i] = x
    BY <2>4
  <2>6. h[i] = <<x, Place(i, K)>>
    BY <2>5
  <2>7. QED
    BY <2>2, <2>4, <2>5, <2>6
<1> HIDE DEF h, Pairs
<1>6. h \in Bijection(S, Pairs)
  BY <1>3, <1>4, <1>5 DEF Bijection, Injection, IsInjective, Surjection
<1>7. ExistsBijection(S, Pairs)
  BY <1>6 DEF ExistsBijection
<1>8. Cardinality(Pairs) = Cardinality(S)
  BY <1>7, FS_Bijection
<1>9. QED
  BY <1>8 DEF Added, Pairs

LEMMA UsersAre ==
  ASSUME NEW S, IsFiniteSet(S), NEW T, T \subseteq S
  PROVE  /\ IsFiniteSet(UsersOf(S)) /\ IsFiniteSet(UsersOf(T))
         /\ Cardinality(UsersOf(S)) \in Nat /\ Cardinality(UsersOf(T)) \in Nat
         /\ UsersOf(T) \subseteq UsersOf(S)
         /\ Cardinality(UsersOf(T)) <= Cardinality(UsersOf(S))
<1> DEFINE f == [i \in S |-> attempts[i].user]
<1>1. DOMAIN f = S /\ UsersOf(S) = {f[i] : i \in S}
  BY DEF UsersOf
<1> HIDE DEF f
<1>2. IsFiniteSet(UsersOf(S))
  BY <1>1, ImageFinite
<1>3. UsersOf(T) \in SUBSET UsersOf(S)
  BY DEF UsersOf
<1>4. IsFiniteSet(UsersOf(T)) /\ Cardinality(UsersOf(T)) <= Cardinality(UsersOf(S))
  BY <1>2, <1>3, FS_Subset
<1>5. QED
  BY <1>2, <1>3, <1>4, FS_CardinalityType

(* A part of a whole is a rate between 0 and 100. *)
LEMMA RateBounded ==
  ASSUME NEW part \in Nat, NEW whole \in Nat, part <= whole
  PROVE  Rate(part, whole) \in 0..100
<1>1. CASE whole = 0
  BY <1>1 DEF Rate
<1>2. CASE whole # 0
  <2> DEFINE a == 200 * part + whole
             b == 2 * whole
             q == a \div b
  <2>1. a \in Nat /\ b \in Nat /\ b > 0 /\ a < 101 * b
    BY <1>2
  <2>2. Rate(part, whole) = q
    BY <1>2 DEF Rate
  <2> HIDE DEF a, b
  <2>3. q \in Nat /\ q * b <= a
    BY <2>1, DivisionBound
  <2> HIDE DEF q
  <2>4. ASSUME 101 <= q PROVE FALSE
    <3>1. 101 * b <= q * b
      BY <2>1, <2>3, <2>4, TimesGrows
    <3>2. q * b \in Nat
      BY <2>1, <2>3
    <3>3. QED
      BY <2>1, <2>3, <3>1, <3>2
  <2>5. QED
    BY <2>2, <2>3, <2>4
<1>3. QED
  BY <1>1, <1>2

(* The attempts at a package, and of a user. *)
LEMMA AttemptsAre ==
  ASSUME attempts \in Seq(Document)
  PROVE  /\ DOMAIN attempts \subseteq Nat /\ IsFiniteSet(DOMAIN attempts)
         /\ \A p : AttemptsAt(p) \subseteq DOMAIN attempts /\ IsFiniteSet(AttemptsAt(p))
                     /\ AttemptsAt(p) \subseteq Nat
         /\ \A u : AttemptsOf(u) \subseteq DOMAIN attempts /\ IsFiniteSet(AttemptsOf(u))
                     /\ AttemptsOf(u) \subseteq Nat
<1>1. Len(attempts) \in Nat /\ DOMAIN attempts = 1..Len(attempts)
  OBVIOUS
<1>2. DOMAIN attempts \subseteq Nat /\ IsFiniteSet(DOMAIN attempts)
  BY <1>1, FS_Interval, PlacesAreNumbers
<1>3. /\ \A p : AttemptsAt(p) \in SUBSET (DOMAIN attempts)
      /\ \A u : AttemptsOf(u) \in SUBSET (DOMAIN attempts)
  BY DEF AttemptsAt, AttemptsOf
<1>4. QED
  BY <1>2, <1>3, FS_Subset

(* Among the analytics of a package that is shown: the counts. *)
LEMMA AnalyticsCounts ==
  ASSUME attempts \in Seq(Document), NEW p
  PROVE  LET shown == Analytics(p, FALSE)
             rates == CompletionRates(p)
         IN  /\ shown.started = rates.started
             /\ shown.completed = rates.completed
             /\ shown.rate = rates.rate /\ shown.rate \in 0..100
             /\ Cardinality({u \in DOMAIN shown.rows : shown.rows[u].completed}) = shown.completed
             /\ Added([u \in DOMAIN shown.rows |-> shown.rows[u].attempts])
                  = Cardinality(AttemptsAt(p))
<1> DEFINE found == AttemptsAt(p)
           done == CompletedOf(found)
           started == Cardinality(UsersOf(found))
           completed == Cardinality(UsersOf(done))
           rows == [u \in UsersOf(found) |-> Row(found \cap AttemptsOf(u))]
           shown == Analytics(p, FALSE)
           rates == CompletionRates(p)
<1>1. FilteredAttempts(p, FALSE) = found
  BY DEF FilteredAttempts, InProgram, AttemptsAt
<1>2. /\ shown.started = started /\ shown.completed = completed
      /\ shown.rate = Rate(completed, started) /\ shown.rows = rows
  BY <1>1 DEF Analytics
<1>3. /\ rates.started = started /\ rates.completed = completed
      /\ rates.rate = Rate(completed, started)
  BY DEF CompletionRates
<1> HIDE DEF shown, rates, started, completed, rows
<1>4. IsFiniteSet(found) /\ found \subseteq Nat /\ found \subseteq DOMAIN attempts
  BY AttemptsAre
<1>5. done \subseteq found
  BY DEF CompletedOf
<1>6. Rate(completed, started) \in 0..100
  <2> HIDE DEF found, done
  <2>1. completed \in Nat /\ started \in Nat /\ completed <= started
    BY <1>4, <1>5, UsersAre DEF completed, started
  <2>2. QED
    BY <2>1, RateBounded
<1>7. /\ DOMAIN rows = UsersOf(found)
      /\ \A u \in UsersOf(found) :
           /\ rows[u].completed = (CompletedOf(found \cap AttemptsOf(u)) # {})
           /\ rows[u].attempts = Cardinality(found \cap AttemptsOf(u))
  BY DEF rows, Row
<1>8. \A u : u \in UsersOf(done) <=> (u \in UsersOf(found) /\ CompletedOf(found \cap AttemptsOf(u)) # {})
  <2>1. \A u, i : i \in CompletedOf(found \cap AttemptsOf(u)) <=> (i \in done /\ attempts[i].user = u)
    BY <1>4 DEF CompletedOf, AttemptsOf
  <2>2. \A u : u \in UsersOf(done) <=> \E i \in done : attempts[i].user = u
    BY DEF UsersOf
  <2>3. \A u : u \in UsersOf(found) <=> \E i \in found : attempts[i].user = u
    BY DEF UsersOf
  <2> HIDE DEF found, done
  <2>4. QED
    BY <1>5, <2>1, <2>2, <2>3
<1>9. {u \in DOMAIN rows : rows[u].completed} = UsersOf(done)
  BY <1>7, <1>8
<1>10. Added([u \in DOMAIN rows |-> rows[u].attempts]) = Cardinality(found)
  <2> DEFINE f == [u \in DOMAIN rows |-> rows[u].attempts]
             g == [i \in found |-> attempts[i].user]
  <2>1. \A i \in found : g[i] \in DOMAIN f
    BY <1>7 DEF UsersOf
  <2>2. \A u : found \cap AttemptsOf(u) = {i \in found : g[i] = u}
    BY <1>4 DEF AttemptsOf
  <2>3. \A u \in DOMAIN f : f[u] = Cardinality({i \in found : g[i] = u})
    BY <1>7, <2>2
  <2> HIDE DEF f, g, found
  <2>4. Added(f) = Cardinality(found)
    BY <1>4, <2>1, <2>3, AddedByKind
  <2>5. QED
    BY <2>4 DEF f
<1>11. QED
  BY <1>2, <1>3, <1>6, <1>9, <1>10 DEF completed, shown, rates

(* A user's attempts, counted package by package. *)
LEMMA TotalAdds ==
  ASSUME attempts \in Seq(Document), NEW u
  PROVE  AttemptTotal(u) = Added([p \in Package |-> Len(OwnAttempts(u, p))])
<1> DEFINE own == AttemptsOf(u)
           f == [p \in Package |-> Len(OwnAttempts(u, p))]
           g == [i \in own |-> attempts[i].package]
<1>1. IsFiniteSet(own) /\ own \subseteq Nat /\ own \subseteq DOMAIN attempts
  BY AttemptsAre
<1>2. \A i \in own : g[i] \in DOMAIN f
  <2>1. \A i \in DOMAIN attempts : attempts[i] \in Document
    OBVIOUS
  <2>2. \A i \in own : attempts[i].package \in Package
    BY <1>1, <2>1 DEF Document
  <2>3. QED
    BY <2>2
<1>3. ASSUME NEW p \in DOMAIN f PROVE f[p] = Cardinality({i \in own : g[i] = p})
  <2> DEFINE S == {i \in own : g[i] = p}
  <2>1. AttemptsAt(p) \cap AttemptsOf(u) = S
    BY <1>1 DEF AttemptsAt
  <2>2. S \in SUBSET own
    OBVIOUS
  <2> HIDE DEF S
  <2>3. IsFiniteSet(S) /\ S \subseteq Nat
    BY <1>1, <2>2, FS_Subset
  <2>4. Len(Found(S)) = Cardinality(S)
    BY <2>3, FoundIs
  <2>5. f[p] = Len(Found(S))
    BY <2>1 DEF OwnAttempts
  <2>6. QED
    BY <2>4, <2>5 DEF S
<1> HIDE DEF f, g, own
<1>4. Added(f) = Cardinality(own)
  BY <1>1, <1>2, <1>3, AddedByKind
<1>5. QED
  BY <1>4 DEF AttemptTotal, f, own

(* What a learner is shown of a package. *)
LEMMA LearnersRow ==
  ASSUME attempts \in Seq(Document), NEW p, p \in packages, NEW u, p \in ProgressPackages(u)
  PROVE  LET shown == Analytics(p, FALSE)
         IN  /\ LearnerProgress(u)[p] = shown.rows[u]
             /\ AllAttempts(p, u) = OwnAttempts(u, p)
             /\ Len(OwnAttempts(u, p)) = shown.rows[u].attempts
             /\ Head(OwnAttempts(u, p)) = shown.rows[u].last
<1> DEFINE found == AttemptsAt(p)
           own == AttemptsAt(p) \cap AttemptsOf(u)
           shown == Analytics(p, FALSE)
<1>1. FilteredAttempts(p, FALSE) = found
  BY DEF FilteredAttempts, InProgram, AttemptsAt
<1>2. shown.rows = [v \in UsersOf(found) |-> Row(found \cap AttemptsOf(v))]
  BY <1>1 DEF Analytics
<1> HIDE DEF shown
<1>3. own # {} /\ AttemptsOf(u) \cap AttemptsAt(p) = own
  BY DEF ProgressPackages
<1>4. u \in UsersOf(found)
  BY <1>3 DEF UsersOf, AttemptsOf
<1>5. shown.rows[u] = Row(own)
  BY <1>2, <1>4
<1>6. LearnerProgress(u)[p] = Row(own)
  BY <1>3 DEF LearnerProgress
<1>7. AllAttempts(p, u) = Found(own) /\ OwnAttempts(u, p) = Found(own)
  <2>1. {i \in AttemptsOf(u) : p \in packages => attempts[i].package = p} = own
    BY DEF AttemptsOf, AttemptsAt
  <2>2. QED
    BY <2>1 DEF AllAttempts, OwnAttempts
<1>8. own \subseteq Nat /\ IsFiniteSet(own)
  <2>1. own \in SUBSET AttemptsAt(p)
    OBVIOUS
  <2>2. QED
    BY <2>1, AttemptsAre, FS_Subset
<1> HIDE DEF own, found
<1>9. Len(Found(own)) = Cardinality(own)
  BY <1>8, FoundIs
<1>10. Row(own).attempts = Cardinality(own) /\ Row(own).last = Found(own)[1]
  BY DEF Row
<1>11. Head(Found(own)) = Found(own)[1]
  BY <1>8, FoundIs
<1>12. QED
  BY <1>5, <1>6, <1>7, <1>9, <1>10, <1>11 DEF shown

(* The reports of one package agree, whoever reads them, however many the  *)
(* attempts, the learners and the packages are                             *)
(* (scormReportCtrl.ts:154-199, 331-407, 468-477, 607-624, 716-733).        *)
THEOREM ReportsAgreeCorrect == ReportsSpec => []ReportsAgree
<1>1. ReportsTyped => ReportsAgree
  <2> SUFFICES ASSUME ReportsTyped PROVE ReportsAgree
    OBVIOUS
  <2>1. attempts \in Seq(Document)
    BY DEF ReportsTyped
  <2>2. ASSUME NEW p \in packages, AnalyticsStatus(p, FALSE) = "200"
        PROVE  \A i \in AttemptsAt(p) :
                 InteractionsStatus(i) = "200" /\ Contains(ExportRows(FALSE), i)
    <3> SUFFICES ASSUME NEW i \in AttemptsAt(p)
                 PROVE  InteractionsStatus(i) = "200" /\ Contains(ExportRows(FALSE), i)
      OBVIOUS
    <3>1. Accessible(p)
      BY <2>2 DEF AnalyticsStatus, NotFound, Forbidden
    <3>2. i \in DOMAIN attempts /\ attempts[i].package = p
      BY DEF AttemptsAt
    <3>3. InteractionsStatus(i) = "200"
      BY <3>1, <3>2 DEF InteractionsStatus
    <3> DEFINE S == Exported(FALSE)
    <3>4. i \in S
      BY <3>1, <3>2 DEF Exported, InProgram
    <3>5. IsFiniteSet(S) /\ S \subseteq Nat
      BY <2>1, ExportedIs
    <3> HIDE DEF S
    <3>6. Place(i, S) \in 1..Len(Found(S)) /\ Found(S)[Place(i, S)] = i
      BY <3>4, <3>5, FoundIs
    <3>7. Contains(Found(S), i)
      BY <3>6 DEF Contains
    <3>8. QED
      BY <3>3, <3>7 DEF ExportRows, S
  <2>3. ASSUME NEW i \in DOMAIN attempts, DetailsStatus(i) = "200"
        PROVE  InteractionsStatus(i) = "200"
    <3>1. attempts[i].package \in packages /\ viewer.role = "global-admin" /\ viewer.all
      BY <2>3 DEF DetailsStatus, Forbidden
    <3>2. Accessible(attempts[i].package)
      BY <3>1 DEF Accessible
    <3>3. QED
      BY <3>2 DEF InteractionsStatus
  <2>4. QED
    BY <2>1, <2>2, <2>3, AnalyticsCounts, LearnersRow, TotalAdds DEF ReportsAgree
<1>2. QED
  BY <1>1, ReportsTypedInit, ReportsTypedStep, PTL DEF ReportsSpec

-------------------------------------------------------------------------------
(* Sums over a family of sets. *)

PairsUnder(f) == UNION {{x} \X (1..f[x]) : x \in DOMAIN f}

LEMMA PairIn ==
  ASSUME NEW f, NEW q
  PROVE  q \in PairsUnder(f) <=> \E x \in DOMAIN f : \E k \in 1..f[x] : q = <<x, k>>
BY DEF PairsUnder

LEMMA PairsFinite ==
  ASSUME NEW f, IsFiniteSet(DOMAIN f), \A x \in DOMAIN f : f[x] \in Nat
  PROVE  IsFiniteSet(PairsUnder(f)) /\ Summed(f) = Cardinality(PairsUnder(f)) /\ Summed(f) \in Nat
<1> DEFINE g == [x \in DOMAIN f |-> {x} \X (1..f[x])]
           T == {g[x] : x \in DOMAIN f}
<1>1. IsFiniteSet(T)
  <2>1. DOMAIN g = DOMAIN f
    OBVIOUS
  <2> HIDE DEF g
  <2>2. QED
    BY <2>1, ImageFinite
<1>2. \A t \in T : IsFiniteSet(t)
  <2> SUFFICES ASSUME NEW x \in DOMAIN f PROVE IsFiniteSet({x} \X (1..f[x]))
    OBVIOUS
  <2>1. f[x] \in Int /\ 1 \in Int
    OBVIOUS
  <2> DEFINE n == f[x]
  <2>2. n \in Int
    BY <2>1
  <2> HIDE DEF n
  <2>3. IsFiniteSet(1..n)
    BY <2>1, <2>2, FS_Interval
  <2>4. IsFiniteSet({x})
    BY FS_Singleton
  <2>5. IsFiniteSet({x} \X (1..n))
    BY <2>3, <2>4, FS_Product
  <2>6. QED
    BY <2>5 DEF n
<1>3. PairsUnder(f) = UNION T
  BY DEF PairsUnder
<1> HIDE DEF T, g
<1>4. IsFiniteSet(PairsUnder(f))
  BY <1>1, <1>2, <1>3, FS_UNION
<1>5. Summed(f) = Cardinality(PairsUnder(f))
  BY DEF Summed, PairsUnder
<1>6. QED
  BY <1>4, <1>5, FS_CardinalityType

(* A union has no more members than its sets together, and as many when    *)
(* they are disjoint.                                                      *)
LEMMA UnionCounted ==
  ASSUME NEW f, IsFiniteSet(DOMAIN f), NEW P,
         \A x \in DOMAIN f : IsFiniteSet(P[x]) /\ f[x] = Cardinality(P[x]),
         NEW U, \A y : y \in U <=> \E x \in DOMAIN f : y \in P[x]
  PROVE  /\ Cardinality(U) <= Summed(f)
         /\ (\A x, z \in DOMAIN f : x # z => P[x] \cap P[z] = {}) => Cardinality(U) = Summed(f)
<1> DEFINE b == [x \in DOMAIN f |-> CHOOSE h : h \in Bijection(1..f[x], P[x])]
           Pairs == PairsUnder(f)
           F == [q \in Pairs |-> b[q[1]][q[2]]]
<1>1. \A x \in DOMAIN f : f[x] \in Nat /\ b[x] \in Bijection(1..f[x], P[x])
  BY FS_CardinalityType DEF ExistsBijection
<1>2. IsFiniteSet(Pairs) /\ Summed(f) = Cardinality(Pairs)
  BY <1>1, PairsFinite
<1>3. \A x \in DOMAIN f : \A k \in 1..f[x] : <<x, k>> \in Pairs /\ F[<<x, k>>] = b[x][k]
  <2> SUFFICES ASSUME NEW x \in DOMAIN f, NEW k \in 1..f[x]
               PROVE  <<x, k>> \in Pairs /\ F[<<x, k>>] = b[x][k]
    OBVIOUS
  <2>1. <<x, k>> \in Pairs
    BY PairIn
  <2> HIDE DEF Pairs, b
  <2>2. F[<<x, k>>] = b[<<x, k>>[1]][<<x, k>>[2]]
    BY <2>1
  <2>3. QED
    BY <2>1, <2>2
<1>4. DOMAIN F = Pairs
  OBVIOUS
<1> HIDE DEF b, F
<1>5. \A q \in Pairs : \E x \in DOMAIN f : \E k \in 1..f[x] : q = <<x, k>>
  BY PairIn
<1> HIDE DEF Pairs
<1>6. \A x \in DOMAIN f : /\ \A k \in 1..f[x] : b[x][k] \in P[x]
                         /\ \A k, l \in 1..f[x] : b[x][k] = b[x][l] => k = l
                         /\ \A y \in P[x] : \E j \in 1..f[x] : b[x][j] = y
  BY <1>1 DEF Bijection, Injection, IsInjective, Surjection
<1>13. ASSUME NEW x \in DOMAIN f, NEW y \in P[x]
       PROVE  \E k \in 1..f[x] : b[x][k] = y
  <2>1. b[x] \in Surjection(1..f[x], P[x])
    BY <1>1 DEF Bijection
  <2>2. \A z \in P[x] : \E k \in 1..f[x] : b[x][k] = z
    BY <2>1, Zenon DEF Surjection
  <2>3. QED
    BY <2>2
<1>7. ASSUME NEW q \in Pairs PROVE F[q] \in U
  <2>1. PICK x \in DOMAIN f : \E k \in 1..f[x] : q = <<x, k>>
    BY <1>5
  <2>2. PICK k \in 1..f[x] : q = <<x, k>>
    BY <2>1
  <2>3. F[q] = b[x][k] /\ b[x][k] \in P[x]
    BY <1>3, <1>6, <2>2
  <2>4. QED
    BY <2>3
<1>8. ASSUME NEW y \in U PROVE \E q \in Pairs : F[q] = y
  <2>1. PICK x \in DOMAIN f : y \in P[x]
    OBVIOUS
  <2>3. \E k \in 1..f[x] : b[x][k] = y
    BY <1>13, <2>1
  <2>4. PICK k \in 1..f[x] : b[x][k] = y
    BY <2>3
  <2>5. <<x, k>> \in Pairs /\ F[<<x, k>>] = y
    BY <1>3, <2>4
  <2>6. QED
    BY <2>5
<1>9. F \in Surjection(Pairs, U)
  <2>1. F \in [Pairs -> U]
    <3>1. F = [q \in Pairs |-> F[q]]
      BY <1>4 DEF F
    <3>2. QED
      BY <1>7, <3>1
  <2>2. QED
    BY <1>8, <2>1 DEF Surjection
<1>10. Cardinality(U) <= Cardinality(Pairs)
  BY <1>2, <1>9, FS_Surjection
<1>11. ASSUME \A x, z \in DOMAIN f : x # z => P[x] \cap P[z] = {}
       PROVE  Cardinality(U) = Cardinality(Pairs)
  <2>1. \A q, r \in Pairs : F[q] = F[r] => q = r
    <3> SUFFICES ASSUME NEW q \in Pairs, NEW r \in Pairs, F[q] = F[r] PROVE q = r
      OBVIOUS
    <3>1. PICK x \in DOMAIN f : \E k \in 1..f[x] : q = <<x, k>>
      BY <1>5
    <3>2. PICK k \in 1..f[x] : q = <<x, k>>
      BY <3>1
    <3>3. PICK z \in DOMAIN f : \E l \in 1..f[z] : r = <<z, l>>
      BY <1>5
    <3>4. PICK l \in 1..f[z] : r = <<z, l>>
      BY <3>3
    <3>5. b[x][k] = b[z][l] /\ b[x][k] \in P[x] /\ b[z][l] \in P[z]
      BY <1>3, <1>6, <3>2, <3>4
    <3>6. x = z
      BY <1>11, <3>5
    <3>7. k = l
      BY <1>6, <3>5, <3>6
    <3>8. QED
      BY <3>2, <3>4, <3>6, <3>7
  <2>2. F \in Injection(Pairs, U)
    BY <1>9, <2>1 DEF Injection, IsInjective, Surjection
  <2>3. QED
    BY <1>2, <1>9, <2>2, FS_Surjection
<1>12. QED
  BY <1>2, <1>10, <1>11

-------------------------------------------------------------------------------
(* What staff are shown of packages. *)

Count == [total : Nat, completed : Nat, passed : Nat]
PackageState == [status : {"draft", "published"}, isPublished : BOOLEAN, classes : SUBSET Class]
Reader ==
  [who : SUBSET Person, page : Nat, shown : SUBSET Title, owed : SUBSET Title, over : BOOLEAN]

ViewsTyped ==
  /\ updatedAt \in [Title -> Nat]
  /\ state \in [Title -> PackageState]
  /\ roster \subseteq Class \X Student
  /\ tries \in [Student \X Segment -> Count]
  /\ reader \in Reader

(* The attempts of some learners at some segments are a number, and no     *)
(* smaller where there are more of either.                                 *)
LEMMA TotalIs ==
  ASSUME ViewsTyped, NEW K, K \subseteq Student \X Segment
  PROVE  LET f == [k \in K |-> tries[k].total]
         IN  /\ Total("total", K) = Cardinality(PairsUnder(f))
             /\ IsFiniteSet(PairsUnder(f))
             /\ Total("total", K) \in Nat
             /\ \A q : q \in PairsUnder(f) <=>
                    \E k \in K : \E n \in 1..(tries[k].total) : q = <<k, n>>
<1> DEFINE f == [k \in K |-> tries[k].total]
<1>1. IsFiniteSet(Student \X Segment)
  BY ViewsAssumption, FS_Product
<1>2. IsFiniteSet(K)
  BY <1>1, FS_Subset
<1>3. DOMAIN f = K /\ \A k \in DOMAIN f : f[k] \in Nat
  BY DEF ViewsTyped, Count
<1>4. Total("total", K) = Summed(f)
  BY DEF Total
<1>5. \A k \in K : f[k] = tries[k].total
  OBVIOUS
<1> HIDE DEF f
<1>6. IsFiniteSet(PairsUnder(f)) /\ Summed(f) = Cardinality(PairsUnder(f)) /\ Summed(f) \in Nat
  BY <1>2, <1>3, PairsFinite
<1>7. \A q : q \in PairsUnder(f) <=>
              \E k \in K : \E n \in 1..(tries[k].total) : q = <<k, n>>
  BY <1>3, <1>5, PairIn
<1>8. QED
  BY <1>4, <1>6, <1>7 DEF f

LEMMA TotalGrows ==
  ASSUME ViewsTyped, NEW K, NEW M, K \subseteq M, M \subseteq Student \X Segment
  PROVE  Total("total", K) <= Total("total", M)
<1> DEFINE f == [k \in K |-> tries[k].total]
           g == [k \in M |-> tries[k].total]
<1>1. /\ Total("total", K) = Cardinality(PairsUnder(f))
      /\ \A q : q \in PairsUnder(f) <=>
             \E k \in K : \E n \in 1..(tries[k].total) : q = <<k, n>>
  <2>1. K \subseteq Student \X Segment
    OBVIOUS
  <2>2. QED
    BY <2>1, TotalIs
<1>2. /\ Total("total", M) = Cardinality(PairsUnder(g))
      /\ IsFiniteSet(PairsUnder(g))
      /\ \A q : q \in PairsUnder(g) <=>
             \E k \in M : \E n \in 1..(tries[k].total) : q = <<k, n>>
  BY TotalIs
<1> HIDE DEF f, g
<1>3. PairsUnder(f) \in SUBSET PairsUnder(g)
  BY <1>1, <1>2
<1>4. Cardinality(PairsUnder(f)) <= Cardinality(PairsUnder(g))
  BY <1>2, <1>3, FS_Subset
<1>5. QED
  BY <1>1, <1>2, <1>4

(* The learners of the dashboard are those of the rows together. *)
LEMMA LearnersAdd ==
  ASSUME ViewsTyped, NEW C, C \subseteq Class
  PROVE  Cardinality({e \in roster : e[1] \in C}) = Summed([c \in C |-> ClassRow(c).learners])
<1> DEFINE f == [c \in C |-> ClassRow(c).learners]
           P == [c \in C |-> {e \in roster : e[1] = c}]
           U == {e \in roster : e[1] \in C}
<1>1. IsFiniteSet(C)
  BY ViewsAssumption, FS_Subset
<1>2. ASSUME NEW c \in C
      PROVE  IsFiniteSet(P[c]) /\ f[c] = Cardinality(P[c])
  <2> DEFINE L == {l \in Student : <<c, l>> \in roster}
             h == [l \in L |-> <<c, l>>]
             Q == {e \in roster : e[1] = c}
  <2>1. L \in SUBSET Student
    OBVIOUS
  <2>2. \A e \in roster : e = <<e[1], e[2]>> /\ e[2] \in Student
    BY DEF ViewsTyped
  <2>3. h \in Bijection(L, Q)
    <3>1. \A l \in L : <<c, l>> \in Q
      OBVIOUS
    <3>2. h \in [L -> Q]
      BY <3>1
    <3>3. \A e \in Q : e[2] \in L /\ e = <<c, e[2]>>
      BY <2>2
    <3>4. \A e \in Q : \E l \in L : h[l] = e
      BY <3>3
    <3>5. \A l, m \in L : h[l] = h[m] => l = m
      OBVIOUS
    <3> HIDE DEF h, L, Q
    <3>6. QED
      BY <3>2, <3>4, <3>5 DEF Bijection, Injection, IsInjective, Surjection
  <2> HIDE DEF h
  <2>4. ExistsBijection(L, Q)
    BY <2>3 DEF ExistsBijection
  <2>5. f[c] = Cardinality(L)
    BY DEF ClassRow
  <2>6. P[c] = Q
    OBVIOUS
  <2> HIDE DEF L, Q, P, f
  <2>7. IsFiniteSet(L)
    BY <2>1, ViewsAssumption, FS_Subset
  <2>8. IsFiniteSet(Q) /\ Cardinality(Q) = Cardinality(L)
    BY <2>4, <2>7, FS_Bijection
  <2>9. QED
    BY <2>5, <2>6, <2>8
<1>3. \A e : e \in U <=> \E c \in C : e \in P[c]
  OBVIOUS
<1>4. \A c, d \in C : c # d => P[c] \cap P[d] = {}
  OBVIOUS
<1>5. DOMAIN f = C
  OBVIOUS
<1> HIDE DEF f, P, U
<1>6. Cardinality(U) = Summed(f)
  BY <1>1, <1>2, <1>3, <1>4, <1>5, UnionCounted
<1>7. QED
  BY <1>6 DEF U, f

(* Whoever learns in several classes is counted once. *)
LEMMA AttemptsAdd ==
  ASSUME ViewsTyped, NEW C, C \subseteq Class
  PROVE  Attempts(Members(C), "total") <= Summed([c \in C |-> ClassRow(c).attempts])
<1> DEFINE f == [c \in C |-> ClassRow(c).attempts]
           K(D) == Members(D) \X Segment
           P == [c \in C |-> PairsUnder([k \in K({c}) |-> tries[k].total])]
           U == PairsUnder([k \in K(C) |-> tries[k].total])
<1>1. IsFiniteSet(C)
  BY ViewsAssumption, FS_Subset
<1>2. \A D : K(D) \subseteq Student \X Segment
  BY DEF Members
<1>3. \A D : /\ Total("total", K(D)) = Cardinality(PairsUnder([k \in K(D) |-> tries[k].total]))
             /\ IsFiniteSet(PairsUnder([k \in K(D) |-> tries[k].total]))
             /\ \A q : q \in PairsUnder([k \in K(D) |-> tries[k].total]) <=>
                    \E k \in K(D) : \E n \in 1..(tries[k].total) : q = <<k, n>>
  <2> HIDE DEF K
  <2>1. QED
    BY <1>2, TotalIs
<1>4. \A c \in C : IsFiniteSet(P[c]) /\ f[c] = Cardinality(P[c])
  <2>1. \A c \in C : f[c] = Total("total", K({c}))
    BY DEF ClassRow, Attempts
  <2> HIDE DEF K, f
  <2>2. QED
    BY <1>3, <2>1
<1>5. \A k : k \in K(C) <=> \E c \in C : k \in K({c})
  BY DEF Members
<1>6. \A q : q \in U <=> \E c \in C : q \in P[c]
  <2> HIDE DEF K
  <2>1. \A q : q \in U <=> \E k \in K(C) : \E n \in 1..(tries[k].total) : q = <<k, n>>
    BY <1>3
  <2>2. \A c \in C : \A q : q \in P[c] <=>
           \E k \in K({c}) : \E n \in 1..(tries[k].total) : q = <<k, n>>
    BY <1>3
  <2> HIDE DEF U, P
  <2>3. ASSUME NEW q \in U PROVE \E c \in C : q \in P[c]
    <3>1. PICK k \in K(C) : \E n \in 1..(tries[k].total) : q = <<k, n>>
      BY <2>1
    <3>2. PICK c \in C : k \in K({c})
      BY <1>5
    <3>3. q \in P[c]
      BY <2>2, <3>1, <3>2
    <3>4. QED
      BY <3>3
  <2>4. ASSUME NEW c \in C, NEW q \in P[c] PROVE q \in U
    <3>1. PICK k \in K({c}) : \E n \in 1..(tries[k].total) : q = <<k, n>>
      BY <2>2
    <3>2. k \in K(C)
      BY <1>5
    <3>3. QED
      BY <2>1, <3>1, <3>2
  <2>5. QED
    BY <2>3, <2>4
<1>7. Attempts(Members(C), "total") = Cardinality(U)
  BY <1>3 DEF Attempts
<1>8. DOMAIN f = C
  OBVIOUS
<1> HIDE DEF f, P, U, K
<1>9. Cardinality(U) <= Summed(f)
  BY <1>1, <1>4, <1>6, <1>8, UnionCounted
<1>10. QED
  BY <1>7, <1>9 DEF f

LEMMA DashboardIs == ViewsTyped => DashboardAgrees
<1> SUFFICES ASSUME ViewsTyped, NEW u \in Person
             PROVE  /\ Dashboard(u).learners = Summed([c \in ClassesOf(u) |-> ClassRow(c).learners])
                    /\ Dashboard(u).attempts = AttemptsShown(u, ClassesOf(u), Title)
                    /\ Dashboard(u).attempts <= Summed([c \in ClassesOf(u) |-> ClassRow(c).attempts])
                    /\ Dashboard(u).activePackages =
                         Cardinality({p \in OwnPackages(u) : state[p].isPublished})
                    /\ \A p \in Title : AttemptsShown(u, ClassesOf(u), {p}) <= AttemptsCount(p)
  BY DEF DashboardAgrees
<1> DEFINE C == ClassesOf(u)
<1>1. C \subseteq Class
  BY DEF ClassesOf
<1>2. /\ Dashboard(u).learners = Cardinality({e \in roster : e[1] \in C})
      /\ Dashboard(u).attempts = Attempts(Members(C), "total")
      /\ Dashboard(u).activePackages = Cardinality(Active(u))
  BY DEF Dashboard
<1> HIDE DEF C
<1>3. {s \in Segment : PackageOf[s] \in Title} = Segment
  BY ViewsAssumption
<1>4. Attempts(Members(C), "total") = AttemptsShown(u, C, Title)
  BY <1>3 DEF Attempts, AttemptsShown
<1>5. Active(u) = {p \in OwnPackages(u) : state[p].isPublished}
  BY DEF Active, OwnPackages
<1>6. ASSUME NEW p \in Title PROVE AttemptsShown(u, C, {p}) <= AttemptsCount(p)
  <2> DEFINE K == Members(C) \X {s \in Segment : PackageOf[s] \in {p}}
             M == Student \X {s \in Segment : PackageOf[s] = p}
  <2>1. K \subseteq M /\ M \subseteq Student \X Segment
    BY DEF Members
  <2> HIDE DEF K, M
  <2>2. Total("total", K) <= Total("total", M)
    BY <2>1, TotalGrows
  <2>3. QED
    BY <2>2 DEF AttemptsShown, AttemptsCount, K, M
<1>7. QED
  BY <1>1, <1>2, <1>4, <1>5, <1>6, LearnersAdd, AttemptsAdd DEF C

LEMMA ListedIs == ListedOpens
<1> SUFFICES ASSUME NEW u \in Person
             PROVE  /\ \A p \in GetAllPackages(u) : GetPackage(u, p)
                    /\ \A c \in ClassesOf(u) : \A p \in AssignedOf(u, {c}) :
                         state[p].status = "published" =>
                           \A l \in Members({c}) : p \in GetMyAssignments(l)
  BY DEF ListedOpens
<1>1. \A p \in GetAllPackages(u) : GetPackage(u, p)
  BY DEF GetAllPackages, GetPackage
<1>2. ASSUME NEW c \in ClassesOf(u), NEW p \in AssignedOf(u, {c}), state[p].status = "published",
             NEW l \in Members({c})
      PROVE  p \in GetMyAssignments(l)
  <2>1. c \in Class /\ <<c, l>> \in roster
    BY DEF ClassesOf, Members
  <2>2. c \in state[p].classes /\ p \in OnShelf
    BY DEF AssignedOf
  <2>3. QED
    BY <1>2, <2>1, <2>2 DEF GetMyAssignments
<1>3. QED
  BY <1>1, <1>2

-------------------------------------------------------------------------------
(* The pages of a list of packages. *)

(* No two packages were saved at once, and the last saved is the last.     *)
Apart ==
  /\ \A p, q \in OnShelf : updatedAt[p] = updatedAt[q] => p = q
  /\ \A p \in Title : updatedAt[p] <= Cardinality(OnShelf)

LEMMA ShelfFinite == IsFiniteSet(OnShelf) /\ Cardinality(OnShelf) \in Nat
<1>1. OnShelf \in SUBSET Title
  BY DEF OnShelf
<1>2. QED
  BY <1>1, ViewsAssumption, FS_Subset, FS_CardinalityType

LEMMA PositionIs ==
  ASSUME ViewsTyped, Apart, NEW P, P \subseteq OnShelf
  PROVE  /\ IsFiniteSet(P) /\ Cardinality(P) \in Nat
         /\ \A p \in P : Position(p, P) \in 1..Cardinality(P)
         /\ \A p, q \in P : Position(p, P) = Position(q, P) => p = q
         /\ \A k \in 1..Cardinality(P) : \E p \in P : Position(p, P) = k
<1> DEFINE n == Cardinality(P)
           f == [p \in P |-> Position(p, P)]
           Above(p) == {q \in P : updatedAt[q] >= updatedAt[p]}
<1>1. IsFiniteSet(P) /\ n \in Nat
  BY ShelfFinite, FS_Subset, FS_CardinalityType
<1>2. \A p \in P : p \in Title /\ updatedAt[p] \in Nat
  BY DEF ViewsTyped, OnShelf
<1>3. \A p \in P : Above(p) \in SUBSET P /\ p \in Above(p) /\ Position(p, P) = Cardinality(Above(p))
  BY <1>2 DEF Position
<1>4. \A p, q \in P : updatedAt[p] < updatedAt[q] => Above(q) \in SUBSET Above(p) /\ p \notin Above(q)
  <2> SUFFICES ASSUME NEW p \in P, NEW q \in P, updatedAt[p] < updatedAt[q]
               PROVE  Above(q) \in SUBSET Above(p) /\ p \notin Above(q)
    OBVIOUS
  <2>1. \A a, b, c \in Nat : a < b /\ c >= b => c >= a
    OBVIOUS
  <2>2. \A r \in P : updatedAt[r] >= updatedAt[q] => updatedAt[r] >= updatedAt[p]
    BY <1>2, <2>1
  <2>3. ~(updatedAt[p] >= updatedAt[q])
    BY <1>2
  <2>4. QED
    BY <2>2, <2>3
<1> HIDE DEF Above
<1>5. \A p \in P : IsFiniteSet(Above(p)) /\ Cardinality(Above(p)) \in 1..n
  <2> SUFFICES ASSUME NEW p \in P
               PROVE  IsFiniteSet(Above(p)) /\ Cardinality(Above(p)) \in 1..n
    OBVIOUS
  <2>1. IsFiniteSet(Above(p)) /\ Cardinality(Above(p)) <= n
    BY <1>1, <1>3, FS_Subset
  <2>2. Cardinality(Above(p)) \in Nat /\ Cardinality(Above(p)) # 0
    BY <1>3, <2>1, FS_CardinalityType, FS_EmptySet
  <2>3. QED
    BY <1>1, <2>1, <2>2
<1>6. ASSUME NEW p \in P, NEW q \in P, updatedAt[p] < updatedAt[q]
      PROVE  Position(p, P) # Position(q, P)
  <2>1. Above(q) # Above(p)
    BY <1>3, <1>4, <1>6
  <2>2. Above(q) \in SUBSET Above(p)
    BY <1>4, <1>6
  <2>3. Cardinality(Above(q)) # Cardinality(Above(p))
    BY <1>5, <2>1, <2>2, FS_Subset
  <2>4. QED
    BY <1>3, <2>3
<1>7. ASSUME NEW p \in P, NEW q \in P, Position(p, P) = Position(q, P)
      PROVE  p = q
  <2>1. ~(updatedAt[p] < updatedAt[q]) /\ ~(updatedAt[q] < updatedAt[p])
    BY <1>6, <1>7
  <2>2. updatedAt[p] = updatedAt[q]
    BY <1>2, <2>1
  <2>3. QED
    BY <2>2 DEF Apart
<1>8. \A p \in P : Position(p, P) \in 1..n
  BY <1>3, <1>5
<1>9. f \in Injection(P, 1..n)
  BY <1>7, <1>8 DEF Injection, IsInjective
<1> HIDE DEF f
<1>10. IsFiniteSet(1..n) /\ Cardinality(1..n) = n
  BY <1>1, FS_Interval
<1>11. f \in Surjection(P, 1..n)
  BY <1>9, <1>10, FS_Injection
<1>12. \A k \in 1..n : \E p \in P : f[p] = k
  BY <1>11, Zenon DEF Surjection
<1>13. \A k \in 1..n : \E p \in P : Position(p, P) = k
  BY <1>12 DEF f
<1>14. QED
  BY <1>1, <1>7, <1>8, <1>13

LEMMA ListedHolds ==
  ASSUME ViewsTyped, Apart, NEW P, P \subseteq OnShelf
  PROVE  /\ Listed(P) \in Seq(P) /\ Len(Listed(P)) = Cardinality(P)
         /\ \A p \in P : Listed(P)[Position(p, P)] = p
<1> DEFINE n == Cardinality(P)
<1>1. /\ n \in Nat
      /\ \A p \in P : Position(p, P) \in 1..n
      /\ \A p, q \in P : Position(p, P) = Position(q, P) => p = q
      /\ \A k \in 1..n : \E p \in P : Position(p, P) = k
  BY PositionIs
<1>2. \A k \in 1..n : Listed(P)[k] \in P /\ Position(Listed(P)[k], P) = k
  BY <1>1 DEF Listed
<1>3. Listed(P) \in [1..n -> P]
  BY <1>2 DEF Listed
<1>4. Listed(P) \in Seq(P) /\ Len(Listed(P)) = n
  BY <1>1, <1>3
<1>5. \A p \in P : Listed(P)[Position(p, P)] = p
  BY <1>1, <1>2
<1>6. QED
  BY <1>4, <1>5

(* A page shows the positions that are on it, and nothing else.            *)
LEMMA PageOfShows ==
  ASSUME NEW P, NEW s \in Seq(P), NEW page \in Nat \ {0}
  PROVE  /\ Range(PageOf(s, page)) \subseteq P
         /\ \A k \in 1..Len(s) :
              k > (page - 1) * PageSize /\ k <= page * PageSize => s[k] \in Range(PageOf(s, page))
<1> DEFINE low == (page - 1) * PageSize
           high == page * PageSize
           top == IF low + PageSize < Len(s) THEN low + PageSize ELSE Len(s)
           t == SubSeq(s, low + 1, top)
<1>1. PageSize \in Nat /\ Len(s) \in Nat /\ page \in Nat /\ page - 1 \in Nat
  BY ViewsAssumption
<1>2. low \in Nat /\ high = low + PageSize
  BY <1>1
<1>3. PageOf(s, page) = t
  BY DEF PageOf, Skipped
<1> HIDE DEF low, high
<1>4. top \in Nat /\ top <= Len(s) /\ (\A k \in 1..Len(s) : k <= high => k <= top)
  BY <1>1, <1>2
<1> HIDE DEF top
<1>5. t \in Seq(P)
  BY <1>1, <1>2, <1>4
<1>6. Range(t) \subseteq P
  BY <1>5 DEF Range
<1>7. ASSUME NEW k \in 1..Len(s), k > low, k <= high
      PROVE  s[k] \in Range(t)
  <2>1. k <= top
    BY <1>4, <1>7
  <2>2. k - low \in 1..(top - low) /\ low + 1 + (k - low) - 1 = k /\ low <= top
    BY <1>1, <1>2, <1>4, <1>7, <2>1
  <2>3. DOMAIN t = 1..(top - low) /\ (\A j \in 1..(top - low) : t[j] = s[low + 1 + j - 1])
    BY <1>1, <1>2, <1>4, <2>2
  <2> HIDE DEF t
  <2>4. QED
    BY <2>2, <2>3 DEF Range
<1> HIDE DEF t
<1>8. QED
  BY <1>3, <1>6, <1>7 DEF low, high

(* What is owed and was not shown has its position beyond the pages read.  *)
Served(u) ==
  /\ reader.who = {u}
  /\ reader.owed \subseteq OwnPackages(u)
  /\ \A p \in reader.owed \ reader.shown :
       Position(p, OwnPackages(u)) > reader.page * PageSize
  /\ PagesCover

ViewsInv ==
  ViewsTyped /\ Apart /\ (reader.owed = {} \/ \E u \in Person : Served(u))

(* Taking a package out keeps the order of the others. *)
LEMMA WithoutIs ==
  ASSUME ViewsTyped, Apart, NEW p \in OnShelf
  PROVE  /\ Without(p) \in [Title -> Nat]
         /\ p \in Title /\ Without(p)[p] = 0 /\ Cardinality(OnShelf) > 0
         /\ \A q \in Title : q # p => /\ Without(p)[q] > 0 <=> updatedAt[q] > 0
                                     /\ Without(p)[q] < Cardinality(OnShelf)
         /\ \A q, r \in OnShelf : q # p /\ r # p =>
              (Without(p)[q] >= Without(p)[r] <=> updatedAt[q] >= updatedAt[r])
<1> DEFINE n == Cardinality(OnShelf)
           W == Without(p)
<1>1. p \in Title /\ updatedAt[p] > 0 /\ (\A q \in Title : updatedAt[q] \in Nat)
  BY DEF OnShelf, ViewsTyped
<1>2. n \in Nat /\ (\A q \in Title : updatedAt[q] <= n)
  BY ShelfFinite DEF Apart
<1>3. \A q \in Title : q # p => updatedAt[q] # updatedAt[p]
  BY <1>1 DEF Apart, OnShelf
<1>4. \A q \in Title : W[q] = IF q = p THEN 0
                             ELSE IF updatedAt[q] > updatedAt[p] THEN updatedAt[q] - 1
                             ELSE updatedAt[q]
  BY DEF Without
<1>5. W \in [Title -> Nat]
  BY <1>1 DEF Without
<1>6. \A q \in OnShelf : q \in Title
  BY DEF OnShelf
<1> HIDE DEF n, W
<1>7. \A q \in Title : q # p => (W[q] > 0 <=> updatedAt[q] > 0) /\ W[q] < n
  BY <1>1, <1>2, <1>3, <1>4
<1>8. \A q, r \in Title : q # p /\ r # p =>
        (W[q] >= W[r] <=> updatedAt[q] >= updatedAt[r])
  BY <1>1, <1>3, <1>4
<1>9. n > 0
  BY <1>1, <1>2
<1>10. QED
  BY <1>1, <1>4, <1>5, <1>6, <1>7, <1>8, <1>9 DEF n, W

LEMMA SavedKeeps ==
  ASSUME ViewsTyped, Apart, NEW p, NEW new, Saved(p, new)
  PROVE  /\ updatedAt' \in [Title -> Nat] /\ Apart' /\ OnShelf' = OnShelf
         /\ \A q, r \in OnShelf : q # p /\ updatedAt[r] >= updatedAt[q] => updatedAt'[r] >= updatedAt'[q]
<1> DEFINE n == Cardinality(OnShelf)
           W == Without(p)
<1>1. p \in OnShelf /\ updatedAt' = [W EXCEPT ![p] = n]
  BY DEF Saved
<1>2. /\ W \in [Title -> Nat] /\ p \in Title /\ n > 0
      /\ \A q \in Title : q # p => (W[q] > 0 <=> updatedAt[q] > 0) /\ W[q] < n
      /\ \A q, r \in OnShelf : q # p /\ r # p =>
           (W[q] >= W[r] <=> updatedAt[q] >= updatedAt[r])
  BY <1>1, WithoutIs
<1>3. n \in Nat
  BY ShelfFinite
<1>4. \A q \in OnShelf : q \in Title /\ updatedAt[q] \in Nat
  BY DEF OnShelf, ViewsTyped
<1>5. \A p1, p2 \in OnShelf : updatedAt[p1] = updatedAt[p2] => p1 = p2
  BY DEF Apart
<1> HIDE DEF n, W
<1>6. updatedAt' \in [Title -> Nat] /\ updatedAt'[p] = n /\ (\A q \in Title : q # p => updatedAt'[q] = W[q])
  BY <1>1, <1>2, <1>3
<1>7. OnShelf' = OnShelf
  <2>1. \A q \in Title : updatedAt'[q] > 0 <=> updatedAt[q] > 0
    <3>1. updatedAt[p] > 0
      BY <1>1 DEF OnShelf
    <3>2. QED
      BY <1>2, <1>6, <3>1
  <2>2. QED
    BY <2>1 DEF OnShelf
<1>8. ASSUME NEW q \in OnShelf, NEW r \in OnShelf, q # p, updatedAt[r] >= updatedAt[q]
      PROVE  updatedAt'[r] >= updatedAt'[q]
  <2>1. CASE r = p
    BY <1>2, <1>3, <1>4, <1>6, <1>8, <2>1
  <2>2. CASE r # p
    BY <1>2, <1>4, <1>6, <1>8, <2>2
  <2>3. QED
    BY <2>1, <2>2
<1>9. \A q \in Title : updatedAt'[q] <= n
  BY <1>2, <1>3, <1>6
<1>10. ASSUME NEW q \in OnShelf, NEW r \in OnShelf, updatedAt'[q] = updatedAt'[r]
       PROVE  q = r
  <2>1. CASE q = p \/ r = p
    BY <1>2, <1>3, <1>4, <1>6, <1>10, <2>1
  <2>2. CASE q # p /\ r # p
    <3>1. W[q] = W[r] /\ W[q] \in Nat /\ W[r] \in Nat
      BY <1>2, <1>4, <1>6, <1>10, <2>2
    <3>2. updatedAt[q] >= updatedAt[r] /\ updatedAt[r] >= updatedAt[q]
      BY <1>2, <2>2, <3>1
    <3>3. updatedAt[q] = updatedAt[r]
      BY <1>4, <3>2
    <3>4. QED
      BY <1>5, <3>3
  <2>3. QED
    BY <2>1, <2>2
<1>11. Apart'
  BY <1>7, <1>9, <1>10 DEF Apart, n
<1>12. QED
  BY <1>6, <1>7, <1>8, <1>11

LEMMA UploadKeeps ==
  ASSUME ViewsTyped, Apart, NEW p \in Title, UploadPackage(p)
  PROVE  /\ updatedAt' \in [Title -> Nat] /\ Apart' /\ OnShelf \subseteq OnShelf'
         /\ \A q \in OnShelf : updatedAt'[q] = updatedAt[q]
<1> DEFINE n == Cardinality(OnShelf)
<1>1. p \notin OnShelf /\ updatedAt' = [updatedAt EXCEPT ![p] = n + 1]
  BY DEF UploadPackage
<1>2. n \in Nat /\ (\A q \in Title : updatedAt[q] \in Nat /\ updatedAt[q] <= n)
  BY ShelfFinite DEF Apart, ViewsTyped
<1>3. updatedAt' \in [Title -> Nat] /\ updatedAt'[p] = n + 1
      /\ (\A q \in Title : q # p => updatedAt'[q] = updatedAt[q])
  BY <1>1, <1>2 DEF ViewsTyped
<1>4. OnShelf' = OnShelf \cup {p}
  BY <1>2, <1>3 DEF OnShelf
<1>5. Cardinality(OnShelf') = n + 1
  BY <1>1, <1>4, ShelfFinite, FS_AddElement
<1>6. \A q \in Title : updatedAt'[q] <= n + 1
  BY <1>2, <1>3
<1>7. ASSUME NEW q \in OnShelf', NEW r \in OnShelf', updatedAt'[q] = updatedAt'[r]
      PROVE  q = r
  <2>1. q \in Title /\ r \in Title /\ (q = p \/ q \in OnShelf) /\ (r = p \/ r \in OnShelf)
    BY <1>4 DEF OnShelf
  <2>2. CASE q = p \/ r = p
    BY <1>2, <1>3, <1>7, <2>1, <2>2
  <2>3. CASE q # p /\ r # p
    BY <1>3, <1>7, <2>1, <2>3 DEF Apart
  <2>4. QED
    BY <2>2, <2>3
<1>8. Apart'
  BY <1>5, <1>6, <1>7 DEF Apart
<1>9. \A q \in OnShelf : q \in Title
  BY DEF OnShelf
<1>10. QED
  BY <1>1, <1>3, <1>4, <1>8, <1>9

LEMMA RemoveKeeps ==
  ASSUME ViewsTyped, Apart, NEW p, RemovePackage(p)
  PROVE  updatedAt' \in [Title -> Nat] /\ Apart'
<1> DEFINE n == Cardinality(OnShelf)
<1>1. p \in OnShelf /\ updatedAt' = Without(p)
  BY DEF RemovePackage
<1>2. /\ updatedAt' \in [Title -> Nat] /\ p \in Title /\ updatedAt'[p] = 0 /\ n > 0
      /\ \A q \in Title : q # p => (updatedAt'[q] > 0 <=> updatedAt[q] > 0) /\ updatedAt'[q] < n
      /\ \A q, r \in OnShelf : q # p /\ r # p =>
           (updatedAt'[q] >= updatedAt'[r] <=> updatedAt[q] >= updatedAt[r])
  BY <1>1, WithoutIs
<1>3. OnShelf' = OnShelf \ {p}
  BY <1>2 DEF OnShelf
<1>4. n \in Nat /\ Cardinality(OnShelf') = n - 1
  BY <1>1, <1>3, ShelfFinite, FS_RemoveElement
<1>5. \A q \in Title : updatedAt'[q] <= n - 1
  BY <1>2, <1>4
<1>6. ASSUME NEW q \in OnShelf', NEW r \in OnShelf', updatedAt'[q] = updatedAt'[r]
      PROVE  q = r
  <2>1. /\ q \in OnShelf /\ r \in OnShelf /\ q # p /\ r # p
        /\ q \in Title /\ r \in Title
    BY <1>3 DEF OnShelf
  <2>2. updatedAt[q] \in Nat /\ updatedAt[r] \in Nat
        /\ updatedAt'[q] \in Nat /\ updatedAt'[r] \in Nat
    BY <1>2, <2>1 DEF ViewsTyped
  <2>3. updatedAt[q] >= updatedAt[r] /\ updatedAt[r] >= updatedAt[q]
    BY <1>2, <1>6, <2>1, <2>2
  <2>4. updatedAt[q] = updatedAt[r]
    BY <2>2, <2>3
  <2>5. QED
    BY <2>1, <2>4 DEF Apart
<1>7. QED
  BY <1>2, <1>4, <1>5, <1>6 DEF Apart

(* Whatever leaves the reader at the page and lets positions only grow. *)
LEMMA PagesKept ==
  ASSUME ViewsTyped, ViewsTyped', NEW u \in Person, Served(u),
         reader' = [reader EXCEPT !.owed = reader'.owed], reader'.owed \subseteq reader.owed,
         OwnPackages(u) \subseteq OwnPackages(u)',
         \A q \in reader'.owed : \A r \in OwnPackages(u) :
            updatedAt[r] >= updatedAt[q] => updatedAt'[r] >= updatedAt'[q]
  PROVE  Served(u)'
<1> DEFINE P == OwnPackages(u)
           Q == OwnPackages(u)'
           m == reader.page * PageSize
<1>1. /\ reader'.who = reader.who /\ reader'.page = reader.page
      /\ reader'.shown = reader.shown /\ reader'.over = reader.over
  BY DEF ViewsTyped, Reader
<1>2. /\ reader.who = {u} /\ reader.owed \subseteq P /\ PagesCover
      /\ \A p \in reader.owed \ reader.shown : Position(p, P) > m
  BY DEF Served
<1>3. m \in Nat
  BY ViewsAssumption DEF ViewsTyped, Reader
<1>4. IsFiniteSet(P)
  <2>1. P \in SUBSET OnShelf
    BY DEF OwnPackages
  <2>2. QED
    BY <2>1, ShelfFinite, FS_Subset
<1>5. IsFiniteSet(Q)
  <2>1. Q \in SUBSET Title
    BY DEF OwnPackages, OnShelf
  <2>2. QED
    BY <2>1, ViewsAssumption, FS_Subset
<1>6. ASSUME NEW q \in reader'.owed \ reader.shown
      PROVE  Position(q, OwnPackages(u))' > m
  <2> DEFINE U == {r \in P : updatedAt[r] >= updatedAt[q]}
             V == {r \in Q : updatedAt'[r] >= updatedAt'[q]}
  <2>1. U \in SUBSET V /\ V \in SUBSET Q /\ U \in SUBSET P
    OBVIOUS
  <2>2. Position(q, P) = Cardinality(U) /\ Position(q, OwnPackages(u))' = Cardinality(V)
    BY DEF Position
  <2>3. Position(q, P) > m
    BY <1>2
  <2> HIDE DEF U, V, P, Q, m
  <2>4. IsFiniteSet(V) /\ IsFiniteSet(U)
    BY <1>4, <1>5, <2>1, FS_Subset
  <2>5. Cardinality(U) <= Cardinality(V) /\ Cardinality(U) \in Nat /\ Cardinality(V) \in Nat
    BY <2>1, <2>4, FS_Subset, FS_CardinalityType
  <2>6. QED
    BY <1>3, <2>2, <2>3, <2>5
<1>7. reader'.owed \subseteq Q
  BY <1>2
<1>8. PagesCover'
  BY <1>1, <1>2 DEF PagesCover
<1>9. QED
  BY <1>1, <1>2, <1>6, <1>7, <1>8 DEF Served

LEMMA OwnIs ==
  ASSUME NEW u
  PROVE  OwnPackages(u) \subseteq OnShelf /\ OwnPackages(u) \subseteq Title
BY DEF OwnPackages, OnShelf

(* A page read shows what is owed up to it. *)
LEMMA ReadServes ==
  ASSUME ViewsTyped, Apart, NEW u \in Person, Served(u), ReadPackages(u)
  PROVE  Served(u)'
<1> DEFINE P == OwnPackages(u)
           page == reader.page + 1
           list == Listed(P)
           shows == Range(PageOf(list, page))
           m == page * PageSize
<1>1. P \subseteq OnShelf
  BY OwnIs
<1>2. /\ P = OwnPackages(u)'
      /\ UNCHANGED <<updatedAt, state, roster, tries>>
      /\ reader' = [reader EXCEPT !.page = page, !.shown = @ \cup shows,
                                  !.over = m >= Cardinality(P)]
  BY DEF ReadPackages, ListPackages, OwnPackages, OnShelf
<1>3. /\ reader.who = {u} /\ reader.owed \subseteq P
      /\ \A p \in reader.owed \ reader.shown : Position(p, P) > reader.page * PageSize
  BY DEF Served
<1>4. page \in Nat \ {0} /\ reader.page = page - 1
  BY DEF ViewsTyped, Reader
<1> HIDE DEF page
<1>5. m \in Nat
  BY <1>4, ViewsAssumption
<1>6. /\ reader'.who = reader.who /\ reader'.page = page /\ reader'.owed = reader.owed
      /\ reader'.shown = reader.shown \cup shows /\ (reader'.over <=> m >= Cardinality(P))
  BY <1>2 DEF ViewsTyped, Reader
<1>7. /\ list \in Seq(P) /\ Len(list) = Cardinality(P) /\ Cardinality(P) \in Nat
      /\ \A p \in P : Position(p, P) \in 1..Len(list) /\ list[Position(p, P)] = p
  BY <1>1, PositionIs, ListedHolds
<1> HIDE DEF list, P
<1>8. \A k \in 1..Len(list) : k > (page - 1) * PageSize /\ k <= m => list[k] \in shows
  BY <1>4, <1>7, PageOfShows
<1> HIDE DEF m, shows
<1>9. ASSUME NEW p \in reader.owed \ reader'.shown
      PROVE  Position(p, P) > m
  <2>1. p \in P /\ p \notin shows /\ Position(p, P) > (page - 1) * PageSize
    BY <1>3, <1>4, <1>6
  <2> DEFINE k == Position(p, P)
  <2>2. k \in 1..Len(list) /\ list[k] = p
    BY <1>7, <2>1
  <2>3. k \in Nat
    BY <1>7, <2>2
  <2>4. k > (page - 1) * PageSize
    BY <2>1
  <2> HIDE DEF k
  <2>5. ~(k <= m)
    BY <1>8, <2>1, <2>2, <2>4
  <2>6. k > m
    BY <1>5, <2>3, <2>5
  <2>7. QED
    BY <2>6 DEF k
<1>10. m >= Cardinality(P) => reader.owed \subseteq reader'.shown
  <2> SUFFICES ASSUME m >= Cardinality(P), NEW p \in reader.owed, p \notin reader'.shown PROVE FALSE
    OBVIOUS
  <2>1. Position(p, P) > m /\ Position(p, P) \in 1..Cardinality(P)
    BY <1>3, <1>7, <1>9
  <2>2. QED
    BY <1>5, <1>7, <2>1
<1>11. PagesCover'
  BY <1>6, <1>10 DEF PagesCover
<1>12. \A p : Position(p, OwnPackages(u))' = Position(p, P)
  BY <1>2 DEF Position, P
<1>13. reader'.page * PageSize = m
  BY <1>6 DEF m
<1>14. QED
  BY <1>2, <1>3, <1>6, <1>9, <1>11, <1>12, <1>13 DEF Served, P

LEMMA ViewsInvInit == ShelfInit => ViewsInv
<1> SUFFICES ASSUME ShelfInit PROVE ViewsInv
  OBVIOUS
<1>1. OnShelf = {}
  BY DEF ShelfInit, OnShelf
<1>2. ViewsTyped
  BY DEF ShelfInit, ViewsTyped, Draft, Untried, Nobody, PackageState, Count, Reader
<1>3. Cardinality(OnShelf) = 0
  BY <1>1, FS_EmptySet
<1>4. Apart
  BY <1>1, <1>3 DEF ShelfInit, Apart
<1>5. reader.owed = {}
  BY DEF ShelfInit, Nobody
<1>6. QED
  BY <1>2, <1>4, <1>5 DEF ViewsInv

(* Saves of every kind. *)
LEMMA SaveInv ==
  ASSUME ViewsInv, NEW p, NEW new \in PackageState, Saved(p, new)
  PROVE  ViewsInv'
<1>1. ViewsTyped /\ Apart /\ (reader.owed = {} \/ \E u \in Person : Served(u))
  BY DEF ViewsInv
<1>2. /\ updatedAt' \in [Title -> Nat] /\ Apart' /\ OnShelf' = OnShelf
      /\ \A q, r \in OnShelf : q # p /\ updatedAt[r] >= updatedAt[q] => updatedAt'[r] >= updatedAt'[q]
  BY <1>1, SavedKeeps
<1>3. /\ p \in Title /\ state' = [state EXCEPT ![p] = new]
      /\ reader' = [reader EXCEPT !.owed = @ \ {p}] /\ UNCHANGED <<roster, tries>>
  BY DEF Saved, OnShelf
<1>4. reader' \in Reader /\ reader'.owed = reader.owed \ {p}
      /\ reader' = [reader EXCEPT !.owed = reader'.owed]
  BY <1>1, <1>3 DEF ViewsTyped, Reader
<1>5. ViewsTyped'
  BY <1>1, <1>2, <1>3, <1>4 DEF ViewsTyped
<1>6. CASE reader.owed = {}
  BY <1>2, <1>4, <1>5, <1>6 DEF ViewsInv
<1>7. ASSUME NEW u \in Person, Served(u) PROVE ViewsInv'
  <2>1. OwnPackages(u) = OwnPackages(u)' /\ OwnPackages(u) \subseteq OnShelf
    BY <1>2 DEF OwnPackages
  <2>2. reader.owed \subseteq OwnPackages(u)
    BY <1>7 DEF Served
  <2>3. \A q \in reader'.owed : \A r \in OwnPackages(u) :
          updatedAt[r] >= updatedAt[q] => updatedAt'[r] >= updatedAt'[q]
    BY <1>2, <1>4, <2>1, <2>2
  <2>4. Served(u)'
    BY <1>1, <1>4, <1>5, <1>7, <2>1, <2>3, PagesKept
  <2>5. QED
    BY <1>2, <1>5, <2>4 DEF ViewsInv
<1>8. QED
  BY <1>1, <1>6, <1>7

(* Whatever leaves the packages and the reader alone. *)
LEMMA AsideInv ==
  ASSUME ViewsInv, ViewsTyped', UNCHANGED <<updatedAt, state, reader>>
  PROVE  ViewsInv'
<1>1. OnShelf' = OnShelf /\ (\A u : OwnPackages(u)' = OwnPackages(u))
  BY DEF OnShelf, OwnPackages
<1>2. Apart'
  BY <1>1 DEF ViewsInv, Apart
<1>3. \A u : Served(u)' <=> Served(u)
  <2>1. \A u, p : Position(p, OwnPackages(u))' = Position(p, OwnPackages(u))
    BY <1>1 DEF Position
  <2>2. QED
    BY <1>1, <2>1 DEF Served, PagesCover
<1>4. QED
  BY <1>2, <1>3 DEF ViewsInv

LEMMA UploadInv ==
  ASSUME ViewsInv, NEW p \in Title, UploadPackage(p)
  PROVE  ViewsInv'
<1>1. ViewsTyped /\ Apart /\ (reader.owed = {} \/ \E u \in Person : Served(u))
  BY DEF ViewsInv
<1>2. /\ updatedAt' \in [Title -> Nat] /\ Apart' /\ OnShelf \subseteq OnShelf'
      /\ \A q \in OnShelf : updatedAt'[q] = updatedAt[q]
  BY <1>1, UploadKeeps
<1>3. state' = [state EXCEPT ![p] = Draft] /\ UNCHANGED <<roster, tries, reader>>
  BY DEF UploadPackage
<1>4. Draft \in PackageState
  BY DEF Draft, PackageState
<1>5. ViewsTyped'
  BY <1>1, <1>2, <1>3, <1>4 DEF ViewsTyped
<1>6. CASE reader.owed = {}
  BY <1>2, <1>3, <1>5, <1>6 DEF ViewsInv
<1>7. ASSUME NEW u \in Person, Served(u) PROVE ViewsInv'
  <2>1. OwnPackages(u) \subseteq OwnPackages(u)' /\ OwnPackages(u) \subseteq OnShelf
    BY <1>2 DEF OwnPackages
  <2>2. reader.owed \subseteq OwnPackages(u)
    BY <1>7 DEF Served
  <2>3. \A q \in reader'.owed : \A r \in OwnPackages(u) :
          updatedAt[r] >= updatedAt[q] => updatedAt'[r] >= updatedAt'[q]
    BY <1>2, <1>3, <2>1, <2>2
  <2>4. reader' = [reader EXCEPT !.owed = reader'.owed] /\ reader'.owed \subseteq reader.owed
    BY <1>1, <1>3 DEF ViewsTyped, Reader
  <2>5. Served(u)'
    BY <1>1, <1>5, <1>7, <2>1, <2>3, <2>4, PagesKept
  <2>6. QED
    BY <1>2, <1>5, <2>5 DEF ViewsInv
<1>8. QED
  BY <1>1, <1>6, <1>7

LEMMA RemoveInv ==
  ASSUME ViewsInv, NEW p, RemovePackage(p)
  PROVE  ViewsInv'
<1>1. ViewsTyped /\ Apart
  BY DEF ViewsInv
<1>2. updatedAt' \in [Title -> Nat] /\ Apart'
  BY <1>1, RemoveKeeps
<1>3. reader' = [reader EXCEPT !.owed = {}] /\ UNCHANGED <<state, roster, tries>>
  BY DEF RemovePackage
<1>4. reader' \in Reader /\ reader'.owed = {}
  BY <1>1, <1>3 DEF ViewsTyped, Reader
<1>5. QED
  BY <1>1, <1>2, <1>3, <1>4 DEF ViewsInv, ViewsTyped

LEMMA StartInv ==
  ASSUME ViewsInv, NEW u \in Person, StartReading(u)
  PROVE  ViewsInv'
<1>1. ViewsTyped /\ Apart
  BY DEF ViewsInv
<1>2. /\ UNCHANGED <<updatedAt, state, roster, tries>>
      /\ reader'.who = {u} /\ reader'.page = 0 /\ reader'.shown = {} /\ reader'.over = FALSE
      /\ reader'.owed = OwnPackages(u) /\ reader' \in Reader
  <2>1. OwnPackages(u) \subseteq Title
    BY OwnIs
  <2>2. QED
    BY <2>1 DEF StartReading, Nobody, Reader
<1>3. ViewsTyped'
  BY <1>1, <1>2 DEF ViewsTyped
<1>4. OnShelf' = OnShelf /\ OwnPackages(u)' = OwnPackages(u)
  BY <1>2 DEF OnShelf, OwnPackages
<1>5. Apart'
  BY <1>1, <1>2, <1>4 DEF Apart
<1>6. \A p \in OwnPackages(u) : Position(p, OwnPackages(u)) > 0
  <2> DEFINE P == OwnPackages(u)
  <2>1. P \subseteq OnShelf
    BY OwnIs
  <2> HIDE DEF P
  <2>2. Cardinality(P) \in Nat /\ \A p \in P : Position(p, P) \in 1..Cardinality(P)
    BY <1>1, <2>1, PositionIs
  <2>3. \A p \in P : Position(p, P) > 0
    BY <2>2
  <2>4. QED
    BY <2>3 DEF P
<1>7. \A p : Position(p, OwnPackages(u))' = Position(p, OwnPackages(u))
  BY <1>2, <1>4 DEF Position
<1>8. reader'.page * PageSize = 0
  BY <1>2, ViewsAssumption
<1>9. Served(u)'
  BY <1>2, <1>4, <1>6, <1>7, <1>8 DEF Served, PagesCover
<1>10. QED
  BY <1>3, <1>5, <1>9 DEF ViewsInv

LEMMA ReadInv ==
  ASSUME ViewsInv, NEW u \in Person, ReadPackages(u)
  PROVE  ViewsInv'
<1>1. ViewsTyped /\ Apart /\ (reader.owed = {} \/ \E v \in Person : Served(v))
  BY DEF ViewsInv
<1> DEFINE page == reader.page + 1
           shows == Range(ListPackages(u, page))
<1>2. /\ UNCHANGED <<updatedAt, state, roster, tries>> /\ reader.who = {u}
      /\ reader' = [reader EXCEPT !.page = page, !.shown = @ \cup shows,
                        !.over = page * PageSize >= Cardinality(OwnPackages(u))]
  BY DEF ReadPackages
<1>3. page \in Nat \ {0}
  BY <1>1 DEF ViewsTyped, Reader
<1>4. shows \subseteq Title
  <2> DEFINE P == OwnPackages(u)
  <2>1. P \subseteq OnShelf /\ P \subseteq Title
    BY OwnIs
  <2> HIDE DEF P, page
  <2>2. Listed(P) \in Seq(P)
    BY <1>1, <2>1, ListedHolds
  <2>3. Range(PageOf(Listed(P), page)) \subseteq P
    BY <1>3, <2>2, PageOfShows
  <2>4. QED
    BY <2>1, <2>3 DEF ListPackages, P
<1>5. reader' \in Reader /\ reader'.owed = reader.owed
  <2>1. (page * PageSize >= Cardinality(OwnPackages(u))) \in BOOLEAN
    OBVIOUS
  <2> DEFINE over == page * PageSize >= Cardinality(OwnPackages(u))
  <2> HIDE DEF page, shows, over
  <2>2. over \in BOOLEAN
    BY <2>1 DEF over
  <2>3. reader' = [reader EXCEPT !.page = page, !.shown = @ \cup shows, !.over = over]
    BY <1>2 DEF over
  <2>4. QED
    BY <1>1, <1>3, <1>4, <2>2, <2>3 DEF ViewsTyped, Reader
<1>6. ViewsTyped'
  BY <1>1, <1>2, <1>5 DEF ViewsTyped
<1>7. Apart'
  BY <1>1, <1>2 DEF Apart, OnShelf
<1>8. CASE reader.owed = {}
  BY <1>5, <1>6, <1>7, <1>8 DEF ViewsInv
<1>9. ASSUME NEW v \in Person, Served(v) PROVE ViewsInv'
  <2>1. v = u
    BY <1>2, <1>9 DEF Served
  <2>2. Served(u)'
    BY <1>1, <1>9, <2>1, ReadServes
  <2>3. QED
    BY <1>6, <1>7, <2>2 DEF ViewsInv
<1>10. QED
  BY <1>1, <1>8, <1>9

LEMMA ViewsInvStep == ViewsInv /\ [ViewsNext]_views => ViewsInv'
<1> SUFFICES ASSUME ViewsInv, [ViewsNext]_views PROVE ViewsInv'
  OBVIOUS
<1>1. ViewsTyped
  BY DEF ViewsInv
<1>2. ASSUME NEW p \in Title, UploadPackage(p) \/ RemovePackage(p) PROVE ViewsInv'
  BY <1>2, UploadInv, RemoveInv
<1>3. ASSUME NEW u \in Person, NEW p \in Title,
             \/ PublishInstructorPackage(u, p) \/ UnpublishInstructorPackage(u, p)
             \/ \E C \in SUBSET Class \ {{}} : AssignInstructorPackage(u, p, C)
             \/ \E b \in BOOLEAN : SetPublished(u, p, b)
      PROVE  ViewsInv'
  <2>1. state[p] \in PackageState
    BY <1>1 DEF ViewsTyped
  <2>2. CASE PublishInstructorPackage(u, p)
    <3>1. [state[p] EXCEPT !.status = "published", !.isPublished = TRUE] \in PackageState
      BY <2>1 DEF PackageState
    <3>2. QED
      BY <2>2, <3>1, SaveInv DEF PublishInstructorPackage, Changed
  <2>3. CASE UnpublishInstructorPackage(u, p)
    <3>1. [state[p] EXCEPT !.status = "draft", !.isPublished = FALSE] \in PackageState
      BY <2>1 DEF PackageState
    <3>2. QED
      BY <2>3, <3>1, SaveInv DEF UnpublishInstructorPackage, Changed
  <2>4. ASSUME NEW C \in SUBSET Class \ {{}}, AssignInstructorPackage(u, p, C) PROVE ViewsInv'
    <3>1. [state[p] EXCEPT !.classes = @ \cup C] \in PackageState
      BY <2>1 DEF PackageState
    <3>2. QED
      BY <2>4, <3>1, SaveInv DEF AssignInstructorPackage
  <2>5. ASSUME NEW b \in BOOLEAN, SetPublished(u, p, b) PROVE ViewsInv'
    <3>1. [state[p] EXCEPT !.isPublished = b] \in PackageState
      BY <2>1 DEF PackageState
    <3>2. QED
      BY <2>5, <3>1, SaveInv DEF SetPublished, Changed
  <2>6. QED
    BY <1>3, <2>2, <2>3, <2>4, <2>5
<1>4. ASSUME NEW c \in Class, NEW l \in Student, EnrollInClass(c, l) PROVE ViewsInv'
  <2>1. ViewsTyped'
    BY <1>1, <1>4 DEF EnrollInClass, ViewsTyped
  <2>2. QED
    BY <1>4, <2>1, AsideInv DEF EnrollInClass
<1>5. ASSUME NEW l \in Student, NEW s \in Segment, Try(l, s) PROVE ViewsInv'
  <2> DEFINE k == <<l, s>>
  <2>1. k \in Student \X Segment /\ tries[k] \in Count
    BY <1>1 DEF ViewsTyped
  <2>2. [tries[k] EXCEPT !.total = @ + 1] \in Count
    BY <2>1 DEF Count
  <2>3. tries' = [tries EXCEPT ![k] = [tries[k] EXCEPT !.total = @ + 1]]
    BY <1>5 DEF Try
  <2>4. UNCHANGED <<updatedAt, state, roster, reader>>
    BY <1>5 DEF Try
  <2> HIDE DEF k
  <2>5. ViewsTyped'
    BY <1>1, <2>1, <2>2, <2>3, <2>4 DEF ViewsTyped
  <2>6. QED
    BY <2>4, <2>5, AsideInv
<1>6. ASSUME NEW l \in Student, NEW s \in Segment, NEW field \in {"completed", "passed"},
             FinishTry(l, s, field)
      PROVE  ViewsInv'
  <2> DEFINE k == <<l, s>>
             done == [tries[k] EXCEPT ![field] = @ + 1]
  <2>1. k \in Student \X Segment /\ tries[k] \in Count
    BY <1>1 DEF ViewsTyped
  <2>2. done \in Count
    <3>1. CASE field = "completed"
      BY <2>1, <3>1 DEF Count
    <3>2. CASE field = "passed"
      BY <2>1, <3>2 DEF Count
    <3>3. QED
      BY <3>1, <3>2
  <2>3. tries' = [tries EXCEPT ![k] = done]
    BY <1>6 DEF FinishTry
  <2>4. UNCHANGED <<updatedAt, state, roster, reader>>
    BY <1>6 DEF FinishTry
  <2> HIDE DEF k, done
  <2>5. ViewsTyped'
    BY <1>1, <2>1, <2>2, <2>3, <2>4 DEF ViewsTyped
  <2>6. QED
    BY <2>4, <2>5, AsideInv
<1>7. ASSUME NEW u \in Person, StartReading(u) \/ ReadPackages(u) PROVE ViewsInv'
  BY <1>7, StartInv, ReadInv
<1>8. CASE UNCHANGED views
  <2>1. UNCHANGED <<updatedAt, state, roster, tries, reader>>
    BY <1>8 DEF views
  <2>2. ViewsTyped'
    BY <1>1, <2>1 DEF ViewsTyped
  <2>3. QED
    BY <2>1, <2>2, AsideInv
<1>9. QED
  BY <1>2, <1>3, <1>4, <1>5, <1>6, <1>7, <1>8 DEF ViewsNext

(* Whatever staff and administrators do with packages, and whatever the    *)
(* learners try: the dashboard agrees with the lists, what is listed opens,*)
(* and who reads to the last page was shown each package that was there    *)
(* when they began and was not saved since, unless one was deleted         *)
(* (instructorPackageCtrl.ts:229-551, scormPackageCtrl.ts:248-393).         *)
THEOREM StaffViewsAgreeCorrect == ViewsSpec => []StaffViewsAgree
<1>1. ViewsInv => StaffViewsAgree
  <2> SUFFICES ASSUME ViewsInv PROVE StaffViewsAgree
    OBVIOUS
  <2>1. ViewsTyped
    BY DEF ViewsInv
  <2>2. PagesCover
    BY DEF ViewsInv, Served, PagesCover
  <2>3. QED
    BY <2>1, <2>2, DashboardIs, ListedIs DEF StaffViewsAgree
<1>2. QED
  BY <1>1, ViewsInvInit, ViewsInvStep, PTL DEF ViewsSpec

-------------------------------------------------------------------------------
(* Sums (ScormScores). *)

LEMMA ByCounting ==
  ASSUME NEW S, 0 \in S, \A n \in Nat : n \in S => n + 1 \in S
  PROVE  \A n \in Nat : n \in S
<1> SUFFICES ASSUME NEW k \in Nat, k \notin S PROVE FALSE
  OBVIOUS
<1> DEFINE T == {n \in Nat : n \notin S}
<1>1. T \subseteq Nat /\ T # {}
  OBVIOUS
<1>2. PICK m \in T : \A n \in T : m <= n
  BY <1>1, LeastOf
<1>3. m \in Nat /\ m # 0
  OBVIOUS
<1>4. m - 1 \in Nat /\ (m - 1) + 1 = m /\ ~(m <= m - 1)
  BY <1>3
<1>5. m - 1 \in S
  BY <1>2, <1>4
<1>6. QED
  BY <1>4, <1>5

LEMMA BiggestOf ==
  ASSUME NEW N \in Nat, NEW S, S \subseteq 0..N, S # {}
  PROVE  Max(S) \in S /\ \A x \in S : x <= Max(S)
<1> DEFINE U == {u \in Nat : \A x \in S : x <= u}
<1>1. N \in U /\ U \subseteq Nat /\ U # {}
  OBVIOUS
<1>2. PICK m \in U : \A u \in U : m <= u
  BY <1>1, LeastOf
<1>3. m \in Nat /\ \A x \in S : x \in Nat /\ x <= m
  OBVIOUS
<1>4. m \in S
  <2> SUFFICES ASSUME m \notin S PROVE FALSE
    OBVIOUS
  <2>1. \A x \in S : x <= m - 1
    BY <1>3
  <2>2. m - 1 \in Nat
    <3>1. PICK x \in S : TRUE
      OBVIOUS
    <3>2. x \in Nat /\ x <= m - 1
      BY <1>3, <2>1
    <3>3. QED
      BY <1>3, <3>2
  <2>3. m - 1 \in U
    BY <2>1, <2>2
  <2>4. QED
    BY <1>2, <1>3, <2>3
<1> HIDE DEF U
<1>5. \A x \in S : m >= x
  BY <1>3
<1>6. QED
  BY <1>3, <1>4, <1>5 DEF Max

LEMMA SmallestOf ==
  ASSUME NEW S, S \subseteq Nat, S # {}
  PROVE  Min(S) \in S /\ \A x \in S : Min(S) <= x
<1>1. PICK m \in S : \A x \in S : m <= x
  BY LeastOf
<1>2. QED
  BY <1>1 DEF Min

(* The function that Totals names is there. *)
LEMMA TotalsThere ==
  ASSUME NEW v \in [Nat -> Nat]
  PROVE  \A n \in Nat : \E t \in [0..n -> Nat] : \A k \in 0..n :
           t[k] = (IF k = 0 THEN 0 ELSE t[k - 1]) + v[k]
<1> DEFINE S == {n \in Nat : \E t \in [0..n -> Nat] : \A k \in 0..n :
                   t[k] = (IF k = 0 THEN 0 ELSE t[k - 1]) + v[k]}
<1>1. 0 \in S
  <2> DEFINE t == [k \in 0..0 |-> v[0]]
  <2>1. 0..0 = {0}
    OBVIOUS
  <2>2. t \in [0..0 -> Nat] /\ t[0] = 0 + v[0]
    BY <2>1
  <2>3. QED
    BY <2>1, <2>2
<1>2. ASSUME NEW n \in Nat, n \in S PROVE n + 1 \in S
  <2>1. PICK t \in [0..n -> Nat] : \A k \in 0..n :
          t[k] = (IF k = 0 THEN 0 ELSE t[k - 1]) + v[k]
    BY <1>2
  <2> DEFINE u == [k \in 0..n + 1 |-> IF k = n + 1 THEN t[n] + v[n + 1] ELSE t[k]]
  <2>2. u \in [0..n + 1 -> Nat]
    <3> SUFFICES ASSUME NEW k \in 0..n + 1
                 PROVE  (IF k = n + 1 THEN t[n] + v[n + 1] ELSE t[k]) \in Nat
      OBVIOUS
    <3>1. t[n] \in Nat /\ v[n + 1] \in Nat
      OBVIOUS
    <3>2. k # n + 1 => k \in 0..n
      OBVIOUS
    <3>3. CASE k = n + 1
      <4>1. \A a, b \in Nat : a + b \in Nat
        OBVIOUS
      <4>2. t[n] + v[n + 1] \in Nat
        BY <3>1, <4>1, Zenon
      <4>3. QED
        BY <3>3, <4>2, Zenon
    <3>4. CASE k # n + 1
      <4>1. t[k] \in Nat
        BY <3>2, <3>4
      <4>2. QED
        BY <3>4, <4>1
    <3>5. QED
      BY <3>3, <3>4
  <2>3. ASSUME NEW k \in 0..n + 1
        PROVE  u[k] = (IF k = 0 THEN 0 ELSE u[k - 1]) + v[k]
    <3>1. CASE k = n + 1
      <4>1. k # 0 /\ k - 1 = n /\ n \in 0..n + 1 /\ n # n + 1
        BY <3>1
      <4>2. u[k] = t[n] + v[n + 1] /\ u[k - 1] = t[n]
        BY <3>1, <4>1
      <4>3. QED
        BY <3>1, <4>1, <4>2
    <3>2. CASE k # n + 1
      <4>1. k \in 0..n /\ (k # 0 => k - 1 \in 0..n + 1 /\ k - 1 # n + 1)
        BY <3>2
      <4>2. u[k] = t[k] /\ (k # 0 => u[k - 1] = t[k - 1])
        BY <3>2, <4>1
      <4>3. QED
        BY <2>1, <4>1, <4>2
    <3>3. QED
      BY <3>1, <3>2
  <2> HIDE DEF u
  <2>4. \E r \in [0..n + 1 -> Nat] : \A k \in 0..n + 1 :
          r[k] = (IF k = 0 THEN 0 ELSE r[k - 1]) + v[k]
    <3>1. WITNESS u \in [0..n + 1 -> Nat]
    <3>2. QED
      BY <2>3
  <2>5. n + 1 \in Nat
    OBVIOUS
  <2>6. QED
    BY <2>4, <2>5, Zenon
<1> HIDE DEF S
<1>3. \A n \in Nat : n \in S
  BY <1>1, <1>2, ByCounting
<1>4. QED
  BY <1>3 DEF S

(* t adds the numbers of f up, place by place, as far as n. *)
AddsUp(t, f, n) ==
  /\ n \in Nat /\ t \in [0..n -> Nat]
  /\ DOMAIN f \subseteq 0..n
  /\ \A k \in 0..n :
       t[k] = (IF k = 0 THEN 0 ELSE t[k - 1]) + (IF k \in DOMAIN f THEN f[k] ELSE 0)

(* A sum is the last of the totals of its places. *)
LEMMA SumIs ==
  ASSUME NEW N \in Nat, NEW D, D \subseteq 0..N, NEW f \in [D -> Nat]
  PROVE  \E n \in Nat : \E t \in [0..n -> Nat] : AddsUp(t, f, n) /\ Sum(f) = t[n]
<1> DEFINE n == Max(D \cup {0})
           v == [k \in Nat |-> IF k \in D THEN f[k] ELSE 0]
<1>1. n \in Nat /\ \A x \in D : x \in Nat /\ x <= n
  <2>1. D \cup {0} \subseteq 0..N /\ D \cup {0} # {}
    OBVIOUS
  <2>2. n \in D \cup {0} /\ \A x \in D \cup {0} : x <= n
    BY <2>1, BiggestOf
  <2> HIDE DEF n
  <2>3. n \in 0..N /\ \A x \in D : x \in 0..N /\ x <= n
    BY <2>1, <2>2
  <2>4. QED
    BY <2>3
<1>2. v \in [Nat -> Nat]
  OBVIOUS
<1> HIDE DEF v, n
<1>3. PICK t \in [0..n -> Nat] : \A k \in 0..n :
        t[k] = (IF k = 0 THEN 0 ELSE t[k - 1]) + v[k]
  BY <1>1, <1>2, TotalsThere
<1>4. \A k \in 0..n : v[k] = IF k \in D THEN f[k] ELSE 0
  BY <1>1 DEF v
<1>5. t = [k \in 0..n |->
             (IF k = 0 THEN 0 ELSE t[k - 1]) + (IF k \in D THEN f[k] ELSE 0)]
  BY <1>3, <1>4
<1> DEFINE w == CHOOSE g : g = [k \in 0..n |->
             (IF k = 0 THEN 0 ELSE g[k - 1]) + (IF k \in D THEN f[k] ELSE 0)]
<1>6. w = [k \in 0..n |->
             (IF k = 0 THEN 0 ELSE w[k - 1]) + (IF k \in D THEN f[k] ELSE 0)]
  BY <1>5
<1>7. Totals(f) = w
  BY DEF Totals, n
<1> HIDE DEF w
<1>8. w \in [0..n -> Nat]
  <2> DEFINE S == {k \in Nat : k \in 0..n => w[k] \in Nat}
  <2>1. \A k \in 0..n : w[k] = (IF k = 0 THEN 0 ELSE w[k - 1]) + (IF k \in D THEN f[k] ELSE 0)
    BY <1>6
  <2>2. \A k \in 0..n : (IF k \in D THEN f[k] ELSE 0) \in Nat
    OBVIOUS
  <2>3. 0 \in S
    <3>1. 0 \in 0..n
      BY <1>1
    <3>2. w[0] = 0 + (IF 0 \in D THEN f[0] ELSE 0)
      BY <2>1, <3>1
    <3>3. (IF 0 \in D THEN f[0] ELSE 0) \in Nat
      BY <2>2, <3>1
    <3>4. w[0] \in Nat
      BY <3>2, <3>3
    <3>5. QED
      BY <3>4
  <2>4. ASSUME NEW k \in Nat, k \in S PROVE k + 1 \in S
    <3> SUFFICES ASSUME k + 1 \in 0..n PROVE w[k + 1] \in Nat
      OBVIOUS
    <3>1. k \in 0..n /\ (k + 1) - 1 = k /\ k + 1 # 0
      BY <1>1
    <3>2. w[k] \in Nat
      BY <2>4, <3>1
    <3>3. w[k + 1] = w[k] + (IF k + 1 \in D THEN f[k + 1] ELSE 0)
      BY <2>1, <3>1
    <3>4. QED
      BY <2>2, <3>2, <3>3
  <2> HIDE DEF S
  <2>5. \A k \in Nat : k \in S
    BY <2>3, <2>4, ByCounting
  <2>6. \A k \in 0..n : w[k] \in Nat
    BY <2>5 DEF S
  <2>7. QED
    BY <1>6, <2>6
<1>9. Sum(f) = w[n]
  BY <1>7 DEF Sum, n
<1>10. D \subseteq 0..n
  BY <1>1
<1>11. \A k \in 0..n :
         w[k] = (IF k = 0 THEN 0 ELSE w[k - 1]) + (IF k \in D THEN f[k] ELSE 0)
  BY <1>6
<1>12. AddsUp(w, f, n)
  BY <1>1, <1>8, <1>10, <1>11 DEF AddsUp
<1>13. QED
  BY <1>1, <1>8, <1>9, <1>12

(* What lies between two bounds at each place lies between their multiples *)
(* when added.                                                             *)
LEMMA SumBetween ==
  ASSUME NEW N \in Nat, NEW D, D \subseteq 0..N, NEW f \in [D -> Nat],
         NEW a \in Nat, NEW b \in Nat, \A i \in D : a <= f[i] /\ f[i] <= b
  PROVE  /\ Sum(f) \in Nat
         /\ a * Cardinality(D) <= Sum(f)
         /\ Sum(f) <= b * Cardinality(D)
<1> PICK n \in Nat : \E t \in [0..n -> Nat] : AddsUp(t, f, n) /\ Sum(f) = t[n]
  BY SumIs
<1>1. PICK t \in [0..n -> Nat] : AddsUp(t, f, n) /\ Sum(f) = t[n]
  OBVIOUS
<1>2. /\ D \subseteq 0..n
      /\ Sum(f) = t[n]
      /\ \A k \in 0..n :
           t[k] = (IF k = 0 THEN 0 ELSE t[k - 1]) + (IF k \in D THEN f[k] ELSE 0)
  BY <1>1 DEF AddsUp
<1> DEFINE c == [k \in Nat |-> Cardinality({i \in D : i <= k})]
<1>3. IsFiniteSet(D)
  <2>1. IsFiniteSet(0..N)
    BY FS_Interval
  <2>2. QED
    BY <2>1, FS_Subset
<1>4. \A k \in Nat : c[k] \in Nat
  <2> SUFFICES ASSUME NEW k \in Nat PROVE Cardinality({i \in D : i <= k}) \in Nat
    OBVIOUS
  <2>1. {i \in D : i <= k} \in SUBSET D
    OBVIOUS
  <2>2. QED
    BY <1>3, <2>1, FS_Subset, FS_CardinalityType
<1>5. c[0] = IF 0 \in D THEN 1 ELSE 0
  <2>1. \A i \in D : i <= 0 <=> i = 0
    OBVIOUS
  <2>2. {i \in D : i <= 0} = IF 0 \in D THEN {0} ELSE {}
    BY <2>1
  <2>3. QED
    BY <2>2, FS_EmptySet, FS_Singleton
<1>6. \A k \in Nat : c[k + 1] = c[k] + IF k + 1 \in D THEN 1 ELSE 0
  <2> SUFFICES ASSUME NEW k \in Nat
               PROVE  c[k + 1] = c[k] + IF k + 1 \in D THEN 1 ELSE 0
    OBVIOUS
  <2> DEFINE T == {i \in D : i <= k}
             U == {i \in D : i <= k + 1}
  <2>1. U = T \cup (IF k + 1 \in D THEN {k + 1} ELSE {})
    <3>1. \A i \in D : i <= k + 1 <=> i <= k \/ i = k + 1
      OBVIOUS
    <3>2. QED
      BY <3>1
  <2>2. k + 1 \notin T /\ T \in SUBSET D
    OBVIOUS
  <2>3. c[k] = Cardinality(T) /\ c[k + 1] = Cardinality(U) /\ c[k] \in Nat
    <3>1. k + 1 \in Nat
      OBVIOUS
    <3>2. \A j \in Nat : c[j] = Cardinality({i \in D : i <= j})
      OBVIOUS
    <3>3. QED
      BY <1>4, <3>1, <3>2, Zenon
  <2> HIDE DEF T, U, c
  <2>4. IsFiniteSet(T)
    BY <1>3, <2>2, FS_Subset
  <2>5. CASE k + 1 \in D
    <3>1. U = T \cup {k + 1}
      BY <2>1, <2>5
    <3>2. Cardinality(U) = Cardinality(T) + 1
      BY <2>2, <2>4, <3>1, FS_AddElement
    <3>3. QED
      BY <2>3, <2>5, <3>2
  <2>6. CASE k + 1 \notin D
    <3>1. U = T
      BY <2>1, <2>6
    <3>2. QED
      BY <2>3, <2>6, <3>1
  <2>7. QED
    BY <2>5, <2>6
<1>7. c[n] = Cardinality(D)
  <2>1. \A i \in D : i <= n
    BY <1>2
  <2>2. {i \in D : i <= n} = D
    BY <2>1
  <2>3. QED
    BY <1>2, <2>2
<1> HIDE DEF c
<1> DEFINE S == {k \in Nat : k \in 0..n => a * c[k] <= t[k] /\ t[k] <= b * c[k]}
<1>8. 0 \in S
  <2>1. 0 \in 0..n
    OBVIOUS
  <2>2. t[0] = 0 + (IF 0 \in D THEN f[0] ELSE 0)
    BY <1>2, <2>1
  <2>3. CASE 0 \in D
    <3>1. t[0] = f[0] /\ c[0] = 1 /\ f[0] \in Nat /\ a <= f[0] /\ f[0] <= b
      BY <1>5, <2>2, <2>3
    <3>2. a * c[0] = a /\ b * c[0] = b
      BY <3>1
    <3>3. QED
      BY <3>1, <3>2
  <2>4. CASE 0 \notin D
    <3>1. t[0] = 0 /\ c[0] = 0
      BY <1>5, <2>2, <2>4
    <3>2. a * c[0] = 0 /\ b * c[0] = 0
      BY <3>1
    <3>3. QED
      BY <3>1, <3>2
  <2>5. QED
    BY <2>3, <2>4
<1>9. ASSUME NEW k \in Nat, k \in S PROVE k + 1 \in S
  <2> SUFFICES ASSUME k + 1 \in 0..n
               PROVE  a * c[k + 1] <= t[k + 1] /\ t[k + 1] <= b * c[k + 1]
    OBVIOUS
  <2>1. k \in 0..n /\ (k + 1) - 1 = k /\ k + 1 # 0
    OBVIOUS
  <2>2. a * c[k] <= t[k] /\ t[k] <= b * c[k]
    BY <1>9, <2>1
  <2>3. t[k + 1] = t[k] + (IF k + 1 \in D THEN f[k + 1] ELSE 0)
    BY <1>2, <2>1
  <2>4. t[k] \in Nat /\ c[k] \in Nat
    BY <1>4, <2>1
  <2>5. CASE k + 1 \in D
    <3>1. c[k + 1] = c[k] + 1 /\ t[k + 1] = t[k] + f[k + 1]
      BY <1>6, <2>3, <2>5
    <3>2. f[k + 1] \in Nat /\ a <= f[k + 1] /\ f[k + 1] <= b
      BY <2>5
    <3> DEFINE p == c[k]
               q == t[k]
               r == f[k + 1]
    <3>3. p \in Nat /\ q \in Nat /\ r \in Nat
      BY <2>4, <3>2
    <3>4. a * p <= q /\ q <= b * p /\ a <= r /\ r <= b
      BY <2>2, <3>2
    <3> SUFFICES a * (p + 1) <= q + r /\ q + r <= b * (p + 1)
      BY <3>1
    <3> HIDE DEF p, q, r
    <3>5. a * (p + 1) = a * p + a /\ b * (p + 1) = b * p + b
      BY <3>3
    <3>6. a * p \in Nat /\ b * p \in Nat
      BY <3>3
    <3>7. QED
      BY <3>3, <3>4, <3>5, <3>6
  <2>6. CASE k + 1 \notin D
    <3>1. c[k + 1] = c[k] + 0 /\ t[k + 1] = t[k] + 0
      BY <1>6, <2>3, <2>6
    <3>2. c[k + 1] = c[k] /\ t[k + 1] = t[k]
      BY <2>4, <3>1
    <3>3. QED
      BY <2>2, <3>2
  <2>7. QED
    BY <2>5, <2>6
<1> HIDE DEF S
<1>10. n \in S
  BY <1>8, <1>9, ByCounting
<1>11. n \in 0..n
  OBVIOUS
<1>12. QED
  BY <1>2, <1>7, <1>10, <1>11 DEF S

(* No place holds more than the sum. *)
LEMMA SumCovers ==
  ASSUME NEW N \in Nat, NEW D, D \subseteq 0..N, NEW f \in [D -> Nat]
  PROVE  Sum(f) \in Nat /\ \A i \in D : f[i] <= Sum(f)
<1> PICK n \in Nat : \E t \in [0..n -> Nat] : AddsUp(t, f, n) /\ Sum(f) = t[n]
  BY SumIs
<1>1. PICK t \in [0..n -> Nat] : AddsUp(t, f, n) /\ Sum(f) = t[n]
  OBVIOUS
<1>2. /\ D \subseteq 0..n
      /\ Sum(f) = t[n]
      /\ \A k \in 0..n :
           t[k] = (IF k = 0 THEN 0 ELSE t[k - 1]) + (IF k \in D THEN f[k] ELSE 0)
  BY <1>1 DEF AddsUp
<1> DEFINE S == {k \in Nat : k \in 0..n => \A i \in D : i <= k => f[i] <= t[k]}
<1>3. 0 \in S
  <2> SUFFICES ASSUME NEW i \in D, i <= 0 PROVE f[i] <= t[0]
    OBVIOUS
  <2>1. i = 0 /\ 0 \in 0..n
    OBVIOUS
  <2>2. t[0] = 0 + f[0] /\ f[0] \in Nat
    BY <1>2, <2>1
  <2>3. QED
    BY <2>1, <2>2
<1>4. ASSUME NEW k \in Nat, k \in S PROVE k + 1 \in S
  <2> SUFFICES ASSUME k + 1 \in 0..n, NEW i \in D, i <= k + 1 PROVE f[i] <= t[k + 1]
    OBVIOUS
  <2>1. k \in 0..n /\ (k + 1) - 1 = k /\ k + 1 # 0
    OBVIOUS
  <2>2. t[k + 1] = t[k] + (IF k + 1 \in D THEN f[k + 1] ELSE 0)
    BY <1>2, <2>1
  <2>3. t[k] \in Nat /\ f[i] \in Nat
    BY <2>1
  <2>4. CASE i = k + 1
    <3>1. t[k + 1] = t[k] + f[i]
      BY <2>2, <2>4
    <3>2. QED
      BY <2>3, <3>1
  <2>5. CASE i # k + 1
    <3>1. i <= k
      BY <2>5
    <3>2. f[i] <= t[k]
      BY <1>4, <2>1, <3>1
    <3>3. (IF k + 1 \in D THEN f[k + 1] ELSE 0) \in Nat
      OBVIOUS
    <3>4. QED
      BY <2>2, <2>3, <3>2, <3>3
  <2>6. QED
    BY <2>4, <2>5
<1> HIDE DEF S
<1>5. n \in S
  BY <1>3, <1>4, ByCounting
<1>6. n \in 0..n /\ \A i \in D : i <= n
  BY <1>2
<1>7. QED
  BY <1>2, <1>5, <1>6 DEF S

(* f counts what h maps to each number of 0..N. *)
CountsKinds(f, h, N) ==
  f = [b \in 0..N |-> Cardinality({e \in DOMAIN h : h[e] = b})]

(* The numbers of each kind add up to that of all. *)
LEMMA SumOfKinds ==
  ASSUME NEW N \in Nat, NEW E, IsFiniteSet(E), NEW h \in [E -> 0..N], NEW f,
         CountsKinds(f, h, N)
  PROVE  Sum(f) = Cardinality(E)
<1>0. f = [b \in 0..N |-> Cardinality({e \in E : h[e] = b})]
  BY DEF CountsKinds
<1>1. \A T \in SUBSET E : IsFiniteSet(T) /\ Cardinality(T) \in Nat
  BY FS_Subset, FS_CardinalityType
<1>2. f \in [0..N -> Nat]
  <2>1. \A b \in 0..N : Cardinality({e \in E : h[e] = b}) \in Nat
    BY <1>1
  <2>2. QED
    BY <1>0, <2>1
<1> PICK n \in Nat : \E t \in [0..n -> Nat] : AddsUp(t, f, n) /\ Sum(f) = t[n]
  BY <1>2, SumIs
<1>3. PICK t \in [0..n -> Nat] : AddsUp(t, f, n) /\ Sum(f) = t[n]
  OBVIOUS
<1>4. /\ 0..N \subseteq 0..n
      /\ Sum(f) = t[n]
      /\ \A k \in 0..n :
           t[k] = (IF k = 0 THEN 0 ELSE t[k - 1]) + (IF k \in 0..N THEN f[k] ELSE 0)
  BY <1>2, <1>3 DEF AddsUp
<1> DEFINE S == {k \in Nat : k \in 0..n => t[k] = Cardinality({e \in E : h[e] <= k})}
<1>5. 0 \in S
  <2>1. 0 \in 0..n /\ 0 \in 0..N
    OBVIOUS
  <2>2. t[0] = 0 + f[0] /\ f[0] \in Nat
    BY <1>2, <1>4, <2>1
  <2>3. {e \in E : h[e] = 0} = {e \in E : h[e] <= 0}
    OBVIOUS
  <2>4. f[0] = Cardinality({e \in E : h[e] <= 0})
    BY <1>0, <2>1, <2>3
  <2>5. QED
    BY <2>2, <2>4
<1>6. ASSUME NEW k \in Nat, k \in S PROVE k + 1 \in S
  <2> DEFINE T == {e \in E : h[e] <= k}
             U == {e \in E : h[e] = k + 1}
             V == {e \in E : h[e] <= k + 1}
  <2>0. k + 1 \in Nat
    OBVIOUS
  <2> SUFFICES ASSUME k + 1 \in 0..n PROVE t[k + 1] = Cardinality(V)
    BY <2>0, Zenon
  <2>1. k \in 0..n /\ (k + 1) - 1 = k /\ k + 1 # 0
    OBVIOUS
  <2>2. t[k] = Cardinality(T)
    BY <1>6, <2>1
  <2>3. t[k + 1] = t[k] + (IF k + 1 \in 0..N THEN f[k + 1] ELSE 0)
    BY <1>4, <2>1
  <2>4. T \in SUBSET E /\ U \in SUBSET E
    OBVIOUS
  <2>5. T \cap U = {}
    OBVIOUS
  <2>6. V = T \cup U
    OBVIOUS
  <2>7. (IF k + 1 \in 0..N THEN f[k + 1] ELSE 0) = Cardinality(U)
    <3>1. CASE k + 1 \in 0..N
      BY <1>0, <3>1
    <3>2. CASE k + 1 \notin 0..N
      <4>1. U = {}
        BY <3>2
      <4>2. QED
        BY <3>2, <4>1, FS_EmptySet
    <3>3. QED
      BY <3>1, <3>2
  <2> HIDE DEF T, U, V
  <2>8. IsFiniteSet(T) /\ IsFiniteSet(U) /\ Cardinality(T) \in Nat /\ Cardinality(U) \in Nat
    BY <1>1, <2>4
  <2>9. Cardinality(V) = Cardinality(T) + Cardinality(U)
    <3>1. Cardinality(T \cup U) = Cardinality(T) + Cardinality(U) - Cardinality(T \cap U)
      BY <2>8, FS_Union
    <3>2. Cardinality(T \cap U) = 0
      BY <2>5, FS_EmptySet
    <3>3. QED
      BY <2>6, <2>8, <3>1, <3>2
  <2>10. QED
    BY <2>2, <2>3, <2>7, <2>9
<1>7. n \in S
  <2> HIDE DEF S
  <2>1. QED
    BY <1>5, <1>6, ByCounting
<1>8. {e \in E : h[e] <= n} = E
  <2>1. N \in 0..N
    OBVIOUS
  <2>2. N \in 0..n
    BY <1>4, <2>1
  <2>3. QED
    BY <2>2
<1>9. n \in 0..n
  OBVIOUS
<1>10. QED
  BY <1>4, <1>7, <1>8, <1>9

-------------------------------------------------------------------------------
(* Ranks and medians (ScormScores). *)

LEMMA PlacesCounted ==
  ASSUME NEW N \in Nat, NEW D, D \subseteq 0..N
  PROVE  /\ IsFiniteSet(D)
         /\ Cardinality(D) \in Nat
         /\ \A T \in SUBSET D :
              /\ IsFiniteSet(T) /\ Cardinality(T) \in Nat
              /\ Cardinality(T) <= Cardinality(D)
              /\ Cardinality(D \ T) = Cardinality(D) - Cardinality(T)
<1>1. IsFiniteSet(0..N)
  BY FS_Interval
<1>2. IsFiniteSet(D)
  BY <1>1, FS_Subset
<1>3. \A T \in SUBSET D : IsFiniteSet(T) /\ Cardinality(T) <= Cardinality(D)
  BY <1>2, FS_Subset
<1>4. \A T \in SUBSET D : Cardinality(D \ T) = Cardinality(D) - Cardinality(T)
  <2> SUFFICES ASSUME NEW T \in SUBSET D
               PROVE  Cardinality(D \ T) = Cardinality(D) - Cardinality(T)
    OBVIOUS
  <2>1. D \cap T = T
    OBVIOUS
  <2>2. QED
    BY <1>2, <2>1, FS_Difference
<1>5. QED
  BY <1>2, <1>3, <1>4, FS_CardinalityType

(* The places of a list, cut at a value. *)
LEMMA CutsCounted ==
  ASSUME NEW N \in Nat, NEW D, D \subseteq 0..N, NEW f \in [D -> Nat], NEW x \in Nat
  PROVE  /\ Below(f, x) \in SUBSET D /\ UpTo(f, x) \in SUBSET D
         /\ Cardinality(Below(f, x)) \in Nat /\ Cardinality(UpTo(f, x)) \in Nat
         /\ Cardinality(UpTo(f, x)) <= Cardinality(D)
         /\ Cardinality(D \ UpTo(f, x)) = Cardinality(D) - Cardinality(UpTo(f, x))
         /\ Cardinality(D \ Below(f, x)) = Cardinality(D) - Cardinality(Below(f, x))
<1>1. Below(f, x) \in SUBSET D /\ UpTo(f, x) \in SUBSET D
  BY DEF Below, UpTo
<1>2. QED
  BY <1>1, PlacesCounted

LEMMA CutsGrow ==
  ASSUME NEW N \in Nat, NEW D, D \subseteq 0..N, NEW f \in [D -> Nat],
         NEW x \in Nat, NEW y \in Nat, x < y
  PROVE  /\ Cardinality(UpTo(f, x)) <= Cardinality(Below(f, y))
         /\ Cardinality(Below(f, x)) <= Cardinality(Below(f, y))
         /\ Cardinality(UpTo(f, x)) <= Cardinality(UpTo(f, y))
<1>1. /\ UpTo(f, x) \in SUBSET Below(f, y)
      /\ Below(f, x) \in SUBSET Below(f, y)
      /\ UpTo(f, x) \in SUBSET UpTo(f, y)
  <2>1. \A i \in D : (f[i] <= x => f[i] < y /\ f[i] <= y) /\ (f[i] < x => f[i] < y)
    OBVIOUS
  <2>2. QED
    BY <2>1 DEF UpTo, Below
<1>2. IsFiniteSet(Below(f, y)) /\ IsFiniteSet(UpTo(f, y))
  <2>1. Below(f, y) \in SUBSET D /\ UpTo(f, y) \in SUBSET D
    BY DEF Below, UpTo
  <2>2. QED
    BY <2>1, PlacesCounted
<1>3. QED
  BY <1>1, <1>2, FS_Subset

(* x is the value at place k of the values of f in ascending order. *)
HasRank(f, x, k) == Cardinality(Below(f, x)) < k /\ k <= Cardinality(UpTo(f, x))

LEMMA RankThere ==
  ASSUME NEW N \in Nat, NEW D, D \subseteq 0..N, NEW f \in [D -> Nat],
         NEW k \in 1..Cardinality(D)
  PROVE  \E x \in Range(f) : HasRank(f, x, k)
<1> DEFINE U == {x \in Nat : k <= Cardinality(UpTo(f, x))}
<1>0. Cardinality(D) \in Nat /\ k \in Nat /\ k > 0 /\ k <= Cardinality(D)
  <2>1. Cardinality(D) \in Nat
    BY PlacesCounted
  <2>2. QED
    BY <2>1
<1>1. Sum(f) \in U
  <2>1. Sum(f) \in Nat /\ \A i \in D : f[i] <= Sum(f)
    BY SumCovers
  <2>2. UpTo(f, Sum(f)) = D
    BY <2>1 DEF UpTo
  <2>3. QED
    BY <1>0, <2>1, <2>2
<1>2. PICK x \in U : \A y \in U : x <= y
  <2>1. U \subseteq Nat /\ U # {}
    BY <1>1
  <2> HIDE DEF U
  <2>2. QED
    BY <2>1, LeastOf
<1>3. x \in Nat /\ k <= Cardinality(UpTo(f, x))
  BY <1>2
<1>4. \A y \in Nat : k <= Cardinality(UpTo(f, y)) => x <= y
  BY <1>2
<1> HIDE DEF U
<1>5. Cardinality(Below(f, x)) < k
  <2> SUFFICES ASSUME ~(Cardinality(Below(f, x)) < k) PROVE FALSE
    OBVIOUS
  <2>1. Cardinality(Below(f, x)) \in Nat
    BY <1>3, CutsCounted
  <2>2. k <= Cardinality(Below(f, x))
    BY <1>0, <2>1
  <2>3. CASE x = 0
    <3>1. Below(f, x) = {}
      <4>1. \A i \in D : ~(f[i] < 0)
        OBVIOUS
      <4>2. QED
        BY <2>3, <4>1 DEF Below
    <3>2. QED
      BY <1>0, <2>2, <3>1, FS_EmptySet
  <2>4. CASE x # 0
    <3>1. x - 1 \in Nat /\ ~(x <= x - 1)
      BY <1>3, <2>4
    <3>2. UpTo(f, x - 1) = Below(f, x)
      <4>1. \A i \in D : f[i] <= x - 1 <=> f[i] < x
        BY <1>3
      <4>2. QED
        BY <4>1 DEF UpTo, Below
    <3>3. QED
      BY <1>4, <2>2, <3>1, <3>2
  <2>5. QED
    BY <2>3, <2>4
<1>6. x \in Range(f)
  <2> SUFFICES ASSUME x \notin Range(f) PROVE FALSE
    OBVIOUS
  <2>1. \A i \in D : f[i] # x
    BY DEF Range
  <2>2. UpTo(f, x) = Below(f, x)
    <3>1. \A i \in D : f[i] <= x <=> f[i] < x
      BY <1>3, <2>1
    <3>2. QED
      BY <3>1 DEF UpTo, Below
  <2>3. Cardinality(Below(f, x)) \in Nat
    BY <1>3, CutsCounted
  <2>4. QED
    BY <1>0, <1>3, <1>5, <2>2, <2>3
<1>7. QED
  BY <1>3, <1>5, <1>6 DEF HasRank

LEMMA RankOnly ==
  ASSUME NEW N \in Nat, NEW D, D \subseteq 0..N, NEW f \in [D -> Nat],
         NEW k \in Nat, NEW x \in Nat, NEW y \in Nat,
         HasRank(f, x, k), HasRank(f, y, k)
  PROVE  ~(x < y)
<1> SUFFICES ASSUME x < y PROVE FALSE
  OBVIOUS
<1>1. Cardinality(UpTo(f, x)) <= Cardinality(Below(f, y))
  BY CutsGrow
<1>2. Cardinality(UpTo(f, x)) \in Nat /\ Cardinality(Below(f, y)) \in Nat
  BY CutsCounted
<1>3. Cardinality(Below(f, y)) < k /\ k <= Cardinality(UpTo(f, x))
  BY DEF HasRank
<1>4. QED
  BY <1>1, <1>2, <1>3

(* There is one value at each place. *)
LEMMA RankedIs ==
  ASSUME NEW N \in Nat, NEW D, D \subseteq 0..N, NEW f \in [D -> Nat],
         NEW k \in 1..Cardinality(D)
  PROVE  /\ Ranked(f, k) \in Range(f) /\ Ranked(f, k) \in Nat
         /\ HasRank(f, Ranked(f, k), k)
         /\ \A x \in Range(f) : HasRank(f, x, k) => x = Ranked(f, k)
<1>1. \E x \in Range(f) : HasRank(f, x, k)
  BY RankThere
<1>2. Ranked(f, k) = CHOOSE x \in Range(f) : HasRank(f, x, k)
  BY DEF Ranked, HasRank
<1>3. Ranked(f, k) \in Range(f) /\ HasRank(f, Ranked(f, k), k)
  BY <1>1, <1>2
<1>4. Range(f) \subseteq Nat
  BY DEF Range
<1>5. ASSUME NEW x \in Range(f), HasRank(f, x, k) PROVE x = Ranked(f, k)
  <2> DEFINE y == Ranked(f, k)
  <2>1. x \in Nat /\ y \in Nat /\ HasRank(f, y, k)
    BY <1>3, <1>4
  <2>2. k \in Nat
    BY PlacesCounted
  <2> HIDE DEF y
  <2>3. ~(x < y)
    BY <1>5, <2>1, <2>2, RankOnly
  <2>4. ~(y < x)
    BY <1>5, <2>1, <2>2, RankOnly
  <2>5. x = y
    BY <2>1, <2>3, <2>4
  <2>6. QED
    BY <2>5 DEF y
<1>6. QED
  BY <1>3, <1>4, <1>5

(* Later places have no smaller values. *)
LEMMA RankedGrows ==
  ASSUME NEW N \in Nat, NEW D, D \subseteq 0..N, NEW f \in [D -> Nat],
         NEW k \in 1..Cardinality(D), k + 1 \in 1..Cardinality(D)
  PROVE  Ranked(f, k) <= Ranked(f, k + 1)
<1> DEFINE x == Ranked(f, k + 1)
           y == Ranked(f, k)
<1>1. x \in Nat /\ HasRank(f, x, k + 1)
  BY RankedIs
<1>2. y \in Nat /\ HasRank(f, y, k)
  BY RankedIs
<1>3. k \in Nat
  BY PlacesCounted
<1> HIDE DEF x, y
<1> SUFFICES ASSUME x < y PROVE FALSE
  <2>1. y <= x
    BY <1>1, <1>2
  <2>2. QED
    BY <2>1 DEF x, y
<1>4. Cardinality(UpTo(f, x)) <= Cardinality(Below(f, y))
  BY <1>1, <1>2, CutsGrow
<1>5. Cardinality(UpTo(f, x)) \in Nat /\ Cardinality(Below(f, y)) \in Nat
  BY <1>1, <1>2, CutsCounted
<1>6. Cardinality(Below(f, y)) < k /\ k + 1 <= Cardinality(UpTo(f, x))
  BY <1>1, <1>2 DEF HasRank
<1>7. QED
  BY <1>3, <1>4, <1>5, <1>6

Within(f, L) == \A i \in DOMAIN f : f[i] <= L
Mirror(f, L) == [i \in DOMAIN f |-> L - f[i]]
RanksMirrored(f, L) ==
  \A j, k \in 1..Size(f) :
    j + k = Size(f) + 1 => Ranked(Mirror(f, L), k) = L - Ranked(f, j)

(* Counted from the other end, the places are those of the mirrored list.  *)
LEMMA RankedMirrored ==
  ASSUME NEW N \in Nat, NEW D, D \subseteq 0..N, NEW f \in [D -> Nat],
         NEW L \in Nat, Within(f, L)
  PROVE  RanksMirrored(f, L)
<1> SUFFICES ASSUME NEW j \in 1..Cardinality(D), NEW k \in 1..Cardinality(D),
                    j + k = Cardinality(D) + 1
             PROVE  Ranked(Mirror(f, L), k) = L - Ranked(f, j)
  BY DEF RanksMirrored, Size
<1> DEFINE g == Mirror(f, L)
<1> DEFINE n == Cardinality(D)
           x == Ranked(f, j)
           y == L - x
<1>1. x \in Nat /\ x \in Range(f) /\ HasRank(f, x, j)
  BY RankedIs
<1>2. g \in [D -> Nat] /\ g = [i \in D |-> L - f[i]]
  <2>1. \A i \in D : L - f[i] \in Nat
    BY DEF Within
  <2>2. QED
    BY <2>1 DEF Mirror
<1> HIDE DEF g
<1>3. PICK i \in D : x = f[i]
  BY <1>1 DEF Range
<1>4. n \in Nat /\ j \in Nat /\ k \in Nat
  <2>1. Cardinality(D) \in Nat
    BY PlacesCounted
  <2>2. QED
    BY <2>1
<1> HIDE DEF x
<1>5. y \in Nat /\ y \in Range(g)
  <2>1. f[i] \in Nat /\ f[i] <= L /\ g[i] = L - f[i]
    BY <1>2 DEF Within
  <2>2. y = g[i] /\ y \in Nat
    BY <1>3, <2>1
  <2>3. QED
    BY <1>2, <2>2 DEF Range
<1>6. Below(g, y) = D \ UpTo(f, x)
  <2>1. \A e \in D : g[e] < y <=> ~(f[e] <= x)
    BY <1>1, <1>2
  <2>2. QED
    BY <1>2, <2>1 DEF Below, UpTo
<1>7. UpTo(g, y) = D \ Below(f, x)
  <2>1. \A e \in D : g[e] <= y <=> ~(f[e] < x)
    BY <1>1, <1>2
  <2>2. QED
    BY <1>2, <2>1 DEF Below, UpTo
<1> HIDE DEF n
<1> DEFINE below == Cardinality(Below(f, x))
           upto == Cardinality(UpTo(f, x))
<1>8. below \in Nat /\ upto \in Nat /\ below < j /\ j <= upto
  BY <1>1, CutsCounted DEF HasRank
<1>9. Cardinality(Below(g, y)) = n - upto /\ Cardinality(UpTo(g, y)) = n - below
  <2>1. /\ Cardinality(D \ UpTo(f, x)) = Cardinality(D) - Cardinality(UpTo(f, x))
        /\ Cardinality(D \ Below(f, x)) = Cardinality(D) - Cardinality(Below(f, x))
    <3> HIDE DEF y, below, upto
    <3>1. UpTo(f, x) \in SUBSET D /\ Below(f, x) \in SUBSET D
      BY DEF UpTo, Below
    <3>2. QED
      BY <3>1, PlacesCounted
  <2>2. QED
    BY <1>6, <1>7, <2>1 DEF n
<1> HIDE DEF below, upto, y
<1>10. j + k = n + 1
  BY DEF n
<1>11. n - upto < k /\ k <= n - below
  BY <1>4, <1>8, <1>10
<1>12. HasRank(g, y, k)
  BY <1>9, <1>11 DEF HasRank
<1>13. y = Ranked(g, k)
  BY <1>2, <1>5, <1>12, RankedIs
<1>14. QED
  BY <1>13 DEF y, x, g

(* The two ways to find a median. *)
LEMMA MedianIs ==
  ASSUME NEW N \in Nat, NEW D, D \subseteq 0..N, D # {}, NEW f \in [D -> Nat]
  PROVE  \E m \in Nat :
           \/ /\ Size(f) = 2 * m /\ m \in 1..Cardinality(D) /\ m + 1 \in 1..Cardinality(D)
              /\ Median(f) = (Ranked(f, m) + Ranked(f, m + 1) + 1) \div 2
           \/ /\ Size(f) = 2 * m + 1 /\ m + 1 \in 1..Cardinality(D)
              /\ Median(f) = Ranked(f, m + 1)
<1> DEFINE n == Cardinality(D)
           m == n \div 2
<1>1. n \in Nat /\ n # 0
  <2>1. IsFiniteSet(D)
    BY PlacesCounted
  <2>2. QED
    BY <2>1, FS_CardinalityType, FS_EmptySet
<1>2. Size(f) = n
  BY DEF Size
<1> HIDE DEF n
<1>3. m \in Nat /\ (n = 2 * m \/ n = 2 * m + 1) /\ (n % 2 = 0 <=> n = 2 * m)
  BY <1>1
<1> HIDE DEF m
<1>4. CASE n = 2 * m
  <2>1. m \in 1..n /\ m + 1 \in 1..n
    BY <1>1, <1>3, <1>4
  <2>2. Median(f) = Rounded(Ranked(f, m) + Ranked(f, m + 1), 2)
    BY <1>2, <1>3, <1>4 DEF Median, m
  <2>3. Ranked(f, m) \in Nat /\ Ranked(f, m + 1) \in Nat
    BY <2>1, RankedIs DEF n
  <2>4. \A a, b \in Nat : Rounded(a + b, 2) = (a + b + 1) \div 2
    BY DEF Rounded
  <2>5. Median(f) = (Ranked(f, m) + Ranked(f, m + 1) + 1) \div 2
    BY <2>2, <2>3, <2>4
  <2>6. QED
    BY <1>2, <1>3, <1>4, <2>1, <2>5 DEF n
<1>5. CASE n = 2 * m + 1
  <2>1. m + 1 \in 1..n
    BY <1>1, <1>3, <1>5
  <2>2. n # 2 * m
    BY <1>3, <1>5
  <2>3. Median(f) = Ranked(f, m + 1)
    BY <1>2, <1>3, <2>2 DEF Median, m
  <2>4. QED
    BY <1>2, <1>3, <1>5, <2>1, <2>3 DEF n
<1>6. QED
  BY <1>3, <1>4, <1>5

(* At most half of the values lie on either side of the median. *)
LEMMA MedianHalves ==
  ASSUME NEW N \in Nat, NEW D, D \subseteq 0..N, D # {}, NEW f \in [D -> Nat]
  PROVE  /\ Median(f) \in Nat
         /\ 2 * Cardinality(Below(f, Median(f))) <= Size(f)
         /\ 2 * Cardinality({i \in DOMAIN f : f[i] > Median(f)}) <= Size(f)
<1> DEFINE n == Cardinality(D)
           x == Median(f)
<1>1. n \in Nat /\ Size(f) = n
  BY PlacesCounted DEF Size
<1>2. \E a, b \in Nat : /\ a <= x /\ x <= b /\ x \in Nat
                        /\ 2 * Cardinality(Below(f, b)) <= n
                        /\ 2 * (n - Cardinality(UpTo(f, a))) <= n
  <2>1. PICK m \in Nat :
           \/ /\ Size(f) = 2 * m /\ m \in 1..Cardinality(D) /\ m + 1 \in 1..Cardinality(D)
              /\ Median(f) = (Ranked(f, m) + Ranked(f, m + 1) + 1) \div 2
           \/ /\ Size(f) = 2 * m + 1 /\ m + 1 \in 1..Cardinality(D)
              /\ Median(f) = Ranked(f, m + 1)
    BY MedianIs
  <2> DEFINE b == Ranked(f, m + 1)
             above == Cardinality(Below(f, b))
             upto == Cardinality(UpTo(f, b))
  <2>2. m + 1 \in 1..Cardinality(D)
    BY <2>1
  <2>3. b \in Nat /\ HasRank(f, b, m + 1)
    BY <2>2, RankedIs
  <2>4. above \in Nat /\ upto \in Nat /\ above < m + 1 /\ m + 1 <= upto
    <3>1. above \in Nat /\ upto \in Nat
      BY <2>3, CutsCounted
    <3>2. QED
      BY <2>3, <3>1 DEF HasRank
  <2> HIDE DEF n
  <2>5. CASE /\ Size(f) = 2 * m /\ m \in 1..Cardinality(D)
             /\ x = (Ranked(f, m) + Ranked(f, m + 1) + 1) \div 2
    <3> DEFINE a == Ranked(f, m)
               to == Cardinality(UpTo(f, a))
    <3>1. a \in Nat /\ HasRank(f, a, m)
      BY <2>5, RankedIs
    <3>2. a <= b
      BY <2>2, <2>5, RankedGrows
    <3>3. to \in Nat /\ m <= to
      <4>1. to \in Nat
        BY <3>1, CutsCounted
      <4>2. QED
        BY <3>1, <4>1 DEF HasRank
    <3>4. n = 2 * m /\ x = (a + b + 1) \div 2
      BY <1>1, <2>5
    <3> HIDE DEF a, b, x, to, above
    <3>5. a <= x /\ x <= b /\ x \in Nat
      BY <2>3, <3>1, <3>2, <3>4
    <3>6. 2 * above <= n /\ 2 * (n - to) <= n
      BY <2>4, <3>3, <3>4
    <3>7. QED
      BY <2>3, <3>1, <3>5, <3>6 DEF above, to
  <2>6. CASE Size(f) = 2 * m + 1 /\ x = Ranked(f, m + 1)
    <3>1. n = 2 * m + 1 /\ x = b
      BY <1>1, <2>6
    <3> HIDE DEF b, x, above, upto
    <3>2. 2 * above <= n /\ 2 * (n - upto) <= n
      BY <2>4, <3>1
    <3>3. b <= x /\ x <= b /\ x \in Nat
      BY <2>3, <3>1
    <3>4. QED
      BY <2>3, <3>2, <3>3 DEF above, upto
  <2>7. QED
    BY <2>1, <2>5, <2>6
<1>3. PICK a \in Nat, b \in Nat : /\ a <= x /\ x <= b /\ x \in Nat
                        /\ 2 * Cardinality(Below(f, b)) <= n
                        /\ 2 * (n - Cardinality(UpTo(f, a))) <= n
  BY <1>2
<1> HIDE DEF x
<1>4. Cardinality(Below(f, x)) \in Nat /\ Cardinality(Below(f, b)) \in Nat
      /\ Cardinality(UpTo(f, a)) \in Nat
  BY <1>3, CutsCounted
<1>5. Cardinality(Below(f, x)) <= Cardinality(Below(f, b))
  <2>1. CASE x = b
    BY <1>4, <2>1
  <2>2. CASE x # b
    <3>1. x < b
      BY <1>3, <2>2
    <3>2. QED
      BY <1>3, <3>1, CutsGrow
  <2>3. QED
    BY <2>1, <2>2
<1>6. Cardinality({i \in DOMAIN f : f[i] > x}) \in Nat
      /\ Cardinality({i \in DOMAIN f : f[i] > x}) <= n - Cardinality(UpTo(f, a))
  <2> DEFINE A == {i \in D : f[i] > x}
             B == D \ UpTo(f, a)
  <2>1. A \in SUBSET B /\ B \in SUBSET D
    <3>1. \A i \in D : f[i] > x => ~(f[i] <= a)
      BY <1>3
    <3>2. QED
      BY <3>1 DEF UpTo
  <2>2. A = {i \in DOMAIN f : f[i] > x}
    OBVIOUS
  <2>3. Cardinality(B) = n - Cardinality(UpTo(f, a))
    <3>1. UpTo(f, a) \in SUBSET D
      BY DEF UpTo
    <3>2. QED
      BY <3>1, PlacesCounted
  <2> HIDE DEF A, B
  <2>4. IsFiniteSet(B)
    BY <2>1, PlacesCounted
  <2>5. IsFiniteSet(A) /\ Cardinality(A) <= Cardinality(B)
    BY <2>1, <2>4, FS_Subset
  <2>6. QED
    BY <2>2, <2>3, <2>5, FS_CardinalityType
<1> DEFINE p == Cardinality(Below(f, x))
           q == Cardinality({i \in DOMAIN f : f[i] > x})
           r == Cardinality(Below(f, b))
           u == Cardinality(UpTo(f, a))
<1>7. /\ p \in Nat /\ q \in Nat /\ r \in Nat /\ u \in Nat
      /\ p <= r /\ q <= n - u /\ 2 * r <= n /\ 2 * (n - u) <= n
  BY <1>3, <1>4, <1>5, <1>6
<1> HIDE DEF p, q, r, u, n
<1>8. 2 * p <= n /\ 2 * q <= n
  BY <1>1, <1>7
<1>9. QED
  BY <1>1, <1>3, <1>8 DEF p, q, x

MedianMirrors(f, L) == Median(f) + Median(Mirror(f, L)) - L \in {0, 1}

(* The median of the mirrored list is that of the list, but for rounding.  *)
LEMMA MedianMirrored ==
  ASSUME NEW N \in Nat, NEW D, D \subseteq 0..N, D # {}, NEW f \in [D -> Nat],
         NEW L \in Nat, Within(f, L)
  PROVE  MedianMirrors(f, L)
<1> SUFFICES Median(f) + Median(Mirror(f, L)) - L \in {0, 1}
  BY DEF MedianMirrors
<1> DEFINE g == Mirror(f, L)
           n == Cardinality(D)
<1>1. g \in [D -> Nat] /\ g = Mirror(f, L)
  <2>1. \A i \in D : L - f[i] \in Nat
    BY DEF Within
  <2>2. QED
    BY <2>1 DEF Mirror
<1>2. Size(f) = n /\ Size(g) = n /\ n \in Nat
  BY <1>1, PlacesCounted DEF Size
<1>3. \A j, k \in 1..n : j + k = n + 1 => Ranked(g, k) = L - Ranked(f, j)
  <2>1. RanksMirrored(f, L)
    BY RankedMirrored, Zenon
  <2>2. QED
    BY <2>1 DEF RanksMirrored, Size
<1>4. PICK m \in Nat :
         \/ /\ Size(f) = 2 * m /\ m \in 1..Cardinality(D) /\ m + 1 \in 1..Cardinality(D)
            /\ Median(f) = (Ranked(f, m) + Ranked(f, m + 1) + 1) \div 2
         \/ /\ Size(f) = 2 * m + 1 /\ m + 1 \in 1..Cardinality(D)
            /\ Median(f) = Ranked(f, m + 1)
  BY MedianIs
<1> HIDE DEF g
<1>5. PICK k \in Nat :
         \/ /\ Size(g) = 2 * k /\ k \in 1..Cardinality(D) /\ k + 1 \in 1..Cardinality(D)
            /\ Median(g) = (Ranked(g, k) + Ranked(g, k + 1) + 1) \div 2
         \/ /\ Size(g) = 2 * k + 1 /\ k + 1 \in 1..Cardinality(D)
            /\ Median(g) = Ranked(g, k + 1)
  BY <1>1, MedianIs
<1> HIDE DEF n
<1>6. k = m
  BY <1>2, <1>4, <1>5
<1>7. m + 1 \in 1..n
  BY <1>4 DEF n
<1> DEFINE b == Ranked(f, m + 1)
<1>8. b \in Nat
  BY <1>7, RankedIs DEF n
<1>9. CASE n = 2 * m
  <2> DEFINE a == Ranked(f, m)
  <2>1. m \in 1..n /\ Median(f) = (a + b + 1) \div 2
    <3>1. ~(2 * m = 2 * m + 1)
      OBVIOUS
    <3>2. QED
      BY <1>2, <1>4, <1>9, <3>1 DEF n
  <2>2. Median(g) = (Ranked(g, m) + Ranked(g, m + 1) + 1) \div 2
    <3>1. ~(2 * m = 2 * m + 1)
      OBVIOUS
    <3>2. QED
      BY <1>2, <1>5, <1>6, <1>9, <3>1
  <2>3. a \in Nat
    BY <2>1, RankedIs DEF n
  <2>4. Ranked(g, m) = L - b /\ Ranked(g, m + 1) = L - a
    <3>1. m + (m + 1) = n + 1 /\ (m + 1) + m = n + 1
      BY <1>2, <1>9
    <3>2. QED
      BY <1>3, <1>7, <2>1, <3>1
  <2> HIDE DEF a, b
  <2>5. Median(g) = ((L - b) + (L - a) + 1) \div 2
    BY <2>2, <2>4
  <2>6. \A p, q, l \in Nat :
          ((p + q + 1) \div 2) + (((l - q) + (l - p) + 1) \div 2) - l \in {0, 1}
    OBVIOUS
  <2>7. QED
    BY <1>1, <1>8, <2>1, <2>3, <2>5, <2>6
<1>10. CASE n = 2 * m + 1
  <2>1. ~(2 * m + 1 = 2 * m)
    OBVIOUS
  <2>2. Median(f) = b
    BY <1>2, <1>4, <1>10, <2>1
  <2>3. Median(g) = Ranked(g, m + 1)
    BY <1>2, <1>5, <1>6, <1>10, <2>1
  <2>4. (m + 1) + (m + 1) = n + 1
    BY <1>2, <1>10
  <2>5. Ranked(g, m + 1) = L - b
    BY <1>3, <1>7, <2>4
  <2> HIDE DEF b
  <2>6. b + (L - b) - L \in {0, 1}
    BY <1>8
  <2>7. QED
    BY <1>1, <2>2, <2>3, <2>5, <2>6
<1>11. QED
  BY <1>2, <1>4, <1>9, <1>10

-------------------------------------------------------------------------------
(* Averages, modes and deviations (ScormScores). *)

(* An average that is rounded stays between the bounds. *)
LEMMA RoundedBetween ==
  ASSUME NEW a \in Nat, NEW n \in Nat, n > 0, NEW low \in Nat, NEW high \in Nat,
         low * n <= a, a <= high * n
  PROVE  Rounded(a, n) \in Nat /\ low <= Rounded(a, n) /\ Rounded(a, n) <= high
<1> DEFINE b == 2 * a + n
           d == 2 * n
           q == b \div d
<1>1. b \in Nat /\ d \in Nat /\ d > 0
  OBVIOUS
<1>2. q \in Nat /\ q * d <= b /\ b < q * d + d
  <2> HIDE DEF b, d
  <2>1. QED
    BY <1>1, DivisionBound
<1>3. q = Rounded(a, n)
  BY DEF Rounded
<1> HIDE DEF q
<1>4. low <= q
  <2> SUFFICES ASSUME q + 1 <= low PROVE FALSE
    BY <1>2
  <2>1. (q + 1) * d <= low * d
    <3> HIDE DEF d
    <3>1. q + 1 \in Nat
      BY <1>2
    <3>2. QED
      BY <1>1, <3>1, TimesGrows
  <2>2. (q + 1) * d = q * d + d
    BY <1>1, <1>2
  <2>3. low * d = 2 * (low * n) /\ low * n \in Nat
    OBVIOUS
  <2> DEFINE p == low * n
             r == q * d
  <2>4. r \in Nat /\ p \in Nat /\ p <= a /\ r + d <= 2 * p /\ b < r + d
    BY <1>1, <1>2, <2>1, <2>2, <2>3
  <2> HIDE DEF p, r
  <2>5. QED
    BY <2>4
<1>5. q <= high
  <2> SUFFICES ASSUME high + 1 <= q PROVE FALSE
    BY <1>2
  <2>1. (high + 1) * d <= q * d
    <3> HIDE DEF d
    <3>1. high + 1 \in Nat
      OBVIOUS
    <3>2. QED
      BY <1>1, <1>2, <3>1, TimesGrows
  <2>2. (high + 1) * d = 2 * (high * n) + d /\ high * n \in Nat
    OBVIOUS
  <2> DEFINE p == high * n
             r == q * d
  <2>3. q * d \in Nat
    BY <1>1, <1>2
  <2>4. r \in Nat /\ p \in Nat /\ a <= p /\ 2 * p + d <= r /\ r <= b
    BY <1>2, <2>1, <2>2, <2>3
  <2> HIDE DEF p, r
  <2>5. QED
    BY <2>4
<1>6. QED
  BY <1>2, <1>3, <1>4, <1>5

(* The average lies between the extremes. *)
LEMMA MeanBetween ==
  ASSUME NEW N \in Nat, NEW D, D \subseteq 0..N, D # {}, NEW f \in [D -> Nat],
         NEW low \in Nat, NEW high \in Nat, \A i \in D : low <= f[i] /\ f[i] <= high
  PROVE  Mean(f) \in Nat /\ low <= Mean(f) /\ Mean(f) <= high
<1>1. /\ Sum(f) \in Nat
      /\ low * Cardinality(D) <= Sum(f)
      /\ Sum(f) <= high * Cardinality(D)
  BY SumBetween
<1>2. Cardinality(D) \in Nat /\ Cardinality(D) > 0
  <2>1. IsFiniteSet(D)
    BY PlacesCounted
  <2>2. Cardinality(D) \in Nat /\ Cardinality(D) # 0
    BY <2>1, FS_CardinalityType, FS_EmptySet
  <2>3. QED
    BY <2>2
<1>3. Mean(f) = Rounded(Sum(f), Cardinality(D))
  BY DEF Mean, Size
<1> DEFINE n == Cardinality(D)
           a == Sum(f)
<1>4. a \in Nat /\ n \in Nat /\ n > 0 /\ low * n <= a /\ a <= high * n
  BY <1>1, <1>2
<1> HIDE DEF n, a
<1>5. /\ Rounded(a, n) \in Nat
      /\ low <= Rounded(a, n)
      /\ Rounded(a, n) <= high
  BY <1>4, RoundedBetween
<1>6. QED
  BY <1>3, <1>5 DEF n, a

(* No value is more frequent than the mode. *)
LEMMA ModeIs ==
  ASSUME NEW N \in Nat, NEW D, D \subseteq 0..N, D # {}, NEW f \in [D -> Nat]
  PROVE  \A x \in Range(f) : Frequency(f, x) <= Frequency(f, Mode(f))
<1> DEFINE n == Cardinality(D)
<1>1. \A x : Frequency(f, x) \in Nat /\ Frequency(f, x) <= n
  <2> SUFFICES ASSUME NEW x PROVE Frequency(f, x) \in Nat /\ Frequency(f, x) <= n
    OBVIOUS
  <2>1. {i \in DOMAIN f : f[i] \in {x}} \in SUBSET D
    OBVIOUS
  <2>2. QED
    BY <2>1, PlacesCounted DEF Frequency, Occurrences
<1>2. n \in Nat
  BY PlacesCounted
<1>3. Range(f) \subseteq Nat /\ Range(f) # {}
  BY DEF Range
<1> HIDE DEF n
<1> DEFINE U == {n - Frequency(f, x) : x \in Range(f)}
<1>4. U \subseteq Nat /\ U # {}
  <2>1. \A x : n - Frequency(f, x) \in Nat
    BY <1>1, <1>2
  <2>2. QED
    BY <1>3, <2>1
<1>5. PICK u \in U : \A w \in U : u <= w
  <2> HIDE DEF U
  <2>1. QED
    BY <1>4, LeastOf
<1>6. PICK z \in Range(f) : u = n - Frequency(f, z)
  OBVIOUS
<1>7. \A y \in Range(f) : Frequency(f, y) <= Frequency(f, z)
  <2> SUFFICES ASSUME NEW y \in Range(f) PROVE Frequency(f, y) <= Frequency(f, z)
    OBVIOUS
  <2>1. n - Frequency(f, z) <= n - Frequency(f, y)
    BY <1>5, <1>6
  <2>2. Frequency(f, y) \in Nat /\ Frequency(f, z) \in Nat
    BY <1>1
  <2>3. QED
    BY <1>2, <2>1, <2>2
<1> DEFINE M == {x \in Range(f) : \A y \in Range(f) : Frequency(f, y) <= Frequency(f, x)}
<1>8. M \subseteq Nat /\ M # {}
  BY <1>3, <1>7
<1>9. Min(M) \in M
  <2> HIDE DEF M
  <2>1. QED
    BY <1>8, SmallestOf
<1>10. Mode(f) = Min(M)
  BY DEF Mode
<1>11. QED
  BY <1>9, <1>10

LEMMA SquareBounded ==
  ASSUME NEW R \in Nat, NEW d \in Int, -R <= d, d <= R
  PROVE  d * d \in Nat /\ d * d <= R * R
<1>1. \A e \in Nat : e <= R => e * e \in Nat /\ e * e <= R * R
  <2> SUFFICES ASSUME NEW e \in Nat, e <= R PROVE e * e \in Nat /\ e * e <= R * R
    OBVIOUS
  <2>1. e * e <= R * e
    BY TimesGrows
  <2>2. e * R <= R * R
    BY TimesGrows
  <2>3. R * e = e * R /\ e * e \in Nat /\ R * e \in Nat /\ R * R \in Nat
    OBVIOUS
  <2>4. QED
    BY <2>1, <2>2, <2>3
<1>2. CASE d >= 0
  BY <1>1, <1>2
<1>3. CASE d < 0
  <2>1. -d \in Nat /\ -d <= R /\ (-d) * (-d) = d * d
    BY <1>3
  <2>2. QED
    BY <1>1, <2>1
<1>4. QED
  BY <1>2, <1>3

(* Scores deviate by no more than they spread. *)
LEMMA DeviationBounded ==
  ASSUME NEW N \in Nat, NEW D, D \subseteq 0..N, D # {}, NEW f \in [D -> Nat],
         NEW low \in Nat, NEW high \in Nat, low <= high, high <= 100,
         \A i \in D : low <= f[i] /\ f[i] <= high
  PROVE  StandardDeviation(f) \in Nat /\ StandardDeviation(f) <= high - low
<1> DEFINE R == high - low
           n == Cardinality(D)
           mean == Mean(f)
           q == Sum(Squares(f, mean))
<1>1. n \in Nat /\ n > 0
  <2>1. IsFiniteSet(D)
    BY PlacesCounted
  <2>2. Cardinality(D) \in Nat /\ Cardinality(D) # 0
    BY <2>1, FS_CardinalityType, FS_EmptySet
  <2>3. QED
    BY <2>2
<1>2. mean \in Nat /\ low <= mean /\ mean <= high
  BY MeanBetween
<1>3. R \in Nat /\ R <= 100
  OBVIOUS
<1> HIDE DEF n, mean
<1>4. q \in Nat /\ q <= (R * R) * n
  <2> DEFINE g == Squares(f, mean)
  <2>1. \A i \in D : (f[i] - mean) * (f[i] - mean) \in Nat
                     /\ (f[i] - mean) * (f[i] - mean) <= R * R
    <3> SUFFICES ASSUME NEW i \in D
                 PROVE  /\ (f[i] - mean) * (f[i] - mean) \in Nat
                        /\ (f[i] - mean) * (f[i] - mean) <= R * R
      OBVIOUS
    <3> DEFINE d == f[i] - mean
    <3>1. d \in Int /\ -R <= d /\ d <= R
      BY <1>2
    <3> HIDE DEF d, R
    <3>2. d * d \in Nat /\ d * d <= R * R
      BY <1>3, <3>1, SquareBounded
    <3>3. QED
      BY <3>2 DEF d
  <2>2. g \in [D -> Nat] /\ \A i \in D : 0 <= g[i] /\ g[i] <= R * R
    BY <2>1 DEF Squares
  <2>3. R * R \in Nat
    BY <1>3
  <2> HIDE DEF g, R
  <2> DEFINE b == R * R
  <2>4. b \in Nat /\ \A i \in D : 0 <= g[i] /\ g[i] <= b
    BY <2>2, <2>3
  <2> HIDE DEF b
  <2>5. Sum(g) \in Nat /\ Sum(g) <= b * Cardinality(D)
    BY <2>2, <2>4, SumBetween
  <2>6. QED
    BY <2>5 DEF g, b, n
<1> HIDE DEF q, R
<1> DEFINE Rounds(r) == /\ r > 0 => n * (2 * r - 1) * (2 * r - 1) <= 4 * q
                        /\ 4 * q < n * (2 * r + 1) * (2 * r + 1)
<1>5. StandardDeviation(f) = CHOOSE r \in 0..100 : Rounds(r)
  BY DEF StandardDeviation, Size, n, q, mean
<1>6. \E r \in 0..100 : Rounds(r)
  <2> DEFINE V == {r \in Nat : 4 * q < n * (2 * r + 1) * (2 * r + 1)}
  <2>1. R \in V
    <3>1. n * (2 * R + 1) * (2 * R + 1) = 4 * ((R * R) * n) + 4 * (R * n) + n
      BY <1>1, <1>3
    <3>2. R * n \in Nat /\ (R * R) * n \in Nat
      BY <1>1, <1>3
    <3> DEFINE s == (R * R) * n
               t == R * n
    <3>3. s \in Nat /\ t \in Nat /\ q <= s
          /\ n * (2 * R + 1) * (2 * R + 1) = 4 * s + 4 * t + n
      BY <1>4, <3>1, <3>2
    <3> HIDE DEF s, t
    <3>4. 4 * q < n * (2 * R + 1) * (2 * R + 1)
      <4>1. 4 * q < 4 * s + 4 * t + n
        BY <1>1, <1>4, <3>3
      <4>2. QED
        BY <3>3, <4>1
    <3>5. QED
      BY <1>3, <3>4
  <2>2. PICK r \in V : \A w \in V : r <= w
    <3>1. V \subseteq Nat /\ V # {}
      BY <2>1
    <3> HIDE DEF V
    <3>2. QED
      BY <3>1, LeastOf
  <2>3. r \in Nat /\ r <= R /\ 4 * q < n * (2 * r + 1) * (2 * r + 1)
    BY <2>1, <2>2
  <2>4. ASSUME r > 0 PROVE n * (2 * r - 1) * (2 * r - 1) <= 4 * q
    <3>1. r - 1 \in Nat /\ ~(r <= r - 1) /\ 2 * (r - 1) + 1 = 2 * r - 1
      BY <2>3, <2>4
    <3>2. r - 1 \notin V
      BY <2>2, <3>1
    <3>3. ~(4 * q < n * (2 * r - 1) * (2 * r - 1))
      BY <3>1, <3>2
    <3>4. n * (2 * r - 1) * (2 * r - 1) \in Int
      BY <1>1, <2>3
    <3> DEFINE w == n * (2 * r - 1) * (2 * r - 1)
    <3>5. w \in Int /\ ~(4 * q < w)
      BY <3>3, <3>4
    <3> HIDE DEF w
    <3>6. w <= 4 * q
      BY <1>4, <3>5
    <3>7. QED
      BY <3>6 DEF w
  <2>5. r \in 0..100
    BY <1>3, <2>3
  <2>6. QED
    BY <2>3, <2>4, <2>5
<1> HIDE DEF Rounds
<1>7. PICK r \in 0..100 : Rounds(r) /\ StandardDeviation(f) = r
  BY <1>5, <1>6
<1>8. r <= R
  <2> SUFFICES ASSUME R < r PROVE FALSE
    BY <1>3, <1>7
  <2>1. n * (2 * r - 1) * (2 * r - 1) <= 4 * q
    BY <1>3, <1>7 DEF Rounds
  <2> DEFINE e == 2 * r - 1
  <2>2. e \in Nat /\ 2 * R + 1 <= e
    BY <1>3
  <2>3. (2 * R + 1) * (2 * R + 1) <= e * e
    <3> DEFINE c == 2 * R + 1
    <3>1. c \in Nat /\ c <= e
      BY <1>3, <2>2
    <3> HIDE DEF c, e
    <3>2. c * c <= e * c /\ c * e <= e * e
      BY <2>2, <3>1, TimesGrows
    <3>3. e * c = c * e /\ c * c \in Nat /\ c * e \in Nat /\ e * e \in Nat
      BY <2>2, <3>1
    <3>4. c * c <= e * e
      BY <3>2, <3>3
    <3>5. QED
      BY <3>4 DEF c
  <2> HIDE DEF e
  <2>4. (2 * R + 1) * (2 * R + 1) = 4 * (R * R) + 4 * R + 1 /\ R * R \in Nat
    BY <1>3
  <2> DEFINE a == R * R
             b == e * e
  <2>5. a \in Nat /\ b \in Nat /\ 4 * a + 4 * R + 1 <= b
    BY <2>2, <2>3, <2>4
  <2> HIDE DEF a, b
  <2>6. 4 * a + 1 <= b
    BY <1>3, <2>5
  <2>7. (4 * a + 1) * n <= b * n
    <3>1. 4 * a + 1 \in Nat
      BY <2>5
    <3>2. QED
      BY <1>1, <2>5, <2>6, <3>1, TimesGrows
  <2>8. (4 * a + 1) * n = 4 * (a * n) + n /\ a * n \in Nat
    BY <1>1, <2>5
  <2>9. n * e * e = b * n
    BY <1>1, <2>2 DEF b
  <2> DEFINE p == a * n
             u == b * n
  <2>10. p \in Nat /\ 4 * p + n <= u /\ q <= p /\ u <= 4 * q
    BY <1>4, <2>1, <2>7, <2>8, <2>9 DEF a, e
  <2>11. u \in Nat
    BY <1>1, <2>5
  <2> HIDE DEF p, u
  <2>12. QED
    BY <1>1, <1>4, <2>10, <2>11
<1>9. QED
  BY <1>7, <1>8 DEF R

-------------------------------------------------------------------------------
(* The statistics of a report (ScormScores). *)

(* What is asked of a list with numbers between the extremes given. *)
LEMMA MiddleFound ==
  ASSUME NEW N \in Nat, NEW D, D \subseteq 0..N, D # {}, NEW f \in [D -> Nat]
  PROVE  /\ Min(Range(f)) \in Nat /\ Max(Range(f)) \in Nat
         /\ Min(Range(f)) <= Max(Range(f))
         /\ Min(Range(f)) \in Range(f) /\ Max(Range(f)) \in Range(f)
         /\ \A i \in D : Min(Range(f)) <= f[i] /\ f[i] <= Max(Range(f))
         /\ InTheMiddle(f, Min(Range(f)), Median(f), Mean(f), Max(Range(f)))
<1> DEFINE low == Min(Range(f))
           high == Max(Range(f))
<1>1. Range(f) \subseteq Nat /\ Range(f) # {} /\ \A i \in D : f[i] \in Range(f)
  BY DEF Range
<1>2. Range(f) \subseteq 0..Sum(f) /\ Sum(f) \in Nat
  <2>1. Sum(f) \in Nat /\ \A i \in D : f[i] <= Sum(f)
    BY SumCovers
  <2>2. \A i \in D : f[i] \in 0..Sum(f)
    BY <2>1
  <2>3. QED
    BY <2>1, <2>2 DEF Range
<1>3. low \in Range(f) /\ \A x \in Range(f) : low <= x
  BY <1>1, SmallestOf
<1>4. high \in Range(f) /\ \A x \in Range(f) : x <= high
  BY <1>1, <1>2, BiggestOf
<1> HIDE DEF low, high
<1>5. low \in Nat /\ high \in Nat /\ low <= high
  BY <1>1, <1>3, <1>4
<1>6. \A i \in D : low <= f[i] /\ f[i] <= high
  BY <1>1, <1>3, <1>4
<1>7. low <= Mean(f) /\ Mean(f) <= high
  BY <1>5, <1>6, MeanBetween
<1>8. Median(f) + Median([i \in DOMAIN f |-> low + high - f[i]]) - (low + high) \in {0, 1}
  <2> DEFINE L == low + high
  <2>1. L \in Nat
    BY <1>5
  <2>2. Within(f, L)
    BY <1>5, <1>6 DEF Within
  <2> HIDE DEF L
  <2>3. MedianMirrors(f, L)
    BY <2>1, <2>2, MedianMirrored, Zenon
  <2>4. Mirror(f, low + high) = [i \in DOMAIN f |-> low + high - f[i]]
    BY <1>5 DEF Mirror
  <2>5. Median(f) + Median(Mirror(f, low + high)) - (low + high) \in {0, 1}
    BY <2>3 DEF L, MedianMirrors
  <2>6. QED
    BY <2>4, <2>5, Zenon
<1>9. /\ 2 * Cardinality(Below(f, Median(f))) <= Size(f)
      /\ 2 * Cardinality({i \in DOMAIN f : f[i] > Median(f)}) <= Size(f)
  BY MedianHalves
<1>10. InTheMiddle(f, low, Median(f), Mean(f), high)
  BY <1>7, <1>8, <1>9 DEF InTheMiddle
<1>11. QED
  BY <1>3, <1>4, <1>5, <1>6, <1>10 DEF low, high

LEMMA TrackedIs ==
  ASSUME ScoresTypeOK
  PROVE  /\ Len(tracked) \in Nat /\ DOMAIN tracked = 1..Len(tracked)
         /\ \A i \in DOMAIN tracked : tracked[i] \in TrackedAttempt
<1>1. tracked \in Seq(TrackedAttempt)
  BY DEF ScoresTypeOK
<1>2. QED
  BY <1>1

LEMMA ScoresAre ==
  ASSUME ScoresTypeOK
  PROVE  /\ Scored(tracked) \subseteq 0..Len(tracked)
         /\ ScoresOf(tracked) \in [Scored(tracked) -> 0..100]
         /\ ScoresOf(tracked) \in [Scored(tracked) -> Nat]
<1>1. Scored(tracked) \subseteq 0..Len(tracked)
  BY TrackedIs DEF Scored
<1>2. ASSUME NEW i \in Scored(tracked) PROVE AttemptScore(tracked[i]) \in 0..100
  <2>1. tracked[i] \in TrackedAttempt /\ AttemptScore(tracked[i]) # Unset
    BY TrackedIs DEF Scored
  <2> DEFINE a == tracked[i]
  <2>2. a.scaled \in (-100..100) \cup {Unset} /\ a.raw \in (0..100) \cup {Unset}
        /\ AttemptScore(a) # Unset
    BY <2>1 DEF TrackedAttempt
  <2> HIDE DEF a
  <2>3. CASE a.scaled # Unset
    <3>1. a.scaled \in -100..100
      BY <2>2, <2>3
    <3>2. \A x \in -100..100 : Rounded(x + 100, 2) \in 0..100
      BY DEF Rounded
    <3>3. QED
      BY <2>3, <3>1, <3>2 DEF AttemptScore, a
  <2>4. CASE a.scaled = Unset
    BY <2>2, <2>4 DEF AttemptScore, a
  <2>5. QED
    BY <2>3, <2>4
<1>3. ScoresOf(tracked) \in [Scored(tracked) -> 0..100]
  BY <1>2 DEF ScoresOf
<1>4. 0..100 \subseteq Nat
  OBVIOUS
<1>5. QED
  BY <1>1, <1>3, <1>4

LEMMA TimesAre ==
  ASSUME ScoresTypeOK
  PROVE  TimesOf(tracked) \in [DOMAIN tracked -> Nat]
<1>1. ASSUME NEW i \in DOMAIN tracked PROVE SessionSeconds(tracked[i]) \in Nat
  <2>1. tracked[i].seconds \in Nat
    BY TrackedIs DEF TrackedAttempt
  <2>2. QED
    BY <2>1 DEF SessionSeconds, SecondsRead
<1>2. QED
  BY <1>1 DEF TimesOf

LEMMA TimeBinIn == \A s \in Nat : TimeBin(s) \in 0..6
<1> SUFFICES ASSUME NEW s \in Nat PROVE TimeBin(s) \in 0..6
  OBVIOUS
<1> DEFINE E == Range(TimeEdges)
           T == {e \in E : s >= 60 * e}
<1>1. TimeEdges \in Surjection(1..6, E)
  <2>1. DOMAIN TimeEdges = 1..6
    BY DEF TimeEdges
  <2>2. QED
    BY <2>1 DEF Surjection, Range, TimeEdges
<1>2. IsFiniteSet(1..6) /\ Cardinality(1..6) = 6
  <2>1. \A m \in Nat : IsFiniteSet(1..m) /\ Cardinality(1..m) = m
    BY FS_Interval
  <2>2. QED
    BY <2>1
<1> HIDE DEF E
<1>3. IsFiniteSet(E) /\ Cardinality(E) <= 6
  BY <1>1, <1>2, FS_Surjection
<1>4. T \in SUBSET E
  OBVIOUS
<1> HIDE DEF T
<1>5. IsFiniteSet(T) /\ Cardinality(T) <= Cardinality(E)
  BY <1>3, <1>4, FS_Subset
<1>6. Cardinality(T) \in Nat /\ Cardinality(E) \in Nat
  BY <1>3, <1>5, FS_CardinalityType
<1>7. Cardinality(T) \in 0..6
  BY <1>3, <1>5, <1>6
<1>8. QED
  BY <1>7 DEF TimeBin, T, E

(* Bins, bands and letters say the same of every score. *)
LEMMA CountedOnce == ScoresTypeOK => EachCountedOnce
<1> SUFFICES ASSUME ScoresTypeOK PROVE EachCountedOnce
  OBVIOUS
<1> DEFINE E == Scored(tracked)
           f == ScoresOf(tracked)
           D == DOMAIN tracked
           g == TimesOf(tracked)
<1>1. f \in [E -> 0..100]
  BY ScoresAre
<1>2. g \in [D -> Nat]
  BY TimesAre
<1>3. IsFiniteSet(E)
  <2>1. E \subseteq 0..Len(tracked) /\ Len(tracked) \in Nat
    BY ScoresAre, TrackedIs
  <2>2. QED
    BY <2>1, PlacesCounted
<1>4. IsFiniteSet(D) /\ Cardinality(D) = Len(tracked)
  BY TrackedIs, FS_Interval
<1>5. Sum(ScoreCounts(tracked)) = Cardinality(E)
  <2> DEFINE h == [i \in E |-> ScoreBin(f[i])]
             c == ScoreCounts(tracked)
  <2>1. h \in [E -> 0..9]
    <3>1. \A x \in 0..100 : ScoreBin(x) \in 0..9
      <4> SUFFICES ASSUME NEW x \in 0..100 PROVE ScoreBin(x) \in 0..9
        OBVIOUS
      <4> DEFINE d == x \div 10
      <4>1. d \in Nat
        OBVIOUS
      <4> HIDE DEF d
      <4>2. Min({d, 9}) \in 0..9
        BY <4>1, SmallerOf
      <4>3. QED
        BY <4>2 DEF ScoreBin, d
    <3>2. QED
      BY <1>1, <3>1
  <2>2. CountsKinds(c, h, 9)
    <3>1. \A b : {i \in E : h[i] = b} = {i \in E : ScoreBin(f[i]) = b}
      OBVIOUS
    <3>2. QED
      BY <3>1 DEF ScoreCounts, CountsKinds
  <2> HIDE DEF h, c, E
  <2>3. Sum(c) = Cardinality(E)
    BY <1>3, <2>1, <2>2, SumOfKinds
  <2>4. QED
    BY <2>3 DEF c
<1>6. Sum(TimeCounts(tracked)) = Len(tracked)
  <2> DEFINE h == [i \in D |-> TimeBin(g[i])]
             c == TimeCounts(tracked)
  <2>1. h \in [D -> 0..6]
    BY <1>2, TimeBinIn
  <2>2. CountsKinds(c, h, 6)
    <3>1. \A b : {i \in D : h[i] = b} = {i \in D : TimeBin(g[i]) = b}
      OBVIOUS
    <3>2. QED
      BY <3>1 DEF TimeCounts, CountsKinds
  <2> HIDE DEF h, c, D
  <2>3. Sum(c) = Cardinality(D)
    BY <1>4, <2>1, <2>2, SumOfKinds
  <2>4. QED
    BY <1>4, <2>3 DEF c
<1>7. ASSUME NEW l \in Grades
      PROVE  GradeCounts(tracked)[l] = Cardinality({i \in E : GradeLetter(f[i]) = l})
  <2>1. \A x \in 0..100 : x \in Band[l] <=> GradeLetter(x) = l
    <3> SUFFICES ASSUME NEW x \in 0..100 PROVE x \in Band[l] <=> GradeLetter(x) = l
      OBVIOUS
    <3>1. /\ Band["A"] = 90..100 /\ Band["B"] = 80..89 /\ Band["C"] = 70..79
          /\ Band["D"] = 60..69 /\ Band["F"] = 0..59
      BY DEF Band
    <3>2. /\ x >= 90 => GradeLetter(x) = "A"
          /\ x < 90 /\ x >= 80 => GradeLetter(x) = "B"
          /\ x < 80 /\ x >= 70 => GradeLetter(x) = "C"
          /\ x < 70 /\ x >= 60 => GradeLetter(x) = "D"
          /\ x < 60 => GradeLetter(x) = "F"
      <4>1. CASE x >= 90
        BY <4>1 DEF GradeLetter
      <4>2. CASE x < 90 /\ x >= 80
        BY <4>2 DEF GradeLetter
      <4>3. CASE x < 80 /\ x >= 70
        BY <4>3 DEF GradeLetter
      <4>4. CASE x < 70 /\ x >= 60
        BY <4>4 DEF GradeLetter
      <4>5. CASE x < 60
        BY <4>5 DEF GradeLetter
      <4>6. QED
        BY <4>1, <4>2, <4>3, <4>4, <4>5
    <3>3. l \in {"A", "B", "C", "D", "F"}
      BY DEF Grades
    <3>4. QED
      BY <3>1, <3>2, <3>3
  <2>2. DOMAIN f = E
    BY <1>1
  <2>3. {i \in DOMAIN f : f[i] \in Band[l]} = {i \in E : GradeLetter(f[i]) = l}
    BY <1>1, <2>1, <2>2
  <2>4. QED
    BY <2>3 DEF GradeCounts, Occurrences
<1>8. QED
  BY <1>5, <1>6, <1>7 DEF EachCountedOnce

LEMMA StatisticsFound == ScoresTypeOK => StatisticsSound
<1> SUFFICES ASSUME ScoresTypeOK PROVE StatisticsSound
  OBVIOUS
<1> DEFINE N == Len(tracked)
<1>0. N \in Nat /\ DOMAIN tracked = 1..N
  BY TrackedIs
<1>1. ASSUME Scored(tracked) # {}
      PROVE  LET scores == ScoresOf(tracked)
                 found == ScoreStatistics(tracked)
             IN  /\ InTheMiddle(scores, found.min, found.median, found.mean, found.max)
                 /\ \A x \in Range(scores) :
                      Frequency(scores, x) <= Frequency(scores, found.mode)
                 /\ AverageScore(tracked) = found.mean
                 /\ BestScore(tracked) = found.max
                 /\ found.min = found.max => found.stdDev = 0
                 /\ found.stdDev <= found.max - found.min
  <2> DEFINE D == Scored(tracked)
             f == ScoresOf(tracked)
             low == Min(Range(f))
             high == Max(Range(f))
  <2>1. D \subseteq 0..N /\ f \in [D -> Nat] /\ f \in [D -> 0..100] /\ D # {}
    BY <1>1, ScoresAre
  <2> HIDE DEF D, f, N
  <2>2. /\ low \in Nat /\ high \in Nat /\ low <= high
        /\ low \in Range(f) /\ high \in Range(f)
        /\ \A i \in D : low <= f[i] /\ f[i] <= high
        /\ InTheMiddle(f, low, Median(f), Mean(f), high)
    BY <1>0, <2>1, MiddleFound
  <2>3. \A x \in Range(f) : Frequency(f, x) <= Frequency(f, Mode(f))
    BY <1>0, <2>1, ModeIs
  <2>4. high <= 100
    <3>1. \A x \in Range(f) : x \in 0..100
      BY <2>1 DEF Range
    <3>2. high \in 0..100
      BY <2>2, <3>1
    <3>3. QED
      BY <3>2
  <2> HIDE DEF low, high
  <2>5. StandardDeviation(f) \in Nat /\ StandardDeviation(f) <= high - low
    BY <1>0, <2>1, <2>2, <2>4, DeviationBounded
  <2>6. low = high => StandardDeviation(f) = 0
    BY <2>2, <2>5
  <2>7. AverageScore(tracked) = Mean(f) /\ BestScore(tracked) = high
    BY <1>1 DEF AverageScore, BestScore, f, high
  <2>8. ScoreStatistics(tracked)
          = [mean |-> Mean(f), median |-> Median(f), mode |-> Mode(f),
             min |-> low, max |-> high, stdDev |-> StandardDeviation(f)]
    BY DEF ScoreStatistics, f, low, high
  <2> DEFINE found == ScoreStatistics(tracked)
  <2>9. /\ found.mean = Mean(f) /\ found.median = Median(f) /\ found.mode = Mode(f)
        /\ found.min = low /\ found.max = high /\ found.stdDev = StandardDeviation(f)
    BY <2>8
  <2> HIDE DEF found
  <2>10. /\ InTheMiddle(f, found.min, found.median, found.mean, found.max)
         /\ \A x \in Range(f) : Frequency(f, x) <= Frequency(f, found.mode)
         /\ AverageScore(tracked) = found.mean
         /\ BestScore(tracked) = found.max
         /\ found.min = found.max => found.stdDev = 0
         /\ found.stdDev <= found.max - found.min
    BY <2>2, <2>3, <2>5, <2>6, <2>7, <2>9
  <2>11. QED
    BY <2>10 DEF found, f
<1>2. LET times == Counted(tracked)
          found == TimeStatistics(tracked)
      IN  DOMAIN times # {} =>
            InTheMiddle(times, found.min, found.median, found.average, found.max)
  <2> DEFINE f == Counted(tracked)
             D == {j \in DOMAIN tracked : TimesOf(tracked)[j] > 0}
             low == Min(Range(f))
             high == Max(Range(f))
             found == TimeStatistics(tracked)
  <2> SUFFICES ASSUME DOMAIN f # {}
               PROVE  InTheMiddle(f, found.min, found.median, found.average, found.max)
    OBVIOUS
  <2>1. D \subseteq 0..N /\ f \in [D -> Nat] /\ D # {}
    <3>1. TimesOf(tracked) \in [DOMAIN tracked -> Nat]
      BY TimesAre
    <3>2. D \subseteq 0..N
      BY <1>0
    <3>3. f = [i \in D |-> TimesOf(tracked)[i]] /\ DOMAIN f = D
      BY DEF Counted
    <3>4. QED
      BY <3>1, <3>2, <3>3
  <2>2. found = [average |-> Mean(f), median |-> Median(f), min |-> low, max |-> high]
    BY DEF TimeStatistics
  <2>3. /\ found.average = Mean(f) /\ found.median = Median(f)
        /\ found.min = low /\ found.max = high
    BY <2>2
  <2> HIDE DEF D, f, N, found
  <2>4. InTheMiddle(f, low, Median(f), Mean(f), high)
    BY <1>0, <2>1, MiddleFound
  <2>5. QED
    BY <2>3, <2>4
<1>3. QED
  BY <1>1, <1>2, CountedOnce DEF StatisticsSound

(* Every variable has its type. *)
LEMMA ScoresTypeInit == ScoresInit => ScoresTypeOK
BY DEF ScoresInit, ScoresTypeOK

LEMMA ScoresTypeStep == ScoresTypeOK /\ [ScoresNext]_tracked => ScoresTypeOK'
<1> SUFFICES ASSUME ScoresTypeOK, [ScoresNext]_tracked PROVE ScoresTypeOK'
  OBVIOUS
<1>1. CASE Track
  <2>1. PICK a \in Tracked : tracked' = Append(tracked, a)
    BY <1>1 DEF Track
  <2>2. a \in TrackedAttempt
    BY ScoresAssumption
  <2>3. QED
    BY <2>1, <2>2 DEF ScoresTypeOK
<1>2. CASE NewReport
  BY <1>2 DEF NewReport, ScoresTypeOK
<1>3. CASE UNCHANGED tracked
  BY <1>3 DEF ScoresTypeOK
<1>4. QED
  BY <1>1, <1>2, <1>3 DEF ScoresNext

(* For any list of attempts, of any length: the distributions count every  *)
(* attempt once, the median halves the list and mirrors, the average lies  *)
(* between the extremes, no score is more frequent than the mode, and      *)
(* scores deviate by no more than they spread                              *)
(* (completionCalculator.ts:115-141, 198-259, 283-405).                    *)
THEOREM StatisticsSoundCorrect == ScoresSpec => []StatisticsSound
<1>1. ScoresTypeOK => StatisticsSound
  BY StatisticsFound
<1>2. QED
  BY <1>1, ScoresTypeInit, ScoresTypeStep, PTL DEF ScoresSpec

====
