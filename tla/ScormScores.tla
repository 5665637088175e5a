------------------------------ MODULE ScormScores ------------------------------
(***************************************************************************)
(* The aggregates of utils/scorm/completionCalculator.ts that the reports  *)
(* of scormReportCtrl.ts show: scores, their statistics, and how scores    *)
(* and times are distributed.  `tracked` is the list of attempts a report  *)
(* found; every list of at most MaxTracked attempts is reached.            *)
(*                                                                         *)
(* Scores are whole numbers and a scaled score is in hundredths.  Math.    *)
(* round rounds a half up.  A list of numbers is a function on the places  *)
(* of the attempts that have one.  A time is written in the notation of    *)
(* SCORM 2004 (`iso`) or in that of 1.2; it counts only where it is read   *)
(* in its own notation, and a report that did not populate the package     *)
(* reads 1.2.                                                              *)
(***************************************************************************)
EXTENDS Integers, SequencesExt, FiniteSetsExt

CONSTANTS
  Tracked,      \* attempts as far as scores and times go
  Unset,        \* a score that was never set
  MaxTracked    \* bound: attempts in a list

VARIABLE tracked

-------------------------------------------------------------------------------

(* scaled is in -100..100, raw in 0..100; either may be unset. *)
TrackedAttempt ==
  [scaled : (-100..100) \cup {Unset}, raw : (0..100) \cup {Unset},
   seconds : Nat, iso : BOOLEAN]

ASSUME ScoresAssumption ==
  /\ Unset \notin Int
  /\ Tracked \subseteq TrackedAttempt
  /\ MaxTracked \in Nat

(* The sum of the numbers f has at each place, added in ascending order.   *)
Totals(f) ==
  LET total[k \in 0..Max(DOMAIN f \cup {0})] ==
        (IF k = 0 THEN 0 ELSE total[k - 1]) + (IF k \in DOMAIN f THEN f[k] ELSE 0)
  IN  total
Sum(f) == Totals(f)[Max(DOMAIN f \cup {0})]
Size(f) == Cardinality(DOMAIN f)

(* Math.round(a / b) *)
Rounded(a, b) == (2 * a + b) \div (2 * b)
Percentage(count, total) == IF total > 0 THEN Rounded(100 * count, total) ELSE 0

(* The scaled score, moved to 0..100, before the raw one. *)
AttemptScore(a) == IF a.scaled # Unset THEN Rounded(a.scaled + 100, 2) ELSE a.raw

Scored(s) == {i \in DOMAIN s : AttemptScore(s[i]) # Unset}
ScoresOf(s) == [i \in Scored(s) |-> AttemptScore(s[i])]

(* The average, and the score of the best attempt, when any has one. *)
Mean(f) == Rounded(Sum(f), Size(f))
BestScore(s) == IF Scored(s) = {} THEN Unset ELSE Max(Range(ScoresOf(s)))
AverageScore(s) == IF Scored(s) = {} THEN Unset ELSE Mean(ScoresOf(s))

(* What the notation leaves of a time; `read` is the one it is read in. *)
SecondsRead(a, read) == IF a.iso = read THEN a.seconds ELSE 0
SessionSeconds(a) == SecondsRead(a, FALSE)
TimesOf(s) == [i \in DOMAIN s |-> SessionSeconds(s[i])]
TotalTime(s) == Sum(TimesOf(s))

-------------------------------------------------------------------------------

(* How often f has a value of V. *)
Occurrences(f, V) == Cardinality({i \in DOMAIN f : f[i] \in V})

(* Mutant: a score of 100 starts an eleventh bin. *)
ScoreBinUncapped(score) == score \div 10
ScoreBin(score) == Min({score \div 10, 9})

ScoreCounts(s) ==
  [b \in 0..9 |-> Cardinality({i \in Scored(s) : ScoreBin(ScoresOf(s)[i]) = b})]
ScoreDistribution(s) ==
  LET counts == ScoreCounts(s)
  IN  [b \in 0..9 |-> [count |-> counts[b],
                       percentage |-> Percentage(counts[b], Sum(counts))]]

(* The bins of a time, in minutes: 0-5, 5-10, 10-15, 15-30, 30-45, 45-60.  *)
TimeEdges == <<5, 10, 15, 30, 45, 60>>
TimeBin(seconds) == Cardinality({e \in Range(TimeEdges) : seconds >= 60 * e})
TimeCounts(s) ==
  [b \in 0..6 |-> Cardinality({i \in DOMAIN s : TimeBin(TimesOf(s)[i]) = b})]

(* The bands of aggregateGradesDistribution, and the letter of one score.  *)
Grades == {"A", "B", "C", "D", "F"}
Band == [A |-> 90..100, B |-> 80..89, C |-> 70..79, D |-> 60..69, F |-> 0..59]
GradeLetter(score) ==
  IF score >= 90 THEN "A" ELSE IF score >= 80 THEN "B"
  ELSE IF score >= 70 THEN "C" ELSE IF score >= 60 THEN "D" ELSE "F"
GradeCounts(s) == [g \in Grades |-> Occurrences(ScoresOf(s), Band[g])]

-------------------------------------------------------------------------------

(* The value at place k of the values of f in ascending order. *)
Below(f, x) == {i \in DOMAIN f : f[i] < x}
UpTo(f, x) == {i \in DOMAIN f : f[i] <= x}
Ranked(f, k) ==
  CHOOSE x \in Range(f) : Cardinality(Below(f, x)) < k /\ k <= Cardinality(UpTo(f, x))

(* Mutant: the middle of an even number of values is the lower of the two. *)
MedianLower(f) == Ranked(f, (Size(f) + 1) \div 2)

Median(f) ==
  LET middle == Size(f) \div 2
  IN  IF Size(f) % 2 = 0 THEN Rounded(Ranked(f, middle) + Ranked(f, middle + 1), 2)
      ELSE Ranked(f, middle + 1)

(* The keys of `frequency` come in ascending order. *)
Frequency(f, x) == Occurrences(f, {x})
Mode(f) ==
  Min({x \in Range(f) : \A y \in Range(f) : Frequency(f, y) <= Frequency(f, x)})

(* Math.round(Math.sqrt(squares / n)): the deviations are from the mean    *)
(* that has been rounded.                                                  *)
Squares(f, mean) == [i \in DOMAIN f |-> (f[i] - mean) * (f[i] - mean)]
StandardDeviation(f) ==
  LET n == Size(f)
      squares == Sum(Squares(f, Mean(f)))
  IN  CHOOSE r \in 0..100 :
        /\ r > 0 => n * (2 * r - 1) * (2 * r - 1) <= 4 * squares
        /\ 4 * squares < n * (2 * r + 1) * (2 * r + 1)

ScoreStatistics(s) ==
  LET scores == ScoresOf(s)
  IN  [mean |-> Mean(scores), median |-> Median(scores), mode |-> Mode(scores),
       min |-> Min(Range(scores)), max |-> Max(Range(scores)),
       stdDev |-> StandardDeviation(scores)]

(* Only the times above zero count; without any, all four are 0. *)
Counted(s) == [i \in {j \in DOMAIN s : TimesOf(s)[j] > 0} |-> TimesOf(s)[i]]
TimeStatistics(s) ==
  LET times == Counted(s)
  IN  IF DOMAIN times = {} THEN [average |-> 0, median |-> 0, min |-> 0, max |-> 0]
      ELSE [average |-> Mean(times), median |-> Median(times),
            min |-> Min(Range(times)), max |-> Max(Range(times))]

-------------------------------------------------------------------------------

ScoresInit == tracked = <<>>

Track ==
  /\ Len(tracked) < MaxTracked
  /\ \E a \in Tracked : tracked' = Append(tracked, a)

(* Another report starts from what it finds. *)
NewReport == tracked' = <<>>

ScoresNext == Track \/ NewReport
ScoresSpec == ScoresInit /\ [][ScoresNext]_tracked

-------------------------------------------------------------------------------

(* Every variable has its type. *)
ScoresTypeOK == tracked \in Seq(TrackedAttempt)

(* The distributions count every attempt once: each scored attempt is in   *)
(* one bin and in the band of its letter, each attempt in one bin of times,*)
(* although bins, bands and letters state their limits three times over    *)
(* (completionCalculator.ts:198-259, 365-405).                             *)
EachCountedOnce ==
  /\ Sum(ScoreCounts(tracked)) = Cardinality(Scored(tracked))
  /\ Sum(TimeCounts(tracked)) = Len(tracked)
  /\ \A g \in Grades :
       GradeCounts(tracked)[g] =
         Cardinality({i \in Scored(tracked) : GradeLetter(ScoresOf(tracked)[i]) = g})

(* `average` and `median` lie between the extremes of f, `median` with at  *)
(* most half of the values on either side, and where it would lie, but for *)
(* rounding, if the values were counted from the other end.                *)
InTheMiddle(f, low, median, average, high) ==
  /\ low <= average /\ average <= high
  /\ 2 * Cardinality(Below(f, median)) <= Size(f)
  /\ 2 * Cardinality({i \in DOMAIN f : f[i] > median}) <= Size(f)
  /\ median + Median([i \in DOMAIN f |-> low + high - f[i]]) - (low + high) \in {0, 1}

(* The statistics of scores and of times are those of their definitions:   *)
(* the median halves the list, no score is more frequent than the mode, the*)
(* average of all is never above the best score, and scores deviate only   *)
(* where they differ, by no more than they spread                          *)
(* (completionCalculator.ts:115-141, 283-360).                             *)
StatisticsSound ==
  /\ EachCountedOnce
  /\ Scored(tracked) # {} =>
       LET scores == ScoresOf(tracked)
           found == ScoreStatistics(tracked)
       IN  /\ InTheMiddle(scores, found.min, found.median, found.mean, found.max)
           /\ \A x \in Range(scores) : Frequency(scores, x) <= Frequency(scores, found.mode)
           /\ AverageScore(tracked) = found.mean
           /\ BestScore(tracked) = found.max
           /\ found.min = found.max => found.stdDev = 0
           /\ found.stdDev <= found.max - found.min
  /\ LET times == Counted(tracked)
         found == TimeStatistics(tracked)
     IN  DOMAIN times # {} =>
           InTheMiddle(times, found.min, found.median, found.average, found.max)

===============================================================================
