----------------------------- MODULE ScormLaunch ------------------------------
(***************************************************************************)
(* Launching one SCORM package: launchPlayer of scormPlayerCtrl.ts,        *)
(* launchPackage of scormContentCtrl.ts with getOrCreateAttempt, and       *)
(* completeAttempt of scormAttemptCtrl.ts.  Each numbers a user's attempts *)
(* from what it read, creates or changes one, and then brings the          *)
(* statistics of the package up to date from a read of all attempts.       *)
(*                                                                         *)
(* Two unique indexes guard the creation: learner, package and number, and *)
(* attemptId, which the player builds from the package and the number      *)
(* alone.  For learners the player fails before it counts: the method      *)
(* hasLearnerAccess it calls is not defined.  So it launches for staff.    *)
(***************************************************************************)
EXTENDS Naturals, FiniteSetsExt

CONSTANTS
  User,         \* who launches: learners, staff and administrators
  NoUser,       \* the user of a launch at rest
  Staff,        \* those of them that are staff or administrators
  Launch,       \* the requests in flight at once
  MaxAttempts,  \* maxAttempts of the package, 0 when there is none
  MaxNumber     \* bound: the attempts of one user

ASSUME LaunchAssumption ==
  /\ NoUser \notin User
  /\ Staff \subseteq User
  /\ MaxAttempts \in Nat
  /\ MaxNumber \in Nat

VARIABLES
  attempt,    \* the ScormAttempt documents of the package
  status,     \* status[<<u, n>>]: the status of attempt n of user u
  stats,      \* stats of the ScormPackage document
  present,    \* whether that document exists
  launch      \* launch[l]: where request l is and what it has read

launching == <<attempt, status, stats, present, launch>>

-------------------------------------------------------------------------------

(* `player` tells an attempt of the player from one of the content API. *)
AttemptKey == [user : User, number : 1..MaxNumber, player : BOOLEAN]

(* Of the statuses, those the launches tell apart: running or suspended,   *)
(* completed or passed, and the others.                                    *)
AttemptStatus == {"other", "resumable", "done"}

StatusKey == User \X (1..MaxNumber)
Stats == [total : Nat, completed : Nat]

Numbers(u) == {a.number : a \in {b \in attempt : b.user = u}}
DoneAttempts == {a \in attempt : status[<<a.user, a.number>>] = "done"}

LaunchRequest ==
  [at : {"idle", "find", "count", "create", "read", "write"},
   user : User \cup {NoUser}, player : BOOLEAN, number : Nat, seen : Stats]

NoStats == [total |-> 0, completed |-> 0]
Unlaunched ==
  [at |-> "idle", user |-> NoUser, player |-> FALSE, number |-> 0, seen |-> NoStats]

LaunchInit ==
  /\ attempt = {}
  /\ status = [k \in StatusKey |-> "other"]
  /\ stats = NoStats
  /\ present = TRUE
  /\ launch = [l \in Launch |-> Unlaunched]

Proceed(l, at) == launch' = [launch EXCEPT ![l].at = at]
(* What is left to do is about the package, not the user. *)
Update(l) == launch' = [launch EXCEPT ![l] = [Unlaunched EXCEPT !.at = "read"]]
EndLaunch(l) == launch' = [launch EXCEPT ![l] = Unlaunched]

-------------------------------------------------------------------------------

(* The package is found; a learner's launch of the player goes no further. *)
StartLaunch(l, u, player) ==
  /\ launch[l].at = "idle"
  /\ present
  /\ player => u \in Staff
  /\ launch' = [launch EXCEPT ![l] =
       [Unlaunched EXCEPT !.at = IF player THEN "find" ELSE "count",
                      !.user = u, !.player = player]]
  /\ UNCHANGED <<attempt, status, stats, present>>

(* The player resumes an attempt that is running or suspended. *)
FindResumable(l) ==
  /\ launch[l].at = "find"
  /\ IF \E n \in Numbers(launch[l].user) :
          status[<<launch[l].user, n>>] = "resumable"
     THEN Update(l)
     ELSE Proceed(l, "count")
  /\ UNCHANGED <<attempt, status, stats, present>>

(* Mutant: the player numbers by the attempts of all users. *)
CountAll(l) == Cardinality(attempt) + 1

(* Mutant: the number of the last attempt, not the next one. *)
LastNumber(l) == Max(Numbers(launch[l].user) \cup {0})

(* The player counts the user's attempts, the content API finds the last.  *)
NextNumber(l) ==
  IF launch[l].player
  THEN Cardinality(Numbers(launch[l].user)) + 1
  ELSE Max(Numbers(launch[l].user) \cup {0}) + 1

CountAttempts(l) ==
  /\ launch[l].at = "count"
  /\ NextNumber(l) <= MaxNumber
  /\ launch' = [launch EXCEPT ![l].at = "create", ![l].number = NextNumber(l)]
  /\ UNCHANGED <<attempt, status, stats, present>>

NewAttemptOf(l) ==
  [user |-> launch[l].user, number |-> launch[l].number,
   player |-> launch[l].player]

(* The two unique indexes. *)
Refused(a) ==
  \/ \E b \in attempt : b.user = a.user /\ b.number = a.number
  \/ a.player /\ \E b \in attempt : b.player /\ b.number = a.number

(* launchPackage looks at maxAttempts once the attempt is there. *)
OverLimit(l) ==
  /\ ~launch[l].player
  /\ MaxAttempts > 0
  /\ launch[l].number > MaxAttempts

CreateAttempt(l) ==
  /\ launch[l].at = "create"
  /\ ~Refused(NewAttemptOf(l))
  /\ attempt' = attempt \cup {NewAttemptOf(l)}
  /\ IF OverLimit(l) THEN EndLaunch(l) ELSE Update(l)
  /\ UNCHANGED <<status, stats, present>>

(* completeAttempt saves the status that follows from the CMI values the   *)
(* attempt had when it was loaded, any of them; then the statistics.       *)
CompleteAttempt(l, u, n) ==
  /\ launch[l].at = "idle"
  /\ present
  /\ n \in Numbers(u)
  /\ \E s \in AttemptStatus : status' = [status EXCEPT ![<<u, n>>] = s]
  /\ Update(l)
  /\ UNCHANGED <<attempt, stats, present>>

(* updateStats: find reads the attempts, updateOne writes the numbers.     *)
Counted == [total |-> Cardinality(attempt), completed |-> Cardinality(DoneAttempts)]

ReadAttempts(l) ==
  /\ launch[l].at = "read"
  /\ launch' = [launch EXCEPT ![l].at = "write", ![l].seen = Counted]
  /\ UNCHANGED <<attempt, status, stats, present>>

(* Mutant: the numbers are written one by one. *)
HalfWritten(l) == [total |-> stats.total, completed |-> launch[l].seen.completed]

Written(l) == launch[l].seen

WriteStats(l) ==
  /\ launch[l].at = "write"
  /\ stats' = IF present THEN Written(l) ELSE stats
  /\ EndLaunch(l)
  /\ UNCHANGED <<attempt, status, present>>

(* An operation fails, an index refuses, or a restart cuts the request off.*)
CutOffLaunch(l) ==
  /\ launch[l].at # "idle"
  /\ EndLaunch(l)
  /\ UNCHANGED <<attempt, status, stats, present>>

(* What the runtime makes of an attempt (ScormRuntime). *)
Play(u, n) ==
  /\ n \in Numbers(u)
  /\ \E s \in AttemptStatus : status' = [status EXCEPT ![<<u, n>>] = s]
  /\ UNCHANGED <<attempt, stats, present, launch>>

PackageDeleted ==
  /\ present' = FALSE
  /\ UNCHANGED <<attempt, status, stats, launch>>

LaunchNext ==
  \/ \E l \in Launch :
       \/ \E u \in User, player \in BOOLEAN : StartLaunch(l, u, player)
       \/ FindResumable(l) \/ CountAttempts(l) \/ CreateAttempt(l)
       \/ \E u \in User, n \in 1..MaxNumber : CompleteAttempt(l, u, n)
       \/ ReadAttempts(l) \/ WriteStats(l) \/ CutOffLaunch(l)
  \/ \E u \in User, n \in 1..MaxNumber : Play(u, n)
  \/ PackageDeleted

LaunchSpec == LaunchInit /\ [][LaunchNext]_launching

-------------------------------------------------------------------------------

(* Every variable has its type. *)
LaunchTypeOK ==
  /\ attempt \subseteq AttemptKey
  /\ status \in [StatusKey -> AttemptStatus]
  /\ stats \in Stats
  /\ present \in BOOLEAN
  /\ launch \in [Launch -> LaunchRequest]

(* A user's attempts are numbered 1, 2, ... without gap or repetition,     *)
(* although two launches may read the same number and both APIs number     *)
(* their own way (scormPlayerCtrl.ts:92-102, ScormAttempt.ts:352-383).     *)
NumbersInARow ==
  \A u \in User :
    /\ Numbers(u) = 1..Cardinality(Numbers(u))
    /\ Cardinality({a \in attempt : a.user = u}) = Cardinality(Numbers(u))

(* The statistics may lag behind, when a launch writes what it read before *)
(* another created its attempt, but they never show more attempts than     *)
(* there are, nor more completed ones than attempts, which completionRate  *)
(* divides (ScormPackage.ts:308-313, 352-387).                             *)
StatsInRange ==
  /\ stats.completed <= stats.total
  /\ stats.total <= Cardinality(attempt)

(* Attempts are numbered and counted right.                                *)
AttemptsCounted == NumbersInARow /\ StatsInRange

(* A package is attempted maxAttempts times at most (ScormPackage.ts:144). *)
(* It fails: launchPackage creates the attempt before it looks.            *)
WithinLimit == MaxAttempts > 0 => \A u \in User : Cardinality(Numbers(u)) <= MaxAttempts

===============================================================================
