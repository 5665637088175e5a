----------------------------- MODULE ScormReports ------------------------------
(***************************************************************************)
(* The SCORM reports of scormReportCtrl.ts, which one viewer reads while   *)
(* learners play, packages are deleted and enrollments come and go.  An    *)
(* attempt is a document of ScormAttempt; attempts are never deleted, so   *)
(* its place in `attempts`, in the order of startedAt, is its identity.    *)
(*                                                                         *)
(* Staff may launch a package too.  Their attempts name a user who is no   *)
(* Learner, and populate leaves null for the learner; so it does for the   *)
(* package of an attempt once that is deleted.  Reports that use either    *)
(* answer 500 (Failed).  Scores and times are those of ScormScores.        *)
(***************************************************************************)
EXTENDS ScormAttempt, Integers, SequencesExt, FiniteSetsExt

CONSTANTS
  Learner, Previewer,   \* who launches: learners, and staff who preview
  Package,
  Dept, NoDept,
  DeptOf,               \* the department of a package, NoDept when it has none
  Owned,                \* the packages the viewer uploaded
  Global,               \* the packages with isGlobal set
  Limit,                \* the rows of a page of the export
  MaxAttempts,          \* bound: attempts
  MaxPlayed             \* bound: the first of them that are played on

ASSUME ReportsAssumption ==
  /\ Learner \cap Previewer = {}
  /\ NoDept \notin Dept
  /\ DeptOf \in [Package -> Dept \cup {NoDept}]
  /\ Owned \subseteq Package /\ Global \subseteq Package
  /\ Limit \in 1..100
  /\ MaxAttempts \in Nat /\ MaxPlayed \in Nat

VARIABLES
  attempts,   \* the ScormAttempt documents, oldest first
  packages,   \* the packages that exist
  enrolled,   \* the learners with a ProgramEnrollment in the program asked for
  viewer,     \* who reads
  export      \* the export being read page by page

reporting == <<attempts, packages, enrolled, viewer, export>>

-------------------------------------------------------------------------------

AttemptOf(u, p) == [user |-> u, package |-> p, doc |-> NewAttempt]
Indices == 1..MaxAttempts

(* Staff and administrators read reports of others; a learner reads the    *)
(* own, unfiltered.  The scope 'all' is told apart from a list.            *)
Viewer == [role : {"staff", "global-admin"}, all : BOOLEAN, scope : SUBSET Dept]

(* `first` are the rows there were when the first page was read; `moved`   *)
(* tells whether rows may have left the list since.                        *)
Export ==
  [page : Nat, pages : Nat, program : BOOLEAN, rows : SUBSET Indices,
   first : SUBSET Indices, moved : BOOLEAN]
NoExport ==
  [page |-> 0, pages |-> 0, program |-> FALSE, rows |-> {}, first |-> {}, moved |-> FALSE]

ReportsInit ==
  /\ attempts = <<>>
  /\ packages = Package
  /\ enrolled = Learner
  /\ viewer \in Viewer
  /\ viewer.all => viewer.scope = {}
  /\ export = NoExport

-------------------------------------------------------------------------------

(* isPackageAccessible. *)
InScope(p) == DeptOf[p] \in viewer.scope
Accessible(p) ==
  /\ p \in packages
  /\ \/ p \in Global
     \/ viewer.role = "global-admin" /\ (viewer.all \/ InScope(p))
     \/ viewer.role = "staff" /\ (p \in Owned \/ (~viewer.all /\ InScope(p)))

IsAttemptCompleted(doc) ==
  \/ Cell(doc.cmi, "completion_status") = "completed"
  \/ Cell(doc.cmi, "lesson_status") \in {"completed", "passed"}
  \/ doc.status \in {"completed", "passed"}

(* determinePassFailStatus; no package has the masteryScore it looks for.  *)
IsAttemptPassed(doc) ==
  \/ Cell(doc.cmi, "success_status") = "passed"
  \/ /\ Cell(doc.cmi, "success_status") # "failed"
     /\ Cell(doc.cmi, "lesson_status") = "passed"

(* The place of an attempt among those found, and the list of a report:    *)
(* newest first.                                                           *)
Place(i, S) == Cardinality({j \in S : j >= i})
Found(S) == [k \in 1..Cardinality(S) |-> CHOOSE i \in S : Place(i, S) = k]
UsersOf(S) == {attempts[i].user : i \in S}
CompletedOf(S) == {i \in S : IsAttemptCompleted(attempts[i].doc)}
Rate(part, whole) == IF whole = 0 THEN 0 ELSE (200 * part + whole) \div (2 * whole)

Failed == "500"
Forbidden == "403"
NotFound == "404"

(* The filter `program`: only attempts of its learners. *)
InProgram(i, program) == program => attempts[i].user \in enrolled
NamesLearners(S) == UsersOf(S) \subseteq Learner

AttemptsAt(p) == {i \in DOMAIN attempts : attempts[i].package = p}
AttemptsOf(u) == {i \in DOMAIN attempts : attempts[i].user = u}

-------------------------------------------------------------------------------

(* Mutant: a learner's row tells of the latest attempt. *)
RowOfLatest(own) ==
  [attempts |-> Cardinality(own), completed |-> IsAttemptCompleted(attempts[Found(own)[1]].doc),
   last |-> Found(own)[1], first |-> Last(Found(own))]

(* getPackageAnalytics: a summary, and a row for each learner. *)
Row(own) ==
  [attempts |-> Cardinality(own), completed |-> CompletedOf(own) # {},
   last |-> Found(own)[1], first |-> Last(Found(own))]

FilteredAttempts(p, program) == {i \in AttemptsAt(p) : InProgram(i, program)}
Analytics(p, program) ==
  LET found == FilteredAttempts(p, program)
      started == Cardinality(UsersOf(found))
      completed == Cardinality(UsersOf(CompletedOf(found)))
  IN  [started |-> started, completed |-> completed,
       passed |-> Cardinality({i \in found : IsAttemptPassed(attempts[i].doc)}),
       rate |-> Rate(completed, started),
       rows |-> [u \in UsersOf(found) |-> Row(found \cap AttemptsOf(u))]]

AnalyticsStatus(p, program) ==
  IF p \notin packages THEN NotFound
  ELSE IF ~Accessible(p) THEN Forbidden
  ELSE IF ~NamesLearners(FilteredAttempts(p, program)) THEN Failed ELSE "200"

(* getCompletionRates does not populate the learner. *)
CompletionRates(p) ==
  LET started == Cardinality(UsersOf(AttemptsAt(p)))
      completed == Cardinality(UsersOf(CompletedOf(AttemptsAt(p))))
  IN  [started |-> started, completed |-> completed, rate |-> Rate(completed, started)]

(* getLearnerProgress: the packages of one learner, and a summary.  One    *)
(* attempt at a deleted package is enough for it to fail once there is a   *)
(* package to list.                                                        *)
ProgressPackages(u) ==
  {p \in packages : Accessible(p) /\ AttemptsOf(u) \cap AttemptsAt(p) # {}}
LearnerProgress(u) ==
  [p \in ProgressPackages(u) |-> Row(AttemptsOf(u) \cap AttemptsAt(p))]
LearnerProgressStatus(u) ==
  IF u \notin Learner THEN NotFound
  ELSE IF /\ ProgressPackages(u) # {}
          /\ \E i \in AttemptsOf(u) : attempts[i].package \notin packages
  THEN Failed ELSE "200"

(* getInteractionData. *)
InteractionsStatus(i) == IF Accessible(attempts[i].package) THEN "200" ELSE Forbidden

(* getAttemptDetails populates neither the department, nor the owner, nor  *)
(* isGlobal of the package: only an administrator of all passes.  It reads *)
(* the learner, which getInteractionData does not.                         *)
DetailsStatus(i) ==
  IF ~(attempts[i].package \in packages /\ viewer.role = "global-admin" /\ viewer.all)
  THEN Forbidden
  ELSE IF attempts[i].user \notin Learner THEN Failed ELSE "200"

(* getAttemptsByPackage of the attempts API: the learner's own, the latest *)
(* number first.                                                           *)
OwnAttempts(u, p) == Found(AttemptsAt(p) \cap AttemptsOf(u))

(* getAllAttempts drops the filter of a package it does not find.  (Asked  *)
(* for a status too, it looks under a name that no attempt has.)           *)
AllAttempts(p, u) ==
  Found({i \in AttemptsOf(u) : p \in packages => attempts[i].package = p})

(* getLearnerProgress of the attempts API: the attempts at every package,  *)
(* deleted or not.  (Its counts by status use that name, and are 0.)       *)
AttemptTotal(u) == Cardinality(AttemptsOf(u))

-------------------------------------------------------------------------------

(* exportTrackingData: every attempt the viewer may see, newest first.     *)
Exported(program) ==
  {i \in DOMAIN attempts : Accessible(attempts[i].package) /\ InProgram(i, program)}
ExportRows(program) == Found(Exported(program))

(* Mutant: the second page skips one row too many. *)
PageOffByOne(s, page, limit) ==
  SubSeq(s, (page - 1) * limit + (IF page > 1 THEN 2 ELSE 1), Min({page * limit, Len(s)}))

(* applyPagination *)
Page(s, page, limit) == SubSeq(s, (page - 1) * limit + 1, Min({page * limit, Len(s)}))
Pages(s, limit) == Max({(Len(s) + limit - 1) \div limit, 1})

Exporting == export.page > 0
AtEnd == Exporting /\ export.page >= export.pages

(* A page of the export; page 1 starts anew. *)
ReadPage(program, page) ==
  LET rows == ExportRows(program)
      shown == ToSet(Page(rows, page, Limit))
  IN  /\ NamesLearners(Exported(program))
      /\ export' =
           IF page = 1
           THEN [page |-> 1, pages |-> Pages(rows, Limit), program |-> program,
                 rows |-> shown, first |-> Exported(program), moved |-> FALSE]
           ELSE [export EXCEPT !.page = page, !.pages = Pages(rows, Limit),
                               !.rows = @ \cup shown]

ReadFirstPage(program) ==
  /\ ReadPage(program, 1)
  /\ UNCHANGED <<attempts, packages, enrolled, viewer>>

ReadNextPage ==
  /\ Exporting
  /\ ~AtEnd
  /\ ReadPage(export.program, export.page + 1)
  /\ UNCHANGED <<attempts, packages, enrolled, viewer>>

-------------------------------------------------------------------------------

(* A launch creates an attempt (ScormLaunch). *)
StartAttempt(u, p) ==
  /\ p \in packages
  /\ Len(attempts) < MaxAttempts
  /\ attempts' = Append(attempts, AttemptOf(u, p))
  /\ UNCHANGED <<packages, enrolled, viewer, export>>

(* The runtime commits values or ends the session, and updateCMI of the    *)
(* attempts API sets a value and leaves the status as it is.               *)
Play(i, pend) ==
  LET a == attempts[i]
  IN  /\ i <= MaxPlayed
      /\ \E doc \in {Committed(a.doc, pend), Finished(a.doc, pend),
                     [a.doc EXCEPT !.cmi = Overlay(@, pend)]} :
           attempts' = [attempts EXCEPT ![i].doc = doc]
      /\ UNCHANGED <<packages, enrolled, viewer, export>>

(* Rows leave the list of an export with their package, and with the       *)
(* enrollment of their learner.                                            *)
RowsMove == export' = [export EXCEPT !.moved = Exporting]

DeletePackage(p) ==
  /\ packages' = packages \ {p}
  /\ RowsMove
  /\ UNCHANGED <<attempts, enrolled, viewer>>

Enroll(u) ==
  /\ enrolled' = enrolled \cup {u}
  /\ UNCHANGED <<attempts, packages, viewer, export>>

DeleteEnrollment(u) ==
  /\ enrolled' = enrolled \ {u}
  /\ RowsMove
  /\ UNCHANGED <<attempts, packages, viewer>>

OneValue == {pend \in Cells : Cardinality({e \in Elements : pend[e] # NoValue}) <= 1}

ReportsNext ==
  \/ \E u \in Learner \cup Previewer, p \in Package : StartAttempt(u, p)
  \/ \E i \in DOMAIN attempts, pend \in OneValue : Play(i, pend)
  \/ \E p \in packages : DeletePackage(p)
  \/ \E u \in Learner : Enroll(u) \/ DeleteEnrollment(u)
  \/ \E program \in BOOLEAN : ReadFirstPage(program)
  \/ ReadNextPage

ReportsSpec == ReportsInit /\ [][ReportsNext]_reporting

-------------------------------------------------------------------------------

(* Every variable has its type. *)
ReportsTypeOK ==
  /\ \A i \in DOMAIN attempts :
       attempts[i] \in [user : Learner \cup Previewer, package : Package, doc : Attempt]
  /\ Len(attempts) <= MaxAttempts
  /\ packages \subseteq Package
  /\ enrolled \subseteq Learner
  /\ viewer \in Viewer
  /\ export \in Export

(* An export read to its last page holds every attempt that was listed when*)
(* its first page was read, though attempts that start meanwhile push the  *)
(* others to later pages - unless a package or an enrollment was deleted on*)
(* the way (scormReportCtrl.ts:84-99, 592-646).                            *)
ExportCovers == AtEnd /\ ~export.moved => export.first \subseteq export.rows

(* The sum of the numbers f[x], as the size of a set of pairs.             *)
Added(f) == Cardinality(UNION {{x} \X (1..f[x]) : x \in DOMAIN f})

(* What the reports say of one package agrees, wherever they answer: the   *)
(* analytics and the completion rates count the same learners, the rows    *)
(* of the analytics add up to the summary and to all the attempts, and a   *)
(* learner's own progress says what the row of the analytics says; the     *)
(* interactions of every attempt they count can be read, its details are   *)
(* never open to more, and it is exported.  The attempts API lists the     *)
(* attempts that the row counts, the row's last one first, and its summary *)
(* counts all of them.  Each report decides by a filter of its own         *)
(* (scormReportCtrl.ts:154-199, 331-407, 468-477, 607-624, 716-733, 972;   *)
(* scormAttemptCtrl.ts:25-30, 241-266, 291-298).                           *)
ReportsAgree ==
  /\ \A p \in packages :
       AnalyticsStatus(p, FALSE) = "200" =>
         LET shown == Analytics(p, FALSE)
             rates == CompletionRates(p)
         IN  /\ shown.started = rates.started
             /\ shown.completed = rates.completed
             /\ shown.rate = rates.rate /\ shown.rate \in 0..100
             /\ Cardinality({u \in DOMAIN shown.rows : shown.rows[u].completed}) = shown.completed
             /\ Added([u \in DOMAIN shown.rows |-> shown.rows[u].attempts])
                  = Cardinality(AttemptsAt(p))
             /\ \A i \in AttemptsAt(p) :
                  /\ InteractionsStatus(i) = "200"
                  /\ Contains(ExportRows(FALSE), i)
             /\ \A u \in Learner :
                  LearnerProgressStatus(u) = "200" /\ p \in ProgressPackages(u) =>
                    /\ LearnerProgress(u)[p] = shown.rows[u]
                    /\ AllAttempts(p, u) = OwnAttempts(u, p)
                    /\ Len(OwnAttempts(u, p)) = shown.rows[u].attempts
                    /\ Head(OwnAttempts(u, p)) = shown.rows[u].last
  /\ \A i \in DOMAIN attempts : DetailsStatus(i) = "200" => InteractionsStatus(i) = "200"
  /\ \A u \in Learner :
       AttemptTotal(u) = Added([p \in Package |-> Len(OwnAttempts(u, p))])

===============================================================================
