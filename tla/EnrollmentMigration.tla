--------------------------- MODULE EnrollmentMigration ---------------------------
(***************************************************************************)
(* The two scripts that move enrollments to the course ledger, and what    *)
(* the live server does to the same collections meanwhile:                 *)
(*                                                                         *)
(*   migrate-enrollments.js        class enrollments to program and legacy *)
(*                                 course enrollments ("backfill")         *)
(*   migrate-enrollment-system.ts  those to the ledger's current and       *)
(*                                 activity records ("migrate")            *)
(*                                                                         *)
(* Each reads its work when a phase starts and goes through it document by *)
(* document.  It may be killed after any of them, and is run again.  Where *)
(* a create meets a unique index the server has just filled, the backfill  *)
(* stops, which is a Crash, and the migration skips the document.          *)
(* A seat is a learner in a course, an owner that learner in the program.  *)
(***************************************************************************)
EXTENDS Naturals, FiniteSets

CONSTANTS
  Owner, Seat, Entry,
  OwnerOf,        \* the learner and program of a seat
  EntryOwner,     \* of a class enrollment
  EntrySeats,     \* the courses of its level; {} when there are none
  Studied,        \* the seats with LearnerProgress records
  MaxCopies       \* bound: copies of one record the model counts

ASSUME MigrationAssumption ==
  /\ OwnerOf \in [Seat -> Owner]
  /\ EntryOwner \in [Entry -> Owner]
  /\ EntrySeats \in [Entry -> SUBSET Seat]
  /\ Studied \subseteq Seat
  /\ MaxCopies \in Nat \ {0, 1}

VARIABLES
  program,    \* the ProgramEnrollment of an owner
  legacy,     \* the CourseEnrollment of a seat
  current,    \* the seats with a CourseEnrollmentCurrent
  activity,   \* how many CourseEnrollmentActivity a seat has, by their origin
  appended,   \* how often the progress of a seat was appended to its current one
  backfill, migrate   \* the two scripts

collections == <<program, legacy, current, activity, appended>>
migration == <<collections, backfill, migrate>>

-------------------------------------------------------------------------------

ProgramStatus == {"absent", "active", "enrolled", "withdrawn"}

(* `dated` stands for completedAt being set. *)
Legacy == [status : {"absent", "active", "completed", "withdrawn"}, dated : BOOLEAN]
NoLegacy == [status |-> "absent", dated |-> FALSE]
ActiveLegacy == [status |-> "active", dated |-> FALSE]

(* Activity records the scripts made of a legacy document with a date and  *)
(* of one without, and those of the live server.                           *)
Activity == [dated : 0..MaxCopies, undated : 0..MaxCopies, live : 0..MaxCopies]
NoActivity == [dated |-> 0, undated |-> 0, live |-> 0]
Counted(n) == IF n < MaxCopies THEN n + 1 ELSE n

(* A script at work: what its phase has still to do, and for the migration *)
(* what its phases found (history) and whether they skipped any of it.     *)
Backfill == [todo : SUBSET Entry, seats : SUBSET Seat]
AtRest == [todo |-> {}, seats |-> {}]
Migrate ==
  [at : {"off", "statuses", "courses", "progress", "done"},
   owners : SUBSET Owner, found : [Seat -> Legacy],
   owed : SUBSET (Owner \cup Seat), skipped : BOOLEAN]
Off == [at |-> "off", owners |-> {}, found |-> [s \in Seat |-> NoLegacy],
        owed |-> {}, skipped |-> FALSE]

MigrationInit ==
  /\ program = [o \in Owner |-> "absent"]
  /\ legacy = [s \in Seat |-> NoLegacy]
  /\ current = {}
  /\ activity = [s \in Seat |-> NoActivity]
  /\ appended = [s \in Seat |-> 0]
  /\ backfill = AtRest
  /\ migrate = Off

-------------------------------------------------------------------------------
(* migrate-enrollments.js *)

StartBackfill ==
  /\ backfill = AtRest
  /\ backfill' = [todo |-> Entry, seats |-> {}]
  /\ UNCHANGED <<collections, migrate>>

(* The program enrollment of an entry is created where it is missing; the  *)
(* courses of its level come next.                                         *)
BackfillProgram(e) ==
  /\ e \in backfill.todo /\ backfill.seats = {}
  /\ program' = [program EXCEPT ![EntryOwner[e]] = IF @ = "absent" THEN "active" ELSE @]
  /\ backfill' = [todo |-> backfill.todo \ {e}, seats |-> EntrySeats[e]]
  /\ UNCHANGED <<legacy, current, activity, appended, migrate>>

BackfillCourse(s) ==
  /\ s \in backfill.seats
  /\ legacy' = [legacy EXCEPT ![s] = IF @ = NoLegacy THEN ActiveLegacy ELSE @]
  /\ backfill' = [backfill EXCEPT !.seats = @ \ {s}]
  /\ UNCHANGED <<program, current, activity, appended, migrate>>

BackfillCrash ==
  /\ backfill' = AtRest
  /\ UNCHANGED <<collections, migrate>>

-------------------------------------------------------------------------------
(* migrate-enrollment-system.ts *)

Working(phase) == migrate.at = phase /\ migrate.owed # {}
PhaseOver(phase) == migrate.at = phase /\ migrate.owed = {}

StartMigrate ==
  /\ migrate.at \in {"off", "done"}
  /\ LET active == {o \in Owner : program[o] = "active"}
     IN  migrate' = [Off EXCEPT !.at = "statuses", !.owners = active, !.owed = active]
  /\ UNCHANGED <<collections, backfill>>

(* The status is written, whatever became of it since it was read. *)
MigrateStatus(o) ==
  /\ Working("statuses") /\ o \in migrate.owed
  /\ program' = [program EXCEPT ![o] = "enrolled"]
  /\ migrate' = [migrate EXCEPT !.owed = @ \ {o}]
  /\ UNCHANGED <<legacy, current, activity, appended, backfill>>

StartCourses ==
  /\ PhaseOver("statuses")
  /\ migrate' = [migrate EXCEPT !.at = "courses", !.found = legacy,
                                !.owed = {s \in Seat : legacy[s] # NoLegacy}]
  /\ UNCHANGED <<collections, backfill>>

(* Mutant: a seat whose program enrollment had to be created is left out.  *)
ToCurrentIfEnrolled(s) ==
  /\ current' = IF program[OwnerOf[s]] = "absent" THEN current ELSE current \cup {s}
  /\ UNCHANGED activity
ToCurrent(s) ==
  /\ current' = current \cup {s}
  /\ UNCHANGED activity

(* Mutant: the activity is created without a look at those there are.      *)
ToActivityAgain(s, doc) ==
  /\ activity' = [activity EXCEPT ![s].dated = Counted(@)]
  /\ UNCHANGED current

(* The look for an activity goes by completedAt: it finds none for a       *)
(* document without, because create then stamps the time of the run.       *)
ToActivity(s, doc) ==
  /\ activity' =
       IF doc.dated
       THEN [activity EXCEPT ![s].dated = IF @ = 0 THEN 1 ELSE @]
       ELSE [activity EXCEPT ![s].undated = Counted(@)]
  /\ UNCHANGED current

MigrateCourse(s) ==
  /\ Working("courses") /\ s \in migrate.owed
  /\ program' = [program EXCEPT ![OwnerOf[s]] = IF @ = "absent" THEN "enrolled" ELSE @]
  /\ IF migrate.found[s].status = "active" THEN ToCurrent(s)
     ELSE ToActivity(s, migrate.found[s])
  /\ migrate' = [migrate EXCEPT !.owed = @ \ {s}]
  /\ UNCHANGED <<legacy, appended, backfill>>

StartProgress ==
  /\ PhaseOver("courses")
  /\ migrate' = [migrate EXCEPT !.at = "progress", !.owed = Studied]
  /\ UNCHANGED <<collections, backfill>>

(* The records of a seat are appended to what its current enrollment has,  *)
(* on every run; a seat without one is skipped.                            *)
MigrateProgress(s) ==
  /\ Working("progress") /\ s \in migrate.owed
  /\ appended' = IF s \in current THEN [appended EXCEPT ![s] = Counted(@)] ELSE appended
  /\ migrate' = [migrate EXCEPT !.owed = @ \ {s}]
  /\ UNCHANGED <<program, legacy, current, activity, backfill>>

MigrateDone ==
  /\ PhaseOver("progress")
  /\ migrate' = [migrate EXCEPT !.at = "done"]
  /\ UNCHANGED <<collections, backfill>>

(* A document that cannot be written is counted as skipped. *)
MigrateSkip(d) ==
  /\ d \in migrate.owed
  /\ migrate' = [migrate EXCEPT !.owed = @ \ {d}, !.skipped = TRUE]
  /\ UNCHANGED <<collections, backfill>>

MigrateCrash ==
  /\ migrate.at # "done"
  /\ migrate' = Off
  /\ UNCHANGED <<collections, backfill>>

-------------------------------------------------------------------------------
(* The live server (Enrollment, CourseLedger). *)

LiveProgram(o) ==
  /\ \/ program[o] = "absent" /\ program' = [program EXCEPT ![o] = "enrolled"]
     \/ program[o] \in {"active", "enrolled"} /\ program' = [program EXCEPT ![o] = "withdrawn"]
  /\ UNCHANGED <<legacy, current, activity, appended, backfill, migrate>>

(* A date once set stays with the document. *)
LiveLegacy(s) ==
  /\ \/ legacy[s].status # "absent" /\ \E status \in {"active", "completed", "withdrawn"} :
          legacy' = [legacy EXCEPT ![s] = [status |-> status,
                                           dated |-> @.dated \/ status = "completed"]]
     \/ legacy[s] = NoLegacy /\ legacy' = [legacy EXCEPT ![s] = ActiveLegacy]
  /\ UNCHANGED <<program, current, activity, appended, backfill, migrate>>

LiveEnroll(s) ==
  /\ program[OwnerOf[s]] = "enrolled"
  /\ current' = current \cup {s}
  /\ UNCHANGED <<program, legacy, activity, appended, backfill, migrate>>

LiveFinish(s) ==
  /\ s \in current
  /\ current' = current \ {s}
  /\ activity' = [activity EXCEPT ![s].live = Counted(@)]
  /\ appended' = [appended EXCEPT ![s] = 0]
  /\ UNCHANGED <<program, legacy, backfill, migrate>>

MigrationNext ==
  \/ StartBackfill \/ BackfillCrash
  \/ \E e \in Entry : BackfillProgram(e)
  \/ \E s \in Seat : BackfillCourse(s)
  \/ StartMigrate \/ StartCourses \/ StartProgress \/ MigrateDone \/ MigrateCrash
  \/ \E o \in Owner : MigrateStatus(o) \/ LiveProgram(o)
  \/ \E s \in Seat : MigrateCourse(s) \/ MigrateProgress(s)
  \/ \E s \in Seat : LiveLegacy(s) \/ LiveEnroll(s) \/ LiveFinish(s)
  \/ \E d \in Owner \cup Seat : MigrateSkip(d)

MigrationSpec == MigrationInit /\ [][MigrationNext]_migration

-------------------------------------------------------------------------------

(* Every variable has its type. *)
MigrationTypeOK ==
  /\ program \in [Owner -> ProgramStatus]
  /\ legacy \in [Seat -> Legacy]
  /\ current \subseteq Seat
  /\ activity \in [Seat -> Activity]
  /\ appended \in [Seat -> 0..MaxCopies]
  /\ backfill \in Backfill
  /\ migrate \in Migrate

(* A document stands in the ledger: as a current enrollment, or as what    *)
(* came of it since, or as the activity of its kind.                       *)
InLedger(s, doc) ==
  CASE doc = NoLegacy -> TRUE
    [] doc.status = "active" -> s \in current \/ activity[s] # NoActivity
    [] doc.status # "active" /\ doc.dated -> activity[s].dated > 0
    [] OTHER -> activity[s].undated > 0

(* A run of the migration that ends without a skip has done its work,      *)
(* whatever runs were killed before it and whatever the server did         *)
(* meanwhile: every legacy enrollment it found is in the ledger, and no    *)
(* program enrollment it found is left with a status the schema has no     *)
(* name for (migrate-enrollment-system.ts:38-83, 85-176).                  *)
MigrationCovers ==
  migrate.at = "done" /\ ~migrate.skipped =>
    /\ \A s \in Seat : InLedger(s, migrate.found[s])
    /\ \A o \in migrate.owners : program[o] # "active"

(* However often it is run, the migration makes one activity record of a   *)
(* completed enrollment (migrate-enrollment-system.ts:147-158).            *)
CompletedOnce == \A s \in Seat : activity[s].dated <= 1

(* The migration moves every enrollment, and a completed one once.         *)
EnrollmentsMigrated == MigrationCovers /\ CompletedOnce

===============================================================================
