----------------------------- MODULE CourseLedger -----------------------------
(***************************************************************************)
(* The course enrollments in progress (CourseEnrollmentCurrent) and the    *)
(* record of the ones that ended (CourseEnrollmentActivity):               *)
(* services/enrollmentService.ts, utils/enrollmentService.ts and           *)
(* batchCreateCourseEnrollments of enrollmentBatchCtrl.ts; and the course  *)
(* history that getCourseHistory of learnersCtrl.ts makes of the two.      *)
(*                                                                         *)
(* Ending an enrollment reads the current document, creates the activity   *)
(* record from that copy, then deletes the document by _id: three          *)
(* operations of the database and no transaction, so other requests come   *)
(* between them, each of them may fail, and a restart may cut a request    *)
(* off after any of them.                                                  *)
(***************************************************************************)
EXTENDS Naturals, Sequences

CONSTANTS
  Seat,        \* a learner and a course
  Doc,         \* the _ids of current enrollments
  Request,     \* the requests in flight at once
  NoDoc,       \* the document of a request that is about none
  Outcome,     \* the outcomes that requests record
  Part,        \* the parts of progress: exam, media and SCORM attempts
  Value,       \* contents of a part
  Blank,       \* the content of a part at the start
  MaxRecord,   \* bound: the activity records of one enrollment
  MaxVersion   \* bound: the saves of one enrollment

ASSUME LedgerAssumption ==
  /\ NoDoc \notin Doc
  /\ Outcome \subseteq {"passed", "failed", "withdrawn"}
  /\ Blank \in Value
  /\ MaxRecord \in Nat
  /\ MaxVersion \in Nat

VARIABLES
  current,    \* current[d]: the CourseEnrollmentCurrent document with _id d
  activity,   \* activity[d]: the CourseEnrollmentActivity records made of d
  request     \* request[r]: where request r is and what it has read

ledger == <<current, activity, request>>

-------------------------------------------------------------------------------

Progress == [Part -> Value]

(* `at` is new before the document is created and gone once it is deleted; *)
(* `seat` has the one seat of a document that was created.  `version` is   *)
(* the __v that mongoose raises when a save assigns an array.              *)
Current ==
  [at : {"new", "live", "gone"}, seat : {{}} \cup {{s} : s \in Seat},
   progress : Progress, version : Nat]

Activity == [outcome : Outcome, attemptHistory : Progress]

Unmade ==
  [at |-> "new", seat |-> {}, progress |-> [p \in Part |-> Blank], version |-> 0]

Live == {d \in Doc : current[d].at = "live"}
Unused == {d \in Doc : current[d].at = "new"}
EnrolledSeats == UNION {current[d].seat : d \in Live}

(* What a request holds: the document it is about, the copy it loaded with *)
(* its own changes in it, the parts it changed, the outcome it is to       *)
(* record, and the seats that a batch is to insert.                        *)
NoProgress == [p \in Part |-> Blank]
Pending ==
  [at : {"idle", "save", "saved", "record", "remove", "insert"},
   doc : Doc \cup {NoDoc}, copy : Progress, parts : SUBSET Part, version : Nat,
   outcome : {"none"} \cup Outcome, seats : SUBSET Seat]

Rest ==
  [at |-> "idle", doc |-> NoDoc, copy |-> NoProgress, parts |-> {},
   version |-> 0, outcome |-> "none", seats |-> {}]

LedgerInit ==
  /\ current = [d \in Doc |-> Unmade]
  /\ activity = [d \in Doc |-> <<>>]
  /\ request = [r \in Request |-> Rest]

Step(r, next) == request' = [request EXCEPT ![r] = next]

-------------------------------------------------------------------------------

(* Both startCourseEnrollment functions end in a create that the unique    *)
(* index on learner and course guards; a refused one changes nothing.      *)
Opened(s) ==
  [at |-> "live", seat |-> {s}, progress |-> NoProgress, version |-> 0]

StartCourseEnrollment(d, s) ==
  /\ d \in Unused
  /\ s \notin EnrolledSeats
  /\ current' = [current EXCEPT ![d] = Opened(s)]
  /\ UNCHANGED <<activity, request>>

(* batchCreateCourseEnrollments leaves out the items that are enrolled, or *)
(* whose course, learner, department or program enrollment fails a check,  *)
(* and inserts the rest after several more reads.                          *)
StartBatch(r) ==
  /\ request[r].at = "idle"
  /\ \E toCreate \in SUBSET (Seat \ EnrolledSeats) :
       /\ toCreate # {}
       /\ Step(r, [at |-> "insert", doc |-> NoDoc, copy |-> NoProgress, parts |-> {},
                    version |-> 0, outcome |-> "none", seats |-> toCreate])
  /\ UNCHANGED <<current, activity>>

(* Mutant: no unique index on learner and course. *)
InsertsAny(r) == request[r].seats

(* insertMany with ordered: false inserts what the index lets pass; when   *)
(* it refuses any it throws, and those inserted before the error stay.     *)
Insertable(r) == request[r].seats \ EnrolledSeats

InsertMany(r) ==
  /\ request[r].at = "insert"
  /\ \E D \in SUBSET Unused : \E opened \in [D -> Insertable(r)] :
       /\ \A d, e \in D : opened[d] = opened[e] => d = e
       /\ \A s \in Insertable(r) : \E d \in D : opened[d] = s
       /\ current' = [d \in Doc |->
            IF d \in D THEN Opened(opened[d]) ELSE current[d]]
  /\ Step(r, Rest)
  /\ UNCHANGED activity

-------------------------------------------------------------------------------

(* findById: the request works on this copy from now on. *)
Load(r, d, at, outcome) ==
  /\ request[r].at = "idle"
  /\ d \in Live
  /\ Step(r, [at |-> at, doc |-> d, copy |-> current[d].progress, parts |-> {},
               version |-> current[d].version, outcome |-> outcome, seats |-> {}])
  /\ UNCHANGED <<current, activity>>

(* updateCourseProgress assigns the parts the caller gives to its copy. *)
StartUpdate(r, d) ==
  \E S \in SUBSET Part, v \in Value :
    /\ request[r].at = "idle"
    /\ d \in Live
    /\ S # {}
    /\ current[d].version < MaxVersion
    /\ Step(r, [at |-> "save", doc |-> d, parts |-> S,
                 copy |-> [p \in Part |->
                   IF p \in S THEN v ELSE current[d].progress[p]],
                 version |-> current[d].version, outcome |-> "none", seats |-> {}])
    /\ UNCHANGED <<current, activity>>

(* Mutant: a save that does not compare __v. *)
MatchesById(r) == request[r].doc \in Live

(* A save that assigns an array matches the document by _id and __v, and   *)
(* throws when nothing matches.                                            *)
Matches(r) ==
  /\ request[r].doc \in Live
  /\ current[request[r].doc].version = request[r].version

Saved(doc, r) ==
  [at |-> doc.at, seat |-> doc.seat, version |-> doc.version + 1,
   progress |-> [p \in Part |->
     IF p \in request[r].parts THEN request[r].copy[p] ELSE doc.progress[p]]]

(* The answer is the request's own copy, not the document stored. *)
Save(r) ==
  /\ request[r].at = "save"
  /\ IF Matches(r)
     THEN /\ current' = [current EXCEPT ![request[r].doc] = Saved(@, r)]
          /\ Step(r, [request[r] EXCEPT !.at = "saved"])
     ELSE UNCHANGED current /\ Step(r, Rest)
  /\ UNCHANGED activity

Reply(r) ==
  /\ request[r].at = "saved"
  /\ Step(r, Rest)
  /\ UNCHANGED <<current, activity>>

-------------------------------------------------------------------------------

(* Mutant: the record does not say how the enrollment ended. *)
EndUntold(r, d) ==
  /\ Len(activity[d]) < MaxRecord
  /\ Load(r, d, "record", "none")

(* completeCourseEnrollment (both of them) and withdrawFromCourse. *)
StartEnd(r, d) ==
  \E o \in Outcome :
    /\ Len(activity[d]) < MaxRecord
    /\ Load(r, d, "record", o)

(* The record holds the copy read before, whatever was saved since. *)
Record(r) == [outcome |-> request[r].outcome, attemptHistory |-> request[r].copy]

(* findByIdAndDelete: no error when the document is gone already. *)
Deleted(doc) ==
  [at |-> "gone", seat |-> doc.seat, progress |-> doc.progress,
   version |-> doc.version]

(* Mutant: the document is deleted before the record is created. *)
DeletesFirst(r) ==
  /\ request[r].at = "record"
  /\ current' = [current EXCEPT ![request[r].doc] = Deleted(@)]
  /\ Step(r, [request[r] EXCEPT !.at = "remove"])
  /\ UNCHANGED activity

CreateActivity(r) ==
  /\ request[r].at = "record"
  /\ activity' = [activity EXCEPT ![request[r].doc] = Append(@, Record(r))]
  /\ Step(r, [request[r] EXCEPT !.at = "remove"])
  /\ UNCHANGED current

DeleteCurrent(r) ==
  /\ request[r].at = "remove"
  /\ current' = [current EXCEPT ![request[r].doc] = Deleted(@)]
  /\ Step(r, Rest)
  /\ UNCHANGED activity

(* An operation of the database fails, or a restart cuts the request off. *)
CutOff(r) ==
  /\ request[r].at # "idle"
  /\ Step(r, Rest)
  /\ UNCHANGED <<current, activity>>

(* The early throws: the seat is enrolled, or the document is not there. *)
Refuse ==
  /\ EnrolledSeats # {} \/ Live # Doc
  /\ UNCHANGED ledger

LedgerNext ==
  \/ Refuse
  \/ \E d \in Doc, s \in Seat : StartCourseEnrollment(d, s)
  \/ \E r \in Request :
       \/ StartBatch(r) \/ InsertMany(r)
       \/ \E d \in Doc : StartUpdate(r, d) \/ StartEnd(r, d)
       \/ Save(r) \/ Reply(r)
       \/ CreateActivity(r) \/ DeleteCurrent(r)
       \/ CutOff(r)

LedgerSpec == LedgerInit /\ [][LedgerNext]_ledger

-------------------------------------------------------------------------------

VARIABLE history   \* the course history that is being read, or was read last

(* What is asked for, by status; the documents shown so far; and the ones  *)
(* asked for that there were at the start (no variable of the code).       *)
History ==
  [at : {"idle", "activity", "read"}, filter : {"none", "active"} \cup Outcome,
   shown : SUBSET Doc, there : SUBSET Doc]

Ended(d, filter) ==
  \E i \in DOMAIN activity[d] : filter \in {"none", activity[d][i].outcome}

There(filter) ==
  CASE filter = "none" -> Doc \ Unused
    [] filter = "active" -> Live
    [] OTHER -> {d \in Doc : Ended(d, filter)}

ActivityShown(filter) == {d \in Doc : Ended(d, filter)}

(* getCourseHistory finds the current enrollments, unless the status asked *)
(* for is that of an ended one, and then the records, unless it is active: *)
(* two reads, and requests between them.                                   *)
CurrentShown(filter) == IF filter \in {"none", "active"} THEN Live ELSE {}

FindCurrent(filter) ==
  /\ history.at # "activity"
  /\ history' = [at |-> "activity", filter |-> filter,
                  shown |-> CurrentShown(filter), there |-> There(filter)]
  /\ UNCHANGED ledger

FindActivity ==
  /\ history.at = "activity"
  /\ history' = [history EXCEPT !.at = "read", !.shown = @ \cup ActivityShown(history.filter)]
  /\ UNCHANGED ledger

HistoryInit ==
  /\ LedgerInit
  /\ history = [at |-> "idle", filter |-> "none", shown |-> {}, there |-> {}]

HistoryNext ==
  \/ LedgerNext /\ UNCHANGED history
  \/ \E filter \in {"none", "active"} \cup Outcome : FindCurrent(filter)
  \/ FindActivity

HistorySpec == HistoryInit /\ [][HistoryNext]_<<ledger, history>>

-------------------------------------------------------------------------------

(* Every variable has its type. *)
LedgerTypeOK ==
  /\ current \in [Doc -> Current]
  /\ activity \in [Doc -> Seq(Activity)]
  /\ request \in [Request -> Pending]

OnRecord == \A d \in Doc : current[d].at = "gone" => activity[d] # <<>>

(* An enrollment that leaves the current collection is on record, at every *)
(* moment: completing and withdrawing create the record before they delete *)
(* (services/enrollmentService.ts:100-104, utils/enrollmentService.ts).    *)
(* And a course history that has been read shows every enrollment it was   *)
(* asked for that there was when it began, though some may have ended      *)
(* between its two reads (learnersCtrl.ts:520-555).                        *)
NothingLost ==
  /\ OnRecord
  /\ history.at = "read" => history.there \subseteq history.shown

(* The two collections together keep the promise of CourseArchive: a seat  *)
(* has one open enrollment at most, and an enrollment ends once, with the  *)
(* outcome of its first record, which no later request takes back.         *)
Outcomes == [d \in Doc |->
  IF activity[d] = <<>> THEN "none" ELSE activity[d][1].outcome]
Archive ==
  INSTANCE CourseArchive
    WITH seatOf <- [d \in Doc |-> current[d].seat], outcome <- Outcomes
ArchiveSpec == Archive!Spec

(* The enrollment updateCourseProgress returns is the one stored by its    *)
(* save, although other updates come between its read and its save         *)
(* (utils/enrollmentService.ts:62-83).                                     *)
AnswersWhatIsStored ==
  [][\A r \in Request :
       request[r].at = "save" /\ request'[r].at = "saved" =>
         request'[r].copy = current'[request[r].doc].progress]_ledger

===============================================================================
