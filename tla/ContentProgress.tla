---------------------------- MODULE ContentProgress ----------------------------
(***************************************************************************)
(* The segments of a course, what a learner does in custom content, and    *)
(* what is told of it (courseContentCtrl.ts, contentCtrl.ts).              *)
(*                                                                         *)
(* Segments (CourseContent): each stands for one custom content or one     *)
(* SCORM package, under an order that is unique in the course.  A create   *)
(* looks for its content, counts the segments for its order and inserts;   *)
(* an update merges its body into a copy and writes every field of it.  A  *)
(* missing field of a filter is null to the database, and one of an update *)
(* is left out.                                                            *)
(*                                                                         *)
(* Progress: recordCustomProgress reads the LearnerProgress of the content *)
(* and its segment, upserts it with what follows from that copy, then      *)
(* creates a ContentAttempt: three operations.  LearnerProgress has no     *)
(* unique index, so an upsert that finds nothing may insert beside         *)
(* another's.  One learner is modelled: no document of one is touched by   *)
(* another's event.                                                        *)
(***************************************************************************)
EXTENDS SequencesExt

CONSTANTS
  Segment,    \* the _ids of CourseContent documents
  Custom,     \* custom contents
  Package,    \* SCORM packages
  Call,       \* the requests in flight at once
  None,       \* no content or package
  Bodies,     \* what requests may say of a segment; an order of 0 is none
  Payload,    \* what an event may carry: [score, maxScore : Nat or -1, sec : Nat]
  Unset,      \* -1: a score that is not carried
  MaxEvents   \* bound: the events recorded

ASSUME ContentsAssumption ==
  /\ Custom \cap Package = {}
  /\ None \notin Custom \cup Package
  /\ \A doc \in Bodies :
       /\ doc.contentType \in {"custom", "scorm"} /\ doc.order \in Nat
       /\ doc.custom \in Custom \cup {None} /\ doc.package \in Package \cup {None}

ASSUME ProgressAssumption ==
  /\ Unset = -1
  /\ \A p \in Payload : {p.score, p.maxScore} \subseteq Nat \cup {Unset} /\ p.sec \in Nat
  /\ MaxEvents \in Nat

VARIABLES
  segment,    \* segment[g]: the document with _id g
  edit,       \* edit[v]: what request v is about to write to segments
  custom,     \* the custom contents that were created
  progress,   \* progress[c][g]: the LearnerProgress documents, oldest first
  attempts,   \* the ContentAttempt documents, oldest first
  event,      \* event[v]: what request v is about to write
  marred,     \* where events overlapped or broke off (no variable of the code)
  written     \* written[c][g]: how often progress was upserted (the same)

contents == <<segment, edit>>
recording == <<custom, progress, attempts, event, marred, written>>

-------------------------------------------------------------------------------
(* The segments. *)

(* The body of a request and the document have the same fields. *)
Fields ==
  [contentType : {"custom", "scorm"}, custom : Custom \cup {None},
   package : Package \cup {None}, order : Nat]
Segments == [at : {"live"}, doc : Fields] \cup [at : {"new", "gone"}]
Edit == [at : {"count", "create", "update"}, segment : Segment, doc : Fields] \cup {None}

ContentsInit ==
  /\ segment = [g \in Segment |-> [at |-> "new"]]
  /\ edit = [v \in Call |-> None]

LiveSegments == {g \in Segment : segment[g].at = "live"}
Begin(v, at, g, doc) ==
  /\ edit[v] = None
  /\ edit' = [edit EXCEPT ![v] = [at |-> at, segment |-> g, doc |-> doc]]
  /\ UNCHANGED segment
Finish(v) == edit' = [edit EXCEPT ![v] = None]

(* validateContentType: a body that names a type names its content. *)
TypeNamed(type, content, package) ==
  (type = "custom" /\ content # None) \/ (type = "scorm" /\ package # None)

(* The look for a segment of the same content wants the other id missing. *)
SameContent(g, doc) ==
  LET was == segment[g].doc IN
  /\ was.contentType = doc.contentType
  /\ was.custom = IF doc.contentType = "custom" THEN doc.custom ELSE None
  /\ was.package = IF doc.contentType = "scorm" THEN doc.package ELSE None

StartCreateContent(v, g, doc) ==
  /\ segment[g].at = "new"
  /\ \A w \in Call : edit[w] # None => edit[w].segment # g
  /\ TypeNamed(doc.contentType, doc.custom, doc.package)
  /\ \A other \in LiveSegments : ~SameContent(other, doc)
  /\ Begin(v, IF doc.order = 0 THEN "count" ELSE "create", g, doc)

(* Without an order in its body a create takes the number of segments + 1. *)
CountContents(v) ==
  /\ edit[v] # None /\ edit[v].at = "count"
  /\ edit' = [edit EXCEPT ![v].at = "create", ![v].doc.order = Cardinality(LiveSegments) + 1]
  /\ UNCHANGED segment

OrderTaken(g, order) == \E other \in LiveSegments \ {g} : segment[other].doc.order = order

CreateContent(v) ==
  /\ edit[v] # None /\ edit[v].at = "create"
  /\ segment' = IF OrderTaken(edit[v].segment, edit[v].doc.order) THEN segment
                ELSE [segment EXCEPT ![edit[v].segment] = [at |-> "live", doc |-> edit[v].doc]]
  /\ Finish(v)

(* The body over the copy; an id of null leaves the stored one alone.      *)
StartUpdateContent(v, g, doc, typed) ==
  /\ g \in LiveSegments
  /\ typed => TypeNamed(doc.contentType, doc.custom, doc.package)
  /\ LET was == segment[g].doc
         Merged == [contentType |-> IF typed THEN doc.contentType ELSE was.contentType,
                    custom |-> IF doc.custom = None THEN was.custom ELSE doc.custom,
                    package |-> IF doc.package = None THEN was.package ELSE doc.package,
                    order |-> IF doc.order = 0 THEN was.order ELSE doc.order]
     IN  Begin(v, "update", g, Merged)

UpdateContent(v) ==
  /\ edit[v] # None /\ edit[v].at = "update"
  /\ LET g == edit[v].segment
         new == edit[v].doc
         Kept(field) == IF new[field] = None THEN segment[g].doc[field] ELSE new[field]
     IN  segment' = IF g \notin LiveSegments \/ OrderTaken(g, new.order) THEN segment
                    ELSE [segment EXCEPT ![g].doc =
                            [new EXCEPT !.custom = Kept("custom"), !.package = Kept("package")]]
  /\ Finish(v)

DeleteContent(g) ==
  /\ g \in LiveSegments
  /\ segment' = [segment EXCEPT ![g] = [at |-> "gone"]]
  /\ UNCHANGED edit

CutOffContent(v) ==
  /\ edit[v] # None
  /\ Finish(v) /\ UNCHANGED segment

ContentsNext ==
  \/ \E v \in Call, g \in Segment, doc \in Bodies :
        \/ StartCreateContent(v, g, doc)
        \/ \E typed \in BOOLEAN : StartUpdateContent(v, g, doc, typed)
  \/ \E v \in Call : \/ CountContents(v) \/ CreateContent(v) \/ UpdateContent(v)
                     \/ CutOffContent(v)
  \/ \E g \in Segment : DeleteContent(g)

-------------------------------------------------------------------------------
(* Progress and attempts. *)

(* `passed` is unset when the largest score is 0. *)
LearnerProgress ==
  [status : {"in_progress", "completed"}, progressPercent : {0, 100}, score : Nat,
   maxScore : Nat, passed : {"yes", "no", "unset"}, attemptCount : Nat, timeSpentSec : Nat]
Attempt ==
  [segment : Segment, contentType : {"custom"}, score : 0..100,
   status : {"in_progress", "completed"}, maxScore : Nat, timeSpentSec : Nat,
   passed : {"yes", "no", "unset"}]
Unrecorded ==
  [status |-> "in_progress", progressPercent |-> 0, score |-> 0, maxScore |-> 100,
   passed |-> "unset", attemptCount |-> 0, timeSpentSec |-> 0]
InFlight ==
  [at : {"upsert", "insert", "create"}, of : Custom, segment : Segment,
   new : LearnerProgress, sec : Nat]
Event == InFlight \cup {None}
ASSUME NoneAssumption == None \notin InFlight

ProgressInit ==
  /\ custom = {}
  /\ progress = [c \in Custom |-> [g \in Segment |-> <<>>]]
  /\ attempts = <<>>
  /\ event = [v \in Call |-> None]
  /\ marred = {}
  /\ written = [c \in Custom |-> [g \in Segment |-> 0]]

-------------------------------------------------------------------------------
(* Custom content is never deleted; what an update changes of it, nothing  *)
(* here reads.                                                             *)

CreateCustomContent(c) ==
  /\ c \notin custom
  /\ custom' = custom \cup {c}
  /\ UNCHANGED <<progress, attempts, event, marred, written>>

-------------------------------------------------------------------------------
(* recordCustomProgress *)

Found(c, g) == IF progress[c][g] = <<>> THEN Unrecorded ELSE Head(progress[c][g])
Given(value, before) == IF value = Unset THEN before ELSE value
Passes(score, maxScore) ==
  IF maxScore = 0 THEN "unset" ELSE IF 10 * score >= 6 * maxScore THEN "yes" ELSE "no"

(* Mutant: an event that completes nothing takes the percentage back.      *)
RecordedAfresh(was, type, p) ==
  LET score == Given(p.score, was.score)
      maxScore == Given(p.maxScore, was.maxScore)
  IN  [status |-> IF type = "answer" THEN "in_progress" ELSE "completed",
       progressPercent |-> IF type = "answer" THEN 0 ELSE 100,
       score |-> score, maxScore |-> maxScore, passed |-> Passes(score, maxScore),
       attemptCount |-> was.attemptCount + 1, timeSpentSec |-> was.timeSpentSec + p.sec]
Recorded(was, type, p) ==
  LET score == Given(p.score, was.score)
      maxScore == Given(p.maxScore, was.maxScore)
  IN  [status |-> IF type = "answer" THEN "in_progress" ELSE "completed",
       progressPercent |-> IF type = "answer" THEN was.progressPercent ELSE 100,
       score |-> score, maxScore |-> maxScore, passed |-> Passes(score, maxScore),
       attemptCount |-> was.attemptCount + 1, timeSpentSec |-> was.timeSpentSec + p.sec]

Recorder(c, g) ==
  {v \in Call : event[v] # None /\ event[v].of = c /\ event[v].segment = g}

StartEvent(v, c, g, type, p) ==
  /\ event[v] = None /\ edit[v] = None
  /\ c \in custom
  /\ g \in LiveSegments /\ segment[g].doc.contentType = "custom" /\ segment[g].doc.custom = c
  /\ event' = [event EXCEPT ![v] =
       [at |-> "upsert", of |-> c, segment |-> g, new |-> Recorded(Found(c, g), type, p),
        sec |-> p.sec]]
  /\ marred' = IF Recorder(c, g) = {} THEN marred ELSE marred \cup {<<c, g>>}
  /\ UNCHANGED <<custom, progress, attempts, written>>

(* A field of undefined is left out of the update.                         *)
Over(was, new) ==
  [new EXCEPT !.passed = IF @ = "unset" THEN was.passed ELSE @]

Upserted(v, docs) ==
  /\ progress' = [progress EXCEPT ![event[v].of][event[v].segment] = docs]
  /\ written' = [written EXCEPT ![event[v].of][event[v].segment] = @ + 1]
  /\ event' = [event EXCEPT ![v].at = "create"]
  /\ UNCHANGED <<custom, attempts, marred>>

UpsertFinds(v) ==
  /\ event[v] # None /\ event[v].at = "upsert"
  /\ LET docs == progress[event[v].of][event[v].segment] IN
     /\ docs # <<>>
     /\ Upserted(v, [docs EXCEPT ![1] = Over(@, event[v].new)])

UpsertMisses(v) ==
  /\ event[v] # None /\ event[v].at = "upsert"
  /\ progress[event[v].of][event[v].segment] = <<>>
  /\ event' = [event EXCEPT ![v].at = "insert"]
  /\ UNCHANGED <<custom, progress, attempts, marred, written>>

UpsertInserts(v) ==
  /\ event[v] # None /\ event[v].at = "insert"
  /\ Upserted(v, Append(progress[event[v].of][event[v].segment], event[v].new))

(* The attempt's score is at most 100, the progress's is not.              *)
Refused(new) == new.score > 100
CreateAttempt(v) ==
  /\ event[v] # None /\ event[v].at = "create"
  /\ LET e == event[v]
         attempt == [segment |-> e.segment, contentType |-> "custom",
                     status |-> e.new.status, score |-> e.new.score,
                     maxScore |-> e.new.maxScore, timeSpentSec |-> e.sec,
                     passed |-> e.new.passed]
     IN  IF Refused(e.new)
         THEN marred' = marred \cup {<<e.of, e.segment>>} /\ UNCHANGED attempts
         ELSE attempts' = Append(attempts, attempt) /\ UNCHANGED marred
  /\ event' = [event EXCEPT ![v] = None]
  /\ UNCHANGED <<custom, progress, written>>

CutOffEvent(v) ==
  /\ event[v] # None
  /\ event' = [event EXCEPT ![v] = None]
  /\ marred' = marred \cup {<<event[v].of, event[v].segment>>}
  /\ UNCHANGED <<custom, progress, attempts, written>>

-------------------------------------------------------------------------------
(* What is told of attempts, by the segments as they are now. *)

AttemptsAt(gs) == {i \in DOMAIN attempts : attempts[i].segment \in gs}

SegmentsOf(c) ==
  {g \in LiveSegments : segment[g].doc.contentType = "custom" /\ segment[g].doc.custom = c}
listAttempts(c) == AttemptsAt(SegmentsOf(c))

(* Mutant: the content of a segment is the id that it has. *)
ContentByEither(g) ==
  IF segment[g].doc.package # None THEN segment[g].doc.package ELSE segment[g].doc.custom
ContentOf(g) ==
  IF segment[g].doc.contentType = "custom" THEN segment[g].doc.custom
  ELSE segment[g].doc.package
ReportedContent(g) == IF g \notin LiveSegments \/ ContentOf(g) = None THEN g ELSE ContentOf(g)
listReports ==
  [i \in DOMAIN attempts |->
     [content |-> ReportedContent(attempts[i].segment), status |-> attempts[i].status,
      progressPercent |-> IF attempts[i].status = "completed" THEN 100 ELSE 0,
      score |-> attempts[i].score, passed |-> attempts[i].passed]]

-------------------------------------------------------------------------------

Events ==
  MapThenSumSet(LAMBDA at : written[at[1]][at[2]] + Cardinality(Recorder(at[1], at[2])),
                Custom \X Segment)

RecordingNext ==
  \/ \E c \in Custom : CreateCustomContent(c)
  \/ \E v \in Call, c \in Custom, g \in Segment, p \in Payload :
       \E type \in {"answer", "quiz_complete"} :
        /\ Events < MaxEvents
        /\ StartEvent(v, c, g, type, p)
  \/ \E v \in Call :
        \/ CutOffEvent(v)
        \/ UpsertFinds(v) \/ UpsertMisses(v) \/ UpsertInserts(v) \/ CreateAttempt(v)

(* Lists, reports, and a request that is refused, write nothing. *)
Tells == UNCHANGED <<contents, recording>>

ProgressNext ==
  \/ Tells
  \/ /\ ContentsNext /\ UNCHANGED recording
     /\ \A v \in Call : event[v] = None \/ edit'[v] = None
  \/ RecordingNext /\ UNCHANGED contents

ProgressSpec == ContentsInit /\ ProgressInit /\ [][ProgressNext]_<<contents, recording>>

-------------------------------------------------------------------------------

MadeAt(g) == AttemptsAt({g})

(* The sum of the numbers f[x], as the size of a set of pairs.             *)
Added(f) == Cardinality(UNION {{x} \X (1..f[x]) : x \in DOMAIN f})
Counts(docs) == Added([i \in DOMAIN docs |-> docs[i].attemptCount])
Spent(made) == Added([i \in made |-> attempts[i].timeSpentSec])

(* A document that says of the attempts made: how many and how long, what  *)
(* came of the last, and that the percentage is that of any completed one. *)
Tallies(doc, made) ==
  /\ doc.attemptCount = Cardinality(made)
  /\ doc.timeSpentSec = Spent(made)
  /\ \E last \in made :
       /\ \A i \in made : i <= last
       /\ doc.status = attempts[last].status /\ doc.score = attempts[last].score
  /\ doc.progressPercent = 100 <=> \E i \in made : attempts[i].status = "completed"

(* However events overlap, fail or are cut off, no progress counts more    *)
(* attempts than were recorded; and where none did, the one progress of a  *)
(* content in a segment is the sum of its attempts, with the outcome of    *)
(* the last and the percentage of any completed one (contentCtrl.ts:583).  *)
ProgressFollows ==
  \A c \in Custom, g \in Segment :
    LET docs == progress[c][g] IN
    /\ Counts(docs) <= written[c][g]
    /\ <<c, g>> \notin marred /\ Recorder(c, g) = {} /\ docs # <<>>
       /\ (\A other \in Custom \ {c} : progress[other][g] = <<>>) =>
         Len(docs) = 1 /\ Tallies(docs[1], MadeAt(g))

(* Whatever has become of segments, an attempt listed under a content is   *)
(* reported under that content (contentCtrl.ts:642, 726).                  *)
AttemptsReported ==
  \A c \in Custom : \A i \in DOMAIN attempts :
    attempts[i].segment \in SegmentsOf(c) => listReports[i].content = c

(* Progress and reports follow the attempts that were recorded.            *)
AttemptsTell == ProgressFollows /\ AttemptsReported

===============================================================================
