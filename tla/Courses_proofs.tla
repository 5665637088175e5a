---------------------------- MODULE Courses_proofs -----------------------------
(***************************************************************************)
(* Proofs about CourseLedger and ContentLists (with DepartmentContent),    *)
(* for any seats, documents, departments, content and requests.  The       *)
(* ledger: no enrollment leaves without a record, an update answers what   *)
(* it stored, and the two collections implement CourseArchive.  Content:   *)
(* moves keep programs, courses and packages among linked departments, and *)
(* a list shows what has not moved where it lies.                          *)
(***************************************************************************)
EXTENDS CourseLedger, ContentLists, TLAPS

(* A document has its seat from the moment it is created. *)
Seated == \A d \in Doc : current[d].at = "new" <=> current[d].seat = {}

(* What a request holds of its document.  A version only grows, so a copy  *)
(* of the version stored differs from it in the request's own parts only.  *)
Follows(q, docs, records) ==
  /\ q.at \in {"save", "saved", "record", "remove"} =>
       q.doc \in Doc /\ docs[q.doc].at # "new"
  /\ q.at = "record" => q.outcome \in Outcome
  /\ q.at = "remove" => records[q.doc] # <<>>
  /\ q.at = "save" => q.version <= docs[q.doc].version
  /\ q.at = "save" /\ docs[q.doc].version = q.version =>
       \A p \in Part \ q.parts : q.copy[p] = docs[q.doc].progress[p]

(* Documents and records only move on: a change of progress is a version. *)
MovedOn(docs, records, docs2, records2) ==
  \A d \in Doc :
    /\ docs[d].version \in Nat /\ docs2[d].version \in Nat
    /\ docs[d].at # "new" => docs2[d].at # "new"
    /\ records[d] # <<>> => records2[d] # <<>>
    /\ docs[d].at # "new" =>
         \/ docs2[d].version = docs[d].version + 1
         \/ /\ docs2[d].version = docs[d].version
            /\ docs2[d].progress = docs[d].progress

TypeInv == LedgerTypeOK /\ Seated
LedgerInv == TypeInv /\ OnRecord /\ \A r \in Request : Follows(request[r], current, activity)

-------------------------------------------------------------------------------

LEMMA NoProgressIs == NoProgress \in Progress /\ Unmade \in Current /\ Rest \in Pending
BY LedgerAssumption DEF NoProgress, Progress, Unmade, Current, Rest, Pending

LEMMA OpenedIs ==
  ASSUME NEW s \in Seat
  PROVE  /\ Opened(s) \in Current
         /\ Opened(s).at = "live" /\ Opened(s).seat = {s} /\ Opened(s).seat # {}
BY NoProgressIs DEF Opened, Current

LEMMA DeletedIs ==
  ASSUME NEW doc \in Current
  PROVE  /\ Deleted(doc) \in Current
         /\ Deleted(doc).at = "gone" /\ Deleted(doc).seat = doc.seat
         /\ Deleted(doc).version = doc.version
         /\ Deleted(doc).progress = doc.progress
BY DEF Deleted, Current

LEMMA SavedIs ==
  ASSUME NEW doc \in Current, NEW r \in Request, request[r] \in Pending
  PROVE  /\ Saved(doc, r) \in Current
         /\ Saved(doc, r).at = doc.at /\ Saved(doc, r).seat = doc.seat
         /\ Saved(doc, r).version = doc.version + 1
         /\ doc.version \in Nat
         /\ \A p \in Part : Saved(doc, r).progress[p] =
              IF p \in request[r].parts THEN request[r].copy[p] ELSE doc.progress[p]
<1> DEFINE new == [p \in Part |->
             IF p \in request[r].parts THEN request[r].copy[p] ELSE doc.progress[p]]
<1>1. doc.progress \in Progress /\ request[r].copy \in Progress
  BY DEF Current, Pending
<1>2. new \in Progress
  BY <1>1 DEF Progress
<1> QED
  BY <1>2 DEF Saved, Current

-------------------------------------------------------------------------------

(* Where every request and document stands after a step that changes one   *)
(* request, or one document, to something of its type.                     *)
LEMMA StepIs ==
  ASSUME LedgerTypeOK, NEW r \in Request, NEW next \in Pending, Step(r, next)
  PROVE  /\ request' \in [Request -> Pending]
         /\ request'[r] = next
         /\ \A q \in Request \ {r} : request'[q] = request[q]
BY DEF Step, LedgerTypeOK

LEMMA RequestIs ==
  ASSUME LedgerTypeOK, NEW r \in Request
  PROVE  /\ request[r] \in Pending
         /\ request[r].doc \in Doc \cup {NoDoc}
         /\ request[r].copy \in Progress
         /\ request[r].parts \subseteq Part
         /\ request[r].version \in Nat
         /\ request[r].seats \subseteq Seat
BY DEF LedgerTypeOK, Pending

LEMMA DocumentIs ==
  ASSUME LedgerTypeOK, NEW d \in Doc
  PROVE  /\ current[d] \in Current
         /\ current[d].progress \in Progress
         /\ current[d].version \in Nat
         /\ activity[d] \in Seq(Activity)
BY DEF LedgerTypeOK, Current

(* What a request holds stays true while its document only moves on. *)
LEMMA FollowsKept ==
  ASSUME NEW q \in Pending, NEW docs, NEW records, NEW docs2, NEW records2,
         Follows(q, docs, records),
         MovedOn(docs, records, docs2, records2)
  PROVE  Follows(q, docs2, records2)
<1>1. q.version \in Nat
  BY DEF Pending
<1>2. CASE q.at = "save"
  BY <1>1, <1>2 DEF Follows, MovedOn
<1>3. CASE q.at # "save"
  BY <1>3 DEF Follows, MovedOn
<1> QED
  BY <1>2, <1>3

(* A step that leaves the documents and the records alone. *)
LEMMA RequestStep ==
  ASSUME LedgerInv, NEW r \in Request, NEW next \in Pending, Step(r, next),
         UNCHANGED <<current, activity>>, Follows(next, current, activity)
  PROVE  LedgerInv'
<1> USE DEF LedgerInv, TypeInv
<1>1. LedgerTypeOK'
  BY StepIs DEF LedgerTypeOK
<1>2. Seated' /\ OnRecord'
  BY DEF Seated, OnRecord
<1>3. \A q \in Request : Follows(request'[q], current', activity')
  <2> TAKE q \in Request
  <2>1. CASE q = r
    BY <2>1, StepIs
  <2>2. CASE q # r
    BY <2>2, StepIs
  <2> QED
    BY <2>1, <2>2
<1> QED
  BY <1>1, <1>2, <1>3

(* A step that moves one document on. *)
LEMMA DocumentStep ==
  ASSUME LedgerInv, NEW r \in Request, NEW next \in Pending, Step(r, next),
         NEW d \in Doc, NEW doc \in Current,
         current' = [current EXCEPT ![d] = doc], UNCHANGED activity,
         current[d].at # "new" => doc.at # "new",
         doc.at = "new" <=> doc.seat = {},
         doc.at = "gone" => activity[d] # <<>>,
         current[d].at # "new" =>
                \/ doc.version = current[d].version + 1
                \/ /\ doc.version = current[d].version
                   /\ doc.progress = current[d].progress,
         Follows(next, current', activity')
  PROVE  LedgerInv'
<1> USE DEF LedgerInv, TypeInv
<1>1. current' \in [Doc -> Current] /\ current'[d] = doc
      /\ \A e \in Doc \ {d} : current'[e] = current[e]
  BY DEF LedgerTypeOK
<1>2. LedgerTypeOK'
  BY <1>1, StepIs DEF LedgerTypeOK
<1>3. Seated' /\ OnRecord'
  BY <1>1 DEF Seated, OnRecord
<1>4. \A q \in Request : Follows(request'[q], current', activity')
  <2> TAKE q \in Request
  <2>1. CASE q = r
    BY <2>1, StepIs
  <2>2. CASE q # r
    <3>1. request[q] \in Pending /\ Follows(request[q], current, activity)
      BY RequestIs
    <3>2. MovedOn(current, activity, current', activity')
      <4> SUFFICES ASSUME NEW e \in Doc
                   PROVE  /\ current[e].version \in Nat /\ current'[e].version \in Nat
                          /\ current[e].at # "new" => current'[e].at # "new"
                          /\ activity[e] # <<>> => activity'[e] # <<>>
                          /\ current[e].at # "new" =>
                               \/ current'[e].version = current[e].version + 1
                               \/ /\ current'[e].version = current[e].version
                                  /\ current'[e].progress = current[e].progress
        BY DEF MovedOn
      <4>1. doc.version \in Nat /\ current[e].version \in Nat
        BY DocumentIs DEF Current
      <4>2. CASE e = d
        BY <1>1, <4>1, <4>2
      <4>3. CASE e # d
        BY <1>1, <4>1, <4>3
      <4> QED
        BY <4>2, <4>3
    <3>3. Follows(request[q], current', activity')
      BY <3>1, <3>2, FollowsKept
    <3> QED
      BY <2>2, <3>3, StepIs
  <2> QED
    BY <2>1, <2>2
<1> QED
  BY <1>2, <1>3, <1>4

-------------------------------------------------------------------------------

LEMMA InitLedger == LedgerInit => LedgerInv
<1> SUFFICES ASSUME LedgerInit PROVE LedgerInv
  OBVIOUS
<1>1. LedgerTypeOK
  BY NoProgressIs DEF LedgerInit, LedgerTypeOK
<1>2. Seated /\ OnRecord
  BY DEF LedgerInit, Seated, OnRecord, Unmade
<1>3. \A r \in Request : Follows(request[r], current, activity)
  BY DEF LedgerInit, Follows, Rest
<1> QED
  BY <1>1, <1>2, <1>3 DEF LedgerInv, TypeInv

LEMMA RestFollows == \A docs, records : Follows(Rest, docs, records)
BY DEF Follows, Rest

LEMMA StartCourseEnrollmentKeeps ==
  ASSUME LedgerInv, NEW d \in Doc, NEW s \in Seat, StartCourseEnrollment(d, s)
  PROVE  LedgerInv'
<1> USE DEF LedgerInv, TypeInv
<1>1. /\ current[d].at = "new" /\ UNCHANGED <<activity, request>>
      /\ current' = [current EXCEPT ![d] = Opened(s)]
  BY DEF StartCourseEnrollment, Unused
<1>2. current' \in [Doc -> Current] /\ current'[d] = Opened(s)
      /\ \A e \in Doc \ {d} : current'[e] = current[e]
  BY <1>1, OpenedIs DEF LedgerTypeOK
<1>3. LedgerTypeOK' /\ Seated' /\ OnRecord'
  BY <1>1, <1>2, OpenedIs DEF LedgerTypeOK, Seated, OnRecord
<1>4. ASSUME NEW q \in Request PROVE Follows(request'[q], current', activity')
  BY <1>1, <1>2, RequestIs DEF Follows
<1> QED
  BY <1>3, <1>4

LEMMA InsertManyKeeps ==
  ASSUME LedgerInv, NEW r \in Request, InsertMany(r)
  PROVE  LedgerInv'
<1> USE DEF LedgerInv, TypeInv
<1>1. PICK D \in SUBSET Unused : \E opened \in [D -> Insertable(r)] :
        current' = [d \in Doc |-> IF d \in D THEN Opened(opened[d]) ELSE current[d]]
  BY DEF InsertMany
<1>2. PICK opened \in [D -> Insertable(r)] :
        current' = [d \in Doc |-> IF d \in D THEN Opened(opened[d]) ELSE current[d]]
  BY <1>1
<1>3. Step(r, Rest) /\ UNCHANGED activity
  BY DEF InsertMany
<1>4. \A d \in D : d \in Doc /\ current[d].at = "new" /\ opened[d] \in Seat
  BY RequestIs DEF Unused, Insertable
<1>5. \A d \in Doc : IF d \in D THEN current'[d] = Opened(opened[d])
                                 ELSE current'[d] = current[d]
  BY <1>2
<1>6. current' \in [Doc -> Current]
  BY <1>2, <1>4, OpenedIs DEF LedgerTypeOK
<1>7. LedgerTypeOK' /\ Seated' /\ OnRecord'
  <2>1. \A d \in D : Opened(opened[d]).at = "live" /\ Opened(opened[d]).seat # {}
    BY <1>4, OpenedIs
  <2>2. LedgerTypeOK'
    BY <1>3, <1>6, NoProgressIs, StepIs DEF LedgerTypeOK
  <2>3. Seated' /\ OnRecord'
    BY <1>3, <1>5, <2>1 DEF Seated, OnRecord
  <2> QED
    BY <2>2, <2>3
<1>8. ASSUME NEW q \in Request PROVE Follows(request'[q], current', activity')
  <2>1. CASE q = r
    BY <2>1, <1>3, NoProgressIs, StepIs, RestFollows
  <2>2. CASE q # r
    <3>1. request'[q] = request[q]
      BY <2>2, <1>3, NoProgressIs, StepIs
    <3>2. request[q].at \in {"save", "saved", "record", "remove"} =>
            request[q].doc \in Doc /\ request[q].doc \notin D
      BY <1>4 DEF Follows
    <3>3. request[q].at \in {"save", "saved", "record", "remove"} =>
            current'[request[q].doc] = current[request[q].doc]
      BY <3>2, <1>5
    <3> QED
      BY <1>3, <3>1, <3>2, <3>3 DEF Follows
  <2> QED
    BY <2>1, <2>2
<1> QED
  BY <1>7, <1>8

LEMMA StartBatchKeeps ==
  ASSUME LedgerInv, NEW r \in Request, StartBatch(r)
  PROVE  LedgerInv'
<1>1. PICK toCreate \in SUBSET (Seat \ EnrolledSeats) :
        Step(r, [at |-> "insert", doc |-> NoDoc, copy |-> NoProgress, parts |-> {},
                 version |-> 0, outcome |-> "none", seats |-> toCreate])
  BY DEF StartBatch
<1> DEFINE next == [at |-> "insert", doc |-> NoDoc, copy |-> NoProgress, parts |-> {},
                    version |-> 0, outcome |-> "none", seats |-> toCreate]
<1>2. next \in Pending
  BY NoProgressIs DEF Pending
<1>3. Follows(next, current, activity)
  BY DEF Follows
<1>4. UNCHANGED <<current, activity>>
  BY DEF StartBatch
<1> HIDE DEF next
<1> QED
  BY <1>1, <1>2, <1>3, <1>4, RequestStep DEF next

LEMMA StartUpdateKeeps ==
  ASSUME LedgerInv, NEW r \in Request, NEW d \in Doc, StartUpdate(r, d)
  PROVE  LedgerInv'
<1>1. PICK S \in SUBSET Part, v \in Value :
        Step(r, [at |-> "save", doc |-> d, parts |-> S,
                 copy |-> [p \in Part |-> IF p \in S THEN v ELSE current[d].progress[p]],
                 version |-> current[d].version, outcome |-> "none", seats |-> {}])
  BY DEF StartUpdate
<1> DEFINE copy == [p \in Part |-> IF p \in S THEN v ELSE current[d].progress[p]]
           next == [at |-> "save", doc |-> d, parts |-> S, copy |-> copy,
                    version |-> current[d].version, outcome |-> "none", seats |-> {}]
<1>2. copy \in Progress /\ current[d].version \in Nat
  BY DocumentIs DEF Progress, LedgerInv, TypeInv
<1>3. \A p \in Part \ S : copy[p] = current[d].progress[p]
  OBVIOUS
<1>4. current[d].at # "new" /\ UNCHANGED <<current, activity>>
  BY DEF StartUpdate, Live
<1> HIDE DEF copy
<1>5. next \in Pending
  BY <1>2 DEF Pending
<1>6. Follows(next, current, activity)
  BY <1>2, <1>3, <1>4 DEF Follows
<1>7. Step(r, next)
  BY <1>1 DEF copy
<1> HIDE DEF next
<1> QED
  BY <1>4, <1>5, <1>6, <1>7, RequestStep

LEMMA StartEndKeeps ==
  ASSUME LedgerInv, NEW r \in Request, NEW d \in Doc, StartEnd(r, d)
  PROVE  LedgerInv'
<1>1. PICK o \in Outcome : Load(r, d, "record", o)
  BY DEF StartEnd
<1> DEFINE next == [at |-> "record", doc |-> d, copy |-> current[d].progress, parts |-> {},
                    version |-> current[d].version, outcome |-> o, seats |-> {}]
<1>2. Step(r, next) /\ current[d].at # "new" /\ UNCHANGED <<current, activity>>
  BY <1>1 DEF Load, Live
<1>3. next \in Pending
  BY DocumentIs DEF Pending, LedgerInv, TypeInv
<1>4. Follows(next, current, activity)
  BY <1>2 DEF Follows
<1> HIDE DEF next
<1> QED
  BY <1>2, <1>3, <1>4, RequestStep

LEMMA RestKeeps ==
  ASSUME LedgerInv, NEW r \in Request, Step(r, Rest), UNCHANGED <<current, activity>>
  PROVE  LedgerInv'
BY RequestStep, NoProgressIs, RestFollows

(* What a request of a document holds once it has saved, or recorded. *)
LEMMA AtIs ==
  ASSUME LedgerInv, NEW r \in Request, NEW at \in {"saved", "remove"}
  PROVE  /\ [request[r] EXCEPT !.at = at] \in Pending
         /\ [request[r] EXCEPT !.at = at].at = at
         /\ [request[r] EXCEPT !.at = at].doc = request[r].doc
         /\ [request[r] EXCEPT !.at = at].copy = request[r].copy
BY RequestIs DEF Pending, LedgerInv, TypeInv

LEMMA SaveKeeps ==
  ASSUME LedgerInv, NEW r \in Request, Save(r)
  PROVE  LedgerInv'
<1>1. CASE Matches(r)
  <2> DEFINE d == request[r].doc
             doc == Saved(current[d], r)
             next == [request[r] EXCEPT !.at = "saved"]
  <2>1. d \in Doc /\ current[d].at = "live" /\ current[d] \in Current
    BY <1>1, DocumentIs DEF Matches, Live, LedgerInv, TypeInv
  <2>2. /\ doc \in Current /\ doc.at = "live" /\ doc.seat = current[d].seat
        /\ doc.version = current[d].version + 1
    BY <2>1, RequestIs, SavedIs DEF LedgerInv, TypeInv
  <2>3. current' = [current EXCEPT ![d] = doc] /\ Step(r, next) /\ UNCHANGED activity
    BY <1>1 DEF Save
  <2>4. next \in Pending /\ next.at = "saved" /\ next.doc = d
    BY AtIs
  <2>5. current[d].at # "new" /\ doc.at # "new" /\ doc.at # "gone" /\ doc.seat # {}
    BY <2>1, <2>2 DEF Seated, LedgerInv, TypeInv
  <2> HIDE DEF doc, next
  <2>6. current'[d] = doc
    BY <2>1, <2>3 DEF LedgerTypeOK, LedgerInv, TypeInv
  <2>7. Follows(next, current', activity')
    BY <2>1, <2>4, <2>5, <2>6 DEF Follows
  <2> QED
    BY <2>1, <2>2, <2>3, <2>4, <2>5, <2>7, DocumentStep
<1>2. CASE ~Matches(r)
  BY <1>2, RestKeeps DEF Save
<1> QED
  BY <1>1, <1>2

LEMMA DeleteCurrentKeeps ==
  ASSUME LedgerInv, NEW r \in Request, DeleteCurrent(r)
  PROVE  LedgerInv'
<1> DEFINE d == request[r].doc
           doc == Deleted(current[d])
<1>1. /\ request[r].at = "remove" /\ Step(r, Rest) /\ UNCHANGED activity
      /\ current' = [current EXCEPT ![d] = doc]
  BY DEF DeleteCurrent
<1>2. d \in Doc /\ current[d].at # "new" /\ activity[d] # <<>>
  BY <1>1 DEF LedgerInv, Follows
<1>3. /\ doc \in Current /\ doc.at = "gone" /\ doc.seat = current[d].seat
      /\ doc.version = current[d].version /\ doc.progress = current[d].progress
  BY <1>2, DocumentIs, DeletedIs DEF LedgerInv, TypeInv
<1>4. doc.at # "new" /\ doc.seat # {}
  BY <1>2, <1>3 DEF Seated, LedgerInv, TypeInv
<1> HIDE DEF doc
<1> QED
  BY <1>1, <1>2, <1>3, <1>4, DocumentStep, NoProgressIs, RestFollows

(* The record a request makes of the document it is about. *)
LEMMA RecordIs ==
  ASSUME LedgerInv, NEW r \in Request, CreateActivity(r)
  PROVE  /\ request[r].doc \in Doc /\ current[request[r].doc].at # "new"
         /\ Record(r) \in Activity /\ Record(r).outcome \in Outcome
         /\ activity' \in [Doc -> Seq(Activity)]
         /\ activity'[request[r].doc] = Append(activity[request[r].doc], Record(r))
         /\ activity'[request[r].doc] # <<>>
         /\ \A d \in Doc \ {request[r].doc} : activity'[d] = activity[d]
<1>1. request[r].at = "record"
      /\ activity' = [activity EXCEPT ![request[r].doc] = Append(@, Record(r))]
  BY DEF CreateActivity
<1>2. /\ request[r].doc \in Doc /\ current[request[r].doc].at # "new"
      /\ request[r].outcome \in Outcome
  BY <1>1 DEF LedgerInv, Follows
<1>3. Record(r) \in Activity /\ Record(r).outcome \in Outcome
  BY <1>2, RequestIs DEF Record, Activity, LedgerInv, TypeInv
<1>4. activity \in [Doc -> Seq(Activity)]
  BY DEF LedgerInv, TypeInv, LedgerTypeOK
<1> HIDE DEF Record
<1>5. Append(activity[request[r].doc], Record(r)) \in Seq(Activity)
      /\ Append(activity[request[r].doc], Record(r)) # <<>>
  BY <1>2, <1>3, <1>4
<1> QED
  BY <1>1, <1>2, <1>3, <1>4, <1>5

LEMMA CreateActivityKeeps ==
  ASSUME LedgerInv, NEW r \in Request, CreateActivity(r)
  PROVE  LedgerInv'
<1> USE DEF LedgerInv, TypeInv
<1> DEFINE next == [request[r] EXCEPT !.at = "remove"]
<1>1. Step(r, next) /\ UNCHANGED current
  BY DEF CreateActivity
<1>2. next \in Pending /\ next.at = "remove" /\ next.doc = request[r].doc
  BY AtIs
<1> HIDE DEF next
<1>3. LedgerTypeOK'
  BY <1>1, <1>2, StepIs, RecordIs DEF LedgerTypeOK
<1>4. Seated'
  BY <1>1 DEF Seated
<1>5. \A d \in Doc : activity[d] # <<>> => activity'[d] # <<>>
  BY RecordIs
<1>6. OnRecord'
  BY <1>1, <1>5 DEF OnRecord
<1>7. MovedOn(current, activity, current', activity')
  BY <1>1, <1>5, DocumentIs DEF MovedOn
<1>8. ASSUME NEW q \in Request PROVE Follows(request'[q], current', activity')
  <2>1. CASE q = r
    <3>1. Follows(next, current', activity')
      BY <1>1, <1>2, RecordIs DEF Follows
    <3> QED
      BY <2>1, <3>1, <1>1, <1>2, StepIs
  <2>2. CASE q # r
    <3>1. request[q] \in Pending /\ Follows(request[q], current, activity)
      BY RequestIs
    <3>2. Follows(request[q], current', activity')
      BY <3>1, <1>7, FollowsKept
    <3> QED
      BY <2>2, <3>2, <1>1, <1>2, StepIs
  <2> QED
    BY <2>1, <2>2
<1> QED
  BY <1>3, <1>4, <1>6, <1>8

LEMMA LedgerNextKeeps == LedgerInv /\ [LedgerNext]_ledger => LedgerInv'
<1> SUFFICES ASSUME LedgerInv, [LedgerNext]_ledger PROVE LedgerInv'
  OBVIOUS
<1>1. CASE UNCHANGED ledger
  BY <1>1 DEF ledger, LedgerInv, TypeInv, LedgerTypeOK, Seated, OnRecord
<1>2. CASE Refuse
  BY <1>1, <1>2 DEF Refuse
<1>3. ASSUME NEW d \in Doc, NEW s \in Seat, StartCourseEnrollment(d, s) PROVE LedgerInv'
  BY <1>3, StartCourseEnrollmentKeeps
<1>4. ASSUME NEW r \in Request, StartBatch(r) PROVE LedgerInv'
  BY <1>4, StartBatchKeeps
<1>5. ASSUME NEW r \in Request, InsertMany(r) PROVE LedgerInv'
  BY <1>5, InsertManyKeeps
<1>6. ASSUME NEW r \in Request, NEW d \in Doc, StartUpdate(r, d) PROVE LedgerInv'
  BY <1>6, StartUpdateKeeps
<1>7. ASSUME NEW r \in Request, NEW d \in Doc, StartEnd(r, d) PROVE LedgerInv'
  BY <1>7, StartEndKeeps
<1>8. ASSUME NEW r \in Request, Save(r) PROVE LedgerInv'
  BY <1>8, SaveKeeps
<1>9. ASSUME NEW r \in Request, Reply(r) \/ CutOff(r) PROVE LedgerInv'
  BY <1>9, RestKeeps DEF Reply, CutOff
<1>10. ASSUME NEW r \in Request, CreateActivity(r) PROVE LedgerInv'
  BY <1>10, CreateActivityKeeps
<1>11. ASSUME NEW r \in Request, DeleteCurrent(r) PROVE LedgerInv'
  BY <1>11, DeleteCurrentKeeps
<1> QED
  BY <1>1, <1>2, <1>3, <1>4, <1>5, <1>6, <1>7, <1>8, <1>9, <1>10, <1>11
     DEF LedgerNext

(* The collections and the requests are well typed and sound, always. *)
THEOREM LedgerCorrect == LedgerSpec => []LedgerInv
BY InitLedger, LedgerNextKeeps, PTL DEF LedgerSpec

(* Every variable has its type, whatever overlaps. *)
THEOREM LedgerTypeCorrect == LedgerSpec => []LedgerTypeOK
<1>1. LedgerInv => LedgerTypeOK
  BY DEF LedgerInv, TypeInv
<1> QED
  BY <1>1, LedgerCorrect, PTL

-------------------------------------------------------------------------------

(* A course history that is between its two reads: what it was asked for   *)
(* and has not shown yet is on record, where the second read finds it.     *)
HistoryInv ==
  /\ LedgerInv
  /\ history \in History
  /\ history.at = "activity" =>
       \A d \in history.there : d \in history.shown \/ Ended(d, history.filter)
  /\ history.at = "read" => history.there \subseteq history.shown

(* Records are added, and never taken away. *)
LEMMA RecordsGrow ==
  ASSUME LedgerInv, [LedgerNext]_ledger, NEW d \in Doc,
         NEW filter \in {"none", "active"} \cup Outcome, Ended(d, filter)
  PROVE  Ended(d, filter)'
<1>1. ASSUME NEW r \in Request, CreateActivity(r) PROVE Ended(d, filter)'
  <2>1. CASE d = request[r].doc
    <3>1. activity'[d] = Append(activity[d], Record(r))
      BY <1>1, <2>1, RecordIs
    <3>2. activity[d] \in Seq(Activity) /\ Record(r) \in Activity
      BY <1>1, RecordIs DEF LedgerInv, TypeInv, LedgerTypeOK
    <3>3. PICK i \in DOMAIN activity[d] : filter \in {"none", activity[d][i].outcome}
      BY DEF Ended
    <3>4. i \in DOMAIN activity'[d] /\ activity'[d][i] = activity[d][i]
      BY <3>1, <3>2
    <3> QED
      BY <3>3, <3>4 DEF Ended
  <2>2. CASE d # request[r].doc
    <3>1. activity'[d] = activity[d]
      BY <1>1, <2>2, RecordIs
    <3> QED
      BY <3>1 DEF Ended
  <2> QED
    BY <2>1, <2>2
<1>2. CASE UNCHANGED activity
  BY <1>2 DEF Ended
<1>3. UNCHANGED activity \/ \E r \in Request : CreateActivity(r)
  BY DEF LedgerNext, ledger, Refuse, StartCourseEnrollment, StartBatch, InsertMany, StartUpdate,
         StartEnd, Load, Save, Reply, DeleteCurrent, CutOff
<1> QED
  BY <1>1, <1>2, <1>3

(* What there is at the start is shown by the first read or on record.     *)
LEMMA ThereIs ==
  ASSUME LedgerInv, NEW filter \in {"none", "active"} \cup Outcome, NEW d \in There(filter)
  PROVE  d \in Doc /\ (d \in CurrentShown(filter) \/ Ended(d, filter))
<1>1. "active" \notin Outcome /\ "none" \notin Outcome
  BY LedgerAssumption
<1>2. CASE filter = "none"
  <2>1. d \in Doc /\ current[d].at # "new"
    BY <1>2 DEF There, Unused
  <2>2. current[d] \in Current /\ activity[d] \in Seq(Activity)
    BY <2>1 DEF LedgerInv, TypeInv, LedgerTypeOK
  <2>3. CASE current[d].at = "live"
    BY <1>2, <2>1, <2>3 DEF CurrentShown, Live
  <2>4. CASE current[d].at = "gone"
    <3>1. activity[d] # <<>>
      BY <2>1, <2>4 DEF LedgerInv, OnRecord
    <3>2. 1 \in DOMAIN activity[d]
      BY <2>2, <3>1
    <3> QED
      BY <1>2, <2>1, <3>2 DEF Ended
  <2> QED
    BY <2>1, <2>2, <2>3, <2>4 DEF Current
<1>3. CASE filter = "active"
  BY <1>3 DEF There, CurrentShown, Live
<1>4. CASE filter \in Outcome
  BY <1>1, <1>4 DEF There
<1> QED
  BY <1>2, <1>3, <1>4

LEMMA FindCurrentKeeps ==
  ASSUME HistoryInv, NEW filter \in {"none", "active"} \cup Outcome, FindCurrent(filter)
  PROVE  HistoryInv'
<1>1. /\ history' = [at |-> "activity", filter |-> filter,
                     shown |-> CurrentShown(filter), there |-> There(filter)]
      /\ UNCHANGED ledger
  BY DEF FindCurrent
<1>2. CurrentShown(filter) \subseteq Doc
  BY DEF CurrentShown, Live
<1>3. \A d \in There(filter) :
        d \in Doc /\ (d \in CurrentShown(filter) \/ Ended(d, filter))
  BY ThereIs DEF HistoryInv
<1>4. LedgerInv'
  BY <1>1, LedgerNextKeeps DEF HistoryInv
<1>5. \A d : Ended(d, filter)' = Ended(d, filter)
  BY <1>1 DEF Ended, ledger
<1>6. history'.at = "activity" /\ history'.filter = filter
      /\ history'.shown = CurrentShown(filter) /\ history'.there = There(filter)
  BY <1>1
<1>7. history' \in History
  BY <1>1, <1>2, <1>3 DEF History
<1>8. \A d \in history'.there : d \in history'.shown \/ Ended(d, history.filter)'
  BY <1>3, <1>5, <1>6 DEF Ended
<1> QED
  BY <1>4, <1>6, <1>7, <1>8 DEF HistoryInv

LEMMA FindActivityKeeps ==
  ASSUME HistoryInv, FindActivity
  PROVE  HistoryInv'
<1>1. /\ history.at = "activity" /\ UNCHANGED ledger
      /\ history' = [history EXCEPT !.at = "read",
                                    !.shown = @ \cup ActivityShown(history.filter)]
  BY DEF FindActivity
<1>2. LedgerInv'
  BY <1>1, LedgerNextKeeps DEF HistoryInv
<1>3. history \in History
  BY DEF HistoryInv
<1>4. /\ history'.at = "read" /\ history'.there = history.there
      /\ history'.shown = history.shown \cup ActivityShown(history.filter)
      /\ history' \in History
  BY <1>1, <1>3 DEF History, ActivityShown
<1>5. history.there \subseteq Doc
  BY <1>3 DEF History
<1>6. history'.there \subseteq history'.shown
  BY <1>1, <1>4, <1>5 DEF HistoryInv, ActivityShown
<1> QED
  BY <1>2, <1>4, <1>6 DEF HistoryInv

LEMMA HistoryNextKeeps == HistoryInv /\ [HistoryNext]_<<ledger, history>> => HistoryInv'
<1> SUFFICES ASSUME HistoryInv, [HistoryNext]_<<ledger, history>> PROVE HistoryInv'
  OBVIOUS
<1>1. CASE [LedgerNext]_ledger /\ UNCHANGED history
  <2>1. LedgerInv'
    BY <1>1, LedgerNextKeeps DEF HistoryInv
  <2>2. history.there \subseteq Doc /\ history.filter \in {"none", "active"} \cup Outcome
    BY DEF HistoryInv, History
  <2>3. ASSUME history.at = "activity", NEW d \in history.there
        PROVE  d \in history.shown \/ Ended(d, history.filter)'
    <3>1. d \in history.shown \/ Ended(d, history.filter)
      BY <2>3 DEF HistoryInv
    <3>2. ASSUME NEW filter \in {"none", "active"} \cup Outcome, filter = history.filter,
                 Ended(d, filter)
          PROVE  Ended(d, filter)'
      BY <1>1, <2>2, <3>2, RecordsGrow DEF HistoryInv
    <3>3. Ended(d, history.filter) => Ended(d, history.filter)'
      BY <1>1, <2>2, <3>2 DEF Ended
    <3> QED
      BY <3>1, <3>3
  <2> QED
    BY <1>1, <2>1, <2>3 DEF HistoryInv
<1>2. ASSUME NEW filter \in {"none", "active"} \cup Outcome, FindCurrent(filter)
      PROVE  HistoryInv'
  BY <1>2, FindCurrentKeeps
<1>3. CASE FindActivity
  BY <1>3, FindActivityKeeps
<1> QED
  BY <1>1, <1>2, <1>3 DEF HistoryNext

(* An enrollment that left the current collection is on record, and a      *)
(* course history misses none that was there, however many requests end    *)
(* them at once or between its reads, and wherever they are cut off.       *)
THEOREM NothingLostCorrect == HistorySpec => []NothingLost
<1>1. HistoryInit => HistoryInv
  <2> SUFFICES ASSUME HistoryInit PROVE HistoryInv
    OBVIOUS
  <2>1. LedgerInv
    BY InitLedger DEF HistoryInit
  <2>2. /\ history = [at |-> "idle", filter |-> "none", shown |-> {}, there |-> {}]
        /\ history \in History
    BY DEF HistoryInit, History
  <2> QED
    BY <2>1, <2>2 DEF HistoryInv
<1>2. HistoryInv /\ [HistoryNext]_<<ledger, history>> => HistoryInv'
  BY HistoryNextKeeps
<1>3. HistoryInv => NothingLost
  BY DEF HistoryInv, NothingLost, LedgerInv
<1> QED
  BY <1>1, <1>2, <1>3, PTL DEF HistorySpec

-------------------------------------------------------------------------------

(* A save that goes through stores what its request answers. *)
LEMMA SaveAnswers ==
  ASSUME LedgerInv, NEW r \in Request, Save(r), Matches(r)
  PROVE  request'[r].copy = current'[request[r].doc].progress
<1> DEFINE d == request[r].doc
           doc == Saved(current[d], r)
<1>1. /\ d \in Doc /\ current[d] \in Current /\ request[r] \in Pending
      /\ current[d].version = request[r].version
  BY DocumentIs, RequestIs DEF Matches, Live, LedgerInv, TypeInv
<1>2. request[r].at = "save"
  BY DEF Save
<1>3. \A p \in Part \ request[r].parts : request[r].copy[p] = current[d].progress[p]
  BY <1>1, <1>2 DEF LedgerInv, Follows
<1>4. doc \in Current /\ \A p \in Part : doc.progress[p] = request[r].copy[p]
  BY <1>1, <1>3, SavedIs
<1>5. doc.progress \in Progress /\ request[r].copy \in Progress
  BY <1>1, <1>4 DEF Current, Pending
<1>6. doc.progress = request[r].copy
  BY <1>4, <1>5 DEF Progress
<1> HIDE DEF doc
<1>7. current'[d] = doc
  BY <1>1 DEF Save, LedgerInv, TypeInv, LedgerTypeOK, doc
<1>8. Step(r, [request[r] EXCEPT !.at = "saved"])
  BY DEF Save
<1>9. request'[r].copy = request[r].copy
  BY <1>8, AtIs, StepIs DEF LedgerInv, TypeInv
<1> QED
  BY <1>6, <1>7, <1>9

(* A step that leaves a request at rest, or where it was, is no answer. *)
LEMMA OnlySaveAnswers ==
  ASSUME LedgerInv, [LedgerNext]_ledger, NEW r \in Request,
         request[r].at = "save", request'[r].at = "saved"
  PROVE  Save(r) /\ Matches(r)
<1> USE DEF LedgerInv, TypeInv
<1>1. CASE request' = request
  BY <1>1
<1>2. ASSUME NEW q \in Request, NEW next \in Pending, Step(q, next),
             request[q].at # "save" \/ next.at # "saved"
      PROVE  FALSE
  <2>1. CASE q = r
    BY <1>2, <2>1, StepIs
  <2>2. CASE q # r
    BY <1>2, <2>2, StepIs
  <2> QED
    BY <2>1, <2>2
<1>3. ASSUME NEW q \in Request, Step(q, Rest) PROVE FALSE
  BY <1>2, <1>3, NoProgressIs DEF Rest
<1>4. ASSUME NEW q \in Request, request[q].at # "save", NEW next, Step(q, next)
      PROVE  FALSE
  BY <1>4 DEF Step, LedgerTypeOK
<1>5. ASSUME NEW q \in Request, Save(q) PROVE Save(r) /\ Matches(r)
  <2>1. Matches(q)
    BY <1>3, <1>5 DEF Save
  <2>2. Step(q, [request[q] EXCEPT !.at = "saved"])
    BY <1>5, <2>1 DEF Save
  <2>3. q = r
    BY <2>2 DEF Step, LedgerTypeOK
  <2> QED
    BY <1>5, <2>1, <2>3
<1>6. CASE UNCHANGED ledger \/ Refuse
  BY <1>1, <1>6 DEF ledger, Refuse
<1>7. ASSUME NEW d \in Doc, NEW s \in Seat, StartCourseEnrollment(d, s) PROVE FALSE
  BY <1>1, <1>7 DEF StartCourseEnrollment
<1>8. ASSUME NEW q \in Request,
             StartBatch(q) \/ InsertMany(q) \/ Reply(q) \/ CreateActivity(q)
               \/ DeleteCurrent(q) \/ CutOff(q)
      PROVE  FALSE
  BY <1>3, <1>4, <1>8
     DEF StartBatch, InsertMany, Reply, CreateActivity, DeleteCurrent, CutOff
<1>9. ASSUME NEW q \in Request, NEW d \in Doc, StartUpdate(q, d) \/ StartEnd(q, d)
      PROVE  FALSE
  BY <1>4, <1>9 DEF StartUpdate, StartEnd, Load
<1> QED
  BY <1>5, <1>6, <1>7, <1>8, <1>9 DEF LedgerNext

(* updateCourseProgress answers the progress that its save stored, for any *)
(* number of updates, ends and batches in flight.                          *)
THEOREM AnswersCorrect == LedgerSpec => AnswersWhatIsStored
<1> DEFINE Answer == \A r \in Request :
             request[r].at = "save" /\ request'[r].at = "saved" =>
               request'[r].copy = current'[request[r].doc].progress
<1>1. LedgerInv /\ [LedgerNext]_ledger => [Answer]_ledger
  BY OnlySaveAnswers, SaveAnswers
<1> HIDE DEF Answer
<1>2. LedgerSpec => [][Answer]_ledger
  BY <1>1, LedgerCorrect, PTL DEF LedgerSpec
<1> QED
  BY <1>2 DEF AnswersWhatIsStored, Answer

-------------------------------------------------------------------------------

(* The refinement.  The seats and outcomes of the archive are read off the *)
(* documents and their records.                                            *)
Seats == [d \in Doc |-> current[d].seat]

LEMMA SeatsKept ==
  ASSUME \A d \in Doc : current'[d].seat = current[d].seat
  PROVE  Seats' = Seats
BY DEF Seats

LEMMA OutcomesKept ==
  ASSUME UNCHANGED activity
  PROVE  Outcomes' = Outcomes
BY DEF Outcomes

LEMMA ArchiveStutters ==
  ASSUME UNCHANGED activity, \A d \in Doc : current'[d].seat = current[d].seat
  PROVE  UNCHANGED <<Seats, Outcomes>>
BY SeatsKept, OutcomesKept

(* A document without a record that has a seat is live. *)
LEMMA OpenIsLive ==
  ASSUME LedgerInv, NEW d \in Doc, NEW s \in Seat,
         Seats[d] = {s}, Outcomes[d] = "none"
  PROVE  s \in EnrolledSeats
<1>1. activity[d] = <<>>
  <2>1. SUFFICES ASSUME activity[d] # <<>> PROVE FALSE
    OBVIOUS
  <2>2. activity[d] \in Seq(Activity) /\ Len(activity[d]) >= 1
    BY <2>1, DocumentIs DEF LedgerInv, TypeInv
  <2>3. activity[d][1] \in Activity
    BY <2>2
  <2>4. Outcomes[d] \in Outcome
    BY <2>1, <2>3 DEF Outcomes, Activity
  <2> QED
    BY <2>4, LedgerAssumption
<1>2. current[d] \in Current /\ current[d].seat = {s}
  BY DocumentIs DEF Seats, LedgerInv, TypeInv
<1>3. current[d].at = "live"
  BY <1>1, <1>2 DEF Current, Seated, OnRecord, LedgerInv, TypeInv
<1> QED
  BY <1>2, <1>3 DEF EnrolledSeats, Live

LEMMA StartRefines ==
  ASSUME LedgerInv, NEW d \in Doc, NEW s \in Seat, StartCourseEnrollment(d, s)
  PROVE  Archive!Next
<1> DEFINE opened == [e \in {d} |-> s]
<1>1. Archive!OpenIn(s) = {}
  BY OpenIsLive DEF Archive!OpenIn, StartCourseEnrollment, Seats
<1>2. current[d].seat = {} /\ UNCHANGED activity
  BY DEF StartCourseEnrollment, Unused, Seated, LedgerInv, TypeInv
<1>3. \A e \in Doc : current'[e].seat = IF e = d THEN {s} ELSE current[e].seat
  BY OpenedIs DEF StartCourseEnrollment, LedgerInv, TypeInv, LedgerTypeOK
<1>4. Archive!Open(opened)
  BY <1>1, <1>2, <1>3, OutcomesKept DEF Archive!Open
<1>5. {d} \in SUBSET Doc /\ opened \in [{d} -> Seat]
  OBVIOUS
<1> QED
  BY <1>4, <1>5 DEF Archive!Next

LEMMA InsertRefines ==
  ASSUME LedgerInv, NEW r \in Request, InsertMany(r)
  PROVE  Archive!Next
<1>1. PICK D \in SUBSET Unused : \E opened \in [D -> Insertable(r)] :
        /\ \A d, e \in D : opened[d] = opened[e] => d = e
        /\ current' = [d \in Doc |-> IF d \in D THEN Opened(opened[d]) ELSE current[d]]
  BY DEF InsertMany
<1>2. PICK opened \in [D -> Insertable(r)] :
        /\ \A d, e \in D : opened[d] = opened[e] => d = e
        /\ current' = [d \in Doc |-> IF d \in D THEN Opened(opened[d]) ELSE current[d]]
  BY <1>1
<1>3. D \in SUBSET Doc /\ \A d \in D : current[d].seat = {}
  BY DEF Unused, Seated, LedgerInv, TypeInv
<1>4. opened \in [D -> Seat] /\ \A d \in D : opened[d] \notin EnrolledSeats
  BY RequestIs DEF Insertable, LedgerInv, TypeInv
<1>5. \A d \in D : Archive!OpenIn(opened[d]) = {}
  BY <1>4, OpenIsLive DEF Archive!OpenIn, Seats
<1>6. \A d \in Doc : current'[d].seat = IF d \in D THEN {opened[d]} ELSE current[d].seat
  BY <1>2, <1>4, OpenedIs
<1>7. UNCHANGED activity
  BY DEF InsertMany
<1>8. Archive!Open(opened)
  BY <1>2, <1>3, <1>4, <1>5, <1>6, <1>7, OutcomesKept DEF Archive!Open
<1> QED
  BY <1>3, <1>4, <1>8 DEF Archive!Next

(* The first record of an enrollment ends it; a second one changes nothing.*)
LEMMA CreateActivityRefines ==
  ASSUME LedgerInv, NEW r \in Request, CreateActivity(r)
  PROVE  [Archive!Next]_<<Seats, Outcomes>>
<1> DEFINE d == request[r].doc
<1>1. d \in Doc /\ activity[d] \in Seq(Activity) /\ Record(r) \in Activity
      /\ Record(r).outcome \in Outcome
  BY RecordIs, DocumentIs DEF LedgerInv, TypeInv
<1>2. UNCHANGED current /\ current[d].seat # {}
  BY RecordIs DEF CreateActivity, Seated, LedgerInv, TypeInv
<1>3. \A e \in Doc \ {d} : activity'[e] = activity[e]
  BY RecordIs
<1>4. activity'[d] # <<>>
      /\ activity'[d][1] = IF activity[d] = <<>> THEN Record(r) ELSE activity[d][1]
  BY <1>1, RecordIs
<1>5. \A e \in Doc \ {d} : Outcomes'[e] = Outcomes[e]
  BY <1>3 DEF Outcomes
<1>6. Outcomes'[d] = IF activity[d] = <<>> THEN Record(r).outcome ELSE Outcomes[d]
  BY <1>1, <1>4 DEF Outcomes
<1>7. UNCHANGED Seats
  BY <1>2, SeatsKept
<1>8. CASE activity[d] # <<>>
  <2>1. Outcomes' = Outcomes
    BY <1>1, <1>5, <1>6, <1>8 DEF Outcomes
  <2> QED
    BY <1>7, <2>1
<1>9. CASE activity[d] = <<>>
  <2>1. Outcomes[d] = "none" /\ Seats[d] # {}
    BY <1>1, <1>2, <1>9 DEF Outcomes, Seats
  <2>2. Outcomes' = [Outcomes EXCEPT ![d] = Record(r).outcome]
    BY <1>1, <1>5, <1>6, <1>9 DEF Outcomes
  <2>3. Record(r).outcome \in Archive!Ending
    BY <1>1, LedgerAssumption DEF Archive!Ending
  <2>4. Archive!End(d)
    BY <1>7, <2>1, <2>2, <2>3 DEF Archive!End, Seats
  <2> QED
    BY <1>1, <2>4 DEF Archive!Next
<1> QED
  BY <1>8, <1>9

LEMMA OneSeatKept ==
  ASSUME LedgerInv, NEW d \in Doc, NEW doc, doc.seat = current[d].seat,
         current' = [current EXCEPT ![d] = doc]
  PROVE  \A e \in Doc : current'[e].seat = current[e].seat
BY DEF LedgerInv, TypeInv, LedgerTypeOK

LEMMA SaveStutters ==
  ASSUME LedgerInv, NEW r \in Request, Save(r)
  PROVE  UNCHANGED <<Seats, Outcomes>>
<1>1. CASE Matches(r)
  <2>1. request[r].doc \in Doc
    BY <1>1 DEF Matches, Live
  <2>2. Saved(current[request[r].doc], r).seat = current[request[r].doc].seat
    BY <2>1, DocumentIs, RequestIs, SavedIs DEF LedgerInv, TypeInv
  <2>3. current' = [current EXCEPT ![request[r].doc] = Saved(current[request[r].doc], r)]
        /\ UNCHANGED activity
    BY <1>1 DEF Save
  <2> QED
    BY <2>1, <2>2, <2>3, OneSeatKept, ArchiveStutters
<1>2. CASE ~Matches(r)
  BY <1>2, ArchiveStutters DEF Save
<1> QED
  BY <1>1, <1>2

LEMMA DeleteStutters ==
  ASSUME LedgerInv, NEW r \in Request, DeleteCurrent(r)
  PROVE  UNCHANGED <<Seats, Outcomes>>
<1>1. request[r].doc \in Doc
  BY DEF DeleteCurrent, LedgerInv, Follows
<1>2. Deleted(current[request[r].doc]).seat = current[request[r].doc].seat
  BY <1>1, DocumentIs, DeletedIs DEF LedgerInv, TypeInv
<1>3. current' = [current EXCEPT ![request[r].doc] = Deleted(current[request[r].doc])]
      /\ UNCHANGED activity
  BY DEF DeleteCurrent
<1> QED
  BY <1>1, <1>2, <1>3, OneSeatKept, ArchiveStutters

LEMMA LedgerStepRefines ==
  LedgerInv /\ [LedgerNext]_ledger => [Archive!Next]_<<Seats, Outcomes>>
<1> SUFFICES ASSUME LedgerInv, [LedgerNext]_ledger
             PROVE  [Archive!Next]_<<Seats, Outcomes>>
  OBVIOUS
<1>1. CASE UNCHANGED <<current, activity>>
  BY <1>1, ArchiveStutters
<1>2. ASSUME NEW d \in Doc, NEW s \in Seat, StartCourseEnrollment(d, s) PROVE Archive!Next
  BY <1>2, StartRefines
<1>3. ASSUME NEW r \in Request, InsertMany(r) PROVE Archive!Next
  BY <1>3, InsertRefines
<1>4. ASSUME NEW r \in Request, Save(r) \/ DeleteCurrent(r)
      PROVE  UNCHANGED <<Seats, Outcomes>>
  BY <1>4, SaveStutters, DeleteStutters
<1>5. ASSUME NEW r \in Request, CreateActivity(r)
      PROVE  [Archive!Next]_<<Seats, Outcomes>>
  BY <1>5, CreateActivityRefines
<1>6. CASE UNCHANGED ledger \/ Refuse
  BY <1>1, <1>6 DEF ledger, Refuse
<1>7. ASSUME NEW r \in Request, StartBatch(r) \/ Reply(r) \/ CutOff(r)
      PROVE  UNCHANGED <<current, activity>>
  BY <1>7 DEF StartBatch, Reply, CutOff
<1>8. ASSUME NEW r \in Request, NEW d \in Doc, StartUpdate(r, d) \/ StartEnd(r, d)
      PROVE  UNCHANGED <<current, activity>>
  BY <1>8 DEF StartUpdate, StartEnd, Load
<1> QED
  BY <1>1, <1>2, <1>3, <1>4, <1>5, <1>6, <1>7, <1>8 DEF LedgerNext

LEMMA LedgerInitRefines == LedgerInit => Archive!Init
BY DEF LedgerInit, Archive!Init, Outcomes, Unmade

(* The two collections implement the archive: one open enrollment of a     *)
(* seat, each ended once, by the first record made of it.                  *)
THEOREM ArchiveImplemented == LedgerSpec => ArchiveSpec
<1>1. Archive!Init /\ [][Archive!Next]_<<Seats, Outcomes>> => Archive!Spec
  BY DEF Archive!Spec, Archive!archive, Seats
<1> QED
  BY <1>1, LedgerInitRefines, LedgerStepRefines, LedgerCorrect, PTL
     DEF LedgerSpec, ArchiveSpec

-------------------------------------------------------------------------------
(* Content and its lists. *)

(* What a request in flight is about, by the step it is at.                *)
MoveOK(m) ==
  /\ m.at # "idle" => {"of", "to"} \subseteq DOMAIN m
  /\ m.at = "program" => m.of \in Program /\ m.from \in Unit /\ m.to \in Unit
  /\ m.at = "create" => m.of \in Course /\ m.to \in Program
  /\ m.at \in {"current", "target", "course"} =>
       m.of \in Course /\ m.from \in Program /\ m.to \in Program /\ course[m.of] # Nowhere
  /\ m.at = "parcel" =>
       m.of \in Parcel /\ m.from \in Unit \cup {Nowhere} /\ m.to \in Unit \cup {Nowhere}
  /\ m.at = "exam" => m.of \in Exam /\ m.to \in Course /\ course[m.to] # Nowhere
  /\ m.at = "custom" => m.of \in Custom /\ m.to \in Unit \cup {Nowhere}

PlacingTypeOK ==
  /\ reach \in [Officer -> SUBSET Unit]
  /\ whole \subseteq Officer
  /\ program \in [Program -> Unit \cup {Nowhere}]
  /\ course \in [Course -> Program \cup {Nowhere}]
  /\ parcel \in [Parcel -> Unit \cup {Nowhere}]
  /\ DOMAIN officer = Officer /\ officer = [o \in Officer |-> officer[o]]
  /\ \A o \in Officer : MoveOK(officer[o])
  /\ exam \in [Exam -> Course \cup {Unfiled}]
  /\ custom \in [Custom -> Unit \cup {Nowhere, Unfiled}]
  /\ \A x \in Exam : exam[x] # Unfiled => course[exam[x]] # Nowhere

-------------------------------------------------------------------------------
(* Linked is an equivalence on departments, coarser than every reach.      *)

Closed(D) == \A o \in Officer : reach[o] \cap D # {} => reach[o] \subseteq D

LEMMA LinkedIs ==
  ASSUME NEW d, NEW e
  PROVE  e \in Linked(d) <=> e \in Unit /\ \A D \in SUBSET Unit : d \in D /\ Closed(D) => e \in D
<1> QED
  BY DEF Linked, Closed

LEMMA LinkedReflexive ==
  ASSUME NEW d \in Unit
  PROVE  d \in Linked(d)
<1> QED
  BY LinkedIs

LEMMA LinkedTransitive ==
  ASSUME NEW d, NEW e \in Linked(d), NEW f \in Linked(e)
  PROVE  f \in Linked(d)
<1> QED
  BY LinkedIs

LEMMA LinkedSymmetric ==
  ASSUME NEW d \in Unit, NEW e \in Linked(d), reach \in [Officer -> SUBSET Unit]
  PROVE  d \in Linked(e)
<1>1. SUFFICES ASSUME NEW D \in SUBSET Unit, e \in D, Closed(D), d \notin D
               PROVE  FALSE
  BY LinkedIs
<1>2. Closed(Unit \ D)
  <2>1. SUFFICES ASSUME NEW o \in Officer, reach[o] \cap (Unit \ D) # {}
                 PROVE  reach[o] \subseteq Unit \ D
    BY DEF Closed
  <2>2. reach[o] \cap D = {}
    BY <1>1, <2>1 DEF Closed
  <2> QED
    BY <2>2
<1>3. e \in Unit \ D
  BY <1>1, <1>2, LinkedIs
<1> QED
  BY <1>1, <1>3

LEMMA ReachLinked ==
  ASSUME NEW o \in Officer, NEW d \in reach[o], NEW e \in reach[o], reach \in [Officer -> SUBSET Unit]
  PROVE  e \in Linked(d)
<1>1. ASSUME NEW D \in SUBSET Unit, d \in D, Closed(D)
      PROVE  e \in D
  BY <1>1 DEF Closed
<1> QED
  BY <1>1, LinkedIs

-------------------------------------------------------------------------------
(* Types. *)

(* A step of one request, which takes no course away.                      *)
LEMMA TypesKept ==
  ASSUME PlacingTypeOK, NEW o \in Officer,
         officer' = [officer EXCEPT ![o] = officer'[o]], MoveOK(officer[o])',
         UNCHANGED <<reach, whole>>,
         program' \in [Program -> Unit \cup {Nowhere}],
         course' \in [Course -> Program \cup {Nowhere}],
         parcel' \in [Parcel -> Unit \cup {Nowhere}],
         exam' \in [Exam -> Course \cup {Unfiled}],
         custom' \in [Custom -> Unit \cup {Nowhere, Unfiled}],
         \A c \in Course : course[c] # Nowhere => course'[c] # Nowhere,
         \A x \in Exam : exam'[x] # Unfiled => course'[exam'[x]] # Nowhere
  PROVE  PlacingTypeOK'
<1>1. DOMAIN officer' = Officer /\ officer' = [n \in Officer |-> officer'[n]]
  BY DEF PlacingTypeOK
<1>2. \A n \in Officer : n # o => officer'[n] = officer[n]
  BY DEF PlacingTypeOK
<1>3. ASSUME NEW n \in Officer
      PROVE  MoveOK(officer[n])'
  <2>1. CASE n = o
    BY <2>1
  <2>2. CASE n # o
    BY <1>2, <2>2 DEF PlacingTypeOK, MoveOK
  <2> QED
    BY <2>1, <2>2
<1> QED
  BY <1>1, <1>3 DEF PlacingTypeOK

LEMMA NoMoveIs == NoMove.at = "idle"
<1> QED
  BY DEF NoMove

(* The request of o goes on with what m says.                              *)
LEMMA Moved ==
  ASSUME PlacingTypeOK, NEW o \in Officer, NEW m, Move(o, m)
  PROVE  /\ officer'[o] = m
         /\ officer' = [officer EXCEPT ![o] = officer'[o]]
         /\ \A n \in Officer : n # o => officer'[n] = officer[n]
<1> QED
  BY DEF PlacingTypeOK, Move

(* Requests that are over leave nothing.                                   *)
LEMMA IdleOK ==
  ASSUME NEW o \in Officer, officer'[o].at = "idle"
  PROVE  MoveOK(officer[o])'
<1> QED
  BY DEF MoveOK

LEMMA SaveProgramTypes ==
  ASSUME PlacingTypeOK, NEW o \in Officer, SaveProgram(o), UNCHANGED <<exam, custom>>
  PROVE  PlacingTypeOK'
<1>1. Move(o, NoMove) /\ MoveOK(officer[o]) /\ officer[o].at = "program"
  BY DEF SaveProgram, PlacingTypeOK
<1>2. program' \in [Program -> Unit \cup {Nowhere}]
  BY <1>1 DEF SaveProgram, PlacingTypeOK, MoveOK
<1> QED
  BY <1>1, <1>2, Moved, NoMoveIs, IdleOK, TypesKept DEF SaveProgram, PlacingTypeOK

LEMMA CreateCourseTypes ==
  ASSUME PlacingTypeOK, NEW o \in Officer, CreateCourse(o), UNCHANGED <<exam, custom>>
  PROVE  PlacingTypeOK'
<1>1. Move(o, NoMove) /\ MoveOK(officer[o]) /\ officer[o].at = "create"
  BY DEF CreateCourse, PlacingTypeOK
<1>2. /\ course' \in [Course -> Program \cup {Nowhere}]
      /\ \A c \in Course : course[c] # Nowhere => course'[c] # Nowhere
  BY <1>1, ContentAssumption DEF CreateCourse, PlacingTypeOK, MoveOK
<1>3. \A x \in Exam : exam'[x] # Unfiled => course'[exam'[x]] # Nowhere
  BY <1>2 DEF PlacingTypeOK
<1> QED
  BY <1>1, <1>2, <1>3, Moved, NoMoveIs, IdleOK, TypesKept DEF CreateCourse, PlacingTypeOK

LEMMA SaveCourseTypes ==
  ASSUME PlacingTypeOK, NEW o \in Officer, SaveCourse(o), UNCHANGED <<exam, custom>>
  PROVE  PlacingTypeOK'
<1>1. Move(o, NoMove) /\ MoveOK(officer[o]) /\ officer[o].at = "course"
  BY DEF SaveCourse, PlacingTypeOK
<1>2. /\ course' \in [Course -> Program \cup {Nowhere}]
      /\ \A c \in Course : course[c] # Nowhere => course'[c] # Nowhere
  BY <1>1, ContentAssumption DEF SaveCourse, PlacingTypeOK, MoveOK
<1>3. \A x \in Exam : exam'[x] # Unfiled => course'[exam'[x]] # Nowhere
  BY <1>2 DEF PlacingTypeOK
<1> QED
  BY <1>1, <1>2, <1>3, Moved, NoMoveIs, IdleOK, TypesKept DEF SaveCourse, PlacingTypeOK

LEMMA SaveParcelTypes ==
  ASSUME PlacingTypeOK, NEW o \in Officer, SaveParcel(o), UNCHANGED <<exam, custom>>
  PROVE  PlacingTypeOK'
<1>1. Move(o, NoMove) /\ MoveOK(officer[o]) /\ officer[o].at = "parcel"
  BY DEF SaveParcel, PlacingTypeOK
<1>2. parcel' \in [Parcel -> Unit \cup {Nowhere}]
  BY <1>1 DEF SaveParcel, PlacingTypeOK, MoveOK
<1> QED
  BY <1>1, <1>2, Moved, NoMoveIs, IdleOK, TypesKept DEF SaveParcel, PlacingTypeOK

LEMMA SaveExamTypes ==
  ASSUME PlacingTypeOK, NEW o \in Officer, SaveExam(o)
  PROVE  PlacingTypeOK'
<1>1. Move(o, NoMove) /\ MoveOK(officer[o]) /\ officer[o].at = "exam"
  BY DEF SaveExam, PlacingTypeOK
<1>2. /\ exam' \in [Exam -> Course \cup {Unfiled}]
      /\ \A x \in Exam : exam'[x] # Unfiled => course[exam'[x]] # Nowhere
  BY <1>1 DEF SaveExam, PlacingTypeOK, MoveOK
<1> QED
  BY <1>1, <1>2, Moved, NoMoveIs, IdleOK, TypesKept DEF SaveExam, PlacingTypeOK

LEMMA SaveCustomTypes ==
  ASSUME PlacingTypeOK, NEW o \in Officer, SaveCustom(o)
  PROVE  PlacingTypeOK'
<1>1. Move(o, NoMove) /\ MoveOK(officer[o]) /\ officer[o].at = "custom"
  BY DEF SaveCustom, PlacingTypeOK
<1>2. custom' \in [Custom -> Unit \cup {Nowhere, Unfiled}]
  BY <1>1 DEF SaveCustom, PlacingTypeOK, MoveOK
<1> QED
  BY <1>1, <1>2, Moved, NoMoveIs, IdleOK, TypesKept DEF SaveCustom, PlacingTypeOK

(* A step that changes nothing but the request.                            *)
LEMMA RequestTypes ==
  ASSUME PlacingTypeOK, NEW o \in Officer,
         UNCHANGED <<reach, whole, program, course, parcel, exam, custom>>,
         officer' = [officer EXCEPT ![o] = officer'[o]], MoveOK(officer[o])'
  PROVE  PlacingTypeOK'
<1> QED
  BY TypesKept DEF PlacingTypeOK

LEMMA StartTypes ==
  ASSUME PlacingTypeOK, UNCHANGED <<exam, custom>>, NEW o \in Officer,
         \/ \E p \in Program, d \in Unit : StartMoveProgram(o, p, d)
         \/ \E c \in Course, q \in Program : StartCreateCourse(o, c, q) \/ LoadCourse(o, c, q)
         \/ \E k \in Parcel, d \in Unit \cup {Nowhere} : StartMoveParcel(o, k, d)
  PROVE  PlacingTypeOK'
<1>1. UNCHANGED <<reach, whole, program, course, parcel, exam, custom>>
  BY DEF StartMoveProgram, StartCreateCourse, LoadCourse, StartMoveParcel
<1>2. ASSUME NEW p \in Program, NEW d \in Unit, StartMoveProgram(o, p, d)
      PROVE  PlacingTypeOK'
  <2>1. officer'[o] = [at |-> "program", of |-> p, from |-> program[p], to |-> d]
    BY <1>2, Moved DEF StartMoveProgram
  <2>2. MoveOK(officer[o])'
    BY <1>2, <2>1 DEF MoveOK, StartMoveProgram, PlacingTypeOK
  <2> QED
    BY <1>1, <1>2, <2>2, Moved, RequestTypes DEF StartMoveProgram
<1>3. ASSUME NEW c \in Course, NEW q \in Program, StartCreateCourse(o, c, q)
      PROVE  PlacingTypeOK'
  <2>1. officer'[o] = [at |-> "create", of |-> c, to |-> q]
    BY <1>3, Moved DEF StartCreateCourse
  <2>2. MoveOK(officer[o])'
    BY <2>1 DEF MoveOK
  <2> QED
    BY <1>1, <1>3, <2>2, Moved, RequestTypes DEF StartCreateCourse
<1>4. ASSUME NEW c \in Course, NEW q \in Program, LoadCourse(o, c, q)
      PROVE  PlacingTypeOK'
  <2>1. officer'[o] = [at |-> "current", of |-> c, from |-> course[c], to |-> q]
    BY <1>4, Moved DEF LoadCourse
  <2>2. MoveOK(officer[o])'
    BY <1>1, <1>4, <2>1 DEF MoveOK, LoadCourse, PlacingTypeOK
  <2> QED
    BY <1>1, <1>4, <2>2, Moved, RequestTypes DEF LoadCourse
<1>5. ASSUME NEW k \in Parcel, NEW d \in Unit \cup {Nowhere}, StartMoveParcel(o, k, d)
      PROVE  PlacingTypeOK'
  <2>1. officer'[o] = [at |-> "parcel", of |-> k, from |-> parcel[k], to |-> d]
    BY <1>5, Moved DEF StartMoveParcel
  <2>2. MoveOK(officer[o])'
    BY <1>1, <1>5, <2>1 DEF MoveOK, StartMoveParcel, PlacingTypeOK
  <2> QED
    BY <1>1, <1>5, <2>2, Moved, RequestTypes DEF StartMoveParcel
<1> QED
  BY <1>2, <1>3, <1>4, <1>5

LEMMA CheckTypes ==
  ASSUME PlacingTypeOK, UNCHANGED <<exam, custom>>, NEW o \in Officer,
         CheckCurrent(o) \/ CheckTarget(o) \/ AbandonMove(o)
  PROVE  PlacingTypeOK'
<1>1. UNCHANGED <<reach, whole, program, course, parcel, exam, custom>> /\ MoveOK(officer[o])
  BY DEF CheckCurrent, CheckTarget, AbandonMove, PlacingTypeOK
<1>2. CASE CheckCurrent(o)
  <2>1. officer'[o] = [officer[o] EXCEPT !.at = "target"] /\ officer[o].at = "current"
    BY <1>2, Moved DEF CheckCurrent
  <2>2. /\ officer'[o].at = "target" /\ officer'[o].of = officer[o].of
        /\ officer'[o].from = officer[o].from /\ officer'[o].to = officer[o].to
        /\ DOMAIN officer'[o] = DOMAIN officer[o]
    BY <2>1 DEF MoveOK
  <2>3. MoveOK(officer[o])'
    BY <1>1, <2>1, <2>2 DEF MoveOK
  <2> QED
    BY <1>1, <1>2, <2>3, Moved, RequestTypes DEF CheckCurrent
<1>3. CASE CheckTarget(o)
  <2>1. officer'[o] = [officer[o] EXCEPT !.at = "course"] /\ officer[o].at = "target"
    BY <1>3, Moved DEF CheckTarget
  <2>2. /\ officer'[o].at = "course" /\ officer'[o].of = officer[o].of
        /\ officer'[o].from = officer[o].from /\ officer'[o].to = officer[o].to
        /\ DOMAIN officer'[o] = DOMAIN officer[o]
    BY <2>1 DEF MoveOK
  <2>3. MoveOK(officer[o])'
    BY <1>1, <2>1, <2>2 DEF MoveOK
  <2> QED
    BY <1>1, <1>3, <2>3, Moved, RequestTypes DEF CheckTarget
<1>4. CASE AbandonMove(o)
  BY <1>1, <1>4, Moved, NoMoveIs, IdleOK, RequestTypes DEF AbandonMove
<1> QED
  BY <1>2, <1>3, <1>4

LEMMA ProgramTypes ==
  ASSUME PlacingTypeOK, UNCHANGED <<exam, custom>>, NEW o \in Officer, NEW p \in Program,
         DeleteProgram(o, p) \/ \E d \in Unit : CreateProgram(o, p, d)
  PROVE  PlacingTypeOK'
<1>1. UNCHANGED <<reach, whole, course, parcel, officer, exam, custom>>
  BY DEF DeleteProgram, CreateProgram
<1>2. program' \in [Program -> Unit \cup {Nowhere}]
  BY DEF DeleteProgram, CreateProgram, PlacingTypeOK
<1> QED
  BY <1>1, <1>2 DEF PlacingTypeOK, MoveOK

LEMMA FilingTypes ==
  ASSUME PlacingTypeOK, NEW o \in Officer,
         \/ \E x \in Exam, c \in Course :
              StartMoveExam(o, x, c) \/ \E q \in Program : StartCreateExam(o, x, c, q)
         \/ \E u \in Custom, d \in Unit \cup {Nowhere} :
              CreateCustomContent(o, u, d) \/ StartMoveCustom(o, u, d)
  PROVE  PlacingTypeOK'
<1>1. ASSUME NEW x \in Exam, NEW c \in Course,
             StartMoveExam(o, x, c) \/ \E q \in Program : StartCreateExam(o, x, c, q)
      PROVE  PlacingTypeOK'
  <2>1. /\ UNCHANGED <<reach, whole, program, course, parcel, exam, custom>> /\ course[c] # Nowhere
        /\ \E f : Move(o, [at |-> "exam", of |-> x, from |-> f, to |-> c])
    BY <1>1 DEF StartMoveExam, StartCreateExam
  <2>2. PICK f : Move(o, [at |-> "exam", of |-> x, from |-> f, to |-> c])
    BY <2>1
  <2>3. officer'[o] = [at |-> "exam", of |-> x, from |-> f, to |-> c]
    BY <2>2, Moved
  <2>4. MoveOK(officer[o])'
    BY <2>1, <2>3 DEF MoveOK
  <2> QED
    BY <2>1, <2>2, <2>4, Moved, RequestTypes
<1>2. ASSUME NEW u \in Custom, NEW d \in Unit \cup {Nowhere}, CreateCustomContent(o, u, d)
      PROVE  PlacingTypeOK'
  <2>1. /\ UNCHANGED <<reach, whole, program, course, parcel, officer, exam>>
        /\ custom' = [custom EXCEPT ![u] = d]
    BY <1>2 DEF CreateCustomContent, placing
  <2> QED
    BY <2>1 DEF PlacingTypeOK, MoveOK
<1>3. ASSUME NEW u \in Custom, NEW d \in Unit \cup {Nowhere}, StartMoveCustom(o, u, d)
      PROVE  PlacingTypeOK'
  <2>1. /\ UNCHANGED <<reach, whole, program, course, parcel, exam, custom>>
        /\ officer'[o] = [at |-> "custom", of |-> u, from |-> custom[u], to |-> d]
    BY <1>3, Moved DEF StartMoveCustom
  <2>2. MoveOK(officer[o])'
    BY <2>1 DEF MoveOK
  <2> QED
    BY <1>3, <2>1, <2>2, Moved, RequestTypes DEF StartMoveCustom
<1> QED
  BY <1>1, <1>2, <1>3

LEMMA FilingStepTypes ==
  ASSUME PlacingTypeOK, FilingStep \/ UNCHANGED <<placing, exam, custom>>
  PROVE  PlacingTypeOK'
<1>1. CASE UNCHANGED <<placing, exam, custom>>
  BY <1>1 DEF PlacingTypeOK, MoveOK, placing
<1>2. CASE ContentNext /\ UNCHANGED <<exam, custom>>
  <2>1. CASE UpdateProgram \/ UpdateCourseDepartment
    BY <1>1, <1>2, <2>1 DEF UpdateProgram, UpdateCourseDepartment
  <2>2. ASSUME NEW o \in Officer,
               \/ SaveProgram(o) \/ CreateCourse(o) \/ SaveCourse(o) \/ SaveParcel(o)
               \/ CheckCurrent(o) \/ CheckTarget(o) \/ AbandonMove(o)
        PROVE  PlacingTypeOK'
    BY <1>2, <2>2, SaveProgramTypes, CreateCourseTypes, SaveCourseTypes, SaveParcelTypes, CheckTypes
  <2>3. ASSUME NEW o \in Officer, NEW p \in Program,
               DeleteProgram(o, p) \/ \E d \in Unit : CreateProgram(o, p, d)
        PROVE  PlacingTypeOK'
    BY <1>2, <2>3, ProgramTypes
  <2>4. ASSUME NEW o \in Officer,
               \/ \E p \in Program, d \in Unit : StartMoveProgram(o, p, d)
               \/ \E c \in Course, q \in Program : StartCreateCourse(o, c, q) \/ LoadCourse(o, c, q)
               \/ \E k \in Parcel, d \in Unit \cup {Nowhere} : StartMoveParcel(o, k, d)
        PROVE  PlacingTypeOK'
    BY <1>2, <2>4, StartTypes
  <2> QED
    BY <1>2, <2>1, <2>2, <2>3, <2>4 DEF ContentNext
<1>3. ASSUME NEW o \in Officer, SaveExam(o) \/ SaveCustom(o)
      PROVE  PlacingTypeOK'
  BY <1>3, SaveExamTypes, SaveCustomTypes
<1>4. ASSUME NEW o \in Officer,
             \/ \E x \in Exam, c \in Course :
                  StartMoveExam(o, x, c) \/ \E q \in Program : StartCreateExam(o, x, c, q)
             \/ \E u \in Custom, d \in Unit \cup {Nowhere} :
                  CreateCustomContent(o, u, d) \/ StartMoveCustom(o, u, d)
      PROVE  PlacingTypeOK'
  BY <1>4, FilingTypes
<1> QED
  BY <1>1, <1>2, <1>3, <1>4 DEF FilingStep

-------------------------------------------------------------------------------
(* Where content may go. *)

(* What a request under a scope knows of what it has loaded: it may touch  *)
(* both ends of its move, and what it loaded has not left the departments  *)
(* linked to where it was found, unless it was lost sight of.              *)
Tracks(m, r) ==
  /\ m.at = "program" =>
       /\ m.from \in r /\ m.to \in r
       /\ program[m.of] \in Unit => program[m.of] \in Linked(m.from)
  /\ m.at = "parcel" =>
       /\ m.to \in r
       /\ m.from \in Unit =>
            m.from \in r /\ (m.of \notin astray => parcel[m.of] \in Linked(m.from))
  /\ m.at = "current" /\ m.of \notin astray =>
       program[m.from] \in Unit /\ DepartmentOf(m.of) \in Linked(program[m.from])
  /\ m.at \in {"target", "course"} /\ m.of \notin astray =>
       \E e \in r : DepartmentOf(m.of) \in Linked(e)
  /\ m.at = "course" /\ m.of \notin astray =>
       program[m.to] = Nowhere \/ program[m.to] \in Linked(DepartmentOf(m.of))

CoursesPlaced ==
  \A c \in Course \ astray : course[c] # Nowhere => program[course[c]] \in Unit

LinkInv ==
  /\ PlacingTypeOK
  /\ whole = {} => CoursesPlaced /\ \A o \in Officer : Tracks(officer[o], reach[o])

(* What a step may do to documents that nobody may touch everywhere.       *)
Drift ==
  /\ reach' = reach /\ whole' = whole /\ astray \subseteq astray'
  /\ \A p \in Program :
       /\ program[p] \in Unit => program'[p] = Nowhere \/ program'[p] \in Linked(program[p])
       /\ program[p] = Nowhere => program'[p] = Nowhere \/ Fresh(p)
       /\ program[p] # Nowhere /\ program'[p] = Nowhere =>
            \A o \in Officer : officer[o].at = "current" /\ officer[o].from = p =>
              officer[o].of \in astray'
  /\ \A c \in Course \ astray' :
       /\ course[c] # Nowhere => DepartmentOf(c)' \in Linked(DepartmentOf(c))
       /\ course[c] = Nowhere /\ course'[c] # Nowhere => program'[course'[c]] \in Unit
  /\ \A k \in Parcel \ astray' : parcel[k] \in Unit => parcel'[k] \in Linked(parcel[k])

LEMMA LinkedUnits ==
  ASSUME NEW d, NEW e \in Linked(d)
  PROVE  e \in Unit
<1> QED
  BY LinkedIs

(* Reaches do not change, so neither do the links.                         *)
LEMMA LinkedStays ==
  ASSUME reach' = reach, NEW d
  PROVE  Linked(d)' = Linked(d)
<1> QED
  BY DEF Linked

LEMMA PlacedKept ==
  ASSUME PlacingTypeOK, PlacingTypeOK', CoursesPlaced, Drift
  PROVE  CoursesPlaced'
<1>1. SUFFICES ASSUME NEW c \in Course \ astray', course'[c] # Nowhere
               PROVE  program'[course'[c]] \in Unit
  BY DEF CoursesPlaced
<1>2. CASE course[c] # Nowhere
  <2>1. DepartmentOf(c)' \in Linked(DepartmentOf(c))
    BY <1>1, <1>2 DEF Drift
  <2>2. DepartmentOf(c)' \in Unit
    BY <2>1, LinkedUnits
  <2> QED
    BY <1>1, <2>2 DEF DepartmentOf
<1>3. CASE course[c] = Nowhere
  BY <1>1, <1>3 DEF Drift
<1> QED
  BY <1>2, <1>3

(* A request that does not take the step knows after it what it knew.      *)
LEMMA TracksKept ==
  ASSUME PlacingTypeOK, PlacingTypeOK', CoursesPlaced, Drift,
         NEW o \in Officer, Tracks(officer[o], reach[o]), officer'[o] = officer[o]
  PROVE  Tracks(officer[o], reach[o])'
<1> DEFINE m == officer[o]
<1>1. /\ m' = m /\ reach'[o] = reach[o] /\ MoveOK(m) /\ astray \subseteq astray' /\ reach' = reach
      /\ reach[o] \subseteq Unit
  BY DEF PlacingTypeOK, Drift
<1>2. Nowhere \notin Unit
  BY ContentAssumption
<1>3. ASSUME NEW d PROVE Linked(d)' = Linked(d)
  BY <1>1, LinkedStays
<1>4. ASSUME m.at \in {"current", "target", "course"}, m.of \notin astray'
      PROVE  /\ m.of \in Course \ astray' /\ course[m.of] # Nowhere
             /\ DepartmentOf(m.of) \in Unit
             /\ DepartmentOf(m.of)' \in Linked(DepartmentOf(m.of))
  BY <1>1, <1>4 DEF MoveOK, CoursesPlaced, DepartmentOf, Drift
<1>5. ASSUME m.at = "program"
      PROVE  /\ m.from \in reach[o] /\ m.to \in reach[o]
             /\ program'[m.of] \in Unit => program'[m.of] \in Linked(m.from)
  <2>1. /\ m.of \in Program /\ m.from \in reach[o] /\ m.to \in reach[o]
        /\ program[m.of] \in Unit => program[m.of] \in Linked(m.from)
        /\ program[m.of] \in Unit \cup {Nowhere} /\ "of" \in DOMAIN m
    BY <1>1, <1>5 DEF MoveOK, Tracks, PlacingTypeOK
  <2>2. CASE program[m.of] \in Unit
    <3>1. program'[m.of] = Nowhere \/ program'[m.of] \in Linked(program[m.of])
      BY <2>1, <2>2 DEF Drift
    <3> QED
      BY <1>2, <2>1, <2>2, <3>1, LinkedTransitive
  <2>3. CASE program[m.of] = Nowhere
    <3>1. ~Fresh(m.of)
      BY <2>1 DEF Fresh
    <3> QED
      BY <1>2, <2>1, <2>3, <3>1 DEF Drift
  <2> QED
    BY <2>1, <2>2, <2>3
<1>6. ASSUME m.at = "parcel"
      PROVE  /\ m.to \in reach[o]
             /\ m.from \in Unit =>
                  m.from \in reach[o] /\ (m.of \notin astray' => parcel'[m.of] \in Linked(m.from))
  <2>1. ASSUME m.from \in Unit, m.of \notin astray'
        PROVE  parcel'[m.of] \in Linked(m.from)
    <3>1. m.of \in Parcel \ astray' /\ parcel[m.of] \in Linked(m.from)
      BY <1>1, <1>6, <2>1 DEF MoveOK, Tracks
    <3>2. parcel'[m.of] \in Linked(parcel[m.of])
      BY <3>1, LinkedUnits DEF Drift
    <3> QED
      BY <3>1, <3>2, LinkedTransitive
  <2> QED
    BY <1>6, <2>1 DEF Tracks
<1>7. ASSUME m.at = "current", m.of \notin astray'
      PROVE  program'[m.from] \in Unit /\ DepartmentOf(m.of)' \in Linked(program'[m.from])
  <2>1. /\ m.from \in Program /\ program[m.from] \in Unit
        /\ DepartmentOf(m.of) \in Linked(program[m.from])
    BY <1>1, <1>7 DEF MoveOK, Tracks
  <2>2. program'[m.from] # Nowhere
    BY <1>2, <1>7, <2>1 DEF Drift
  <2>3. program'[m.from] \in Linked(program[m.from])
    BY <2>1, <2>2 DEF Drift
  <2>4. program[m.from] \in Linked(program'[m.from])
    BY <2>1, <2>3, LinkedSymmetric DEF PlacingTypeOK
  <2> QED
    BY <1>4, <1>7, <2>1, <2>3, <2>4, LinkedUnits, LinkedTransitive
<1>8. ASSUME m.at \in {"target", "course"}, m.of \notin astray'
      PROVE  \E e \in reach[o] : DepartmentOf(m.of)' \in Linked(e)
  <2>1. PICK e \in reach[o] : DepartmentOf(m.of) \in Linked(e)
    BY <1>1, <1>8 DEF Tracks
  <2> QED
    BY <1>4, <1>8, <2>1, LinkedTransitive
<1>9. ASSUME m.at = "course", m.of \notin astray'
      PROVE  program'[m.to] = Nowhere \/ program'[m.to] \in Linked(DepartmentOf(m.of)')
  <2> DEFINE d == DepartmentOf(m.of)
             e == DepartmentOf(m.of)'
  <2>1. /\ d \in Unit /\ e \in Linked(d) /\ m.to \in Program /\ "to" \in DOMAIN m
        /\ program[m.to] = Nowhere \/ program[m.to] \in Linked(d)
    BY <1>1, <1>4, <1>9 DEF MoveOK, Tracks
  <2>2. d \in Linked(e)
    BY <2>1, LinkedSymmetric DEF PlacingTypeOK
  <2> HIDE DEF d, e
  <2>3. CASE program[m.to] = Nowhere
    <3>1. ~Fresh(m.to)
      BY <2>1 DEF Fresh
    <3> QED
      BY <2>1, <2>3, <3>1 DEF Drift
  <2>4. CASE program[m.to] \in Linked(d)
    <3>1. program'[m.to] = Nowhere \/ program'[m.to] \in Linked(program[m.to])
      BY <2>1, <2>4, LinkedUnits DEF Drift
    <3>2. program'[m.to] = Nowhere \/ program'[m.to] \in Linked(e)
      BY <2>2, <2>4, <3>1, LinkedTransitive
    <3> QED
      BY <3>2 DEF e
  <2> QED
    BY <2>1, <2>3, <2>4
<1> QED
  BY <1>1, <1>3, <1>5, <1>6, <1>7, <1>8, <1>9 DEF Tracks

Linking == LinkInv' /\ (whole = {} => Drift)

(* The step of one request.                                                *)
LEMMA LinkStep ==
  ASSUME LinkInv, PlacingTypeOK', UNCHANGED whole, NEW o \in Officer,
         \A n \in Officer : n # o => officer'[n] = officer[n],
         whole = {} => Drift /\ Tracks(officer[o], reach[o])'
  PROVE  Linking
<1>1. SUFFICES ASSUME whole = {}
               PROVE  CoursesPlaced' /\ \A n \in Officer : Tracks(officer[n], reach[n])'
  BY DEF LinkInv, Linking
<1>2. PlacingTypeOK /\ CoursesPlaced /\ Drift /\ \A n \in Officer : Tracks(officer[n], reach[n])
  BY <1>1 DEF LinkInv
<1>3. CoursesPlaced'
  BY <1>2, PlacedKept
<1>4. ASSUME NEW n \in Officer
      PROVE  Tracks(officer[n], reach[n])'
  <2>1. CASE n = o
    BY <1>1, <2>1
  <2>2. CASE n # o
    BY <1>2, <2>2, TracksKept
  <2> QED
    BY <2>1, <2>2
<1> QED
  BY <1>3, <1>4

(* Where a course lies that is in sight.                                   *)
LEMMA DepartmentIs ==
  ASSUME CoursesPlaced, NEW c \in Course \ astray, course[c] # Nowhere
  PROVE  DepartmentOf(c) = program[course[c]] /\ DepartmentOf(c) \in Unit
<1> QED
  BY DEF DepartmentOf, CoursesPlaced

LEMMA QuietDrift ==
  ASSUME PlacingTypeOK, CoursesPlaced, UNCHANGED <<reach, whole, program, course, parcel, astray>>
  PROVE  Drift
<1>1. ASSUME NEW c \in Course \ astray', course[c] # Nowhere
      PROVE  DepartmentOf(c)' \in Linked(DepartmentOf(c))
  <2>1. DepartmentOf(c)' = DepartmentOf(c)
    BY DEF DepartmentOf
  <2> QED
    BY <1>1, <2>1, DepartmentIs, LinkedReflexive
<1>2. \A p \in Program : program[p] \in Unit => program'[p] \in Linked(program[p])
  BY LinkedReflexive
<1>3. \A k \in Parcel : parcel[k] \in Unit => parcel'[k] \in Linked(parcel[k])
  BY LinkedReflexive
<1> QED
  BY <1>1, <1>2, <1>3 DEF Drift

(* A request that is over, or about something else.                        *)
LEMMA TracksNothing ==
  ASSUME NEW o \in Officer, officer'[o].at \in {"idle", "create", "exam", "custom"}
  PROVE  Tracks(officer[o], reach[o])'
<1> QED
  BY DEF Tracks

-------------------------------------------------------------------------------

LEMMA SaveProgramLinks ==
  ASSUME LinkInv, NEW o \in Officer, SaveProgram(o), UNCHANGED <<exam, custom>>
  PROVE  Linking
<1> DEFINE m == officer[o]
<1>1. PlacingTypeOK' /\ PlacingTypeOK /\ Move(o, NoMove) /\ MoveOK(m) /\ m.at = "program"
  BY SaveProgramTypes DEF LinkInv, SaveProgram, PlacingTypeOK
<1>2. /\ UNCHANGED <<reach, whole, course, parcel, astray>>
      /\ program' = [program EXCEPT ![m.of] =
           IF @ = Nowhere \/ m.to = m.from THEN @ ELSE m.to]
  BY DEF SaveProgram
<1>3. officer'[o].at = "idle" /\ \A n \in Officer : n # o => officer'[n] = officer[n]
  BY <1>1, Moved, NoMoveIs
<1>4. ASSUME whole = {}
      PROVE  Drift
  <2>1. CoursesPlaced /\ Tracks(m, reach[o])
    BY <1>4 DEF LinkInv
  <2>2. /\ m.of \in Program /\ m.from \in reach[o] /\ m.to \in reach[o]
        /\ program[m.of] \in Unit => program[m.of] \in Linked(m.from)
        /\ reach \in [Officer -> SUBSET Unit] /\ reach[o] \subseteq Unit
        /\ program \in [Program -> Unit \cup {Nowhere}] /\ Nowhere \notin Unit
    BY <1>1, <2>1, ContentAssumption DEF MoveOK, Tracks, PlacingTypeOK
  <2>3. program[m.of] \in Unit => m.to \in Linked(program[m.of])
    <3>1. m.to \in Linked(m.from)
      BY <2>2, ReachLinked
    <3>2. program[m.of] \in Unit => m.from \in Linked(program[m.of])
      BY <2>2, LinkedSymmetric
    <3> QED
      BY <3>1, <3>2, LinkedTransitive
  <2> HIDE DEF m
  <2>4. ASSUME NEW p \in Program
        PROVE  /\ program[p] \in Unit => program'[p] \in Linked(program[p]) /\ program'[p] \in Unit
               /\ program[p] = Nowhere => program'[p] = Nowhere
    <3>1. CASE p = m.of
      BY <1>2, <2>2, <2>3, <3>1, LinkedReflexive
    <3>2. CASE p # m.of
      BY <1>2, <2>2, <3>2, LinkedReflexive
    <3> QED
      BY <3>1, <3>2
  <2>5. ASSUME NEW c \in Course \ astray', course[c] # Nowhere
        PROVE  DepartmentOf(c)' \in Linked(DepartmentOf(c))
    <3>1. course[c] \in Program /\ program[course[c]] \in Unit /\ DepartmentOf(c) = program[course[c]]
      BY <1>1, <1>2, <2>1, <2>5, DepartmentIs DEF PlacingTypeOK
    <3>2. DepartmentOf(c)' = program'[course[c]]
      BY <1>2, <2>5 DEF DepartmentOf
    <3> QED
      BY <2>4, <3>1, <3>2
  <2>6. \A k \in Parcel : parcel[k] \in Unit => parcel'[k] \in Linked(parcel[k])
    BY <1>2, LinkedReflexive
  <2> QED
    BY <1>2, <2>2, <2>4, <2>5, <2>6 DEF Drift
<1> QED
  BY <1>1, <1>2, <1>3, <1>4, TracksNothing, LinkStep

LEMMA ProgramLinks ==
  ASSUME LinkInv, NEW o \in Officer, NEW p \in Program, UNCHANGED <<exam, custom>>,
         DeleteProgram(o, p) \/ \E d \in Unit : CreateProgram(o, p, d)
  PROVE  Linking
<1>1. /\ PlacingTypeOK' /\ PlacingTypeOK
      /\ UNCHANGED <<reach, whole, course, parcel, officer>>
  BY ProgramTypes DEF LinkInv, DeleteProgram, CreateProgram
<1>2. ASSUME whole = {}
      PROVE  Drift
  <2>1. /\ CoursesPlaced /\ Nowhere \notin Unit /\ program \in [Program -> Unit \cup {Nowhere}]
        /\ course \in [Course -> Program \cup {Nowhere}]
    BY <1>1, <1>2, ContentAssumption DEF LinkInv, PlacingTypeOK
  <2>2. \A k \in Parcel : parcel[k] \in Unit => parcel'[k] \in Linked(parcel[k])
    BY <1>1, LinkedReflexive
  <2>3. ASSUME NEW c \in Course \ astray, course[c] # Nowhere, course[c] # p
        PROVE  DepartmentOf(c)' \in Linked(DepartmentOf(c))
    <3>1. program'[course[c]] = program[course[c]]
      BY <2>1, <2>3 DEF DeleteProgram, CreateProgram
    <3>2. DepartmentOf(c)' = DepartmentOf(c)
      BY <1>1, <3>1 DEF DepartmentOf
    <3> QED
      BY <2>1, <2>3, <3>2, DepartmentIs, LinkedReflexive
  <2>4. CASE DeleteProgram(o, p)
    <3>1. /\ program' = [program EXCEPT ![p] = Nowhere] /\ program[p] # Nowhere
          /\ astray' = astray \cup {c \in Course : course[c] = p \/ \E n \in Officer :
               officer[n].at = "current" /\ officer[n].of = c /\ officer[n].from = p}
      BY <2>4 DEF DeleteProgram
    <3>2. ASSUME NEW n \in Officer, officer[n].at = "current", officer[n].from = p
          PROVE  officer[n].of \in astray'
      BY <1>1, <3>1, <3>2 DEF PlacingTypeOK, MoveOK
    <3>3. \A q \in Program : q # p => program'[q] = program[q]
      BY <2>1, <3>1
    <3> QED
      BY <1>1, <2>1, <2>2, <2>3, <3>1, <3>2, <3>3, LinkedReflexive DEF Drift
  <2>5. ASSUME NEW d \in Unit, CreateProgram(o, p, d)
        PROVE  Drift
    <3>1. program' = [program EXCEPT ![p] = d] /\ astray' = astray /\ Fresh(p)
      BY <2>5 DEF CreateProgram
    <3>2. \A q \in Program : q # p => program'[q] = program[q]
      BY <2>1, <3>1
    <3> QED
      BY <1>1, <2>1, <2>2, <2>3, <3>1, <3>2, LinkedReflexive DEF Drift, Fresh
  <2> QED
    BY <2>4, <2>5
<1>3. whole = {} => Tracks(officer[o], reach[o])'
  <2>1. officer'[o] = officer[o]
    BY <1>1
  <2> QED
    BY <1>1, <1>2, <2>1, TracksKept DEF LinkInv
<1> QED
  BY <1>1, <1>2, <1>3, LinkStep

LEMMA CreateCourseLinks ==
  ASSUME LinkInv, NEW o \in Officer, CreateCourse(o), UNCHANGED <<exam, custom>>
  PROVE  Linking
<1> DEFINE m == officer[o]
<1>1. PlacingTypeOK' /\ PlacingTypeOK /\ Move(o, NoMove) /\ MoveOK(m) /\ m.at = "create"
  BY CreateCourseTypes DEF LinkInv, CreateCourse, PlacingTypeOK
<1>2. /\ UNCHANGED <<reach, whole, program, parcel>>
      /\ course[m.of] = Nowhere /\ course' = [course EXCEPT ![m.of] = m.to]
      /\ astray' = IF program[m.to] = Nowhere THEN astray \cup {m.of} ELSE astray
  BY DEF CreateCourse
<1>3. officer'[o].at = "idle" /\ \A n \in Officer : n # o => officer'[n] = officer[n]
  BY <1>1, Moved, NoMoveIs
<1>4. ASSUME whole = {}
      PROVE  Drift
  <2>1. /\ CoursesPlaced /\ Nowhere \notin Unit /\ m.of \in Course /\ m.to \in Program
        /\ program \in [Program -> Unit \cup {Nowhere}]
        /\ course \in [Course -> Program \cup {Nowhere}]
    BY <1>1, <1>4, ContentAssumption DEF LinkInv, PlacingTypeOK, MoveOK
  <2> HIDE DEF m
  <2>2. \A c \in Course : c # m.of => course'[c] = course[c]
    BY <1>2, <2>1
  <2>3. ASSUME NEW c \in Course \ astray', course[c] # Nowhere
        PROVE  DepartmentOf(c)' \in Linked(DepartmentOf(c))
    <3>1. course'[c] = course[c]
      BY <1>2, <2>2, <2>3
    <3>2. DepartmentOf(c)' = DepartmentOf(c)
      BY <1>2, <3>1 DEF DepartmentOf
    <3> QED
      BY <1>2, <2>1, <2>3, <3>2, DepartmentIs, LinkedReflexive
  <2>4. ASSUME NEW c \in Course \ astray', course[c] = Nowhere, course'[c] # Nowhere
        PROVE  program'[course'[c]] \in Unit
    BY <1>2, <2>1, <2>2, <2>4
  <2>5. \A k \in Parcel : parcel[k] \in Unit => parcel'[k] \in Linked(parcel[k])
    BY <1>2, LinkedReflexive
  <2> QED
    BY <1>2, <2>1, <2>3, <2>4, <2>5, LinkedReflexive DEF Drift
<1> QED
  BY <1>1, <1>2, <1>3, <1>4, TracksNothing, LinkStep

(* A course is saved in a program whose department, when it was looked up, *)
(* was in reach together with the one it had.                              *)
LEMMA SaveCourseLinks ==
  ASSUME LinkInv, NEW o \in Officer, SaveCourse(o), UNCHANGED <<exam, custom>>
  PROVE  Linking
<1> DEFINE m == officer[o]
           to == IF m.to = m.from THEN course[m.of] ELSE m.to
<1>1. PlacingTypeOK' /\ PlacingTypeOK /\ Move(o, NoMove) /\ MoveOK(m) /\ m.at = "course"
  BY SaveCourseTypes DEF LinkInv, SaveCourse, PlacingTypeOK
<1>2. /\ UNCHANGED <<reach, whole, program, parcel>>
      /\ course' = [course EXCEPT ![m.of] = to]
      /\ astray' = IF program[to] = Nowhere THEN astray \cup {m.of} ELSE astray
  BY DEF SaveCourse
<1>3. officer'[o].at = "idle" /\ \A n \in Officer : n # o => officer'[n] = officer[n]
  BY <1>1, Moved, NoMoveIs
<1>4. ASSUME whole = {}
      PROVE  Drift
  <2>1. /\ CoursesPlaced /\ Tracks(m, reach[o]) /\ Nowhere \notin Unit
        /\ m.of \in Course /\ m.to \in Program /\ course[m.of] \in Program
        /\ program \in [Program -> Unit \cup {Nowhere}]
        /\ course \in [Course -> Program \cup {Nowhere}]
        /\ to \in Program
    BY <1>1, <1>4, ContentAssumption DEF LinkInv, PlacingTypeOK, MoveOK
  <2>2. m.of \notin astray => program[m.to] = Nowhere \/ program[m.to] \in Linked(DepartmentOf(m.of))
    BY <1>1, <2>1 DEF Tracks
  <2>3. m.of \notin astray => DepartmentOf(m.of) = program[course[m.of]] /\ DepartmentOf(m.of) \in Unit
    BY <2>1, ContentAssumption, DepartmentIs
  <2>4. m.of \notin astray => program[to] = Nowhere \/ program[to] \in Linked(DepartmentOf(m.of))
    BY <2>2, <2>3, LinkedReflexive
  <2>5. course[m.of] # Nowhere
    BY <1>1 DEF MoveOK
  <2> HIDE DEF m, to
  <2>6. /\ course'[m.of] = to
        /\ \A c \in Course : c # m.of => course'[c] = course[c]
    BY <1>2, <2>1
  <2>7. ASSUME NEW c \in Course \ astray', course[c] # Nowhere
        PROVE  DepartmentOf(c)' \in Linked(DepartmentOf(c))
    <3>1. CASE c = m.of
      <4>1. DepartmentOf(c)' = program[to] /\ program[to] # Nowhere
        BY <1>2, <2>1, <2>6, <2>7, <3>1, ContentAssumption DEF DepartmentOf
      <4> QED
        BY <1>2, <2>4, <2>7, <3>1, <4>1
    <3>2. CASE c # m.of
      <4>1. DepartmentOf(c)' = DepartmentOf(c)
        BY <1>2, <2>6, <3>2 DEF DepartmentOf
      <4> QED
        BY <1>2, <2>1, <2>7, <4>1, DepartmentIs, LinkedReflexive
    <3> QED
      BY <3>1, <3>2
  <2>8. \A c \in Course : course[c] = Nowhere => course'[c] = Nowhere
    BY <2>5, <2>6
  <2>9. \A k \in Parcel : parcel[k] \in Unit => parcel'[k] \in Linked(parcel[k])
    BY <1>2, LinkedReflexive
  <2> QED
    BY <1>2, <2>1, <2>7, <2>8, <2>9, LinkedReflexive DEF Drift
<1> QED
  BY <1>1, <1>2, <1>3, <1>4, TracksNothing, LinkStep

LEMMA SaveParcelLinks ==
  ASSUME LinkInv, NEW o \in Officer, SaveParcel(o), UNCHANGED <<exam, custom>>
  PROVE  Linking
<1> DEFINE m == officer[o]
<1>1. PlacingTypeOK' /\ PlacingTypeOK /\ Move(o, NoMove) /\ MoveOK(m) /\ m.at = "parcel"
  BY SaveParcelTypes DEF LinkInv, SaveParcel, PlacingTypeOK
<1>2. /\ UNCHANGED <<reach, whole, program, course>>
      /\ parcel' = [parcel EXCEPT ![m.of] = IF m.to = m.from THEN @ ELSE m.to]
      /\ astray' = IF m.from = Nowhere /\ parcel[m.of] # Nowhere
                   THEN astray \cup {m.of} ELSE astray
  BY DEF SaveParcel
<1>3. officer'[o].at = "idle" /\ \A n \in Officer : n # o => officer'[n] = officer[n]
  BY <1>1, Moved, NoMoveIs
<1>4. ASSUME whole = {}
      PROVE  Drift
  <2>1. /\ CoursesPlaced /\ Tracks(m, reach[o]) /\ Nowhere \notin Unit
        /\ m.of \in Parcel /\ m.from \in Unit \cup {Nowhere}
        /\ parcel \in [Parcel -> Unit \cup {Nowhere}] /\ reach \in [Officer -> SUBSET Unit]
    BY <1>1, <1>4, ContentAssumption DEF LinkInv, PlacingTypeOK, MoveOK
  <2>2. /\ m.to \in reach[o]
        /\ m.from \in Unit => m.from \in reach[o] /\ (m.of \notin astray => parcel[m.of] \in Linked(m.from))
    BY <1>1, <2>1 DEF Tracks
  <2>3. ASSUME m.of \notin astray', parcel[m.of] \in Unit
        PROVE  m.to \in Linked(parcel[m.of])
    <3>1. m.from \in Unit
      BY <1>2, <2>1, <2>3
    <3>2. parcel[m.of] \in Linked(m.from) /\ m.to \in Linked(m.from)
      BY <1>2, <2>1, <2>2, <2>3, <3>1, ReachLinked
    <3> QED
      BY <2>1, <3>1, <3>2, LinkedSymmetric, LinkedTransitive
  <2> HIDE DEF m
  <2>4. ASSUME NEW k \in Parcel \ astray', parcel[k] \in Unit
        PROVE  parcel'[k] \in Linked(parcel[k])
    <3>1. CASE k = m.of
      BY <1>2, <2>1, <2>3, <2>4, <3>1, LinkedReflexive
    <3>2. CASE k # m.of
      BY <1>2, <2>1, <2>4, <3>2, LinkedReflexive
    <3> QED
      BY <3>1, <3>2
  <2>5. ASSUME NEW c \in Course \ astray', course[c] # Nowhere
        PROVE  DepartmentOf(c)' \in Linked(DepartmentOf(c))
    <3>1. DepartmentOf(c)' = DepartmentOf(c)
      BY <1>2 DEF DepartmentOf
    <3> QED
      BY <1>2, <2>1, <2>5, <3>1, DepartmentIs, LinkedReflexive
  <2> QED
    BY <1>2, <2>1, <2>4, <2>5, LinkedReflexive DEF Drift
<1> QED
  BY <1>1, <1>2, <1>3, <1>4, TracksNothing, LinkStep

-------------------------------------------------------------------------------

(* A step that changes one request alone.                                  *)
LEMMA RequestLinks ==
  ASSUME LinkInv, PlacingTypeOK', NEW o \in Officer,
         UNCHANGED <<reach, whole, program, course, parcel, astray>>,
         \A n \in Officer : n # o => officer'[n] = officer[n],
         whole = {} => Tracks(officer[o], reach[o])'
  PROVE  Linking
<1>1. whole = {} => Drift
  BY QuietDrift DEF LinkInv
<1> QED
  BY <1>1, LinkStep

LEMMA StartLinks ==
  ASSUME LinkInv, UNCHANGED <<exam, custom>>, NEW o \in Officer,
         \/ \E p \in Program, d \in Unit : StartMoveProgram(o, p, d)
         \/ \E c \in Course, q \in Program : StartCreateCourse(o, c, q) \/ LoadCourse(o, c, q)
         \/ \E k \in Parcel, d \in Unit \cup {Nowhere} : StartMoveParcel(o, k, d)
  PROVE  Linking
<1>1. /\ UNCHANGED <<reach, whole, program, course, parcel, astray>>
      /\ PlacingTypeOK /\ PlacingTypeOK' /\ Nowhere \notin Unit
  BY StartTypes, ContentAssumption
  DEF LinkInv, StartMoveProgram, StartCreateCourse, LoadCourse, StartMoveParcel
<1>2. ASSUME NEW d PROVE Linked(d)' = Linked(d)
  BY <1>1, LinkedStays
<1>3. ASSUME NEW p \in Program, NEW d \in Unit, StartMoveProgram(o, p, d)
      PROVE  Linking
  <2>1. /\ officer'[o] = [at |-> "program", of |-> p, from |-> program[p], to |-> d]
        /\ \A n \in Officer : n # o => officer'[n] = officer[n]
    BY <1>1, <1>3, Moved DEF StartMoveProgram
  <2>2. ASSUME whole = {}
        PROVE  program[p] \in reach[o] /\ d \in reach[o] /\ program[p] \in Linked(program[p])
    BY <1>1, <1>3, <2>2, LinkedReflexive DEF StartMoveProgram, BothInReach, InReach, PlacingTypeOK
  <2>3. whole = {} => Tracks(officer[o], reach[o])'
    BY <1>1, <1>2, <2>1, <2>2 DEF Tracks
  <2> QED
    BY <1>1, <2>1, <2>3, RequestLinks
<1>4. ASSUME NEW c \in Course, NEW q \in Program, StartCreateCourse(o, c, q)
      PROVE  Linking
  <2>1. /\ officer'[o] = [at |-> "create", of |-> c, to |-> q]
        /\ \A n \in Officer : n # o => officer'[n] = officer[n]
    BY <1>1, <1>4, Moved DEF StartCreateCourse
  <2> QED
    BY <1>1, <2>1, TracksNothing, RequestLinks
<1>5. ASSUME NEW c \in Course, NEW q \in Program, LoadCourse(o, c, q)
      PROVE  Linking
  <2>1. /\ officer'[o] = [at |-> "current", of |-> c, from |-> course[c], to |-> q]
        /\ \A n \in Officer : n # o => officer'[n] = officer[n]
    BY <1>1, <1>5, Moved DEF LoadCourse
  <2>2. ASSUME whole = {}, c \notin astray
        PROVE  program[course[c]] \in Unit /\ DepartmentOf(c) \in Linked(program[course[c]])
    BY <1>5, <2>2, DepartmentIs, LinkedReflexive DEF LinkInv, LoadCourse
  <2>3. DepartmentOf(c)' = DepartmentOf(c)
    BY <1>1 DEF DepartmentOf
  <2>4. whole = {} => Tracks(officer[o], reach[o])'
    BY <1>1, <1>2, <2>1, <2>2, <2>3 DEF Tracks
  <2> QED
    BY <1>1, <2>1, <2>4, RequestLinks
<1>6. ASSUME NEW k \in Parcel, NEW d \in Unit \cup {Nowhere}, StartMoveParcel(o, k, d)
      PROVE  Linking
  <2>1. /\ officer'[o] = [at |-> "parcel", of |-> k, from |-> parcel[k], to |-> d]
        /\ \A n \in Officer : n # o => officer'[n] = officer[n]
    BY <1>1, <1>6, Moved DEF StartMoveParcel
  <2>2. ASSUME whole = {}
        PROVE  /\ d \in reach[o]
               /\ parcel[k] \in Unit => parcel[k] \in reach[o] /\ parcel[k] \in Linked(parcel[k])
    BY <1>1, <1>6, <2>2, LinkedReflexive DEF StartMoveParcel, BothInReach, InReach
  <2>3. whole = {} => Tracks(officer[o], reach[o])'
    BY <1>1, <1>2, <2>1, <2>2 DEF Tracks
  <2> QED
    BY <1>1, <2>1, <2>3, RequestLinks
<1> QED
  BY <1>3, <1>4, <1>5, <1>6

LEMMA CheckLinks ==
  ASSUME LinkInv, UNCHANGED <<exam, custom>>, NEW o \in Officer,
         CheckCurrent(o) \/ CheckTarget(o) \/ AbandonMove(o)
  PROVE  Linking
<1> DEFINE m == officer[o]
           d == DepartmentOf(m.of)
<1>1. /\ UNCHANGED <<reach, whole, program, course, parcel, astray>>
      /\ PlacingTypeOK /\ PlacingTypeOK' /\ Nowhere \notin Unit /\ MoveOK(m)
      /\ reach \in [Officer -> SUBSET Unit]
  BY CheckTypes, ContentAssumption
  DEF LinkInv, CheckCurrent, CheckTarget, AbandonMove, PlacingTypeOK
<1>2. ASSUME NEW e PROVE Linked(e)' = Linked(e)
  BY <1>1, LinkedStays
<1>3. whole = {} => Tracks(m, reach[o])
  BY DEF LinkInv
<1>4. CASE AbandonMove(o)
  BY <1>1, <1>4, Moved, NoMoveIs, TracksNothing, RequestLinks DEF AbandonMove
<1>5. CASE CheckCurrent(o)
  <2>1. officer'[o] = [m EXCEPT !.at = "target"] /\ m.at = "current" /\ InReach(o, program[m.from])
        /\ \A n \in Officer : n # o => officer'[n] = officer[n]
    BY <1>1, <1>5, Moved DEF CheckCurrent
  <2>2. officer'[o].at = "target" /\ officer'[o].of = m.of
    BY <1>1, <2>1 DEF MoveOK
  <2>3. ASSUME whole = {}, m.of \notin astray
        PROVE  \E e \in reach[o] : d \in Linked(e)
    BY <1>1, <1>3, <2>1, <2>3 DEF Tracks, InReach
  <2>4. DepartmentOf(officer[o].of)' = d
    BY <1>1, <2>2 DEF DepartmentOf
  <2> HIDE DEF d
  <2>5. whole = {} => Tracks(officer[o], reach[o])'
    BY <1>1, <1>2, <2>2, <2>3, <2>4 DEF Tracks
  <2> QED
    BY <1>1, <2>1, <2>5, RequestLinks
<1>6. CASE CheckTarget(o)
  <2>1. officer'[o] = [m EXCEPT !.at = "course"] /\ m.at = "target"
        /\ program[m.to] # Nowhere /\ InReach(o, program[m.to])
        /\ \A n \in Officer : n # o => officer'[n] = officer[n]
    BY <1>1, <1>6, Moved DEF CheckTarget
  <2>2. officer'[o].at = "course" /\ officer'[o].of = m.of /\ officer'[o].to = m.to
    BY <1>1, <2>1 DEF MoveOK
  <2>3. ASSUME whole = {}, m.of \notin astray
        PROVE  (\E e \in reach[o] : d \in Linked(e)) /\ program[m.to] \in Linked(d)
    <3>1. PICK e \in reach[o] : d \in Linked(e)
      BY <1>3, <2>1, <2>3 DEF Tracks
    <3>2. program[m.to] \in reach[o] /\ e \in Unit
      BY <1>1, <2>1, <2>3 DEF InReach
    <3>3. e \in Linked(d) /\ program[m.to] \in Linked(e)
      BY <1>1, <3>1, <3>2, LinkedSymmetric, ReachLinked
    <3> QED
      BY <3>1, <3>3, LinkedTransitive
  <2>4. DepartmentOf(officer[o].of)' = d
    BY <1>1, <2>2 DEF DepartmentOf
  <2>5. Linked(DepartmentOf(officer[o].of))' = Linked(d)
    BY <1>1, <2>4 DEF Linked
  <2> HIDE DEF d
  <2>6. whole = {} => Tracks(officer[o], reach[o])'
    BY <1>1, <1>2, <2>2, <2>3, <2>4, <2>5 DEF Tracks
  <2> QED
    BY <1>1, <2>1, <2>6, RequestLinks
<1> QED
  BY <1>4, <1>5, <1>6

(* Steps that leave departments, courses and packages alone.               *)
LEMMA FilingLinks ==
  ASSUME LinkInv, NEW o \in Officer,
         \/ SaveExam(o) \/ SaveCustom(o)
         \/ \E x \in Exam, c \in Course :
              StartMoveExam(o, x, c) \/ \E q \in Program : StartCreateExam(o, x, c, q)
         \/ \E u \in Custom, d \in Unit \cup {Nowhere} :
              CreateCustomContent(o, u, d) \/ StartMoveCustom(o, u, d)
  PROVE  Linking
<1>1. PlacingTypeOK /\ PlacingTypeOK'
  BY SaveExamTypes, SaveCustomTypes, FilingTypes DEF LinkInv
<1>2. UNCHANGED <<reach, whole, program, course, parcel, astray>>
  BY DEF SaveExam, SaveCustom, StartMoveExam, StartCreateExam, CreateCustomContent,
         StartMoveCustom, placing
<1>3. CASE SaveExam(o) \/ SaveCustom(o)
  BY <1>1, <1>2, <1>3, Moved, NoMoveIs, TracksNothing, RequestLinks DEF SaveExam, SaveCustom
<1>4. ASSUME NEW x \in Exam, NEW c \in Course,
             StartMoveExam(o, x, c) \/ \E q \in Program : StartCreateExam(o, x, c, q)
      PROVE  Linking
  <2>1. PICK f : Move(o, [at |-> "exam", of |-> x, from |-> f, to |-> c])
    BY <1>4 DEF StartMoveExam, StartCreateExam
  <2>2. /\ officer'[o] = [at |-> "exam", of |-> x, from |-> f, to |-> c]
        /\ \A n \in Officer : n # o => officer'[n] = officer[n]
    BY <1>1, <2>1, Moved
  <2> QED
    BY <1>1, <1>2, <2>2, TracksNothing, RequestLinks
<1>5. ASSUME NEW u \in Custom, NEW d \in Unit \cup {Nowhere}, StartMoveCustom(o, u, d)
      PROVE  Linking
  <2>1. /\ officer'[o] = [at |-> "custom", of |-> u, from |-> custom[u], to |-> d]
        /\ \A n \in Officer : n # o => officer'[n] = officer[n]
    BY <1>1, <1>5, Moved DEF StartMoveCustom
  <2> QED
    BY <1>1, <1>2, <2>1, TracksNothing, RequestLinks
<1>6. ASSUME NEW u \in Custom, NEW d \in Unit \cup {Nowhere}, CreateCustomContent(o, u, d)
      PROVE  Linking
  <2>1. officer' = officer
    BY <1>6 DEF CreateCustomContent, placing
  <2>2. whole = {} => Tracks(officer[o], reach[o])'
    BY <1>1, <1>2, <2>1, QuietDrift, TracksKept DEF LinkInv
  <2> QED
    BY <1>1, <1>2, <2>1, <2>2, RequestLinks
<1> QED
  BY <1>3, <1>4, <1>5, <1>6

LEMMA FilingStepLinks ==
  ASSUME LinkInv, FilingStep \/ UNCHANGED <<placing, exam, custom>>
  PROVE  Linking
<1>1. ASSUME UNCHANGED <<placing, exam, custom>>
      PROVE  Linking
  <2>1. PlacingTypeOK /\ PlacingTypeOK'
    BY <1>1, FilingStepTypes DEF LinkInv
  <2>2. UNCHANGED <<reach, whole, program, course, parcel, astray, officer>>
    BY <1>1 DEF placing
  <2>3. ASSUME whole = {}
        PROVE  Drift /\ CoursesPlaced' /\ \A o \in Officer : Tracks(officer[o], reach[o])'
    BY <2>1, <2>2, <2>3, QuietDrift, PlacedKept, TracksKept DEF LinkInv
  <2> QED
    BY <2>1, <2>2, <2>3 DEF Linking, LinkInv
<1>2. CASE ContentNext /\ UNCHANGED <<exam, custom>>
  <2>1. CASE UpdateProgram \/ UpdateCourseDepartment
    BY <1>1, <1>2, <2>1 DEF UpdateProgram, UpdateCourseDepartment
  <2>2. ASSUME NEW o \in Officer,
               \/ SaveProgram(o) \/ CreateCourse(o) \/ SaveCourse(o) \/ SaveParcel(o)
               \/ CheckCurrent(o) \/ CheckTarget(o) \/ AbandonMove(o)
        PROVE  Linking
    BY <1>2, <2>2, SaveProgramLinks, CreateCourseLinks, SaveCourseLinks, SaveParcelLinks, CheckLinks
  <2>3. ASSUME NEW o \in Officer, NEW p \in Program,
               DeleteProgram(o, p) \/ \E d \in Unit : CreateProgram(o, p, d)
        PROVE  Linking
    BY <1>2, <2>3, ProgramLinks
  <2>4. ASSUME NEW o \in Officer,
               \/ \E p \in Program, d \in Unit : StartMoveProgram(o, p, d)
               \/ \E c \in Course, q \in Program : StartCreateCourse(o, c, q) \/ LoadCourse(o, c, q)
               \/ \E k \in Parcel, d \in Unit \cup {Nowhere} : StartMoveParcel(o, k, d)
        PROVE  Linking
    BY <1>2, <2>4, StartLinks
  <2> QED
    BY <1>2, <2>1, <2>2, <2>3, <2>4 DEF ContentNext
<1>3. ASSUME NEW o \in Officer,
             \/ SaveExam(o) \/ SaveCustom(o)
             \/ \E x \in Exam, c \in Course :
                  StartMoveExam(o, x, c) \/ \E q \in Program : StartCreateExam(o, x, c, q)
             \/ \E u \in Custom, d \in Unit \cup {Nowhere} :
                  CreateCustomContent(o, u, d) \/ StartMoveCustom(o, u, d)
      PROVE  Linking
  BY <1>3, FilingLinks
<1> QED
  BY <1>1, <1>2, <1>3 DEF FilingStep

LEMMA InitLinks == ListsInit => LinkInv
<1> SUFFICES ASSUME ListsInit PROVE LinkInv
  OBVIOUS
<1>1. \A o \in Officer : officer[o].at = "idle"
  BY NoMoveIs DEF ListsInit, ContentInit
<1>2. PlacingTypeOK
  BY <1>1 DEF ListsInit, ContentInit, PlacingTypeOK, MoveOK
<1>3. CoursesPlaced /\ \A o \in Officer : Tracks(officer[o], reach[o])
  BY <1>1 DEF CoursesPlaced, Tracks, ListsInit, ContentInit
<1> QED
  BY <1>2, <1>3 DEF LinkInv

LEMMA ListsNextLinks ==
  ASSUME LinkInv, [ListsNext]_<<placing, listing>>
  PROVE  Linking
<1>1. FilingStep \/ UNCHANGED <<placing, exam, custom>>
  BY DEF ListsNext, StartList, FindPrograms, FindPackages, FindCustomContent, FindCourses,
         FindDepartments, FindExams, EndList, Read, listing
<1> QED
  BY <1>1, FilingStepLinks

(* Every request in flight knows where its content lay, and as long as     *)
(* nobody may touch everything it still lies among the departments linked  *)
(* to that (departmentResourcesCtrl.ts:775-797, 1046-1064, 1212-1241).     *)
THEOREM LinksCorrect == ListsSpec => []LinkInv
<1>1. LinkInv /\ [ListsNext]_<<placing, listing>> => LinkInv'
  BY ListsNextLinks DEF Linking
<1> QED
  BY <1>1, InitLinks, PTL DEF ListsSpec

(* Whatever requests overlap, no content leaves the departments linked to  *)
(* its own (departmentResourcesCtrl.ts:775-797, 1046-1064, 1212-1241).     *)
THEOREM StaysLinkedCorrect == ListsSpec => StaysLinked
<1> DEFINE Stays ==
      whole = {} =>
        /\ \A p \in Program :
             program[p] \in Unit /\ program'[p] \in Unit => program'[p] \in Linked(program[p])
        /\ \A c \in Course \ astray' :
             course[c] # Nowhere => DepartmentOf(c)' \in Linked(DepartmentOf(c))
        /\ \A k \in Parcel \ astray' :
             parcel[k] \in Unit => parcel'[k] \in Linked(parcel[k])
<1>1. LinkInv /\ [ListsNext]_<<placing, listing>> => [Stays]_placing
  BY ListsNextLinks, ContentAssumption DEF Linking, Drift
<1>2. [][Stays]_placing <=> StaysLinked
  BY DEF StaysLinked
<1> HIDE DEF Stays
<1> QED
  BY <1>1, <1>2, LinksCorrect, PTL DEF ListsSpec

-------------------------------------------------------------------------------
(* Lists. *)

(* What the list shows of i is what ListedWhereItLies asks, or nothing yet. *)
ShownRight(i) ==
  \A d \in Unit \cup {Nowhere} :
    <<i, d>> \in lister.shown <=> Within(LiesIn(i)) /\ d = LiesIn(i)
Unshown(i) == \A d : <<i, d>> \notin lister.shown

Fields == {"at", "kind", "every", "within", "left", "programs", "courses", "shown"}
IsList(l) == DOMAIN l = Fields /\ l = [f \in Fields |-> l[f]]

ListerTypeOK ==
  /\ IsList(lister)
  /\ lister.at \in {"idle", "programs", "content", "departments", "exams", "answered"}
  /\ lister.every \in BOOLEAN /\ lister.within \subseteq Unit
  /\ lister.at # "idle" =>
       \/ lister.kind = "department" /\ lister.left \subseteq {"packages", "courses"}
       \/ lister.kind = "content" /\ lister.left \subseteq {"packages", "custom"}
          /\ lister.courses = <<>>
  /\ lister.at = "programs" =>
       lister.kind = "department" /\ ~lister.every /\ lister.left = {"packages", "courses"}
  /\ lister.at \in {"departments", "exams"} => lister.kind = "department" /\ lister.left = {}
  /\ lister.at = "answered" => lister.left = {}

(* What a list has shown so far.                                           *)
PackageShown(k) ==
  IF "packages" \in lister.left THEN Unshown(k) ELSE k \in unmoved => ShownRight(k)

CustomShown(u) ==
  IF "custom" \in lister.left THEN Unshown(u)
  ELSE u \in unmoved /\ custom[u] # Unfiled => ShownRight(u)

ShownSoFar ==
  lister.at # "idle" =>
    /\ \A k \in Parcel : PackageShown(k)
    /\ lister.kind = "content" => \A u \in Custom : CustomShown(u)
    /\ lister.at # "answered" => \A x \in Exam : Unshown(x)

(* What it has read of the course and the program of an exam that has not  *)
(* moved: its program if that lies in the departments asked for, then its  *)
(* course if it does, then the department of that.                         *)
ReadSoFar(x) ==
  LET c == exam[x]
      wanted == Within(DepartmentOf(c)) IN
  /\ lister.at = "content" /\ "courses" \in lister.left /\ ~lister.every =>
       (course[c] \in lister.programs <=> wanted)
  /\ lister.at \in {"content", "departments"} /\ "courses" \notin lister.left =>
       /\ c \in DOMAIN lister.courses <=> wanted
       /\ c \in DOMAIN lister.courses => lister.courses[c] = course[c]
  /\ lister.at = "exams" =>
       /\ c \in DOMAIN lister.courses <=> wanted
       /\ c \in DOMAIN lister.courses => lister.courses[c] = DepartmentOf(c)
  /\ lister.at = "answered" /\ DOMAIN lister.courses # {} => ShownRight(x)

ListInv ==
  /\ PlacingTypeOK
  /\ ListerTypeOK
  /\ ShownSoFar
  /\ lister.kind = "department" =>
       \A x \in Exam \cap unmoved : exam[x] # Unfiled => ReadSoFar(x)

-------------------------------------------------------------------------------

(* Where things lie. *)
Lying ==
  /\ \A k \in Parcel : LiesIn(k) = parcel[k]
  /\ \A u \in Custom : LiesIn(u) = custom[u]
  /\ \A x \in Exam : exam[x] # Unfiled => LiesIn(x) = DepartmentOf(exam[x])

LEMMA LiesInIs == Lying
<1>1. ASSUME NEW k \in Parcel PROVE LiesIn(k) = parcel[k]
  <2>1. Whereabouts(k) = <<parcel[k]>>
    BY DEF Whereabouts
  <2> QED
    BY <2>1 DEF LiesIn
<1>2. ASSUME NEW u \in Custom PROVE LiesIn(u) = custom[u]
  <2>1. Whereabouts(u) = <<custom[u]>>
    BY ListsAssumption DEF Whereabouts
  <2> QED
    BY <2>1 DEF LiesIn
<1>3. ASSUME NEW x \in Exam, exam[x] # Unfiled PROVE LiesIn(x) = DepartmentOf(exam[x])
  <2>1. Whereabouts(x) = <<exam[x], course[exam[x]], DepartmentOf(exam[x])>>
    BY <1>3, ListsAssumption DEF Whereabouts
  <2> QED
    BY <2>1 DEF LiesIn
<1> QED
  BY <1>1, <1>2, <1>3 DEF Lying

LEMMA LiesInAfter == Lying'
<1> QED
  BY LiesInIs, PTL

LEMMA Tuples ==
  ASSUME NEW a, NEW b, NEW c, NEW d, NEW e, NEW f
  PROVE  <<a>> # <<b, c, d>> /\ (<<a, b, c>> = <<d, e, f>> => a = d /\ b = e /\ c = f)
<1>1. Len(<<a>>) = 1 /\ Len(<<b, c, d>>) = 3
  OBVIOUS
<1>2. ASSUME <<a, b, c>> = <<d, e, f>>
      PROVE  a = d /\ b = e /\ c = f
  BY <1>2
<1>3. <<a>> # <<b, c, d>>
  BY <1>1
<1> QED
  BY <1>2, <1>3

LEMMA Unmoved ==
  /\ \A k \in Parcel : Whereabouts(k)' = Whereabouts(k) => parcel'[k] = parcel[k]
  /\ \A u \in Custom : Whereabouts(u)' = Whereabouts(u) => custom'[u] = custom[u]
  /\ \A x \in Exam : Whereabouts(x)' = Whereabouts(x) /\ exam'[x] # Unfiled =>
       /\ exam[x] # Unfiled /\ exam'[x] = exam[x]
       /\ course'[exam[x]] = course[exam[x]]
       /\ DepartmentOf(exam[x])' = DepartmentOf(exam[x])
<1>1. ASSUME NEW k \in Parcel, Whereabouts(k)' = Whereabouts(k)
      PROVE  parcel'[k] = parcel[k]
  <2>1. Whereabouts(k) = <<parcel[k]>> /\ Whereabouts(k)' = <<parcel'[k]>>
    BY DEF Whereabouts
  <2> QED
    BY <1>1, <2>1
<1>2. ASSUME NEW u \in Custom, Whereabouts(u)' = Whereabouts(u)
      PROVE  custom'[u] = custom[u]
  <2>1. Whereabouts(u) = <<custom[u]>> /\ Whereabouts(u)' = <<custom'[u]>>
    BY ListsAssumption DEF Whereabouts
  <2> QED
    BY <1>2, <2>1
<1>3. ASSUME NEW x \in Exam, Whereabouts(x)' = Whereabouts(x), exam'[x] # Unfiled
      PROVE  /\ exam[x] # Unfiled /\ exam'[x] = exam[x]
             /\ course'[exam[x]] = course[exam[x]]
             /\ DepartmentOf(exam[x])' = DepartmentOf(exam[x])
  <2>1. Whereabouts(x)' = <<exam'[x], course'[exam'[x]], DepartmentOf(exam[x])'>>
    BY <1>3, ListsAssumption DEF Whereabouts
  <2>2. exam[x] # Unfiled
    <3>1. SUFFICES ASSUME exam[x] = Unfiled PROVE FALSE
      OBVIOUS
    <3>2. Whereabouts(x) = <<Unfiled>>
      BY <3>1, ListsAssumption DEF Whereabouts
    <3>3. <<Unfiled>> = <<exam'[x], course'[exam'[x]], DepartmentOf(exam[x])'>>
      BY <1>3, <2>1, <3>2
    <3> QED
      BY <3>3, Tuples
  <2>3. Whereabouts(x) = <<exam[x], course[exam[x]], DepartmentOf(exam[x])>>
    BY <2>2, ListsAssumption DEF Whereabouts
  <2>4. exam'[x] = exam[x] /\ course'[exam'[x]] = course[exam[x]] /\ DepartmentOf(exam[x])' = DepartmentOf(exam[x])
    <3>1. <<exam'[x], course'[exam'[x]], DepartmentOf(exam[x])'>>
            = <<exam[x], course[exam[x]], DepartmentOf(exam[x])>>
      BY <1>3, <2>1, <2>3
    <3> QED
      BY <3>1, Tuples
  <2> QED
    BY <2>2, <2>4
<1> QED
  BY <1>1, <1>2, <1>3

LEMMA ListedIs ==
  ASSUME NEW S, NEW lies, NEW i, NEW d
  PROVE  <<i, d>> \in ListedOf(S, lies) <=> i \in S /\ Within(lies[i]) /\ d = Summary(lies[i])
<1> QED
  BY DEF ListedOf, Within

LEMMA SummaryIs ==
  ASSUME NEW d \in Unit \cup {Nowhere}, Within(d)
  PROVE  Summary(d) = d
<1> QED
  BY ContentAssumption DEF Summary

LEMMA NoListIs ==
  /\ IsList(NoList) /\ NoList.at = "idle" /\ NoList.kind = "none" /\ NoList.every = FALSE
  /\ NoList.within = {} /\ NoList.left = {} /\ NoList.programs = {} /\ NoList.shown = {}
  /\ NoList.courses = <<>>
<1> QED
  BY DEF NoList, IsList, Fields

LEMMA InitListInv == ListsInit => ListInv
<1> SUFFICES ASSUME ListsInit PROVE ListInv
  OBVIOUS
<1>1. PlacingTypeOK
  BY InitLinks DEF LinkInv
<1>2. lister.at = "idle" /\ lister.kind = "none" /\ ListerTypeOK
  BY NoListIs DEF ListsInit, ListerTypeOK
<1>3. ShownSoFar
  BY <1>2 DEF ShownSoFar
<1> QED
  BY <1>1, <1>2, <1>3 DEF ListInv

(* Whatever is moved, the list under way has read nothing wrong of what is *)
(* not.                                                                    *)
LEMMA FilingStepLists ==
  ASSUME ListInv, FilingStep, UNCHANGED lister,
         unmoved' = {i \in unmoved : Whereabouts(i)' = Whereabouts(i)}
  PROVE  ListInv'
<1>1. PlacingTypeOK'
  BY FilingStepTypes DEF ListInv
<1>2. ListerTypeOK'
  BY DEF ListInv, ListerTypeOK
<1>3. ASSUME NEW k \in Parcel, k \in unmoved'
      PROVE  k \in unmoved /\ (ShownRight(k) => ShownRight(k)')
  <2>1. k \in unmoved /\ parcel'[k] = parcel[k]
    BY <1>3, Unmoved
  <2>2. LiesIn(k) = parcel[k] /\ LiesIn(k)' = parcel'[k]
    BY LiesInIs, LiesInAfter DEF Lying
  <2> QED
    BY <2>1, <2>2 DEF ShownRight, Within
<1>4. ASSUME NEW u \in Custom, u \in unmoved', custom'[u] # Unfiled
      PROVE  u \in unmoved /\ custom[u] # Unfiled /\ (ShownRight(u) => ShownRight(u)')
  <2>1. u \in unmoved /\ custom'[u] = custom[u]
    BY <1>4, Unmoved
  <2>2. LiesIn(u) = custom[u] /\ LiesIn(u)' = custom'[u]
    BY LiesInIs, LiesInAfter DEF Lying
  <2> QED
    BY <1>4, <2>1, <2>2 DEF ShownRight, Within
<1>5. \A i : Unshown(i) => Unshown(i)'
  BY DEF Unshown
<1>6. ShownSoFar'
  <2>1. ASSUME NEW k \in Parcel, PackageShown(k)
        PROVE  PackageShown(k)'
    BY <1>3, <1>5, <2>1 DEF PackageShown
  <2>2. ASSUME NEW u \in Custom, CustomShown(u)
        PROVE  CustomShown(u)'
    BY <1>4, <1>5, <2>2 DEF CustomShown
  <2> QED
    BY <1>5, <2>1, <2>2 DEF ListInv, ShownSoFar
<1>7. ASSUME NEW x \in Exam, x \in unmoved', exam'[x] # Unfiled, lister.kind = "department"
      PROVE  ReadSoFar(x)'
  <2>1. /\ x \in unmoved /\ exam[x] # Unfiled /\ exam'[x] = exam[x]
        /\ course'[exam[x]] = course[exam[x]]
        /\ DepartmentOf(exam[x])' = DepartmentOf(exam[x])
    BY <1>7, Unmoved
  <2>2. ReadSoFar(x)
    BY <1>7, <2>1 DEF ListInv
  <2>3. LiesIn(x) = DepartmentOf(exam[x]) /\ LiesIn(x)' = DepartmentOf(exam[x])'
    BY <1>7, <2>1, LiesInIs, LiesInAfter DEF Lying
  <2>4. ShownRight(x) => ShownRight(x)'
    BY <2>1, <2>3 DEF ShownRight, Within
  <2> QED
    BY <2>1, <2>2, <2>4 DEF ReadSoFar, Within
<1> QED
  BY <1>1, <1>2, <1>6, <1>7 DEF ListInv

-------------------------------------------------------------------------------

(* While something is read, nothing moves.                                 *)
LEMMA ReadMovesNothing ==
  ASSUME ListInv, UNCHANGED <<placing, exam, custom>>
  PROVE  /\ PlacingTypeOK'
         /\ \A i : LiesIn(i)' = LiesIn(i)
         /\ \A c : DepartmentOf(c)' = DepartmentOf(c)
<1>1. PlacingTypeOK'
  BY DEF ListInv, PlacingTypeOK, MoveOK, placing
<1>2. \A c : DepartmentOf(c)' = DepartmentOf(c)
  BY DEF DepartmentOf, placing
<1>3. \A i : LiesIn(i)' = LiesIn(i)
  BY <1>2 DEF LiesIn, Whereabouts, placing
<1> QED
  BY <1>1, <1>2, <1>3

LEMMA StartListLists ==
  ASSUME ListInv, NEW kind \in {"department", "content"}, NEW every \in BOOLEAN,
         NEW within \in SUBSET Unit, StartList(kind, every, within)
  PROVE  ListInv'
<1> DEFINE l == [NoList EXCEPT
       !.at = IF kind = "department" /\ ~every THEN "programs" ELSE "content",
       !.kind = kind, !.every = every, !.within = within,
       !.left = IF kind = "department" THEN {"packages", "courses"} ELSE {"packages", "custom"}]
<1>1. /\ l.at = IF kind = "department" /\ ~every THEN "programs" ELSE "content"
      /\ l.kind = kind /\ l.every = every /\ l.within = within /\ l.shown = {} /\ l.courses = <<>>
      /\ l.left = IF kind = "department" THEN {"packages", "courses"} ELSE {"packages", "custom"}
      /\ IsList(l)
  BY NoListIs DEF IsList, Fields
<1>2. lister' = l
  BY DEF StartList
<1> HIDE DEF l
<1>3. PlacingTypeOK'
  BY ReadMovesNothing DEF StartList
<1>4. ListerTypeOK'
  BY <1>1, <1>2 DEF ListerTypeOK
<1>5. ShownSoFar'
  <2>1. \A i : Unshown(i)'
    BY <1>1, <1>2 DEF Unshown
  <2> QED
    BY <1>1, <1>2, <2>1 DEF ShownSoFar, PackageShown, CustomShown
<1>6. ASSUME NEW x \in Exam, kind = "department"
      PROVE  ReadSoFar(x)'
  BY <1>1, <1>2, <1>6 DEF ReadSoFar
<1> QED
  BY <1>1, <1>2, <1>3, <1>4, <1>5, <1>6 DEF ListInv

LEMMA EndListLists ==
  ASSUME ListInv, EndList
  PROVE  ListInv'
<1>1. lister'.at = "idle" /\ lister'.kind = "none" /\ ListerTypeOK'
  BY NoListIs DEF EndList, Read, ListerTypeOK
<1> QED
  BY <1>1, ReadMovesNothing DEF EndList, Read, ListInv, ShownSoFar

LEMMA FindProgramsLists ==
  ASSUME ListInv, FindPrograms
  PROVE  ListInv'
<1> DEFINE l == [lister EXCEPT !.at = "content", !.programs = {p \in Program : Within(program[p])}]
<1>1. /\ l.at = "content" /\ l.programs = {p \in Program : Within(program[p])}
      /\ l.kind = lister.kind /\ l.every = lister.every /\ l.within = lister.within
      /\ l.left = lister.left /\ l.courses = lister.courses /\ l.shown = lister.shown
      /\ IsList(l)
  BY DEF ListInv, ListerTypeOK, IsList, Fields
<1>2. lister' = l /\ lister.at = "programs" /\ UNCHANGED <<placing, exam, custom, unmoved>>
  BY DEF FindPrograms, Read
<1> HIDE DEF l
<1>3. PlacingTypeOK' /\ (\A i : LiesIn(i)' = LiesIn(i)) /\ (\A c : DepartmentOf(c)' = DepartmentOf(c))
  BY <1>2, ReadMovesNothing
<1>4. ListerTypeOK'
  BY <1>1, <1>2 DEF ListInv, ListerTypeOK
<1>5. ShownSoFar'
  BY <1>1, <1>2, <1>3 DEF ListInv, ShownSoFar, ListerTypeOK, PackageShown, CustomShown, Unshown, ShownRight, Within
<1>6. ASSUME NEW x \in Exam, exam[x] # Unfiled
      PROVE  ReadSoFar(x)'
  <2>1. course[exam[x]] \in Program /\ DepartmentOf(exam[x]) = program[course[exam[x]]]
    BY <1>6 DEF ListInv, PlacingTypeOK, DepartmentOf
  <2>2. course'[exam'[x]] \in lister'.programs <=> Within(DepartmentOf(exam[x]))'
    BY <1>1, <1>2, <1>3, <2>1 DEF Within, placing
  <2>3. lister'.at = "content" /\ "courses" \in lister'.left
    BY <1>1, <1>2 DEF ListInv, ListerTypeOK
  <2> QED
    BY <2>2, <2>3 DEF ReadSoFar
<1> QED
  BY <1>1, <1>2, <1>3, <1>4, <1>5, <1>6 DEF ListInv

(* One of the two queries at once, after which the list is l.              *)
Queried(l, part) ==
  /\ IsList(l) /\ l.left = lister.left \ {part}
  /\ l.at = IF l.left # {} THEN "content"
            ELSE IF lister.kind = "department" THEN "departments" ELSE "answered"
  /\ l.kind = lister.kind /\ l.every = lister.every /\ l.within = lister.within
  /\ l.programs = lister.programs

LEMMA QueriedTypes ==
  ASSUME ListInv, lister.at = "content", NEW part, Queried(lister', part),
         lister.kind = "content" => lister'.courses = <<>>
  PROVE  ListerTypeOK'
<1> QED
  BY DEF ListInv, ListerTypeOK, Queried

LEMMA FindPackagesLists ==
  ASSUME ListInv, FindPackages
  PROVE  ListInv'
<1> DEFINE l == [Found("packages") EXCEPT !.shown = @ \cup ListedOf(Parcel, parcel)]
<1>1. /\ Queried(l, "packages") /\ l.courses = lister.courses
      /\ l.shown = lister.shown \cup ListedOf(Parcel, parcel)
  BY DEF ListInv, ListerTypeOK, IsList, Fields, Found, Queried
<1>2. /\ lister' = l /\ lister.at = "content" /\ "packages" \in lister.left
      /\ UNCHANGED <<placing, exam, custom, unmoved>>
  BY DEF FindPackages, Read
<1> HIDE DEF l
<1>3. PlacingTypeOK' /\ (\A i : LiesIn(i)' = LiesIn(i)) /\ (\A c : DepartmentOf(c)' = DepartmentOf(c))
  BY <1>2, ReadMovesNothing
<1>4. ListerTypeOK'
  BY <1>1, <1>2, QueriedTypes DEF ListInv, ListerTypeOK
<1>5. ASSUME NEW i, NEW d
      PROVE  <<i, d>> \in lister'.shown <=>
               \/ <<i, d>> \in lister.shown
               \/ i \in Parcel /\ Within(parcel[i]) /\ d = Summary(parcel[i])
  BY <1>1, <1>2, ListedIs
<1>6. ASSUME NEW k \in Parcel
      PROVE  PackageShown(k)'
  <2>1. Unshown(k) /\ "packages" \notin lister'.left
    BY <1>1, <1>2 DEF ListInv, ShownSoFar, PackageShown, Queried
  <2>2. LiesIn(k)' = parcel[k] /\ parcel[k] \in Unit \cup {Nowhere}
    BY <1>3, LiesInIs DEF Lying, ListInv, PlacingTypeOK
  <2>3. Within(LiesIn(k))' <=> Within(parcel[k])
    BY <1>1, <1>2, <2>2 DEF Within, Queried
  <2>4. Within(parcel[k]) => Summary(parcel[k]) = parcel[k]
    BY <2>2, SummaryIs
  <2>5. ShownRight(k)'
    BY <1>5, <2>1, <2>2, <2>3, <2>4 DEF ShownRight, Unshown
  <2> QED
    BY <2>1, <2>5 DEF PackageShown
<1>7. ASSUME NEW i, i \notin Parcel
      PROVE  (Unshown(i) => Unshown(i)') /\ (ShownRight(i) => ShownRight(i)')
  <2>1. \A d : <<i, d>> \in lister'.shown <=> <<i, d>> \in lister.shown
    BY <1>5, <1>7
  <2>2. Within(LiesIn(i))' <=> Within(LiesIn(i))
    BY <1>1, <1>2, <1>3 DEF Within, Queried
  <2> QED
    BY <1>3, <2>1, <2>2 DEF Unshown, ShownRight
<1>8. ShownSoFar'
  <2>1. ASSUME NEW u \in Custom, CustomShown(u)
        PROVE  CustomShown(u)'
    BY <1>1, <1>2, <1>7, <2>1, ListsAssumption DEF CustomShown, Queried
  <2>2. ASSUME NEW x \in Exam, Unshown(x)
        PROVE  Unshown(x)'
    BY <1>7, <2>2, ListsAssumption
  <2> QED
    BY <1>1, <1>2, <1>6, <2>1, <2>2 DEF ListInv, ShownSoFar, Queried
<1>9. ASSUME NEW x \in Exam, lister.kind = "department", ReadSoFar(x)
      PROVE  ReadSoFar(x)'
  <2>1. Within(DepartmentOf(exam[x]))' <=> Within(DepartmentOf(exam[x]))
    BY <1>1, <1>2, <1>3 DEF Within, Queried
  <2>2. lister'.at \in {"content", "departments"}
    BY <1>1, <1>2, <1>9 DEF Queried
  <2>3. "courses" \in lister'.left <=> "courses" \in lister.left
    BY <1>1, <1>2 DEF Queried
  <2>4. lister'.at = "departments" => "courses" \notin lister'.left
    BY <1>1, <1>2 DEF Queried
  <2> QED
    BY <1>1, <1>2, <1>3, <1>9, <2>1, <2>2, <2>3, <2>4 DEF ReadSoFar, Queried, placing
<1> QED
  BY <1>1, <1>2, <1>3, <1>4, <1>8, <1>9 DEF ListInv, Queried

LEMMA FindCustomContentLists ==
  ASSUME ListInv, FindCustomContent
  PROVE  ListInv'
<1> DEFINE filed == {u \in Custom : custom[u] # Unfiled}
           l == [Found("custom") EXCEPT !.shown = @ \cup ListedOf(filed, custom)]
<1>1. /\ Queried(l, "custom") /\ l.courses = lister.courses
      /\ l.shown = lister.shown \cup ListedOf(filed, custom)
  BY DEF ListInv, ListerTypeOK, IsList, Fields, Found, Queried
<1>2. /\ lister' = l /\ lister.at = "content" /\ "custom" \in lister.left
      /\ UNCHANGED <<placing, exam, custom, unmoved>>
  BY DEF FindCustomContent, Read
<1> HIDE DEF l, filed
<1>3. PlacingTypeOK' /\ \A i : LiesIn(i)' = LiesIn(i)
  BY <1>2, ReadMovesNothing
<1>4. lister.kind = "content" /\ lister'.kind = "content"
  BY <1>1, <1>2 DEF ListInv, ListerTypeOK, Queried
<1>5. ListerTypeOK'
  BY <1>1, <1>2, QueriedTypes DEF ListInv, ListerTypeOK
<1>6. ASSUME NEW i, NEW d
      PROVE  <<i, d>> \in lister'.shown <=>
               \/ <<i, d>> \in lister.shown
               \/ i \in filed /\ Within(custom[i]) /\ d = Summary(custom[i])
  <2>1. <<i, d>> \in ListedOf(filed, custom) <=>
          i \in filed /\ Within(custom[i]) /\ d = Summary(custom[i])
    BY ListedIs
  <2> QED
    BY <1>1, <1>2, <2>1
<1>7. ASSUME NEW u \in Custom, custom[u] # Unfiled
      PROVE  CustomShown(u)'
  <2>1. Unshown(u) /\ "custom" \notin lister'.left
    BY <1>1, <1>2, <1>4 DEF ListInv, ShownSoFar, CustomShown, Queried
  <2>2. LiesIn(u)' = custom[u] /\ custom[u] \in Unit \cup {Nowhere}
    BY <1>3, <1>7, LiesInIs DEF Lying, ListInv, PlacingTypeOK
  <2>3. Within(LiesIn(u))' <=> Within(custom[u])
    BY <1>1, <1>2, <2>2 DEF Within, Queried
  <2>4. Within(custom[u]) => Summary(custom[u]) = custom[u]
    BY <2>2, SummaryIs
  <2>5. ShownRight(u)'
    BY <1>6, <1>7, <2>1, <2>2, <2>3, <2>4 DEF ShownRight, Unshown, filed
  <2> QED
    BY <2>1, <2>5 DEF CustomShown
<1>8. ASSUME NEW u \in Custom, custom[u] = Unfiled
      PROVE  CustomShown(u)'
  BY <1>1, <1>2, <1>8 DEF CustomShown, Queried
<1>9. ASSUME NEW k \in Parcel, PackageShown(k)
      PROVE  PackageShown(k)'
  <2>1. \A d : <<k, d>> \in lister'.shown <=> <<k, d>> \in lister.shown
    BY <1>6, ListsAssumption DEF filed
  <2>2. Within(LiesIn(k))' <=> Within(LiesIn(k))
    BY <1>1, <1>2, <1>3 DEF Within, Queried
  <2> QED
    BY <1>1, <1>2, <1>3, <1>9, <2>1, <2>2 DEF PackageShown, Unshown, ShownRight, Queried
<1>10. ASSUME NEW x \in Exam, Unshown(x)
       PROVE  Unshown(x)'
  BY <1>6, <1>10, ListsAssumption DEF Unshown, filed
<1>11. ShownSoFar'
  BY <1>1, <1>2, <1>7, <1>8, <1>9, <1>10 DEF ListInv, ShownSoFar, Queried
<1> QED
  BY <1>3, <1>4, <1>5, <1>11 DEF ListInv

LEMMA FindCoursesLists ==
  ASSUME ListInv, FindCourses
  PROVE  ListInv'
<1> DEFINE found == [c \in {d \in Course : CourseFound(d)} |-> course[c]]
           l == [Found("courses") EXCEPT !.courses = found]
<1>1. /\ Queried(l, "courses") /\ l.courses = found /\ l.shown = lister.shown
  BY DEF ListInv, ListerTypeOK, IsList, Fields, Found, Queried
<1>2. /\ lister' = l /\ lister.at = "content" /\ "courses" \in lister.left
      /\ UNCHANGED <<placing, exam, custom, unmoved>>
  BY DEF FindCourses, Read
<1> HIDE DEF l
<1>3. PlacingTypeOK' /\ (\A i : LiesIn(i)' = LiesIn(i)) /\ (\A c : DepartmentOf(c)' = DepartmentOf(c))
  BY <1>2, ReadMovesNothing
<1>4. lister.kind = "department" /\ lister'.kind = "department"
  BY <1>1, <1>2 DEF ListInv, ListerTypeOK, Queried
<1>5. ListerTypeOK'
  BY <1>1, <1>2, <1>4, QueriedTypes
<1>6. ShownSoFar'
  BY <1>1, <1>2, <1>3, <1>4
  DEF ListInv, ShownSoFar, PackageShown, Unshown, ShownRight, Within, Queried
<1>7. ASSUME NEW x \in Exam, exam[x] # Unfiled, ReadSoFar(x)
      PROVE  ReadSoFar(x)'
  <2>1. /\ exam[x] \in Course /\ course[exam[x]] \in Program
        /\ DepartmentOf(exam[x]) = program[course[exam[x]]]
    BY <1>7 DEF ListInv, PlacingTypeOK, DepartmentOf
  <2>2. Within(DepartmentOf(exam[x]))' <=> Within(DepartmentOf(exam[x]))
    BY <1>1, <1>2, <1>3 DEF Within, Queried
  <2>3. CourseFound(exam[x]) <=> Within(DepartmentOf(exam[x]))
    BY <1>2, <1>7, <2>1, ContentAssumption DEF ReadSoFar, CourseFound, Within
  <2>4. /\ exam[x] \in DOMAIN lister'.courses <=> CourseFound(exam[x])
        /\ exam[x] \in DOMAIN lister'.courses => lister'.courses[exam[x]] = course[exam[x]]
    BY <1>1, <1>2, <2>1
  <2>5. lister'.at \in {"content", "departments"} /\ "courses" \notin lister'.left
    BY <1>1, <1>2, <1>4 DEF Queried
  <2> QED
    BY <1>2, <2>2, <2>3, <2>4, <2>5 DEF ReadSoFar, placing
<1> QED
  BY <1>2, <1>3, <1>4, <1>5, <1>6, <1>7 DEF ListInv

LEMMA FindDepartmentsLists ==
  ASSUME ListInv, FindDepartments
  PROVE  ListInv'
<1> DEFINE found == [c \in DOMAIN lister.courses |-> program[lister.courses[c]]]
           l == [lister EXCEPT !.at = "exams", !.courses = found]
<1>1. /\ IsList(l) /\ l.at = "exams" /\ l.courses = found
      /\ l.kind = lister.kind /\ l.every = lister.every /\ l.within = lister.within
      /\ l.left = lister.left /\ l.shown = lister.shown
  BY DEF ListInv, ListerTypeOK, IsList, Fields
<1>2. lister' = l /\ lister.at = "departments" /\ UNCHANGED <<placing, exam, custom, unmoved>>
  BY DEF FindDepartments, Read, ListInv, ListerTypeOK, IsList, Fields
<1> HIDE DEF l
<1>3. PlacingTypeOK' /\ (\A i : LiesIn(i)' = LiesIn(i)) /\ (\A c : DepartmentOf(c)' = DepartmentOf(c))
  BY <1>2, ReadMovesNothing
<1>4. lister.kind = "department" /\ lister.left = {}
  BY <1>2 DEF ListInv, ListerTypeOK
<1>5. ListerTypeOK'
  BY <1>1, <1>2, <1>4 DEF ListInv, ListerTypeOK
<1>6. ShownSoFar'
  BY <1>1, <1>2, <1>3, <1>4 DEF ListInv, ShownSoFar, PackageShown, Unshown, ShownRight, Within
<1>7. ASSUME NEW x \in Exam, exam[x] # Unfiled, ReadSoFar(x)
      PROVE  ReadSoFar(x)'
  <2>1. DepartmentOf(exam[x]) = program[course[exam[x]]]
    BY <1>7 DEF ListInv, PlacingTypeOK, DepartmentOf
  <2>2. Within(DepartmentOf(exam[x]))' <=> Within(DepartmentOf(exam[x]))
    BY <1>1, <1>2, <1>3 DEF Within
  <2>3. /\ exam[x] \in DOMAIN lister.courses <=> Within(DepartmentOf(exam[x]))
        /\ exam[x] \in DOMAIN lister.courses => lister.courses[exam[x]] = course[exam[x]]
    BY <1>2, <1>4, <1>7 DEF ReadSoFar
  <2>4. /\ exam[x] \in DOMAIN lister'.courses <=> Within(DepartmentOf(exam[x]))
        /\ exam[x] \in DOMAIN lister'.courses =>
             lister'.courses[exam[x]] = DepartmentOf(exam[x])
    BY <1>1, <1>2, <2>1, <2>3
  <2> QED
    BY <1>1, <1>2, <1>3, <2>2, <2>4 DEF ReadSoFar
<1> QED
  BY <1>1, <1>2, <1>3, <1>5, <1>6, <1>7 DEF ListInv

LEMMA FindExamsLists ==
  ASSUME ListInv, FindExams
  PROVE  ListInv'
<1> DEFINE examined == {<<x, DepartmentShown(x)>> : x \in ExamsFound}
           l == [lister EXCEPT !.at = "answered", !.shown = @ \cup examined]
<1>1. /\ IsList(l) /\ l.at = "answered" /\ l.shown = lister.shown \cup examined
      /\ l.kind = lister.kind /\ l.every = lister.every /\ l.within = lister.within
      /\ l.left = lister.left /\ l.courses = lister.courses
  BY DEF ListInv, ListerTypeOK, IsList, Fields
<1>2. lister' = l /\ lister.at = "exams" /\ UNCHANGED <<placing, exam, custom, unmoved>>
  BY DEF FindExams, Read
<1> HIDE DEF l
<1>3. PlacingTypeOK' /\ \A i : LiesIn(i)' = LiesIn(i)
  BY <1>2, ReadMovesNothing
<1>4. lister.kind = "department" /\ lister.left = {}
  BY <1>2 DEF ListInv, ListerTypeOK
<1>5. ListerTypeOK'
  BY <1>1, <1>2, <1>4 DEF ListInv, ListerTypeOK
<1>6. ASSUME NEW i, NEW d
      PROVE  <<i, d>> \in lister'.shown <=>
               <<i, d>> \in lister.shown \/ (i \in ExamsFound /\ d = DepartmentShown(i))
  BY <1>1, <1>2
<1> HIDE DEF examined
<1>7. ShownSoFar'
  <2>1. ASSUME NEW k \in Parcel, PackageShown(k)
        PROVE  PackageShown(k)'
    <3>1. k \notin ExamsFound
      BY ListsAssumption DEF ExamsFound
    <3> QED
      BY <1>1, <1>2, <1>3, <1>6, <2>1, <3>1 DEF PackageShown, Unshown, ShownRight, Within
  <2> QED
    BY <1>1, <1>2, <1>4, <2>1 DEF ListInv, ShownSoFar
<1>8. ASSUME NEW x \in Exam, exam[x] # Unfiled, ReadSoFar(x)
      PROVE  ReadSoFar(x)'
  <2>1. SUFFICES ASSUME DOMAIN lister.courses # {} PROVE ShownRight(x)'
    BY <1>1, <1>2 DEF ReadSoFar
  <2>2. /\ exam[x] \in DOMAIN lister.courses <=> Within(DepartmentOf(exam[x]))
        /\ exam[x] \in DOMAIN lister.courses =>
             lister.courses[exam[x]] = DepartmentOf(exam[x])
    BY <1>2, <1>8 DEF ReadSoFar
  <2>3. LiesIn(x)' = DepartmentOf(exam[x]) /\ DepartmentOf(exam[x]) \in Unit \cup {Nowhere}
    BY <1>3, <1>8, LiesInIs DEF Lying, ListInv, PlacingTypeOK, DepartmentOf
  <2>4. Within(LiesIn(x))' <=> Within(DepartmentOf(exam[x]))
    BY <1>1, <1>2, <2>3 DEF Within
  <2>5. x \in ExamsFound <=> Within(DepartmentOf(exam[x]))
    BY <1>8, <2>1, <2>2 DEF ExamsFound
  <2>6. Within(DepartmentOf(exam[x])) => DepartmentShown(x) = DepartmentOf(exam[x])
    BY <2>2, <2>3, SummaryIs DEF DepartmentShown
  <2>7. Unshown(x)
    BY <1>2 DEF ListInv, ShownSoFar
  <2> QED
    BY <1>6, <2>3, <2>4, <2>5, <2>6, <2>7 DEF ShownRight, Unshown
<1> QED
  BY <1>1, <1>2, <1>3, <1>5, <1>7, <1>8 DEF ListInv

(* The list shows nothing wrong of what has not moved since it began:      *)
(* ListInv says what it has read after each of its queries.                *)
THEOREM ListsCorrect == ListsSpec => []ListInv
<1>1. ListInv /\ [ListsNext]_<<placing, listing>> => ListInv'
  <2> SUFFICES ASSUME ListInv, [ListsNext]_<<placing, listing>> PROVE ListInv'
    OBVIOUS
  <2>1. CASE UNCHANGED <<placing, listing>>
    <3>1. PlacingTypeOK' /\ (\A i : LiesIn(i)' = LiesIn(i)) /\ (\A c : DepartmentOf(c)' = DepartmentOf(c))
      BY <2>1, ReadMovesNothing DEF listing
    <3>2. ListerTypeOK' /\ ShownSoFar'
      BY <2>1, <3>1
      DEF listing, ListInv, ListerTypeOK, ShownSoFar, PackageShown, CustomShown, Unshown, ShownRight, Within
    <3>3. ASSUME NEW x \in Exam, ReadSoFar(x)
          PROVE  ReadSoFar(x)'
      BY <2>1, <3>1, <3>3 DEF listing, placing, ReadSoFar, ShownRight, Within
    <3> QED
      BY <2>1, <3>1, <3>2, <3>3 DEF listing, ListInv
  <2>2. CASE /\ FilingStep /\ UNCHANGED lister
             /\ unmoved' = {i \in unmoved : Whereabouts(i)' = Whereabouts(i)}
    BY <2>2, FilingStepLists
  <2>3. ASSUME NEW kind \in {"department", "content"}, NEW every \in BOOLEAN,
               NEW within \in SUBSET Unit, StartList(kind, every, within)
        PROVE  ListInv'
    BY <2>3, StartListLists
  <2>4. CASE FindPrograms \/ FindPackages \/ FindCustomContent
    BY <2>4, FindProgramsLists, FindPackagesLists, FindCustomContentLists
  <2>5. CASE FindCourses \/ FindDepartments \/ FindExams \/ EndList
    BY <2>5, FindCoursesLists, FindDepartmentsLists, FindExamsLists, EndListLists
  <2> QED
    BY <2>1, <2>2, <2>3, <2>4, <2>5 DEF ListsNext
<1> QED
  BY <1>1, InitListInv, PTL DEF ListsSpec

(* Whatever moves while a list is made, what does not move is listed       *)
(* exactly when it lies in the departments asked for                       *)
(* (departmentResourcesCtrl.ts:374-470; contentCtrl.ts:130-170).           *)
THEOREM ListedWhereItLiesCorrect == ListsSpec => []ListedWhereItLies
<1>1. ListInv => ListedWhereItLies
  <2> SUFFICES ASSUME ListInv, lister.at = "answered" PROVE ListedWhereItLies
    BY DEF ListedWhereItLies
  <2>1. lister.left = {} /\ (lister.kind = "content" => DOMAIN lister.courses = {})
    BY DEF ListInv, ListerTypeOK
  <2>2. /\ \A k \in Parcel \cap unmoved : ShownRight(k)
        /\ lister.kind = "content" => \A u \in Custom \cap unmoved : custom[u] # Unfiled => ShownRight(u)
    BY <2>1 DEF ListInv, ShownSoFar, PackageShown, CustomShown
  <2>3. DOMAIN lister.courses # {} => \A x \in Exam \cap unmoved : exam[x] # Unfiled => ShownRight(x)
    BY <2>1 DEF ListInv, ListerTypeOK, ReadSoFar
  <2> QED
    BY <2>2, <2>3 DEF ListedWhereItLies, ShownRight
<1> QED
  BY <1>1, ListsCorrect, PTL

===============================================================================
