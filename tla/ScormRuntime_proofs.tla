------------------------- MODULE ScormRuntime_proofs -------------------------
(***************************************************************************)
(* Proofs about ScormRuntime, for every set of pages, timers, elements and *)
(* values, for both stores and for every choice of faults; then about      *)
(* ScormAdapter over it, and the player's page: the adapter adds no        *)
(* behaviour to the runtime, its objects agree with the requests they have *)
(* in flight, and a value content has set stays in the page's cache until  *)
(* the attempt has it.                                                     *)
(***************************************************************************)
EXTENDS ScormPlayer, TLAPS

(* The empty CMI data, and what SetValue puts over CMI data, is CMI data. *)
LEMMA NoCellsType == NoCells \in Cells
BY DEF NoCells, Cells

LEMMA OverlayType ==
  ASSUME NEW cmi \in Cells, NEW pend \in Cells
  PROVE  Overlay(cmi, pend) \in Cells
BY DEF Overlay, Cells

LEMMA NewAttemptType == NewAttempt \in Attempt
BY NoCellsType DEF NewAttempt, Attempt, Status

(* calculateCompletion leaves a status of the schema's enumeration. *)
LEMMA CalculateCompletionType ==
  ASSUME NEW status \in Status, NEW cmi
  PROVE  CalculateCompletion(status, cmi) \in Status
BY DEF CalculateCompletion, Status

(* What the handlers make of an attempt is an attempt. *)
LEMMA EditedType ==
  ASSUME NEW c \in Call
  PROVE  Edited(c) \in Attempt
<1>1. c.base \in Attempt /\ c.pend \in Cells
  BY DEF Call
<1>2. /\ c.base = [status |-> c.base.status, cmi |-> c.base.cmi, done |-> c.base.done]
      /\ c.base.status \in Status
      /\ c.base.cmi \in Cells
      /\ c.base.done \in BOOLEAN
  BY <1>1 DEF Attempt
<1>3. Initialized(c.base) \in Attempt
  BY <1>2, <1>1 DEF Initialized, Attempt, Status
<1> DEFINE cmi == Overlay(c.base.cmi, c.pend)
<1>4. cmi \in Cells
  BY <1>1, <1>2, OverlayType
<1>5. ASSUME NEW s \in Status
      PROVE  Stamped(s, cmi, c.base.done) \in Attempt
  BY <1>2, <1>4 DEF Stamped, Attempt
<1>6. Committed(c.base, c.pend) \in Attempt
  BY <1>2, <1>5, CalculateCompletionType DEF Committed, Status
<1>7. Finished(c.base, c.pend) \in Attempt
  BY <1>2, <1>5, CalculateCompletionType DEF Finished, Status
<1>8. QED
  BY <1>1, <1>3, <1>6, <1>7 DEF Edited

-------------------------------------------------------------------------------
(* Type correctness. *)

(* The record of a process that has no request in flight. *)
LEMMA NoCallType == NoCall \in Call
BY NoCellsType, NewAttemptType DEF NoCall, Call, NoSession, Session, Step

(* The changes a handler makes to its own request keep it a request. *)
LEMMA GotoType ==
  ASSUME TypeOK, NEW p \in Procs, NEW step \in Step, Goto(p, step)
  PROVE  call' \in [Procs -> Call]
<1>1. NoSession \in Session
  BY NoCellsType DEF NoSession, Session
<1>2. [call[p] EXCEPT !.at = step, !.held = NoSession] \in Call
  BY <1>1 DEF TypeOK, Call
<1>3. QED
  BY <1>2 DEF TypeOK, Goto

LEMMA FinishType ==
  ASSUME TypeOK, NEW p \in Procs, NEW r \in {"none", "true", "false", "failed"}, Finish(p, r)
  PROVE  call' \in [Procs -> Call]
<1>1. [NoCall EXCEPT !.op = call[p].op, !.reply = r] \in Call
  BY NoCallType DEF TypeOK, Call
<1>2. QED
  BY <1>1 DEF TypeOK, Finish

LEMMA BeginType ==
  ASSUME TypeOK, NEW p \in Procs, NEW op \in Operations \cup {"beat"}, NEW step \in Step,
         Begin(p, op, step)
  PROVE  TypeOK'
<1>1. [NoCall EXCEPT !.op = op, !.at = step, !.base = attempt] \in Call
  BY NoCallType DEF TypeOK, Call
<1>2. QED
  BY <1>1 DEF TypeOK, Begin, documents

LEMMA FetchType ==
  ASSUME TypeOK, NEW p \in Procs, Fetch(p)
  PROVE  TypeOK'
<1>1. [call[p] EXCEPT !.held = sess] \in Call
  BY DEF TypeOK, Call
<1>2. QED
  BY <1>1 DEF TypeOK, Fetch, documents

LEMMA HeldType ==
  ASSUME TypeOK, NEW p \in Procs
  PROVE  Held(p) \in Session
BY DEF TypeOK, Held, Call

(* What the store holds and what is written to it is a session. *)
LEMMA SessionTypes ==
  /\ NoSession \in Session
  /\ FreshSession \in Session
  /\ \A s \in Session : /\ [s EXCEPT !.pending = NoCells] \in Session
                       /\ \A status \in {"active", "terminated", "timeout"} :
                            [s EXCEPT !.status = status] \in Session
BY NoCellsType DEF NoSession, FreshSession, Session

LEMMA CellType ==
  ASSUME NEW cells \in Cells, NEW e
  PROVE  Cell(cells, e) \in AnyValue \cup {NoValue}
BY DEF Cell, Cells

(* getPendingCMI, and what each operation makes of the pending values. *)
LEMMA PeekType ==
  ASSUME TypeOK, NEW p \in Procs, Peek(p)
  PROVE  TypeOK'
<1>0. SUFFICES call' \in [Procs -> Call]
  BY DEF Peek, TypeOK, documents
<1> DEFINE c == call[p]
<1>1. c \in Call /\ sess.pending \in Cells
  BY DEF TypeOK, Session
<1>2. Stored(c) \in AnyValue \cup {NoValue}
  BY <1>1, CellType DEF Call, Attempt, Stored
<1>3. Cell(sess.pending, c.elem) \in AnyValue \cup {NoValue}
  BY <1>1, CellType
<1>4. ASSUME NEW d \in Call, call' = [call EXCEPT ![p] = d]
      PROVE  call' \in [Procs -> Call]
  BY <1>4 DEF TypeOK
<1>5. CASE c.op = "commit" /\ sess.pending = NoCells
  BY <1>5, FinishType DEF Peek
<1>6. CASE c.op = "commit" /\ sess.pending # NoCells
  <2> DEFINE d == [c EXCEPT !.at = "save", !.pend = sess.pending]
  <2>1. d \in Call
    BY <1>1 DEF Call, Step
  <2>2. call' = [call EXCEPT ![p] = d]
    BY <1>6 DEF Peek
  <2> HIDE DEF d
  <2> QED
    BY <1>4, <2>1, <2>2
<1>7. CASE c.op = "terminate"
  <2> DEFINE d == [c EXCEPT !.at = IF sess.pending = NoCells THEN "save" ELSE "clear",
                            !.pend = sess.pending]
  <2>1. d \in Call
    BY <1>1 DEF Call, Step
  <2>2. call' = [call EXCEPT ![p] = d]
    BY <1>7 DEF Peek
  <2> HIDE DEF d
  <2> QED
    BY <1>4, <2>1, <2>2
<1>8. CASE c.op = "get" /\ Cell(sess.pending, c.elem) # NoValue
  <2> DEFINE d == [NoCall EXCEPT !.op = "get", !.reply = "true",
                                 !.elem = c.elem, !.val = Cell(sess.pending, c.elem)]
  <2>1. d \in Call
    BY <1>1, <1>3, NoCallType DEF Call, Operations
  <2>2. call' = [call EXCEPT ![p] = d]
    BY <1>8 DEF Peek
  <2> HIDE DEF d
  <2> QED
    BY <1>4, <2>1, <2>2
<1>9. CASE c.op = "get" /\ Cell(sess.pending, c.elem) = NoValue
  <2> DEFINE d == [c EXCEPT !.at = "save", !.val = Stored(c)]
  <2>1. d \in Call
    BY <1>1, <1>2 DEF Call, Step
  <2>2. call' = [call EXCEPT ![p] = d]
    BY <1>9 DEF Peek
  <2> HIDE DEF d
  <2> QED
    BY <1>4, <2>1, <2>2
<1>10. c.op \in {"commit", "terminate", "get"}
  BY DEF Peek
<1> HIDE DEF c
<1> QED
  BY <1>5, <1>6, <1>7, <1>8, <1>9, <1>10

LEMMA PutCellType ==
  ASSUME NEW cells \in Cells, NEW e \in Elements \cup {NoValue}, NEW v \in AnyValue \cup {NoValue}
  PROVE  [cells EXCEPT ![e] = v] \in Cells
BY DEF Cells

LEMMA InitType == Init => TypeOK
BY NoCellsType, NewAttemptType, NoCallType, SessionTypes
DEF Init, TypeOK, ContentStatus, ProgressStatus

THEOREM TypeCorrect == Spec => []TypeOK
<1>1. Init => TypeOK
  BY InitType
<1>2. TypeOK /\ [Next]_vars => TypeOK'
  <2> SUFFICES ASSUME TypeOK, [Next]_vars PROVE TypeOK'
    OBVIOUS
  <2> USE DEF documents
  <2>1. ASSUME NEW p \in Pages, Request(p) PROVE TypeOK'
    <3> p \in Procs
      BY DEF Procs
    <3>1. CASE StartInitialize(p)
      BY <3>1, BeginType DEF StartInitialize, Operations, Step
    <3>2. CASE StartCommit(p)
      BY <3>2, BeginType DEF StartCommit, Operations, Step
    <3>3. CASE StartTerminate(p)
      BY <3>3, BeginType DEF StartTerminate, Operations, Step
    <3>4. CASE StartReject(p)
      BY <3>4, BeginType DEF StartReject, Operations, Step
    <3>5. CASE StartSet(p)
      <4>1. PICK e \in Elements : \E v \in Values[e] :
              call' = [call EXCEPT ![p] = [NoCall EXCEPT !.op = "set", !.at = "add",
                                             !.elem = e, !.val = v, !.base = attempt]]
        BY <3>5 DEF StartSet, StartSetOf
      <4>2. PICK v \in Values[e] :
              call' = [call EXCEPT ![p] = [NoCall EXCEPT !.op = "set", !.at = "add",
                                             !.elem = e, !.val = v, !.base = attempt]]
        BY <4>1
      <4>3. v \in AnyValue
        BY DEF AnyValue
      <4>4. [NoCall EXCEPT !.op = "set", !.at = "add",
                           !.elem = e, !.val = v, !.base = attempt] \in Call
        BY <4>3, NoCallType DEF TypeOK, Call, Operations, Step
      <4>5. QED
        BY <3>5, <4>2, <4>4 DEF StartSet, StartSetOf, TypeOK
    <3>6. CASE StartGet(p)
      <4>1. PICK e \in Elements :
              call' = [call EXCEPT ![p] = [NoCall EXCEPT !.op = "get", !.at = "peek",
                                             !.elem = e, !.base = attempt]]
        BY <3>6 DEF StartGet
      <4>2. [NoCall EXCEPT !.op = "get", !.at = "peek",
                           !.elem = e, !.base = attempt] \in Call
        BY NoCallType DEF TypeOK, Call, Operations, Step
      <4>3. QED
        BY <3>6, <4>1, <4>2 DEF StartGet, TypeOK
    <3>7. QED
      BY <2>1, <3>1, <3>2, <3>3, <3>4, <3>5, <3>6 DEF Request
  <2>2. ASSUME NEW p \in Timers, StartBeat(p) PROVE TypeOK'
    BY <2>2, BeginType DEF StartBeat, Procs, Step
  <2>3. ASSUME NEW p \in Procs, Advance(p) PROVE TypeOK'
    <3> USE SessionTypes, HeldType DEF Step
    <3>1. CASE CreateSession(p)
      <4>1. call' \in [Procs -> Call]
        BY <3>1, GotoType DEF CreateSession
      <4>2. QED
        BY <3>1, <4>1, NoCellsType DEF CreateSession, TypeOK
    <3>2. CASE AddPending(p)
      <4>1. CASE Fetch(p)
        BY <4>1, FetchType
      <4>2. CASE ~Fetch(p) /\ Present(Held(p)) /\ Goto(p, "ack")
        <5>1. call[p].elem \in Elements \cup {NoValue} /\ call[p].val \in AnyValue \cup {NoValue}
          BY DEF TypeOK, Call
        <5>2. [Held(p) EXCEPT !.pending[call[p].elem] = call[p].val] \in Session
          <6>1. /\ Held(p) \in [status : {"none", "active", "terminated", "timeout"}, pending : Cells]
                /\ Held(p).status # "none"
            BY <4>2 DEF Session, Present
          <6>2. [Held(p).pending EXCEPT ![call[p].elem] = call[p].val] \in Cells
            BY <5>1, <6>1, PutCellType
          <6>3. QED
            BY <6>1, <6>2 DEF Session
        <5>3. [accepted EXCEPT ![call[p].elem] = call[p].val] \in Cells
          BY <5>1, PutCellType DEF TypeOK
        <5>4. QED
          BY <3>2, <4>2, <5>2, <5>3, GotoType DEF AddPending, TypeOK
      <4>3. CASE /\ call' = [call EXCEPT ![p].at = IF call[p].lazy THEN "error" ELSE "create",
                                         ![p].lazy = TRUE]
                 /\ UNCHANGED <<sess, stale, documents, accepted>>
        <5> DEFINE c == [call[p] EXCEPT !.at = IF call[p].lazy THEN "error" ELSE "create",
                                         !.lazy = TRUE]
        <5>1. c \in Call
          BY DEF TypeOK, Call
        <5>2. call' = [call EXCEPT ![p] = c] /\ UNCHANGED <<sess, stale, documents, accepted>>
          BY <4>3
        <5> HIDE DEF c
        <5>3. call' \in [Procs -> Call]
          BY <5>1, <5>2 DEF TypeOK
        <5>4. QED
          BY <5>2, <5>3 DEF TypeOK, documents
      <4>4. QED
        BY <3>2, <4>1, <4>2, <4>3 DEF AddPending
    <3>3. CASE SetSessionError(p)
      BY <3>3, FetchType, GotoType, FinishType DEF SetSessionError, TypeOK
    <3>4. CASE ClearPending(p)
      BY <3>4, FetchType, GotoType DEF ClearPending, TypeOK
    <3>5. CASE EndSession(p)
      BY <3>5, FetchType, FinishType DEF EndSession, TypeOK
    <3>6. CASE Heartbeat(p)
      BY <3>6, FetchType, GotoType, FinishType DEF Heartbeat, TypeOK
    <3>7. CASE FindSession(p)
      BY <3>7, GotoType, FinishType DEF FindSession, Found, NotFound, TypeOK
    <3>8. CASE CheckTtl(p)
      BY <3>8, GotoType, FinishType DEF CheckTtl, Found, TypeOK
    <3>9. CASE TimeOut(p)
      BY <3>9, FetchType, FinishType DEF TimeOut, NotFound, TypeOK
    <3>10. CASE Peek(p)
      BY <3>10, PeekType
    <3>11. CASE SaveAttempt(p)
      <4>1. call[p] \in Call
        BY DEF TypeOK
      <4>2. Edited(call[p]) \in Attempt
        BY <4>1, EditedType
      <4>3. Saved(call[p]) \in Attempt
        BY <4>1, <4>2 DEF TypeOK, Saved, Attempt
      <4>4. [call[p] EXCEPT !.at = "sync", !.base = Edited(call[p])] \in Call
        BY <4>1, <4>2 DEF Call
      <4>5. QED
        BY <3>11, <4>3, <4>4 DEF SaveAttempt, TypeOK
    <3>12. CASE SaveFails(p)
      BY <3>12, GotoType, FinishType DEF SaveFails, TypeOK
    <3>13. CASE SyncContent(p)
      <4>1. content' \in ContentStatus
        BY <3>13 DEF SyncContent, TypeOK, ContentStatus, MapStatus
      <4>2. [NoCall EXCEPT !.op = "get", !.reply = "true",
                           !.elem = call[p].elem, !.val = call[p].val] \in Call
        BY NoCallType DEF TypeOK, Call, Operations
      <4>3. \/ \E step \in Step : Goto(p, step)
            \/ Finish(p, "true")
            \/ call' = [call EXCEPT ![p] = [NoCall EXCEPT !.op = "get", !.reply = "true",
                                               !.elem = call[p].elem, !.val = call[p].val]]
        BY <3>13 DEF SyncContent
      <4>4. call' \in [Procs -> Call]
        BY <4>2, <4>3, GotoType, FinishType DEF TypeOK
      <4>5. QED
        BY <3>13, <4>1, <4>4 DEF SyncContent, TypeOK
    <3>14. CASE PersistProgress(p)
      <4>1. progress' \in ProgressStatus
        BY <3>14 DEF PersistProgress, TypeOK, ProgressStatus, MapScormStatus
      <4>2. call' \in [Procs -> Call]
        BY <3>14, GotoType, FinishType DEF PersistProgress
      <4>3. QED
        BY <3>14, <4>1, <4>2 DEF PersistProgress, TypeOK
    <3>15. QED
      BY <2>3, <3>1, <3>2, <3>3, <3>4, <3>5, <3>6, <3>7, <3>8, <3>9, <3>10, <3>11, <3>12,
         <3>13, <3>14 DEF Advance
  <2>4. ASSUME NEW p \in Procs, SessionFails(p) PROVE TypeOK'
    BY <2>4, GotoType DEF SessionFails, Step, TypeOK
  <2>5. ASSUME NEW p \in Procs, Abort(p) PROVE TypeOK'
    BY <2>5, FinishType DEF Abort, TypeOK
  <2>6. CASE Restart
    <3>1. \A p \in Procs : [NoCall EXCEPT !.op = call[p].op, !.reply = "failed"] \in Call
      BY NoCallType DEF TypeOK, Call
    <3>2. QED
      BY <2>6, <3>1, NoCellsType, SessionTypes DEF Restart, TypeOK
  <2>7. CASE Expire
    BY <2>7, NoCellsType, SessionTypes DEF Expire, TypeOK
  <2>8. CASE UNCHANGED vars
    BY <2>8 DEF vars, TypeOK
  <2>9. QED
    BY <2>1, <2>2, <2>3, <2>4, <2>5, <2>6, <2>7, <2>8 DEF Next
<1>3. QED
  BY <1>1, <1>2, PTL DEF Spec

-------------------------------------------------------------------------------
(* No report is ahead of the attempt.  The invariant is made inductive by   *)
(* what every handler knows of the document it loaded: that it was stamped  *)
(* if it was final, and that stamps are never removed, so that a stale      *)
(* document is at most as far as the stored one.                           *)

StampedOnce(a) == a.status \in Final => a.done

ReportsInv ==
  /\ TypeOK
  /\ ReportsNeverAhead
  /\ \A p \in Procs : StampedOnce(call[p].base) /\ (call[p].base.done => attempt.done)

(* Every handler leaves a final document stamped, and keeps the stamp. *)
LEMMA EditedStamped ==
  ASSUME NEW c \in Call, StampedOnce(c.base)
  PROVE  StampedOnce(Edited(c)) /\ (c.base.done => Edited(c).done)
<1>1. StampedOnce(Initialized(c.base)) /\ (c.base.done => Initialized(c.base).done)
  BY DEF StampedOnce, Initialized, Call, Attempt, Final
<1>2. ASSUME NEW status, NEW cmi
      PROVE  LET a == Stamped(status, cmi, c.base.done)
             IN  StampedOnce(a) /\ (c.base.done => a.done)
  BY DEF Stamped, StampedOnce
<1>3. StampedOnce(Committed(c.base, c.pend)) /\ (c.base.done => Committed(c.base, c.pend).done)
  BY <1>2 DEF Committed
<1>4. StampedOnce(Finished(c.base, c.pend)) /\ (c.base.done => Finished(c.base, c.pend).done)
  BY <1>2 DEF Finished
<1>5. QED
  BY <1>1, <1>3, <1>4 DEF Edited

(* A step that leaves the documents alone, and gives a request no document  *)
(* but the stored one or a new one, keeps the invariant.                   *)
LEMMA DocumentsKept ==
  ASSUME ReportsInv, TypeOK', UNCHANGED documents,
         \A p \in Procs : call'[p].base \in {call[p].base, attempt, NewAttempt}
  PROVE  ReportsInv'
BY DEF ReportsInv, ReportsNeverAhead, documents, StampedOnce, NewAttempt, Final

LEMMA BeginBase ==
  ASSUME TypeOK, NEW p, NEW op, NEW step, Begin(p, op, step)
  PROVE  \A q \in Procs : call'[q].base \in {call[q].base, attempt}
BY DEF Begin, TypeOK, NoCall

LEMMA GotoBase ==
  ASSUME TypeOK, NEW p \in Procs, NEW step, Goto(p, step)
  PROVE  \A q \in Procs : call'[q].base = call[q].base
BY DEF Goto, TypeOK, Call

LEMMA FinishBase ==
  ASSUME TypeOK, NEW p \in Procs, NEW r, Finish(p, r)
  PROVE  \A q \in Procs : call'[q].base \in {call[q].base, NewAttempt}
BY DEF Finish, TypeOK, Call, NoCall

LEMMA FetchBase ==
  ASSUME TypeOK, NEW p \in Procs, Fetch(p)
  PROVE  UNCHANGED documents /\ \A q \in Procs : call'[q].base = call[q].base
BY DEF Fetch, TypeOK, Call

THEOREM ReportsCorrect == Spec => []ReportsNeverAhead
<1>1. Init => ReportsInv
  BY InitType DEF Init, ReportsInv, ReportsNeverAhead, StampedOnce, NoCall, NewAttempt, Final
<1>2. ReportsInv /\ TypeOK' /\ [Next]_vars => ReportsInv'
  <2> SUFFICES ASSUME ReportsInv, TypeOK', [Next]_vars PROVE ReportsInv'
    OBVIOUS
  <2> TypeOK
    BY DEF ReportsInv
  <2>1. ASSUME NEW p \in Pages, Request(p) PROVE ReportsInv'
    <3>1. UNCHANGED documents
      BY <2>1 DEF Request, StartInitialize, StartCommit, StartTerminate, StartReject,
                  StartSet, StartSetOf, StartGet, Begin
    <3>2. ASSUME StartSet(p) \/ StartGet(p)
          PROVE  \A q \in Procs : call'[q].base \in {call[q].base, attempt}
      BY <3>2 DEF StartSet, StartSetOf, StartGet, TypeOK, NoCall
    <3>3. \A q \in Procs : call'[q].base \in {call[q].base, attempt}
      BY <2>1, <3>2, BeginBase DEF Request, StartInitialize, StartCommit, StartTerminate, StartReject
    <3>4. QED
      BY <3>1, <3>3, DocumentsKept
  <2>2. ASSUME NEW p \in Timers, StartBeat(p) PROVE ReportsInv'
    <3>1. \A q \in Procs : call'[q].base \in {call[q].base, attempt}
      BY <2>2 DEF StartBeat, Begin, TypeOK, Call, NoCall
    <3>2. QED
      BY <2>2, <3>1, DocumentsKept DEF StartBeat, Begin
  <2>3. ASSUME NEW p \in Procs, Advance(p) PROVE ReportsInv'
    <3>1. CASE \/ CreateSession(p) \/ SetSessionError(p) \/ ClearPending(p) \/ EndSession(p)
               \/ Heartbeat(p) \/ FindSession(p) \/ CheckTtl(p) \/ TimeOut(p) \/ SaveFails(p)
      <4>1. UNCHANGED documents
        BY <3>1, FetchBase DEF CreateSession, SetSessionError, ClearPending, EndSession,
                    Heartbeat, FindSession, CheckTtl, TimeOut, SaveFails
      <4>2. \/ Fetch(p)
            \/ \E step \in Step : Goto(p, step)
            \/ \E r \in {"true", "false", "failed"} : Finish(p, r)
        BY <3>1 DEF CreateSession, SetSessionError, ClearPending, EndSession, Heartbeat,
                    FindSession, CheckTtl, TimeOut, SaveFails, Found, NotFound, Step
      <4>3. QED
        BY <4>1, <4>2, GotoBase, FinishBase, FetchBase, DocumentsKept
    <3>2. CASE AddPending(p)
      <4>1. UNCHANGED documents
        BY <3>2, FetchBase DEF AddPending
      <4>2. \A q \in Procs : call'[q].base = call[q].base
        BY <3>2, FetchBase, GotoBase DEF AddPending, TypeOK, Call
      <4>3. QED
        BY <4>1, <4>2, DocumentsKept
    <3>3. CASE Peek(p)
      <4> DEFINE c == call[p]
      <4> DEFINE SameBase == \A q \in Procs : call'[q].base \in {call[q].base, NewAttempt}
      <4>1. ASSUME c.op = "commit" /\ sess.pending = NoCells
            PROVE  SameBase
        <5>1. Finish(p, "true")
          BY <3>3, <4>1 DEF Peek
        <5>2. QED
          BY <5>1, FinishBase
      <4>2. ASSUME c.op = "commit" /\ sess.pending # NoCells
            PROVE  SameBase
        BY <3>3, <4>2 DEF Peek, TypeOK, Call
      <4>3. ASSUME c.op = "terminate"
            PROVE  SameBase
        BY <3>3, <4>3 DEF Peek, TypeOK, Call
      <4>4. ASSUME c.op = "get" /\ Cell(sess.pending, c.elem) # NoValue
            PROVE  SameBase
        BY <3>3, <4>4 DEF Peek, TypeOK, NoCall
      <4>5. ASSUME c.op = "get" /\ Cell(sess.pending, c.elem) = NoValue
            PROVE  SameBase
        BY <3>3, <4>5 DEF Peek, TypeOK, Call
      <4>6. SameBase
        BY <3>3, <4>1, <4>2, <4>3, <4>4, <4>5 DEF Peek
      <4>7. QED
        BY <3>3, <4>6, DocumentsKept DEF Peek
    <3>4. CASE SaveAttempt(p)
      <4> DEFINE new == Edited(call[p])
      <4>1. call[p] \in Call /\ StampedOnce(call[p].base) /\ (call[p].base.done => attempt.done)
        BY DEF ReportsInv, TypeOK
      <4>2. StampedOnce(new) /\ (call[p].base.done => new.done)
        BY <4>1, EditedStamped
      <4>3. new \in Attempt /\ attempt \in Attempt
        BY <4>1, EditedType DEF TypeOK
      <4>4. /\ attempt'.status \in {attempt.status, new.status}
            /\ attempt'.done = (attempt.done \/ new.done)
        BY <3>4 DEF SaveAttempt, Saved
      <4>5. StampedOnce(attempt')
        BY <4>2, <4>4 DEF ReportsInv, ReportsNeverAhead, StampedOnce
      <4>6. ReportsNeverAhead'
        BY <3>4, <4>4, <4>5 DEF ReportsInv, ReportsNeverAhead, StampedOnce, SaveAttempt
      <4>7. \A q \in Procs : call'[q].base = IF q = p THEN new ELSE call[q].base
        BY <3>4 DEF SaveAttempt, TypeOK, Call
      <4>8. QED
        BY <4>2, <4>4, <4>6, <4>7 DEF ReportsInv
    <3>5. CASE SyncContent(p)
      <4>1. content' = "completed" => content = "completed" \/ call[p].base.status \in Final
        BY <3>5 DEF SyncContent, MapStatus
      <4>2. ReportsNeverAhead'
        BY <3>5, <4>1 DEF SyncContent, ReportsInv, ReportsNeverAhead, StampedOnce
      <4>3. \/ \E step \in Step : Goto(p, step)
            \/ Finish(p, "true")
            \/ call' = [call EXCEPT ![p] = [NoCall EXCEPT !.op = "get", !.reply = "true",
                                               !.elem = call[p].elem, !.val = call[p].val]]
        BY <3>5 DEF SyncContent, Step
      <4>4. \A q \in Procs : call'[q].base \in {call[q].base, NewAttempt}
        BY <4>3, GotoBase, FinishBase DEF TypeOK, NoCall
      <4>5. UNCHANGED attempt
        BY <3>5 DEF SyncContent
      <4>6. QED
        BY <4>2, <4>4, <4>5 DEF ReportsInv, StampedOnce, NewAttempt, Final
    <3>6. CASE PersistProgress(p)
      <4>1. progress' \in {"completed", "failed"} =>
              progress \in {"completed", "failed"} \/ call[p].base.status \in Final
        BY <3>6 DEF PersistProgress, MapScormStatus, Final, TypeOK, Call, Attempt, Status
      <4>2. ReportsNeverAhead'
        BY <3>6, <4>1 DEF PersistProgress, ReportsInv, ReportsNeverAhead, StampedOnce
      <4>3. \A q \in Procs : call'[q].base \in {call[q].base, NewAttempt}
        BY <3>6, GotoBase, FinishBase DEF PersistProgress
      <4>4. UNCHANGED attempt
        BY <3>6 DEF PersistProgress
      <4>5. QED
        BY <4>2, <4>3, <4>4 DEF ReportsInv, StampedOnce, NewAttempt, Final
    <3>7. QED
      BY <2>3, <3>1, <3>2, <3>3, <3>4, <3>5, <3>6 DEF Advance
  <2>4. ASSUME NEW p \in Procs, SessionFails(p) PROVE ReportsInv'
    BY <2>4, GotoBase, DocumentsKept DEF SessionFails
  <2>5. ASSUME NEW p \in Procs, Abort(p) PROVE ReportsInv'
    BY <2>5, FinishBase, DocumentsKept DEF Abort
  <2>6. CASE Restart
    <3>1. \A q \in Procs : call'[q].base \in {call[q].base, NewAttempt}
      BY <2>6 DEF Restart, NoCall
    <3>2. QED
      BY <2>6, <3>1, DocumentsKept DEF Restart
  <2>7. CASE Expire
    BY <2>7, DocumentsKept DEF Expire
  <2>8. CASE UNCHANGED vars
    BY <2>8, DocumentsKept DEF vars, documents
  <2>9. QED
    BY <2>1, <2>2, <2>3, <2>4, <2>5, <2>6, <2>7, <2>8 DEF Next
<1>3. ReportsInv => ReportsNeverAhead
  BY DEF ReportsInv
<1>4. QED
  BY <1>1, <1>2, <1>3, TypeCorrect, PTL DEF Spec

-------------------------------------------------------------------------------
(* No accepted value is lost, and commit and terminate store them all, when *)
(* one page has the attempt open, heartbeats cannot overwrite the session,  *)
(* and terminate does not fail between clearing the session and saving.    *)

OneWriter ==
  /\ \E p : Pages = {p}
  /\ Store = "memory" \/ Timers = {}
  /\ Refused = {}
  /\ "terminate" \notin Faults

(* The steps of each operation. *)
StepsOf(op) ==
  CASE op = "initialize" -> {"create", "save", "sync"}
    [] op = "set" -> {"create", "add", "ack", "save", "sync", "progress", "error"}
    [] op = "reject" -> {"error"}
    [] op = "get" -> {"peek", "save", "sync"}
    [] op = "commit" -> {"peek", "save", "sync", "clear", "ack", "error"}
    [] op = "terminate" -> {"touch", "progress", "find", "ttl", "timeout", "peek",
                            "clear", "save", "sync", "end"}
    [] OTHER -> {}

Nothing == accepted = NoCells

(* Every accepted value is in the attempt. *)
Settled == \A e \in Elements : accepted[e] \in {NoValue, attempt.cmi[e]}

TimersInv ==
  \A t \in Timers :
    /\ call[t].op \in {"none", "beat"}
    /\ call[t].at \in {"idle", "beat", "find"}
    /\ call[t].at # "idle" => call[t].op = "beat"

(* What holds of the page's request c, while the attempt and the session    *)
(* are only its own to change: it is at a step of its operation; it has the *)
(* stored CMI; it holds pending values from the peek on; what it read of    *)
(* the session is still what the session holds, unless that has expired;    *)
(* and where each accepted value is when the request has got that far.      *)
PageInv(c) ==
  /\ c.at = "idle" \/ c.at \in StepsOf(c.op)
  /\ c.at # "idle" => c.base.cmi = attempt.cmi
  /\ c.op \notin {"commit", "terminate"} => c.pend = NoCells
  /\ c.at \in {"idle", "peek", "touch", "progress", "find", "ttl", "timeout"} => c.pend = NoCells
  /\ Present(c.held) => Nothing \/ c.held.pending = sess.pending
  /\ \A e \in Elements : c.pend[e] # NoValue => accepted[e] \in {NoValue, c.pend[e]}
  /\ c.op = "commit" /\ c.at \in {"save", "sync", "clear"} => Nothing \/ sess.pending = c.pend
  /\ c.op = "commit" /\ c.at \in {"sync", "clear"} =>
       \A e \in Elements : c.pend[e] # NoValue => attempt.cmi[e] = c.pend[e]
  /\ c.op = "terminate" /\ c.at = "clear" => Nothing \/ sess.pending = c.pend
  /\ c.op = "terminate" /\ c.at = "save" => Nothing \/ sess.pending = NoCells
  /\ \/ c.op = "commit" /\ c.at = "ack"
     \/ c.op = "terminate" /\ c.at \in {"sync", "end"}
     \/ c.op \in {"commit", "terminate"} /\ c.at = "idle" /\ c.reply = "true"
     => Settled
  /\ \A e \in Elements :
       \/ accepted[e] \in {NoValue, Visible(e)}
       \/ c.op = "terminate" /\ c.at = "save" /\ accepted[e] = c.pend[e]

DurableInv ==
  /\ TypeOK
  /\ TimersInv
  /\ \A p \in Pages : PageInv(call[p])

LEMMA DurableInvImplies ==
  ASSUME DurableInv, OneWriter
  PROVE  Durable /\ CommitSaves
<1>1. PICK p \in Pages : TRUE
  BY DEF OneWriter
<1>2. ASSUME NEW e \in Elements
      PROVE  accepted[e] \in {NoValue, Visible(e)} \cup InHand(e)
  <2>1. CASE accepted[e] \in {NoValue, Visible(e)}
    BY <2>1
  <2>2. CASE call[p].op = "terminate" /\ At(p, "save") /\ accepted[e] = call[p].pend[e]
    BY <2>2 DEF InHand
  <2>3. QED
    BY <2>1, <2>2 DEF DurableInv, PageInv, At
<1>3. CommitSaves
  BY DEF DurableInv, PageInv, CommitSaves, Settled, At, Replied
<1>4. QED
  BY <1>2, <1>3 DEF Durable

(* A step of the page keeps the invariant when it keeps the page's part. *)
LEMMA PageSteps ==
  ASSUME DurableInv, TypeOK', OneWriter, NEW p \in Pages, PageInv(call[p])',
         \A q \in Procs : q # p => call'[q] = call[q]
  PROVE  DurableInv'
BY ProcessAssumption DEF DurableInv, OneWriter, TimersInv, Procs

LEMMA GotoFields ==
  ASSUME TypeOK, NEW p \in Procs, NEW step, Goto(p, step)
  PROVE  /\ call'[p].at = step /\ call'[p].held = NoSession
         /\ call'[p].op = call[p].op /\ call'[p].base = call[p].base
         /\ call'[p].pend = call[p].pend /\ call'[p].reply = call[p].reply
         /\ \A q \in Procs : q # p => call'[q] = call[q]
BY DEF Goto, TypeOK, Call

LEMMA FinishFields ==
  ASSUME TypeOK, NEW p \in Procs, NEW r, Finish(p, r)
  PROVE  /\ call'[p].at = "idle" /\ call'[p].held = NoSession
         /\ call'[p].op = call[p].op /\ call'[p].pend = NoCells /\ call'[p].reply = r
         /\ \A q \in Procs : q # p => call'[q] = call[q]
BY DEF Finish, TypeOK, NoCall

LEMMA BeginFields ==
  ASSUME TypeOK, NEW p \in Procs, NEW op, NEW step, Begin(p, op, step)
  PROVE  /\ call'[p].at = step /\ call'[p].held = NoSession
         /\ call'[p].op = op /\ call'[p].pend = NoCells /\ call'[p].base = attempt
         /\ \A q \in Procs : q # p => call'[q] = call[q]
BY DEF Begin, TypeOK, NoCall

(* The two ways in which steps of the session store keep the page's part:   *)
(* a fetch, and a write of a session whose pending values are unchanged.   *)
LEMMA FetchKeeps ==
  ASSUME DurableInv, TypeOK', OneWriter, NEW p \in Pages, Fetch(p)
  PROVE  DurableInv'
<1>1. p \in Procs
  BY DEF Procs
<1>2. /\ call'[p] = [call[p] EXCEPT !.held = sess]
      /\ \A q \in Procs : q # p => call'[q] = call[q]
      /\ UNCHANGED <<sess, attempt, accepted>>
  BY <1>1 DEF Fetch, DurableInv, TypeOK, documents
<1>3. /\ call'[p].held = sess /\ call'[p].at = call[p].at /\ call'[p].op = call[p].op
      /\ call'[p].base = call[p].base /\ call'[p].pend = call[p].pend
      /\ call'[p].reply = call[p].reply
  BY <1>1, <1>2 DEF DurableInv, TypeOK, Call
<1>4. PageInv(call[p])'
  BY <1>2, <1>3 DEF DurableInv, PageInv, Settled, Visible, Nothing
<1>5. QED
  BY <1>2, <1>4, PageSteps

(* What the page would write to the session has the pending values the      *)
(* session has, unless it has expired and there is nothing to lose.        *)
LEMMA HeldPending ==
  ASSUME DurableInv, NEW p \in Pages, Present(Held(p))
  PROVE  Nothing \/ Held(p).pending = sess.pending
BY DEF DurableInv, PageInv, Held

(* A request starts with the stored document and nothing in hand. *)
LEMMA StartKeeps ==
  ASSUME DurableInv, TypeOK', OneWriter, NEW p \in Pages, Request(p)
  PROVE  DurableInv'
<1>1. p \in Procs
  BY DEF Procs
<1>2. UNCHANGED <<sess, attempt, accepted>> /\ call[p].at = "idle"
  BY DEF Request, StartInitialize, StartCommit, StartTerminate, StartReject, StartSet, StartSetOf,
         StartGet, Begin, documents, At
<1>3. /\ call'[p].at # "idle" /\ call'[p].held = NoSession /\ call'[p].pend = NoCells
      /\ call'[p].base = attempt
      /\ call'[p].at \in StepsOf(call'[p].op)
      /\ call'[p].op = "commit" => call'[p].at = "peek"
      /\ call'[p].op = "terminate" => call'[p].at = "touch"
      /\ \A q \in Procs : q # p => call'[q] = call[q]
  <2>1. CASE StartInitialize(p) \/ StartCommit(p) \/ StartTerminate(p) \/ StartReject(p)
    BY <1>1, <2>1, BeginFields
    DEF StartInitialize, StartCommit, StartTerminate, StartReject, StepsOf, DurableInv
  <2>2. CASE StartSet(p)
    <3>1. PICK e \in Elements : \E v \in Values[e] :
            call' = [call EXCEPT ![p] = [NoCall EXCEPT !.op = "set", !.at = "add",
                                           !.elem = e, !.val = v, !.base = attempt]]
      BY <2>2 DEF StartSet, StartSetOf
    <3>2. QED
      BY <1>1, <3>1 DEF StepsOf, DurableInv, TypeOK, NoCall
  <2>3. CASE StartGet(p)
    <3>1. PICK e \in Elements :
            call' = [call EXCEPT ![p] = [NoCall EXCEPT !.op = "get", !.at = "peek",
                                           !.elem = e, !.base = attempt]]
      BY <2>3 DEF StartGet
    <3>2. QED
      BY <1>1, <3>1 DEF StepsOf, DurableInv, TypeOK, NoCall
  <2>4. QED
    BY <2>1, <2>2, <2>3 DEF Request
<1>4. PageInv(call[p])'
  BY <1>2, <1>3 DEF DurableInv, PageInv, Settled, Visible, Nothing, NoSession, Present, NoCells
<1>5. QED
  BY <1>3, <1>4, PageSteps

(* Steps that change neither the attempt nor the accepted values nor the    *)
(* pending values, and only take the request on.                           *)
LEMMA QuietKeeps ==
  ASSUME DurableInv, TypeOK', OneWriter, NEW p \in Pages,
         UNCHANGED <<attempt, accepted>>,
         Nothing \/ sess'.pending = sess.pending,
         NEW step \in Step, Goto(p, step),
         step \in StepsOf(call[p].op),
         call[p].op \in {"commit", "terminate"} =>
           \/ call[p].pend = NoCells /\ step \in {"progress", "find", "ttl", "timeout", "peek"}
           \/ step = "error"
           \/ call[p].at = "sync" /\ call[p].op = "commit" /\ step = "clear"
           \/ call[p].at = "sync" /\ call[p].op = "terminate" /\ step = "end",
         call[p].at # "idle"
  PROVE  DurableInv'
<1>1. p \in Procs
  BY DEF Procs
<1>2. PageInv(call[p])'
  BY <1>1, GotoFields DEF DurableInv, PageInv, Settled, Visible, Nothing, NoSession, Present, NoCells, StepsOf
<1>3. QED
  BY <1>1, <1>2, PageSteps, GotoFields DEF DurableInv

(* Steps that end the request, when what its answer promises holds. *)
LEMMA FinishKeeps ==
  ASSUME DurableInv, TypeOK', OneWriter, NEW p \in Pages,
         UNCHANGED <<attempt, accepted>>,
         Nothing \/ sess'.pending = sess.pending,
         NEW r, Finish(p, r),
         ~(call[p].op = "terminate" /\ call[p].at = "save"),
         call[p].op \in {"commit", "terminate"} /\ r = "true" => Settled
  PROVE  DurableInv'
<1>1. p \in Procs
  BY DEF Procs
<1>2. PageInv(call[p])'
  BY <1>1, FinishFields DEF DurableInv, PageInv, Settled, Visible, Nothing, NoSession, Present, NoCells
<1>3. QED
  BY <1>1, <1>2, PageSteps, FinishFields DEF DurableInv

LEMMA CreateSessionKeeps ==
  ASSUME DurableInv, TypeOK', OneWriter, NEW p \in Pages, CreateSession(p)
  PROVE  DurableInv'
<1> p \in Procs
  BY DEF Procs
<1>1. call[p].at = "create" /\ call[p].op \in {"initialize", "set"} /\ UNCHANGED attempt
  BY DEF CreateSession, DurableInv, PageInv, StepsOf, At, documents
<1>2. CASE Store = "memory" /\ Present(sess)
  <2>1. UNCHANGED <<sess, accepted>> /\ \E step \in {"error", "save"} :
          Goto(p, step) /\ step \in StepsOf(call[p].op)
    BY <1>1, <1>2 DEF CreateSession, StepsOf
  <2>2. QED
    BY <1>1, <2>1, QuietKeeps DEF Step
<1>3. CASE ~(Store = "memory" /\ Present(sess))
  <2>1. accepted' = NoCells /\ \E step \in {"add", "save"} :
          Goto(p, step) /\ step \in StepsOf(call[p].op)
    BY <1>1, <1>3 DEF CreateSession, StepsOf
  <2>2. PageInv(call[p])'
    BY <1>1, <2>1, GotoFields
    DEF DurableInv, PageInv, Settled, Nothing, NoSession, Present, NoCells, StepsOf
  <2>3. QED
    BY <2>1, <2>2, PageSteps, GotoFields DEF DurableInv
<1>4. QED
  BY <1>2, <1>3

LEMMA AddPendingKeeps ==
  ASSUME DurableInv, TypeOK', OneWriter, NEW p \in Pages, AddPending(p)
  PROVE  DurableInv'
<1> p \in Procs
  BY DEF Procs
<1>1. call[p].at = "add" /\ call[p].op = "set"
  BY DEF AddPending, DurableInv, PageInv, StepsOf, At
<1>2. CASE Fetch(p)
  BY <1>2, FetchKeeps
<1>3. ASSUME Present(Held(p)), Goto(p, "ack"), UNCHANGED documents,
             sess' = [Held(p) EXCEPT !.pending[call[p].elem] = call[p].val],
             accepted' = [accepted EXCEPT ![call[p].elem] = call[p].val]
      PROVE  DurableInv'
  <2>1. Held(p) \in Session /\ accepted \in Cells
    BY HeldType DEF DurableInv, TypeOK
  <2>2. ASSUME NEW e \in Elements
        PROVE  accepted'[e] \in {NoValue, Visible(e)'}
    <3>1. CASE e = call[p].elem
      BY <1>3, <2>1, <3>1 DEF Session, Cells, Visible
    <3>2. CASE e # call[p].elem
      <4>1. accepted'[e] = accepted[e] /\ sess'.pending[e] = Held(p).pending[e] /\ attempt' = attempt
        BY <1>3, <2>1, <3>2 DEF Session, Cells, documents
      <4>2. accepted[e] \in {NoValue, Visible(e)}
        BY <1>1 DEF DurableInv, PageInv
      <4>3. Nothing \/ Held(p).pending = sess.pending
        BY <1>3, HeldPending
      <4>4. QED
        BY <4>1, <4>2, <4>3 DEF Nothing, NoCells, Visible
    <3>3. QED
      BY <3>1, <3>2
  <2>3. PageInv(call[p])'
    BY <1>1, <1>3, <2>2, GotoFields
    DEF DurableInv, PageInv, NoSession, Present, NoCells, StepsOf, documents
  <2>4. QED
    BY <1>3, <2>3, PageSteps, GotoFields DEF DurableInv
<1>4. ASSUME UNCHANGED <<sess, documents, accepted>>,
             call' = [call EXCEPT ![p].at = IF call[p].lazy THEN "error" ELSE "create",
                                  ![p].lazy = TRUE]
      PROVE  DurableInv'
  <2>1. /\ call'[p].at \in {"error", "create"} /\ call'[p].op = "set"
        /\ call'[p].held = call[p].held /\ call'[p].base = call[p].base
        /\ call'[p].pend = call[p].pend
        /\ \A q \in Procs : q # p => call'[q] = call[q]
    BY <1>1, <1>4 DEF DurableInv, TypeOK, Call
  <2>2. PageInv(call[p])'
    <3>1. PageInv(call[p])
      BY DEF DurableInv
    <3>2. sess' = sess /\ attempt' = attempt /\ accepted' = accepted
      BY <1>4 DEF documents
    <3>3. call'[p].at \in StepsOf(call'[p].op)
      BY <2>1 DEF StepsOf
    <3>4. QED
      BY <1>1, <2>1, <3>1, <3>2, <3>3 DEF PageInv, Visible, Nothing
  <2>3. QED
    BY <2>1, <2>2, PageSteps
<1>5. QED
  BY <1>2, <1>3, <1>4 DEF AddPending

(* Writes of the session that change no pending value. *)
LEMMA SessionWriteKeeps ==
  ASSUME DurableInv, TypeOK', OneWriter, NEW p \in Pages,
         SetSessionError(p) \/ EndSession(p) \/ TimeOut(p)
  PROVE  DurableInv'
<1> p \in Procs
  BY DEF Procs
<1>1. CASE Fetch(p)
  BY <1>1, FetchKeeps
<1>2. CASE ~Fetch(p)
  <2>1. /\ UNCHANGED <<attempt, accepted>>
        /\ \/ Present(Held(p)) /\ sess' \in {Held(p), [Held(p) EXCEPT !.status = "terminated"],
                                              [Held(p) EXCEPT !.status = "timeout"]}
           \/ sess' = sess
    BY <1>2 DEF SetSessionError, EndSession, TimeOut, documents
  <2>2. Held(p) \in Session
    BY HeldType DEF DurableInv
  <2>3. Nothing \/ sess'.pending = sess.pending
    BY <2>1, <2>2, HeldPending DEF Session
  <2>4. CASE SetSessionError(p)
    <3>1. CASE call[p].at = "error"
      <4>1. Finish(p, "false")
        BY <1>2, <2>4, <3>1 DEF SetSessionError, At
      <4>2. QED
        BY <2>1, <2>3, <3>1, <4>1, FinishKeeps
    <3>2. CASE call[p].at = "ack" /\ call[p].op = "set"
      <4>1. Goto(p, "save")
        BY <1>2, <2>4, <3>2 DEF SetSessionError, At
      <4>2. QED
        BY <2>1, <2>3, <3>2, <4>1, QuietKeeps DEF Step, StepsOf
    <3>3. CASE call[p].at = "ack" /\ call[p].op # "set"
      <4>1. Finish(p, "true")
        BY <1>2, <2>4, <3>3 DEF SetSessionError, At
      <4>2. call[p].op = "commit" /\ Settled
        BY <3>3 DEF DurableInv, PageInv, StepsOf, TypeOK, Call, Operations
      <4>3. QED
        BY <2>1, <2>3, <4>1, <4>2, FinishKeeps
    <3>4. QED
      BY <2>4, <3>1, <3>2, <3>3 DEF SetSessionError
  <2>5. CASE EndSession(p)
    <3>1. Finish(p, "true") /\ call[p].at = "end"
      BY <1>2, <2>5 DEF EndSession, At
    <3>2. call[p].op = "terminate" /\ Settled
      BY <3>1 DEF DurableInv, PageInv, StepsOf, TypeOK, Call, Operations
    <3>3. QED
      BY <2>1, <2>3, <3>1, <3>2, FinishKeeps
  <2>6. CASE TimeOut(p)
    <3>1. NotFound(p) /\ call[p].at = "timeout"
      BY <1>2, <2>6 DEF TimeOut, At
    <3>2. call[p].op = "terminate"
      BY <3>1 DEF DurableInv, PageInv, StepsOf, TypeOK, Call, Operations
    <3>3. QED
      BY <2>1, <2>3, <3>1, <3>2, FinishKeeps DEF NotFound
  <2>7. QED
    BY <2>4, <2>5, <2>6
<1>3. QED
  BY <1>1, <1>2

LEMMA ClearPendingKeeps ==
  ASSUME DurableInv, TypeOK', OneWriter, NEW p \in Pages, ClearPending(p)
  PROVE  DurableInv'
<1> p \in Procs
  BY DEF Procs
<1>1. CASE Fetch(p)
  BY <1>1, FetchKeeps
<1>2. CASE ~Fetch(p)
  <2> DEFINE c == call[p]
  <2>1. c.at = "clear" /\ c.op \in {"commit", "terminate"}
    BY DEF ClearPending, DurableInv, PageInv, StepsOf, At, TypeOK, Call, Operations
  <2>2. UNCHANGED <<attempt, accepted>> /\ sess.pending \in Cells /\ accepted \in Cells
    BY <1>2 DEF ClearPending, documents, DurableInv, TypeOK, Session
  <2>3. sess'.pending = NoCells
    <3>1. CASE Present(Held(p))
      BY <1>2, <3>1, HeldType DEF ClearPending, DurableInv, Session
    <3>2. CASE ~Present(Held(p))
      BY <1>2, <3>2 DEF ClearPending, Missing, Present, DurableInv, TypeOK, Session
    <3>3. QED
      BY <3>1, <3>2
  <2>4. CASE c.op = "commit"
    <3>1. Goto(p, "ack")
      BY <1>2, <2>4 DEF ClearPending
    <3>2. ASSUME NEW e \in Elements
          PROVE  accepted[e] \in {NoValue, attempt.cmi[e]}
      <4>1. accepted[e] \in {NoValue, Visible(e)}
        BY <2>4 DEF DurableInv, PageInv
      <4>2. Nothing \/ sess.pending = c.pend
        BY <2>1, <2>4 DEF DurableInv, PageInv
      <4>3. c.pend[e] # NoValue => attempt.cmi[e] = c.pend[e]
        BY <2>1, <2>4 DEF DurableInv, PageInv
      <4>4. QED
        BY <4>1, <4>2, <4>3 DEF Nothing, NoCells, Visible
    <3>3. PageInv(call[p])'
      BY <2>1, <2>2, <2>3, <2>4, <3>1, <3>2, GotoFields
      DEF DurableInv, PageInv, Settled, Visible, NoSession, Present, NoCells, StepsOf
    <3>4. QED
      BY <3>1, <3>3, PageSteps, GotoFields DEF DurableInv
  <2>5. CASE c.op = "terminate"
    <3>1. Goto(p, "save")
      BY <1>2, <2>5 DEF ClearPending
    <3>2. ASSUME NEW e \in Elements
          PROVE  accepted[e] \in {NoValue, attempt.cmi[e], c.pend[e]}
      <4>1. accepted[e] \in {NoValue, Visible(e)}
        BY <2>1, <2>5 DEF DurableInv, PageInv
      <4>2. Nothing \/ sess.pending = c.pend
        BY <2>1, <2>5 DEF DurableInv, PageInv
      <4>3. QED
        BY <4>1, <4>2 DEF Nothing, NoCells, Visible
    <3>3. \A e \in Elements : Visible(e)' = attempt.cmi[e]
      BY <2>2, <2>3 DEF Visible, NoCells
    <3>4. PageInv(call[p])'
      BY <2>1, <2>2, <2>3, <2>5, <3>1, <3>2, <3>3, GotoFields
      DEF DurableInv, PageInv, NoSession, Present, StepsOf
    <3>5. QED
      BY <3>1, <3>4, PageSteps, GotoFields DEF DurableInv
  <2>6. QED
    BY <2>1, <2>4, <2>5
<1>3. QED
  BY <1>1, <1>2

LEMMA FindSessionKeeps ==
  ASSUME DurableInv, TypeOK', OneWriter, NEW p \in Pages, FindSession(p) \/ CheckTtl(p)
  PROVE  DurableInv'
<1> p \in Procs
  BY DEF Procs
<1>1. call[p].at \in {"find", "ttl"} /\ UNCHANGED <<attempt, accepted>>
  BY DEF FindSession, CheckTtl, At, documents
<1>2. call[p].op = "terminate" /\ call[p].pend = NoCells
  BY <1>1 DEF DurableInv, PageInv, StepsOf, TypeOK, Call, Operations
<1>3. sess'.pending = sess.pending
  BY DEF FindSession, CheckTtl, DurableInv, TypeOK, Session
<1>4. \/ \E step \in {"ttl", "timeout", "peek"} : Goto(p, step)
      \/ Finish(p, "false")
  BY <1>2 DEF FindSession, CheckTtl, Found, NotFound
<1>5. ASSUME NEW step \in {"ttl", "timeout", "peek"}, Goto(p, step)
      PROVE  DurableInv'
  BY <1>1, <1>2, <1>3, <1>5, QuietKeeps DEF Step, StepsOf
<1>6. QED
  BY <1>1, <1>2, <1>3, <1>4, <1>5, FinishKeeps

LEMMA PeekKeeps ==
  ASSUME DurableInv, TypeOK', OneWriter, NEW p \in Pages, Peek(p)
  PROVE  DurableInv'
<1> p \in Procs
  BY DEF Procs
<1> DEFINE c == call[p]
<1>1. /\ c.at = "peek" /\ c.pend = NoCells /\ c \in Call
      /\ UNCHANGED <<sess, attempt, accepted>> /\ PageInv(c)
  BY DEF Peek, At, documents, DurableInv, PageInv, TypeOK
<1>2. \A e \in Elements : accepted[e] \in {NoValue, Visible(e)}
  BY <1>1 DEF PageInv
<1>3. CASE c.op = "commit" /\ sess.pending = NoCells
  <2>1. Finish(p, "true")
    BY <1>3 DEF Peek
  <2>2. Settled
    BY <1>2, <1>3 DEF Settled, Visible, NoCells
  <2>3. QED
    BY <1>1, <1>3, <2>1, <2>2, FinishKeeps
<1>4. ASSUME NEW step,
             \/ c.op = "commit" /\ step = "save"
             \/ c.op = "terminate" /\ step = (IF sess.pending = NoCells THEN "save" ELSE "clear"),
             call' = [call EXCEPT ![p].at = step, ![p].pend = sess.pending]
      PROVE  DurableInv'
  <2>1. /\ call'[p].at = step /\ call'[p].op = c.op /\ call'[p].held = c.held
        /\ call'[p].base = c.base /\ call'[p].pend = sess.pending /\ call'[p].reply = c.reply
        /\ \A q \in Procs : q # p => call'[q] = call[q]
    BY <1>1, <1>4 DEF DurableInv, TypeOK, Call
  <2>2. \A e \in Elements : sess.pending[e] # NoValue => accepted[e] \in {NoValue, sess.pending[e]}
    BY <1>2 DEF Visible
  <2>3. UNCHANGED <<sess, attempt, accepted>> /\ c.at = "peek" /\ PageInv(c)
    BY <1>1
  <2>4. step \in StepsOf(c.op) /\ step \in {"save", "clear"}
        /\ (step = "clear" => c.op = "terminate")
        /\ (c.op = "terminate" /\ step = "save" => sess.pending = NoCells)
    BY <1>4 DEF StepsOf
  <2>5. \A e \in Elements :
          accepted'[e] \in {NoValue, Visible(e)'}
    BY <1>2, <2>3 DEF Visible
  <2>6. PageInv(call[p])'
    BY <1>4, <2>1, <2>2, <2>3, <2>4, <2>5 DEF PageInv, Nothing
  <2>7. QED
    BY <2>1, <2>6, PageSteps
<1>5. CASE c.op = "commit" /\ sess.pending # NoCells
  BY <1>4, <1>5 DEF Peek
<1>6. CASE c.op = "terminate"
  BY <1>4, <1>6 DEF Peek
<1>7. CASE c.op = "get"
  <2>1. \/ call' = [call EXCEPT ![p] = [NoCall EXCEPT !.op = "get", !.reply = "true",
                       !.elem = c.elem, !.val = Cell(sess.pending, c.elem)]]
        \/ call' = [call EXCEPT ![p].at = "save", ![p].val = Stored(c)]
    BY <1>7 DEF Peek
  <2>2. call \in [Procs -> Call]
    BY DEF DurableInv, TypeOK
  <2>3. CASE call' = [call EXCEPT ![p] = [NoCall EXCEPT !.op = "get", !.reply = "true",
                        !.elem = c.elem, !.val = Cell(sess.pending, c.elem)]]
    <3>1. /\ call'[p].at = "idle" /\ call'[p].held = NoSession /\ call'[p].pend = NoCells
          /\ call'[p].op = "get" /\ \A q \in Procs : q # p => call'[q] = call[q]
      BY <2>2, <2>3 DEF NoCall
    <3>2. PageInv(call[p])'
      BY <1>1, <1>2, <3>1 DEF PageInv, Visible, NoSession, Present, NoCells
    <3>3. QED
      BY <3>1, <3>2, PageSteps
  <2>4. CASE call' = [call EXCEPT ![p].at = "save", ![p].val = Stored(c)]
    <3>1. /\ call'[p].at = "save" /\ call'[p].held = c.held /\ call'[p].pend = NoCells
          /\ call'[p].base = c.base /\ call'[p].op = "get"
          /\ \A q \in Procs : q # p => call'[q] = call[q]
      BY <1>1, <1>7, <2>2, <2>4 DEF Call
    <3>2. PageInv(call[p])'
      BY <1>1, <1>2, <3>1 DEF PageInv, Visible, Nothing, StepsOf, NoCells
    <3>3. QED
      BY <3>1, <3>2, PageSteps
  <2>5. QED
    BY <2>1, <2>3, <2>4
<1>8. QED
  BY <1>3, <1>5, <1>6, <1>7 DEF Peek

LEMMA SaveAttemptKeeps ==
  ASSUME DurableInv, TypeOK', OneWriter, NEW p \in Pages, SaveAttempt(p)
  PROVE  DurableInv'
<1> p \in Procs
  BY DEF Procs
<1> DEFINE c == call[p]
<1>1. /\ c.at = "save" /\ c \in Call /\ PageInv(c) /\ c.base.cmi = attempt.cmi
      /\ attempt' = Saved(c) /\ UNCHANGED <<sess, accepted>> /\ c.base.cmi \in Cells
  BY DEF SaveAttempt, At, DurableInv, PageInv, TypeOK, Call, Attempt
<1>2. c.op \in {"initialize", "set", "get", "commit", "terminate"}
  BY <1>1 DEF PageInv, StepsOf, Call, Operations
<1>3. Edited(c).cmi = IF c.op \in {"commit", "terminate"} THEN Overlay(c.base.cmi, c.pend)
                      ELSE c.base.cmi
  BY <1>1, <1>2 DEF Edited, Initialized, Committed, Finished, Stamped, Call, Attempt
<1>4. c.pend = NoCells => Overlay(c.base.cmi, c.pend) = c.base.cmi
  BY <1>1 DEF Overlay, Cells, NoCells
<1>5. attempt'.cmi = Edited(c).cmi
  BY <1>1, <1>2, <1>3, <1>4 DEF Saved, PageInv
<1>6. /\ call'[p].at = "sync" /\ call'[p].op = c.op /\ call'[p].held = c.held
      /\ call'[p].base = Edited(c) /\ call'[p].pend = c.pend
      /\ \A q \in Procs : q # p => call'[q] = call[q]
  BY <1>1 DEF SaveAttempt, DurableInv, TypeOK, Call
<1>7. \A e \in Elements : attempt'.cmi[e] = IF c.pend[e] = NoValue THEN attempt.cmi[e] ELSE c.pend[e]
  <2>1. CASE c.op \in {"commit", "terminate"}
    BY <1>1, <1>3, <1>5, <2>1 DEF Overlay
  <2>2. CASE c.op \notin {"commit", "terminate"}
    BY <1>1, <1>3, <1>5, <2>2 DEF PageInv, NoCells
  <2>3. QED
    BY <2>1, <2>2
<1>8. ASSUME NEW e \in Elements
      PROVE  accepted[e] \in {NoValue, Visible(e)'}
  <2>1. CASE Nothing
    BY <2>1 DEF Nothing, NoCells
  <2>2. CASE c.pend = NoCells
    <3>1. attempt'.cmi[e] = attempt.cmi[e] /\ sess' = sess /\ c.pend[e] = NoValue
      BY <1>1, <1>7, <2>2 DEF NoCells
    <3>2. accepted[e] \in {NoValue, Visible(e), c.pend[e]}
      BY <1>1 DEF PageInv
    <3>3. QED
      BY <3>1, <3>2 DEF Visible
  <2>3. CASE c.op = "commit" /\ sess.pending = c.pend
    <3>1. accepted[e] \in {NoValue, Visible(e)}
      BY <1>1, <2>3 DEF PageInv
    <3>2. QED
      BY <1>1, <1>7, <2>3, <3>1 DEF Visible
  <2>4. CASE c.op = "terminate" /\ sess.pending = NoCells
    <3>1. Visible(e) = attempt.cmi[e] /\ Visible(e)' = attempt'.cmi[e]
      BY <1>1, <2>4 DEF Visible, NoCells
    <3>2. accepted[e] \in {NoValue, attempt.cmi[e], c.pend[e]}
      BY <1>1, <3>1 DEF PageInv
    <3>3. c.pend[e] # NoValue => accepted[e] \in {NoValue, c.pend[e]}
      BY <1>1 DEF PageInv
    <3>4. QED
      BY <1>7, <3>1, <3>2, <3>3
  <2>5. QED
    BY <1>1, <2>1, <2>2, <2>3, <2>4 DEF PageInv
<1>9. c.op = "terminate" => Settled'
  BY <1>1, <1>8 DEF PageInv, Settled, Visible, Nothing, NoCells
<1>10. PageInv(call[p])'
  BY <1>1, <1>2, <1>5, <1>6, <1>7, <1>8, <1>9 DEF PageInv, Nothing, StepsOf
<1>11. QED
  BY <1>6, <1>10, PageSteps

(* A save that fails is not terminate's, which alone has cleared before it. *)
LEMMA SaveFailsKeeps ==
  ASSUME DurableInv, TypeOK', OneWriter, NEW p \in Pages, SaveFails(p)
  PROVE  DurableInv'
<1> p \in Procs
  BY DEF Procs
<1>1. call[p].at = "save" /\ UNCHANGED <<sess, attempt, accepted>>
  BY DEF SaveFails, At, documents
<1>2. call[p].op # "terminate"
  BY DEF SaveFails, SaveAllowed, OneWriter
<1>3. CASE call[p].op \in {"set", "commit"}
  <2>1. Goto(p, "error")
    BY <1>3 DEF SaveFails
  <2>2. QED
    BY <1>1, <1>2, <1>3, <2>1, QuietKeeps DEF Step, StepsOf
<1>4. CASE call[p].op \notin {"set", "commit"}
  <2>1. Finish(p, "failed")
    BY <1>4 DEF SaveFails
  <2>2. QED
    BY <1>1, <1>2, <1>4, <2>1, FinishKeeps
<1>5. QED
  BY <1>3, <1>4

LEMMA SyncContentKeeps ==
  ASSUME DurableInv, TypeOK', OneWriter, NEW p \in Pages, SyncContent(p)
  PROVE  DurableInv'
<1> p \in Procs
  BY DEF Procs
<1> DEFINE c == call[p]
<1>1. c.at \in {"sync", "touch"} /\ UNCHANGED <<sess, attempt, accepted>>
  BY DEF SyncContent
<1>2. c.at \in StepsOf(c.op) /\ c \in Call
  BY <1>1 DEF DurableInv, PageInv, TypeOK
<1>3. CASE c.at = "touch"
  <2>1. c.op = "terminate" /\ c.pend = NoCells
    BY <1>2, <1>3 DEF StepsOf, Call, Operations, DurableInv, PageInv
  <2>2. Goto(p, "progress")
    BY <1>3, <2>1 DEF SyncContent, At
  <2>3. QED
    BY <1>1, <1>3, <2>1, <2>2, QuietKeeps DEF Step, StepsOf
<1>4. CASE c.at = "sync" /\ c.op = "set" /\ ~c.lazy
  <2>1. Goto(p, "progress")
    BY <1>4 DEF SyncContent, At
  <2>2. QED
    BY <1>1, <1>4, <2>1, QuietKeeps DEF Step, StepsOf
<1>5. CASE c.at = "sync" /\ c.op = "commit"
  <2>1. Goto(p, "clear")
    BY <1>5 DEF SyncContent, At
  <2>2. QED
    BY <1>1, <1>5, <2>1, QuietKeeps DEF Step, StepsOf
<1>6. CASE c.at = "sync" /\ c.op = "terminate"
  <2>1. Goto(p, "end")
    BY <1>6 DEF SyncContent, At
  <2>2. QED
    BY <1>1, <1>6, <2>1, QuietKeeps DEF Step, StepsOf
<1>7. CASE c.at = "sync" /\ c.op = "get"
  <2>1. call' = [call EXCEPT ![p] = [NoCall EXCEPT !.op = "get", !.reply = "true",
                                       !.elem = c.elem, !.val = c.val]]
    BY <1>7 DEF SyncContent, At
  <2>2. /\ call'[p].at = "idle" /\ call'[p].held = NoSession /\ call'[p].pend = NoCells
        /\ call'[p].op = "get" /\ \A q \in Procs : q # p => call'[q] = call[q]
    BY <2>1 DEF NoCall, DurableInv, TypeOK
  <2>3. PageInv(c)
    BY DEF DurableInv
  <2>4. PageInv(call[p])'
    BY <1>1, <1>7, <2>2, <2>3 DEF PageInv, Visible, NoSession, Present, NoCells
  <2>5. QED
    BY <2>2, <2>4, PageSteps
<1>8. CASE c.at = "sync" /\ c.op = "set" /\ c.lazy
  <2>1. Finish(p, "true")
    BY <1>8 DEF SyncContent, At
  <2>2. QED
    BY <1>1, <1>8, <2>1, FinishKeeps
<1>9. CASE c.at = "sync" /\ c.op = "initialize"
  <2>1. Finish(p, "true")
    BY <1>9 DEF SyncContent, At
  <2>2. QED
    BY <1>1, <1>9, <2>1, FinishKeeps
<1>10. c.at = "sync" => c.op \in {"initialize", "set", "get", "commit", "terminate"}
  BY <1>2 DEF StepsOf, Call, Operations
<1>11. QED
  BY <1>1, <1>3, <1>4, <1>5, <1>6, <1>7, <1>8, <1>9, <1>10

LEMMA PersistProgressKeeps ==
  ASSUME DurableInv, TypeOK', OneWriter, NEW p \in Pages, PersistProgress(p)
  PROVE  DurableInv'
<1> p \in Procs
  BY DEF Procs
<1>1. call[p].at = "progress" /\ UNCHANGED <<sess, attempt, accepted>>
  BY DEF PersistProgress, At
<1>2. call[p].op \in {"set", "terminate"} /\ call[p].pend = NoCells
  BY <1>1 DEF DurableInv, PageInv, StepsOf, TypeOK, Call, Operations
<1>3. CASE call[p].op = "set"
  <2>1. Finish(p, "true")
    BY <1>3 DEF PersistProgress
  <2>2. QED
    BY <1>1, <1>3, <2>1, FinishKeeps
<1>4. CASE call[p].op = "terminate"
  <2>1. Goto(p, "find")
    BY <1>4 DEF PersistProgress
  <2>2. QED
    BY <1>1, <1>2, <1>4, <2>1, QuietKeeps DEF Step, StepsOf
<1>5. QED
  BY <1>2, <1>3, <1>4

LEMMA FailureKeeps ==
  ASSUME DurableInv, TypeOK', OneWriter, NEW p \in Pages, SessionFails(p) \/ Abort(p)
  PROVE  DurableInv'
<1> p \in Procs
  BY DEF Procs
<1>1. UNCHANGED <<sess, attempt, accepted>> /\ call[p].op \in Faults
  BY DEF SessionFails, Abort, documents
<1>2. call[p].op # "terminate"
  BY <1>1 DEF OneWriter
<1>3. CASE SessionFails(p)
  <2>1. \/ call[p].op = "initialize" /\ call[p].at = "create" /\ Goto(p, "save")
        \/ call[p].op = "set" /\ call[p].at # "idle" /\ Goto(p, "error")
        \/ call[p].op = "commit" /\ call[p].at # "idle" /\ Goto(p, "error")
    BY <1>3 DEF SessionFails, At
  <2>2. QED
    BY <1>1, <2>1, QuietKeeps DEF Step, StepsOf
<1>4. CASE Abort(p)
  <2>1. Finish(p, "failed")
    BY <1>4 DEF Abort
  <2>2. QED
    BY <1>1, <1>2, <2>1, FinishKeeps
<1>5. QED
  BY <1>3, <1>4

(* Heartbeats: in memory they see and leave the pending values as they are. *)
LEMMA TimerStep ==
  ASSUME TypeOK, TimersInv, Store = "memory", NEW t \in Timers,
         StartBeat(t) \/ Advance(t) \/ SessionFails(t) \/ Abort(t)
  PROVE  /\ UNCHANGED <<attempt, accepted>> /\ sess'.pending = sess.pending
         /\ Present(sess') <=> Present(sess)
         /\ TimersInv'
         /\ \A q \in Procs : q # t => call'[q] = call[q]
<1> t \in Procs /\ t \notin Pages
  BY ProcessAssumption DEF Procs
<1>1. call[t].op \in {"none", "beat"} /\ call[t].at \in {"idle", "beat", "find"}
  BY DEF TimersInv
<1>2. \/ StartBeat(t) \/ Heartbeat(t) \/ FindSession(t) \/ Abort(t)
  BY <1>1 DEF Advance, CreateSession, AddPending, SetSessionError, ClearPending, EndSession,
              CheckTtl, TimeOut, Peek, SaveAttempt, SaveFails, SyncContent, PersistProgress,
              SessionFails, At
<1>3. /\ UNCHANGED <<attempt, accepted>> /\ sess'.pending = sess.pending
      /\ Present(sess') <=> Present(sess)
  BY <1>2 DEF StartBeat, Begin, Heartbeat, Fetch, Held, FindSession, Abort, documents,
              TypeOK, Session, Present
<1>4. /\ call'[t].at \in {"idle", "beat", "find"} /\ call'[t].op \in {"none", "beat"}
      /\ call'[t].at # "idle" => call'[t].op = "beat"
      /\ \A q \in Procs : q # t => call'[q] = call[q]
  <2>1. CASE StartBeat(t)
    BY <2>1, BeginFields DEF StartBeat
  <2>2. CASE Heartbeat(t)
    <3>1. call[t].op = "beat"
      BY <2>2 DEF Heartbeat, At, TimersInv
    <3>2. Goto(t, "find") \/ Finish(t, "false")
      BY <2>2 DEF Heartbeat, Fetch
    <3>3. QED
      BY <3>1, <3>2, FinishFields, GotoFields
  <2>3. CASE FindSession(t)
    <3>1. call[t].op = "beat"
      BY <2>3 DEF FindSession, At, TimersInv
    <3>2. Finish(t, "true")
      BY <2>3, <3>1 DEF FindSession, Found, NotFound
    <3>3. QED
      BY <1>1, <3>2, FinishFields
  <2>4. CASE Abort(t)
    BY <1>1, <2>4, FinishFields DEF Abort
  <2>5. QED
    BY <1>2, <2>1, <2>2, <2>3, <2>4
<1>5. TimersInv'
  BY <1>4 DEF TimersInv, Procs
<1> QED
  BY <1>3, <1>4, <1>5

LEMMA TimerKeeps ==
  ASSUME DurableInv, TypeOK', OneWriter, NEW t \in Timers,
         StartBeat(t) \/ Advance(t) \/ SessionFails(t) \/ Abort(t)
  PROVE  DurableInv'
<1>1. TypeOK /\ TimersInv /\ Store = "memory"
  BY DEF DurableInv, OneWriter
<1>2. /\ UNCHANGED <<attempt, accepted>> /\ sess'.pending = sess.pending /\ TimersInv'
      /\ \A q \in Procs : q # t => call'[q] = call[q]
  BY <1>1, TimerStep
<1>3. ASSUME NEW p \in Pages PROVE PageInv(call[p])'
  <2>1. call'[p] = call[p] /\ PageInv(call[p])
    BY <1>2, ProcessAssumption DEF Procs, DurableInv
  <2>2. QED
    BY <1>2, <2>1 DEF PageInv, Settled, Visible, Nothing
<1>4. QED
  BY <1>2, <1>3 DEF DurableInv

LEMMA EnvironmentKeeps ==
  ASSUME DurableInv, TypeOK', OneWriter, Restart \/ Expire \/ UNCHANGED vars
  PROVE  DurableInv'
<1>1. CASE UNCHANGED vars
  BY <1>1 DEF vars, documents, DurableInv, TimersInv, PageInv, Settled, Visible, Nothing
<1>2. CASE Expire
  <2>1. UNCHANGED <<call, attempt>> /\ (UNCHANGED <<sess, accepted>> \/ accepted' = NoCells)
    BY <1>2 DEF Expire, documents
  <2>2. TimersInv'
    BY <2>1 DEF TimersInv, DurableInv
  <2>3. ASSUME NEW p \in Pages PROVE PageInv(call[p])'
    <3>1. PageInv(call[p])
      BY DEF DurableInv
    <3>2. CASE UNCHANGED <<sess, accepted>>
      BY <2>1, <3>1, <3>2 DEF PageInv, Settled, Visible, Nothing
    <3>3. CASE accepted' = NoCells
      BY <2>1, <3>1, <3>3 DEF PageInv, Settled, Nothing, NoCells
    <3>4. QED
      BY <2>1, <3>2, <3>3
  <2>4. QED
    BY <2>2, <2>3 DEF DurableInv
<1>3. CASE Restart
  <2>1. /\ UNCHANGED attempt
        /\ UNCHANGED <<sess, accepted>> \/ accepted' = NoCells
    <3>1. CASE Store = "memory"
      BY <1>3, <3>1 DEF Restart, documents
    <3>2. CASE Store # "memory"
      BY <1>3, <3>2 DEF Restart, documents
    <3>3. QED
      BY <3>1, <3>2
  <2>2. \A q \in Procs :
          \/ call'[q] = call[q] /\ call[q].at = "idle"
          \/ /\ call'[q].at = "idle" /\ call'[q].op = call[q].op /\ call'[q].reply = "failed"
             /\ call'[q].pend = NoCells /\ call'[q].held = NoSession
             /\ call[q].op \in Faults
    <3>1. TAKE q \in Procs
    <3>2. CASE At(q, "idle")
      BY <1>3, <3>2 DEF Restart, At
    <3>3. CASE ~At(q, "idle")
      <4>1. call'[q] = [NoCall EXCEPT !.op = call[q].op, !.reply = "failed"]
        BY <1>3, <3>3 DEF Restart, At
      <4>2. call[q].op \in Faults
        BY <1>3, <3>3 DEF Restart, At
      <4>3. QED
        BY <4>1, <4>2 DEF NoCall
    <3>4. QED
      BY <3>2, <3>3
  <2>3. TimersInv'
    BY <2>2 DEF TimersInv, DurableInv, Procs
  <2>4. ASSUME NEW p \in Pages PROVE PageInv(call[p])'
    <3>1. PageInv(call[p]) /\ p \in Procs
      BY DEF DurableInv, Procs
    <3>2. CASE UNCHANGED <<sess, accepted>> /\ call'[p] = call[p]
      BY <2>1, <3>1, <3>2 DEF PageInv, Settled, Visible, Nothing
    <3>3. CASE accepted' = NoCells /\ call'[p] = call[p] /\ call[p].at = "idle"
      BY <3>1, <3>3 DEF PageInv, Settled, Nothing, NoCells
    <3>4. CASE /\ call'[p].at = "idle" /\ call'[p].op = call[p].op
               /\ call'[p].reply = "failed" /\ call'[p].pend = NoCells
               /\ call'[p].held = NoSession /\ call[p].op \in Faults
      <4>1. call[p].op # "terminate"
        BY <3>4 DEF OneWriter
      <4>2. \A e \in Elements : accepted[e] \in {NoValue, Visible(e)}
        BY <3>1, <4>1 DEF PageInv
      <4>3. \A e \in Elements : accepted'[e] \in {NoValue, Visible(e)'}
        BY <2>1, <4>2 DEF Visible, NoCells
      <4>4. QED
        BY <3>4, <4>1, <4>3 DEF PageInv, NoSession, Present, NoCells
    <3>5. QED
      BY <2>1, <2>2, <3>1, <3>2, <3>3, <3>4
  <2>5. QED
    BY <2>3, <2>4 DEF DurableInv
<1>4. QED
  BY <1>1, <1>2, <1>3

(* Every step keeps the invariant. *)
LEMMA NextKeeps ==
  ASSUME DurableInv, TypeOK', OneWriter, [Next]_vars
  PROVE  DurableInv'
<1>1. ASSUME NEW p \in Pages, Advance(p) PROVE DurableInv'
  <2>1. ~Heartbeat(p)
    BY DEF Heartbeat, At, DurableInv, PageInv, StepsOf
  <2>2. CASE CreateSession(p)
    BY <2>2, CreateSessionKeeps
  <2>3. CASE AddPending(p)
    BY <2>3, AddPendingKeeps
  <2>4. CASE SetSessionError(p) \/ EndSession(p) \/ TimeOut(p)
    BY <2>4, SessionWriteKeeps
  <2>5. CASE ClearPending(p)
    BY <2>5, ClearPendingKeeps
  <2>6. CASE FindSession(p) \/ CheckTtl(p)
    BY <2>6, FindSessionKeeps
  <2>7. CASE Peek(p)
    BY <2>7, PeekKeeps
  <2>8. CASE SaveAttempt(p)
    BY <2>8, SaveAttemptKeeps
  <2>9. CASE SaveFails(p)
    BY <2>9, SaveFailsKeeps
  <2>10. CASE SyncContent(p)
    BY <2>10, SyncContentKeeps
  <2>11. CASE PersistProgress(p)
    BY <2>11, PersistProgressKeeps
  <2>12. QED
    BY <1>1, <2>1, <2>2, <2>3, <2>4, <2>5, <2>6, <2>7, <2>8, <2>9, <2>10, <2>11 DEF Advance
<1>2. ASSUME NEW p \in Pages, Request(p) PROVE DurableInv'
  BY <1>2, StartKeeps
<1>3. ASSUME NEW p \in Pages, SessionFails(p) \/ Abort(p) PROVE DurableInv'
  BY <1>3, FailureKeeps
<1>4. ASSUME NEW t \in Timers, StartBeat(t) \/ Advance(t) \/ SessionFails(t) \/ Abort(t)
      PROVE  DurableInv'
  BY <1>4, TimerKeeps
<1>5. CASE Restart \/ Expire \/ UNCHANGED vars
  BY <1>5, EnvironmentKeeps
<1>6. QED
  BY <1>1, <1>2, <1>3, <1>4, <1>5 DEF Next, Procs

LEMMA DurableInvInit ==
  ASSUME Init, TypeOK
  PROVE  DurableInv
BY DEF Init, DurableInv, TimersInv, PageInv, Procs, NoCall, NoCells, NoSession, Present,
       Nothing, Visible, NewAttempt

(* With one page, no heartbeat that overwrites the session and no failure   *)
(* between terminate's clear and its save, no value SetValue took is lost   *)
(* before it is in the attempt, whatever else fails, restarts or expires.  *)
THEOREM DurableCorrect ==
  ASSUME OneWriter
  PROVE  Spec => []Durable
<1>1. Init /\ TypeOK => DurableInv
  BY DurableInvInit
<1>2. DurableInv /\ TypeOK' /\ [Next]_vars => DurableInv'
  BY NextKeeps
<1>3. DurableInv => Durable
  BY DurableInvImplies
<1>4. QED
  BY <1>1, <1>2, <1>3, TypeCorrect, PTL DEF Spec

(* Under the same assumptions a commit or terminate that has answered true  *)
(* has stored every value the session took.                                *)
THEOREM CommitSavesCorrect ==
  ASSUME OneWriter
  PROVE  Spec => []CommitSaves
<1>1. Init /\ TypeOK => DurableInv
  BY DurableInvInit
<1>2. DurableInv /\ TypeOK' /\ [Next]_vars => DurableInv'
  BY NextKeeps
<1>3. DurableInv => CommitSaves
  BY DurableInvImplies
<1>4. QED
  BY <1>1, <1>2, <1>3, TypeCorrect, PTL DEF Spec

-------------------------------------------------------------------------------
(* Where the requests are.  This holds whatever races and whatever fails.  *)

(* A step of a handler belongs to one request in flight, and leaves what   *)
(* operation it is.                                                        *)
OwnStep(q) ==
  /\ call[q].at # "idle"
  /\ call'[q].op = call[q].op
  /\ \A r \in Procs : r # q => call'[r] = call[r]

LEMMA ChangeIsOwn ==
  ASSUME TypeOK, NEW q \in Procs, call[q].at # "idle", NEW c, c.op = call[q].op,
         call' = [call EXCEPT ![q] = c]
  PROVE  OwnStep(q)
BY DEF OwnStep, TypeOK

LEMMA GotoIsOwn ==
  ASSUME TypeOK, NEW q \in Procs, call[q].at # "idle", NEW step,
         Goto(q, step) \/ Finish(q, step)
  PROVE  OwnStep(q)
BY GotoFields, FinishFields DEF OwnStep

LEMMA FetchIsOwn ==
  ASSUME TypeOK, NEW q \in Procs, call[q].at # "idle", Fetch(q)
  PROVE  OwnStep(q)
<1>1. [call[q] EXCEPT !.held = sess].op = call[q].op
  BY DEF TypeOK, Call
<1> QED
  BY <1>1, ChangeIsOwn DEF Fetch

LEMMA AdvanceIsOwn ==
  ASSUME TypeOK, NEW q \in Procs, Advance(q) \/ SessionFails(q) \/ Abort(q)
  PROVE  OwnStep(q)
<1> DEFINE c == call[q]
<1>1. c \in Call /\ c.at # "idle"
  BY DEF TypeOK, Advance, CreateSession, AddPending, SetSessionError, ClearPending, EndSession,
         Heartbeat, FindSession, CheckTtl, TimeOut, Peek, SaveAttempt, SaveFails, SyncContent,
         PersistProgress, SessionFails, Abort, Uncaught, At
<1>2. CASE \/ SetSessionError(q) \/ ClearPending(q) \/ EndSession(q) \/ Heartbeat(q)
           \/ TimeOut(q)
  BY <1>1, <1>2, GotoIsOwn, FetchIsOwn
  DEF SetSessionError, ClearPending, EndSession, Heartbeat, TimeOut, NotFound
<1>3. CASE \/ CreateSession(q) \/ FindSession(q) \/ CheckTtl(q) \/ SaveFails(q)
           \/ PersistProgress(q) \/ SessionFails(q) \/ Abort(q)
  BY <1>1, <1>3, GotoIsOwn
  DEF CreateSession, FindSession, CheckTtl, SaveFails, PersistProgress, SessionFails, Abort,
      Found, NotFound
<1>4. CASE AddPending(q)
  <2>1. CASE Fetch(q) \/ Goto(q, "ack")
    BY <1>1, <2>1, GotoIsOwn, FetchIsOwn
  <2>2. CASE call' = [call EXCEPT ![q].at = IF c.lazy THEN "error" ELSE "create",
                                  ![q].lazy = TRUE]
    <3> DEFINE d == [c EXCEPT !.at = IF c.lazy THEN "error" ELSE "create", !.lazy = TRUE]
    <3>1. call' = [call EXCEPT ![q] = d] /\ d.op = c.op
      BY <1>1, <2>2 DEF TypeOK, Call
    <3> HIDE DEF d
    <3> QED
      BY <1>1, <3>1, ChangeIsOwn
  <2> QED
    BY <1>4, <2>1, <2>2 DEF AddPending
<1>5. CASE Peek(q)
  <2>1. CASE Finish(q, "true")
    BY <1>1, <2>1, GotoIsOwn
  <2>2. ASSUME NEW step, call' = [call EXCEPT ![q].at = step, ![q].pend = sess.pending]
        PROVE  OwnStep(q)
    <3> DEFINE d == [c EXCEPT !.at = step, !.pend = sess.pending]
    <3>1. call' = [call EXCEPT ![q] = d] /\ d.op = c.op
      BY <1>1, <2>2 DEF TypeOK, Call
    <3> HIDE DEF d
    <3> QED
      BY <1>1, <3>1, ChangeIsOwn
  <2>3. ASSUME NEW v, call' = [call EXCEPT ![q].at = "save", ![q].val = v]
        PROVE  OwnStep(q)
    <3> DEFINE d == [c EXCEPT !.at = "save", !.val = v]
    <3>1. call' = [call EXCEPT ![q] = d] /\ d.op = c.op
      BY <1>1, <2>3 DEF TypeOK, Call
    <3> HIDE DEF d
    <3> QED
      BY <1>1, <3>1, ChangeIsOwn
  <2>4. ASSUME NEW v, c.op = "get",
               call' = [call EXCEPT ![q] = [NoCall EXCEPT !.op = "get", !.reply = "true",
                                              !.elem = c.elem, !.val = v]]
        PROVE  OwnStep(q)
    BY <1>1, <2>4, ChangeIsOwn DEF NoCall
  <2> QED
    BY <1>5, <2>1, <2>2, <2>3, <2>4 DEF Peek
<1>6. CASE SaveAttempt(q)
  <2> DEFINE d == [c EXCEPT !.at = "sync", !.base = Edited(c)]
  <2>1. call' = [call EXCEPT ![q] = d] /\ d.op = c.op
    BY <1>1, <1>6 DEF SaveAttempt, TypeOK, Call
  <2> HIDE DEF d
  <2> QED
    BY <1>1, <2>1, ChangeIsOwn
<1>7. CASE SyncContent(q)
  <2>1. CASE (\E step : Goto(q, step)) \/ Finish(q, "true")
    BY <1>1, <2>1, GotoIsOwn
  <2>2. CASE c.op = "get" /\ call' = [call EXCEPT ![q] = [NoCall EXCEPT
                                !.op = "get", !.reply = "true", !.elem = c.elem, !.val = c.val]]
    BY <1>1, <2>2, ChangeIsOwn DEF NoCall
  <2>3. \/ \E step : Goto(q, step)
        \/ Finish(q, "true")
        \/ c.op = "get" /\ call' = [call EXCEPT ![q] = [NoCall EXCEPT
                                !.op = "get", !.reply = "true", !.elem = c.elem, !.val = c.val]]
    BY <1>7 DEF SyncContent
  <2> QED
    BY <2>1, <2>2, <2>3
<1> QED
  BY <1>2, <1>3, <1>4, <1>5, <1>6, <1>7 DEF Advance

(* The steps of a request, a heartbeat's included. *)
StepOf(op) == IF op = "beat" THEN {"beat", "find", "ttl", "timeout"} ELSE StepsOf(op)

RouteInv ==
  /\ TypeOK
  /\ \A q \in Procs : call[q].at = "idle" \/ call[q].at \in StepOf(call[q].op)
  /\ \A t \in Timers : call[t].op \in {"none", "beat"}
  /\ \A p \in Pages : call[p].op # "beat"

LEMMA OwnStepRoute ==
  ASSUME RouteInv, NEW q \in Procs, Advance(q) \/ SessionFails(q) \/ Abort(q)
  PROVE  call'[q].at = "idle" \/ call'[q].at \in StepOf(call[q].op)
<1> DEFINE c == call[q]
<1>1. TypeOK /\ c \in Call /\ c.at # "idle" /\ c.at \in StepOf(c.op)
  BY AdvanceIsOwn DEF RouteInv, OwnStep, TypeOK
<1>2. ASSUME NEW step \in StepOf(c.op), Goto(q, step)
      PROVE  call'[q].at \in StepOf(c.op)
  BY <1>1, <1>2, GotoFields
<1>3. ASSUME NEW r, Finish(q, r)
      PROVE  call'[q].at = "idle"
  BY <1>1, <1>3, FinishFields
<1>4. ASSUME Fetch(q) PROVE call'[q].at \in StepOf(c.op)
  <2>1. call'[q] = [c EXCEPT !.held = sess]
    BY <1>1, <1>4 DEF Fetch, TypeOK
  <2> QED
    BY <1>1, <2>1 DEF Call
<1>5. CASE CreateSession(q)
  <2>1. c.op \in {"initialize", "set"}
    BY <1>1, <1>5 DEF CreateSession, At, StepOf, StepsOf, Call, Operations
  <2> QED
    BY <1>2, <1>5, <2>1 DEF CreateSession, StepOf, StepsOf
<1>6. CASE AddPending(q)
  <2>1. c.op = "set"
    BY <1>1, <1>6 DEF AddPending, At, StepOf, StepsOf, Call, Operations
  <2>2. CASE call' = [call EXCEPT ![q].at = IF c.lazy THEN "error" ELSE "create",
                                  ![q].lazy = TRUE]
    <3> DEFINE d == [c EXCEPT !.at = IF c.lazy THEN "error" ELSE "create", !.lazy = TRUE]
    <3>1. call' = [call EXCEPT ![q] = d] /\ d.at \in {"error", "create"}
      BY <1>1, <2>2 DEF TypeOK, Call
    <3> HIDE DEF d
    <3> QED
      BY <1>1, <2>1, <3>1 DEF TypeOK, StepOf, StepsOf
  <2> QED
    BY <1>2, <1>4, <1>6, <2>1, <2>2 DEF AddPending, StepOf, StepsOf
<1>7. CASE SetSessionError(q)
  BY <1>2, <1>3, <1>4, <1>7 DEF SetSessionError, StepOf, StepsOf
<1>8. CASE ClearPending(q)
  <2>1. c.op \in {"commit", "terminate"}
    BY <1>1, <1>8 DEF ClearPending, At, StepOf, StepsOf, Call, Operations
  <2> QED
    BY <1>2, <1>4, <1>8, <2>1 DEF ClearPending, StepOf, StepsOf
<1>9. CASE EndSession(q) \/ TimeOut(q)
  BY <1>3, <1>4, <1>9 DEF EndSession, TimeOut, NotFound
<1>10. CASE Heartbeat(q)
  <2>1. c.op = "beat"
    BY <1>1, <1>10 DEF Heartbeat, At, StepOf, StepsOf, Call, Operations
  <2> QED
    BY <1>2, <1>3, <1>4, <1>10, <2>1 DEF Heartbeat, StepOf
<1>11. CASE FindSession(q) \/ CheckTtl(q)
  <2>1. c.op \in {"beat", "terminate"}
    BY <1>1, <1>11 DEF FindSession, CheckTtl, At, StepOf, StepsOf, Call, Operations
  <2> QED
    BY <1>2, <1>3, <1>11, <2>1 DEF FindSession, CheckTtl, Found, NotFound, StepOf, StepsOf
<1>12. CASE Peek(q)
  <2>1. CASE call' = [call EXCEPT ![q].at = "save", ![q].pend = sess.pending]
             /\ c.op \in {"commit", "terminate"}
    <3>1. call'[q] = [c EXCEPT !.at = "save", !.pend = sess.pending]
      BY <1>1, <2>1 DEF TypeOK, Call
    <3>2. call'[q].at = "save"
      BY <1>1, <3>1 DEF Call
    <3>3. "save" \in StepOf(c.op)
      BY <2>1 DEF StepOf, StepsOf
    <3> QED
      BY <3>2, <3>3
  <2>2. CASE call' = [call EXCEPT ![q].at = "clear", ![q].pend = sess.pending]
             /\ c.op = "terminate"
    <3>1. call'[q] = [c EXCEPT !.at = "clear", !.pend = sess.pending]
      BY <1>1, <2>2 DEF TypeOK, Call
    <3>2. call'[q].at = "clear"
      BY <1>1, <3>1 DEF Call
    <3>3. "clear" \in StepOf(c.op)
      BY <2>2 DEF StepOf, StepsOf
    <3> QED
      BY <3>2, <3>3
  <2>3. CASE call' = [call EXCEPT ![q].at = "save", ![q].val = Stored(c)] /\ c.op = "get"
    <3>1. call'[q] = [c EXCEPT !.at = "save", !.val = Stored(c)]
      BY <1>1, <2>3 DEF TypeOK, Call
    <3>2. call'[q].at = "save"
      BY <1>1, <3>1 DEF Call
    <3>3. "save" \in StepOf(c.op)
      BY <2>3 DEF StepOf, StepsOf
    <3> QED
      BY <3>2, <3>3
  <2>4. CASE call' = [call EXCEPT ![q] = [NoCall EXCEPT !.op = "get", !.reply = "true",
                                      !.elem = c.elem, !.val = Cell(sess.pending, c.elem)]]
    BY <1>1, <2>4 DEF TypeOK, NoCall
  <2>5. CASE Finish(q, "true")
    BY <1>3, <2>5
  <2>6. CASE sess.pending = NoCells
    BY <1>12, <2>1, <2>3, <2>4, <2>5, <2>6 DEF Peek
  <2>7. CASE sess.pending # NoCells
    BY <1>12, <2>1, <2>2, <2>3, <2>4, <2>7 DEF Peek
  <2> QED
    BY <2>6, <2>7
<1>13. CASE SaveAttempt(q)
  <2>1. c.op \in {"initialize", "set", "get", "commit", "terminate"}
    BY <1>1, <1>13 DEF SaveAttempt, At, StepOf, StepsOf, Call, Operations
  <2>2. call'[q] = [c EXCEPT !.at = "sync", !.base = Edited(c)]
    BY <1>1, <1>13 DEF SaveAttempt, TypeOK, Call
  <2> QED
    BY <1>1, <2>1, <2>2 DEF Call, StepOf, StepsOf
<1>14. CASE SaveFails(q)
  BY <1>2, <1>3, <1>14 DEF SaveFails, StepOf, StepsOf
<1>15. CASE SyncContent(q)
  <2>1. CASE c.at = "touch"
    <3>1. c.op = "terminate" /\ Goto(q, "progress")
      BY <1>1, <1>15, <2>1 DEF SyncContent, At, StepOf, StepsOf, Call, Operations
    <3> QED
      BY <1>2, <3>1 DEF StepOf, StepsOf
  <2>2. CASE c.at = "sync" /\ c.op = "get"
    <3>1. call' = [call EXCEPT ![q] = [NoCall EXCEPT !.op = "get", !.reply = "true",
                                         !.elem = c.elem, !.val = c.val]]
      BY <1>15, <2>2 DEF SyncContent, At
    <3> QED
      BY <1>1, <3>1 DEF TypeOK, NoCall
  <2>3. CASE c.at = "sync" /\ c.op # "get"
    BY <1>2, <1>3, <1>15, <2>3 DEF SyncContent, At, StepOf, StepsOf
  <2> QED
    BY <1>15, <2>1, <2>2, <2>3 DEF SyncContent
<1>16. CASE PersistProgress(q)
  <2>1. c.op \in {"set", "terminate"}
    BY <1>1, <1>16 DEF PersistProgress, At, StepOf, StepsOf, Call, Operations
  <2> QED
    BY <1>2, <1>3, <1>16, <2>1 DEF PersistProgress, StepOf, StepsOf
<1>17. CASE SessionFails(q) \/ Abort(q)
  BY <1>2, <1>3, <1>17 DEF SessionFails, Abort, StepOf, StepsOf
<1> QED
  BY <1>5, <1>6, <1>7, <1>8, <1>9, <1>10, <1>11, <1>12, <1>13, <1>14, <1>15, <1>16, <1>17
  DEF Advance

(* The other steps: a request starts, or is lost in a restart. *)
LEMMA RequestBegins ==
  ASSUME TypeOK, NEW p \in Pages, Request(p)
  PROVE  /\ call[p].at = "idle" /\ call'[p].op # "beat" /\ call'[p].at \in StepOf(call'[p].op)
         /\ call'[p].at \in {"create", "peek", "touch", "error", "add"}
         /\ call'[p].base = attempt /\ call'[p].pend = NoCells /\ call'[p].held = NoSession
         /\ UNCHANGED <<sess, attempt, content, accepted>>
         /\ \A q \in Procs : q # p => call'[q] = call[q]
<1>1. p \in Procs
  BY DEF Procs
<1>2. /\ call[p].at = "idle" /\ UNCHANGED <<sess, attempt, content, accepted>>
  BY DEF Request, StartInitialize, StartCommit, StartTerminate, StartReject, StartSet, StartSetOf,
         StartGet, Begin, documents, At
<1>3. CASE StartInitialize(p) \/ StartCommit(p) \/ StartTerminate(p) \/ StartReject(p)
  BY <1>1, <1>2, <1>3, BeginFields
  DEF StartInitialize, StartCommit, StartTerminate, StartReject, StepOf, StepsOf
<1>4. CASE StartSet(p)
  <2>1. PICK e \in Elements : \E v \in Values[e] : StartSetOf(p, e, v)
    BY <1>4 DEF StartSet
  <2>2. PICK v \in Values[e] : StartSetOf(p, e, v)
    BY <2>1
  <2> QED
    BY <1>1, <1>2, <2>2 DEF StartSetOf, TypeOK, NoCall, StepOf, StepsOf
<1>5. CASE StartGet(p)
  <2>1. PICK e \in Elements :
          call' = [call EXCEPT ![p] = [NoCall EXCEPT !.op = "get", !.at = "peek",
                                         !.elem = e, !.base = attempt]]
    BY <1>5 DEF StartGet
  <2> QED
    BY <1>1, <1>2, <2>1 DEF TypeOK, NoCall, StepOf, StepsOf
<1> QED
  BY <1>3, <1>4, <1>5 DEF Request

LEMMA RestartEnds ==
  ASSUME TypeOK, Restart
  PROVE  /\ UNCHANGED <<attempt, content>>
         /\ \/ sess' = sess /\ accepted' = accepted
            \/ Store = "memory" /\ sess' = NoSession /\ accepted' = NoCells
         /\ \A q \in Procs :
              \/ call'[q] = call[q] /\ call[q].at = "idle"
              \/ /\ call'[q].at = "idle" /\ call'[q].op = call[q].op /\ call'[q].reply = "failed"
                 /\ call'[q].pend = NoCells /\ call'[q].held = NoSession
                 /\ call[q].op \in Faults
<1>1. UNCHANGED <<attempt, content>>
  BY DEF Restart, documents
<1>2. \/ sess' = sess /\ accepted' = accepted
      \/ Store = "memory" /\ sess' = NoSession /\ accepted' = NoCells
  <2>1. CASE Store = "memory"
    BY <2>1 DEF Restart
  <2>2. CASE Store # "memory"
    BY <2>2 DEF Restart
  <2> QED
    BY <2>1, <2>2
<1>3. ASSUME NEW q \in Procs
      PROVE  \/ call'[q] = call[q] /\ call[q].at = "idle"
             \/ /\ call'[q].at = "idle" /\ call'[q].op = call[q].op /\ call'[q].reply = "failed"
                /\ call'[q].pend = NoCells /\ call'[q].held = NoSession
                /\ call[q].op \in Faults
  <2>1. CASE At(q, "idle")
    BY <2>1 DEF Restart, At
  <2>2. CASE ~At(q, "idle")
    <3>1. call'[q] = [NoCall EXCEPT !.op = call[q].op, !.reply = "failed"] /\ call[q].op \in Faults
      BY <2>2 DEF Restart, At
    <3> QED
      BY <3>1 DEF NoCall
  <2> QED
    BY <2>1, <2>2
<1> QED
  BY <1>1, <1>2, <1>3

LEMMA RouteStep ==
  ASSUME RouteInv, TypeOK', [Next]_vars
  PROVE  RouteInv'
<1>1. TypeOK
  BY DEF RouteInv
<1>2. ASSUME NEW q \in Procs, call'[q].at = "idle" \/ call'[q].at \in StepOf(call'[q].op),
             q \in Timers => call'[q].op \in {"none", "beat"},
             q \in Pages => call'[q].op # "beat",
             \A r \in Procs : r # q => call'[r] = call[r]
      PROVE  RouteInv'
  BY <1>2 DEF RouteInv, Procs
<1>3. ASSUME NEW p \in Pages, Request(p) PROVE RouteInv'
  <2>1. p \in Procs /\ p \notin Timers
    BY ProcessAssumption DEF Procs
  <2> QED
    BY <1>1, <1>2, <1>3, <2>1, RequestBegins
<1>4. ASSUME NEW t \in Timers, StartBeat(t) PROVE RouteInv'
  <2>1. t \in Procs /\ t \notin Pages
    BY ProcessAssumption DEF Procs
  <2> QED
    BY <1>1, <1>2, <1>4, <2>1, BeginFields DEF StartBeat, StepOf
<1>5. ASSUME NEW q \in Procs, Advance(q) \/ SessionFails(q) \/ Abort(q) PROVE RouteInv'
  <2>1. OwnStep(q)
    BY <1>1, <1>5, AdvanceIsOwn
  <2>2. call'[q].at = "idle" \/ call'[q].at \in StepOf(call'[q].op)
    BY <1>5, <2>1, OwnStepRoute DEF OwnStep
  <2> QED
    BY <1>2, <2>1, <2>2 DEF OwnStep, RouteInv
<1>6. CASE Restart
  BY <1>1, <1>6, RestartEnds DEF RouteInv, Procs
<1>7. CASE Expire \/ UNCHANGED vars
  BY <1>7 DEF Expire, vars, RouteInv
<1> QED
  BY <1>3, <1>4, <1>5, <1>6, <1>7 DEF Next

LEMMA RouteInvInit == Init => RouteInv
BY InitType DEF Init, RouteInv, NoCall, Procs

(* Every request is at a step of its own handler, for any pages, timers and *)
(* faults: no handler goes where another does.                             *)
THEOREM RouteCorrect == Spec => []RouteInv
BY RouteInvInit, RouteStep, TypeCorrect, PTL DEF Spec

-------------------------------------------------------------------------------
(* The documents of an attempt one page has open.  No heartbeat saves, so   *)
(* the page's handler holds the document as it is stored.                  *)

OneDocument ==
  /\ RouteInv
  /\ \A p \in Pages : call[p].at # "idle" => call[p].base = attempt

(* All steps but the save leave the attempt, and the document in hand. *)
LEMMA DocumentStays ==
  ASSUME RouteInv, NEW q \in Procs, Advance(q) \/ SessionFails(q) \/ Abort(q), ~SaveAttempt(q)
  PROVE  /\ attempt' = attempt
         /\ call'[q].at # "idle" => call'[q].base = call[q].base
         /\ ~SyncContent(q) => content' = content
<1> DEFINE c == call[q]
<1>1. TypeOK /\ c \in Call
  BY DEF RouteInv, TypeOK
<1>2. attempt' = attempt /\ (~SyncContent(q) => content' = content)
  BY DEF Advance, SessionFails, Abort, CreateSession, AddPending, SetSessionError, ClearPending,
         EndSession, Heartbeat, FindSession, CheckTtl, TimeOut, Peek, SaveFails, SyncContent,
         PersistProgress, Fetch, documents
<1>3. ASSUME NEW step, Goto(q, step) PROVE call'[q].base = c.base
  BY <1>1, <1>3, GotoFields
<1>4. ASSUME NEW r, Finish(q, r) PROVE call'[q].at = "idle"
  BY <1>1, <1>4, FinishFields
<1>5. ASSUME Fetch(q) PROVE call'[q].base = c.base
  <2>1. call'[q] = [c EXCEPT !.held = sess]
    BY <1>1, <1>5 DEF Fetch, TypeOK
  <2> QED
    BY <1>1, <2>1 DEF Call
<1>6. CASE CreateSession(q)
  BY <1>2, <1>3, <1>6 DEF CreateSession
<1>7. CASE AddPending(q)
  <2>1. CASE call' = [call EXCEPT ![q].at = IF c.lazy THEN "error" ELSE "create",
                                  ![q].lazy = TRUE]
    <3>1. call'[q] = [c EXCEPT !.at = IF c.lazy THEN "error" ELSE "create", !.lazy = TRUE]
      BY <1>1, <2>1 DEF TypeOK, Call
    <3>2. call'[q].base = c.base
      BY <1>1, <3>1 DEF Call
    <3> QED
      BY <1>2, <3>2
  <2> QED
    BY <1>2, <1>3, <1>5, <1>7, <2>1 DEF AddPending
<1>8. CASE SetSessionError(q) \/ ClearPending(q)
  BY <1>2, <1>3, <1>4, <1>5, <1>8 DEF SetSessionError, ClearPending
<1>9. CASE EndSession(q) \/ TimeOut(q) \/ Heartbeat(q)
  BY <1>2, <1>3, <1>4, <1>5, <1>9 DEF EndSession, TimeOut, NotFound, Heartbeat
<1>10. CASE FindSession(q) \/ CheckTtl(q)
  BY <1>2, <1>3, <1>4, <1>10 DEF FindSession, CheckTtl, Found, NotFound
<1>11. CASE Peek(q)
  <2>1. CASE call' = [call EXCEPT ![q].at = IF sess.pending = NoCells THEN "save" ELSE "clear",
                                  ![q].pend = sess.pending]
    <3>1. call'[q] = [c EXCEPT !.at = IF sess.pending = NoCells THEN "save" ELSE "clear",
                               !.pend = sess.pending]
      BY <1>1, <2>1 DEF TypeOK, Call
    <3>2. call'[q].base = c.base
      BY <1>1, <3>1 DEF Call
    <3> QED
      BY <1>2, <3>2
  <2>2. CASE call' = [call EXCEPT ![q].at = "save", ![q].pend = sess.pending]
    <3>1. call'[q] = [c EXCEPT !.at = "save", !.pend = sess.pending]
      BY <1>1, <2>2 DEF TypeOK, Call
    <3>2. call'[q].base = c.base
      BY <1>1, <3>1 DEF Call
    <3> QED
      BY <1>2, <3>2
  <2>3. CASE call' = [call EXCEPT ![q].at = "save", ![q].val = Stored(c)]
    <3>1. call'[q] = [c EXCEPT !.at = "save", !.val = Stored(c)]
      BY <1>1, <2>3 DEF TypeOK, Call
    <3>2. call'[q].base = c.base
      BY <1>1, <3>1 DEF Call
    <3> QED
      BY <1>2, <3>2
  <2>4. CASE call' = [call EXCEPT ![q] = [NoCall EXCEPT !.op = "get", !.reply = "true",
                                      !.elem = c.elem, !.val = Cell(sess.pending, c.elem)]]
    BY <1>1, <1>2, <2>4 DEF TypeOK, NoCall
  <2> QED
    BY <1>2, <1>4, <1>11, <2>1, <2>2, <2>3, <2>4 DEF Peek
<1>12. CASE SaveFails(q) \/ PersistProgress(q)
  BY <1>2, <1>3, <1>4, <1>12 DEF SaveFails, PersistProgress
<1>13. CASE SyncContent(q)
  <2>1. CASE call' = [call EXCEPT ![q] = [NoCall EXCEPT !.op = "get", !.reply = "true",
                                            !.elem = c.elem, !.val = c.val]]
    BY <1>1, <1>2, <2>1 DEF TypeOK, NoCall
  <2> QED
    BY <1>2, <1>3, <1>4, <1>13, <2>1 DEF SyncContent
<1>14. CASE SessionFails(q) \/ Abort(q)
  BY <1>2, <1>3, <1>4, <1>14 DEF SessionFails, Abort
<1> QED
  BY <1>6, <1>7, <1>8, <1>9, <1>10, <1>11, <1>12, <1>13, <1>14 DEF Advance

(* What the page saves is the document it holds: nothing was stored under  *)
(* its hands.                                                              *)
LEMMA SaveIsEdited ==
  ASSUME OneDocument, NEW p \in Pages, SaveAttempt(p)
  PROVE  /\ attempt' = Edited(call[p]) /\ call'[p].base = attempt'
         /\ call[p].at = "save" /\ call'[p].at = "sync" /\ call'[p].op = call[p].op
         /\ call'[p].pend = call[p].pend
<1> DEFINE c == call[p]
           new == Edited(c)
<1>1. /\ p \in Procs /\ c \in Call /\ c.at = "save" /\ c.base = attempt /\ TypeOK
      /\ attempt' = Saved(c)
  BY DEF OneDocument, RouteInv, TypeOK, Procs, SaveAttempt, At
<1>2. new \in Attempt /\ attempt \in Attempt
  BY <1>1, EditedType DEF TypeOK
<1>3. c.pend = NoCells => new.cmi = attempt.cmi
  <2>1. c.pend = NoCells => Overlay(attempt.cmi, c.pend) = attempt.cmi
    BY <1>2 DEF Overlay, NoCells, Attempt, Cells
  <2>2. Initialized(attempt).cmi = attempt.cmi
    BY <1>2 DEF Initialized, Attempt
  <2> QED
    BY <1>1, <2>1, <2>2 DEF Edited, Committed, Finished, Stamped
<1>4. attempt.done => new.done
  BY <1>1, <1>2 DEF Edited, Initialized, Committed, Finished, Stamped, Attempt
<1>5. Saved(c) = [status |-> new.status, cmi |-> new.cmi, done |-> new.done]
  <2>1. (attempt.done \/ new.done) = new.done
    BY <1>2, <1>4 DEF Attempt
  <2>2. (IF new.status = c.base.status THEN attempt.status ELSE new.status) = new.status
    BY <1>1
  <2>3. (IF c.pend = NoCells THEN attempt.cmi ELSE new.cmi) = new.cmi
    BY <1>3
  <2> HIDE DEF new
  <2>4. Saved(c) = [status |-> IF new.status = c.base.status THEN attempt.status ELSE new.status,
                    cmi |-> IF c.pend = NoCells THEN attempt.cmi ELSE new.cmi,
                    done |-> attempt.done \/ new.done]
    BY DEF Saved, new
  <2> QED
    BY <2>1, <2>2, <2>3, <2>4
<1>6. new = [status |-> new.status, cmi |-> new.cmi, done |-> new.done]
  <2> HIDE DEF new
  <2> QED
    BY <1>2 DEF Attempt
<1>7. call'[p] = [c EXCEPT !.at = "sync", !.base = new]
  BY <1>1 DEF SaveAttempt, TypeOK, Call
<1>8. call'[p].base = new /\ call'[p].at = "sync" /\ call'[p].op = c.op /\ call'[p].pend = c.pend
  <2> HIDE DEF new
  <2> QED
    BY <1>1, <1>7 DEF Call
<1> QED
  BY <1>1, <1>5, <1>6, <1>8

LEMMA TimersSaveNothing ==
  ASSUME RouteInv, NEW t \in Timers
  PROVE  ~SaveAttempt(t) /\ ~SyncContent(t) /\ t \in Procs
BY DEF RouteInv, SaveAttempt, SyncContent, At, StepOf, StepsOf, Procs

LEMMA DocumentStep ==
  ASSUME OneDocument, RouteInv', \E p : Pages = {p}, [Next]_vars
  PROVE  OneDocument'
<1> TypeOK /\ RouteInv
  BY DEF OneDocument, RouteInv
<1>1. PICK p \in Pages : Pages = {p}
  OBVIOUS
<1>2. p \in Procs /\ (call[p].at # "idle" => call[p].base = attempt)
  BY DEF Procs, OneDocument
<1> SUFFICES call'[p].at # "idle" => call'[p].base = attempt'
  BY <1>1 DEF OneDocument
<1>3. CASE Request(p)
  BY <1>3, RequestBegins
<1>4. ASSUME NEW t \in Timers, StartBeat(t) \/ Advance(t) \/ SessionFails(t) \/ Abort(t)
      PROVE  call'[p] = call[p] /\ attempt' = attempt
  <2>1. t # p /\ t \in Procs
    BY ProcessAssumption DEF Procs
  <2>2. CASE StartBeat(t)
    BY <1>2, <2>1, <2>2, BeginFields DEF StartBeat, Begin, documents
  <2>3. CASE ~StartBeat(t)
    BY <1>2, <1>4, <2>1, <2>3, AdvanceIsOwn, DocumentStays, TimersSaveNothing DEF OwnStep
  <2> QED
    BY <2>2, <2>3
<1>5. CASE Advance(p) \/ SessionFails(p) \/ Abort(p)
  <2>1. CASE SaveAttempt(p)
    BY <2>1, SaveIsEdited
  <2>2. CASE ~SaveAttempt(p)
    <3>1. call[p].at # "idle"
      BY <1>2, <1>5, AdvanceIsOwn DEF OwnStep
    <3> QED
      BY <1>2, <1>5, <2>2, <3>1, DocumentStays
  <2> QED
    BY <2>1, <2>2
<1>6. CASE Restart
  BY <1>2, <1>6, RestartEnds
<1>7. CASE Expire \/ UNCHANGED vars
  BY <1>2, <1>7 DEF Expire, vars, documents
<1> QED
  BY <1>1, <1>2, <1>3, <1>4, <1>5, <1>6, <1>7 DEF Next, Procs

LEMMA DocumentInit == Init => OneDocument
BY RouteInvInit DEF Init, OneDocument, NoCall, Procs

(* The page a one-page attempt is open in always works on the document as  *)
(* it is stored, whatever races with it and whatever fails.                *)
THEOREM DocumentCorrect ==
  ASSUME \E p : Pages = {p}
  PROVE  Spec => []OneDocument
<1>1. OneDocument /\ RouteInv' /\ [Next]_vars => OneDocument'
  BY DocumentStep
<1> QED
  BY <1>1, DocumentInit, RouteCorrect, PTL DEF Spec

(* The status follows from the CMI through everything a handler does. *)
Follows(a) == a.status = CalculateCompletion(a.status, a.cmi)

LEMMA CalculatedFollows ==
  ASSUME NEW status, NEW cmi
  PROVE  CalculateCompletion(CalculateCompletion(status, cmi), cmi)
           = CalculateCompletion(status, cmi)
BY DEF CalculateCompletion

LEMMA EditedFollows ==
  ASSUME NEW c \in Call, Follows(c.base)
  PROVE  Follows(Edited(c))
<1>1. c.base \in Attempt
  BY DEF Call
<1>2. Follows(Initialized(c.base))
  <2>1. /\ Initialized(c.base).cmi = c.base.cmi
        /\ Initialized(c.base).status = IF c.base.status \in Final THEN c.base.status
                                        ELSE "incomplete"
    BY <1>1 DEF Initialized, Attempt
  <2> QED
    BY <2>1 DEF Follows, CalculateCompletion, Final
<1> DEFINE cmi == Overlay(c.base.cmi, c.pend)
<1>3. Follows(Committed(c.base, c.pend))
  <2> DEFINE s == CalculateCompletion(c.base.status, cmi)
  <2>1. s = CalculateCompletion(s, cmi)
    BY CalculatedFollows
  <2>2. s = "not_started" => "incomplete" = CalculateCompletion("incomplete", cmi)
    BY <2>1 DEF CalculateCompletion
  <2>3. /\ Committed(c.base, c.pend).cmi = cmi
        /\ Committed(c.base, c.pend).status = IF s = "not_started" THEN "incomplete" ELSE s
    BY DEF Committed, Stamped
  <2> HIDE DEF s, cmi
  <2> QED
    BY <2>1, <2>2, <2>3 DEF Follows
<1>4. Follows(Finished(c.base, c.pend))
  <2> DEFINE before == IF c.base.status \in Final THEN c.base.status ELSE "suspended"
  <2>1. /\ Finished(c.base, c.pend).cmi = cmi
        /\ Finished(c.base, c.pend).status = CalculateCompletion(before, cmi)
    BY DEF Finished, Stamped
  <2> HIDE DEF before, cmi
  <2> QED
    BY <2>1, CalculatedFollows DEF Follows
<1> QED
  BY <1>2, <1>3, <1>4 DEF Edited

(* With one page, whatever else fails, restarts, expires or beats: the      *)
(* stored status is the one the stored CMI decides (ScormAttempt.ts,        *)
(* calculateCompletion).  Two pages that save their statuses and their CMI  *)
(* over each other's break this.                                           *)
THEOREM StatusFollowsCorrect ==
  ASSUME \E p : Pages = {p}
  PROVE  Spec => []StatusFollowsCMI
<1>1. Init => Follows(attempt)
  <2>1. \A e : Cell(NoCells, e) = NoValue
    BY DEF Cell, NoCells
  <2> QED
    BY <2>1, UnsetAssumption DEF Init, NewAttempt, Follows, CalculateCompletion, Status
<1>2. OneDocument /\ Follows(attempt) /\ [Next]_vars => Follows(attempt)'
  <2> SUFFICES ASSUME OneDocument, Follows(attempt), [Next]_vars
               PROVE  Follows(attempt)'
    OBVIOUS
  <2> RouteInv /\ TypeOK
    BY DEF OneDocument, RouteInv
  <2>1. ASSUME attempt' = attempt PROVE Follows(attempt)'
    BY <2>1 DEF Follows
  <2>2. ASSUME NEW p \in Pages, SaveAttempt(p) PROVE Follows(attempt)'
    <3>1. attempt' = Edited(call[p]) /\ call[p].base = attempt /\ call[p] \in Call
      BY <2>2, SaveIsEdited DEF OneDocument, TypeOK, Procs
    <3>2. Follows(Edited(call[p]))
      BY <3>1, EditedFollows
    <3> QED
      BY <3>1, <3>2 DEF Follows
  <2>3. ASSUME NEW q \in Procs, Advance(q) \/ SessionFails(q) \/ Abort(q)
        PROVE  Follows(attempt)'
    BY <2>1, <2>2, <2>3, DocumentStays, TimersSaveNothing DEF Procs
  <2>4. CASE (\E p \in Pages : Request(p)) \/ (\E t \in Timers : StartBeat(t))
    BY <2>1, <2>4, RequestBegins DEF StartBeat, Begin, documents
  <2>5. CASE Restart \/ Expire \/ UNCHANGED vars
    BY <2>1, <2>5 DEF Restart, Expire, vars, documents
  <2> QED
    BY <2>3, <2>4, <2>5 DEF Next
<1>3. Follows(attempt) => StatusFollowsCMI
  BY DEF Follows, StatusFollowsCMI
<1> QED
  BY <1>1, <1>2, <1>3, DocumentCorrect, PTL DEF Spec

-------------------------------------------------------------------------------
(* The content report of an attempt one page has open. *)

Syncing(c) == c.at = "sync" /\ c.op \in {"initialize", "commit", "terminate"}

ContentInv ==
  \/ content \in {"absent", MapStatus(attempt.status)}
  \/ \E p \in Pages : Syncing(call[p])

(* A handler that has saved a new status does nothing but report it. *)
LEMMA SyncingSyncs ==
  ASSUME RouteInv, NEW q \in Procs, Advance(q) \/ SessionFails(q) \/ Abort(q),
         Syncing(call[q])
  PROVE  SyncContent(q) \/ Abort(q)
BY DEF Syncing, Advance, SessionFails, CreateSession, AddPending, SetSessionError, ClearPending,
       EndSession, Heartbeat, FindSession, CheckTtl, TimeOut, Peek, SaveAttempt, SaveFails,
       PersistProgress, At

LEMMA ContentStep ==
  ASSUME OneDocument, ContentInv, [Next]_vars, \E p : Pages = {p},
         {"initialize", "commit", "terminate"} \cap Faults = {}
  PROVE  ContentInv'
<1> TypeOK /\ RouteInv
  BY DEF OneDocument, RouteInv
<1>1. PICK p \in Pages : Pages = {p}
  OBVIOUS
<1> DEFINE c == call[p]
<1>2. /\ p \in Procs /\ (c.at # "idle" => c.base = attempt)
      /\ content \in {"absent", MapStatus(attempt.status)} \/ Syncing(c)
      /\ Syncing(c) => c.op \notin Faults
  BY <1>1 DEF Procs, OneDocument, ContentInv, Syncing
<1> SUFFICES content' \in {"absent", MapStatus(attempt.status)'} \/ Syncing(call'[p])
  BY <1>1 DEF ContentInv
<1>4. CASE Request(p)
  BY <1>2, <1>4, RequestBegins DEF Syncing
<1>5. ASSUME NEW t \in Timers, StartBeat(t) \/ Advance(t) \/ SessionFails(t) \/ Abort(t)
      PROVE  attempt' = attempt /\ content' = content /\ call'[p] = c
  <2>1. t # p /\ t \in Procs
    BY ProcessAssumption DEF Procs
  <2>2. CASE StartBeat(t)
    BY <1>2, <2>1, <2>2, BeginFields DEF StartBeat, Begin, documents
  <2>3. CASE ~StartBeat(t)
    BY <1>2, <1>5, <2>1, <2>3, AdvanceIsOwn, DocumentStays, TimersSaveNothing DEF OwnStep
  <2> QED
    BY <2>2, <2>3
<1>6. CASE Advance(p) \/ SessionFails(p) \/ Abort(p)
  <2>1. CASE SaveAttempt(p)
    <3>1. /\ attempt' = Edited(c) /\ c.at = "save" /\ call'[p].at = "sync"
          /\ call'[p].op = c.op /\ content' = content
      BY <2>1, SaveIsEdited DEF SaveAttempt
    <3>2. CASE c.op \in {"initialize", "commit", "terminate"}
      BY <3>1, <3>2 DEF Syncing
    <3>3. CASE c.op \notin {"initialize", "commit", "terminate"}
      BY <1>2, <3>1, <3>3 DEF Syncing, Edited
    <3> QED
      BY <3>2, <3>3
  <2>2. CASE SyncContent(p)
    <3>1. attempt' = attempt /\ c.at \in {"sync", "touch"}
      BY <2>2 DEF SyncContent
    <3>2. CASE content' = MapStatus(c.base.status)
      BY <1>2, <3>1, <3>2
    <3>3. CASE c.op \in Faults /\ content' = content
      BY <1>2, <3>1, <3>3
    <3> QED
      BY <2>2, <3>2, <3>3 DEF SyncContent
  <2>3. CASE ~SaveAttempt(p) /\ ~SyncContent(p)
    <3>1. attempt' = attempt /\ content' = content
      BY <1>2, <1>6, <2>3, DocumentStays
    <3>2. Syncing(c) => Abort(p)
      BY <1>2, <1>6, <2>3, SyncingSyncs
    <3> QED
      BY <1>2, <3>1, <3>2 DEF Abort
  <2> QED
    BY <2>1, <2>2, <2>3
<1>7. CASE Restart
  <2>1. attempt' = attempt /\ content' = content /\ ~Syncing(c)
    BY <1>2, <1>7, RestartEnds DEF Syncing
  <2> QED
    BY <1>2, <2>1
<1>8. CASE Expire \/ UNCHANGED vars
  BY <1>2, <1>8 DEF Expire, vars, documents
<1> QED
  BY <1>1, <1>2, <1>4, <1>5, <1>6, <1>7, <1>8 DEF Next, Procs

(* With one page, and no fault inside the three operations that change the *)
(* status (an error of the post-save hook is only logged): between its     *)
(* requests the content report says what the attempt says, whatever the    *)
(* heartbeats, the restarts and the failures of the other operations do.   *)
THEOREM ContentAgreesCorrect ==
  ASSUME \E p : Pages = {p}, {"initialize", "commit", "terminate"} \cap Faults = {}
  PROVE  Spec => []ContentAgrees
<1>1. Init => ContentInv
  BY DEF Init, ContentInv
<1>2. OneDocument /\ ContentInv /\ [Next]_vars => ContentInv'
  BY ContentStep
<1>3. ContentInv => ContentAgrees
  BY DEF ContentInv, ContentAgrees, Syncing, Quiet, At, Procs
<1> QED
  BY <1>1, <1>2, <1>3, DocumentCorrect, PTL DEF Spec

-------------------------------------------------------------------------------
(* What a session of one page answers.  Beside the page's own steps there   *)
(* are the heartbeats, restarts and the passing of time.                   *)

OneSession ==
  /\ \E p : Pages = {p}
  /\ Store = "memory" \/ Timers = {}

(* Heartbeats change nothing of an in-memory session but that it is over. *)
BeatOnly ==
  /\ Store = "memory"
  /\ UNCHANGED <<attempt, accepted>>
  /\ sess'.pending = sess.pending
  /\ sess'.status = "active" => sess.status = "active"
  /\ \A p \in Pages : call'[p] = call[p]

(* A restart loses the page's request and, in memory, the session, which    *)
(* over Redis is lost when it expires.                                     *)
Passing ==
  /\ UNCHANGED attempt
  /\ \/ UNCHANGED <<sess, accepted>>
     \/ /\ sess' = NoSession /\ accepted' = NoCells
        /\ Store = "redis" \/ \A p \in Pages : call'[p].at = "idle"
  /\ \A p \in Pages :
       \/ call'[p] = call[p]
       \/ call'[p].at = "idle" /\ call'[p].op = call[p].op /\ call'[p].reply = "failed"

LEMMA BeatStep ==
  ASSUME RouteInv, Store = "memory", NEW t \in Timers,
         StartBeat(t) \/ Advance(t) \/ SessionFails(t) \/ Abort(t)
  PROVE  BeatOnly
<1> t \in Procs /\ t \notin Pages /\ TypeOK
  BY ProcessAssumption DEF Procs, RouteInv
<1>1. \A p \in Pages : call'[p] = call[p]
  <2>1. CASE StartBeat(t)
    BY <2>1, BeginFields DEF StartBeat, Procs
  <2>2. CASE ~StartBeat(t)
    BY <2>2, AdvanceIsOwn DEF OwnStep, Procs
  <2> QED
    BY <2>1, <2>2
<1>2. StartBeat(t) \/ Heartbeat(t) \/ FindSession(t) \/ CheckTtl(t) \/ TimeOut(t) \/ Abort(t)
  <2>1. call[t].at \in {"idle", "beat", "find", "ttl", "timeout"} /\ call[t].op \in {"none", "beat"}
    BY DEF RouteInv, StepOf, StepsOf
  <2> QED
    BY <2>1 DEF Advance, CreateSession, AddPending, SetSessionError, ClearPending, EndSession,
                Peek, SaveAttempt, SaveFails, SyncContent, PersistProgress, SessionFails, At
<1>3. sess \in Session
  BY DEF TypeOK
<1>4. /\ UNCHANGED <<attempt, accepted>> /\ sess'.pending = sess.pending
      /\ sess'.status = "active" => sess.status = "active"
  BY <1>2, <1>3 DEF StartBeat, Begin, Heartbeat, Fetch, Held, FindSession, CheckTtl, TimeOut,
                    Abort, documents, Session, Present
<1> QED
  BY <1>1, <1>4 DEF BeatOnly

LEMMA SessionSteps ==
  ASSUME RouteInv, OneSession, NEW p \in Pages, [Next]_vars
  PROVE  Request(p) \/ Advance(p) \/ SessionFails(p) \/ Abort(p) \/ BeatOnly \/ Passing
<1> TypeOK
  BY DEF RouteInv
<1>1. ASSUME NEW q \in Pages PROVE q = p
  BY DEF OneSession
<1>2. ASSUME NEW t \in Timers, StartBeat(t) \/ Advance(t) \/ SessionFails(t) \/ Abort(t)
      PROVE  BeatOnly
  BY <1>2, BeatStep DEF OneSession
<1>3. CASE Restart
  BY <1>3, RestartEnds DEF Passing, Procs
<1>4. CASE Expire \/ UNCHANGED vars
  BY <1>4, StoreAssumption DEF Expire, vars, documents, Passing
<1> QED
  BY <1>1, <1>2, <1>3, <1>4 DEF Next, Procs

(* terminate answers "true" at its end only. *)
LEMMA TerminateEnds ==
  ASSUME RouteInv, NEW p \in Pages, Advance(p) \/ SessionFails(p) \/ Abort(p),
         call[p].op = "terminate", call'[p].at = "idle", call'[p].reply = "true"
  PROVE  EndSession(p)
<1> DEFINE c == call[p]
<1>1. /\ p \in Procs /\ TypeOK /\ c \in Call
      /\ c.at \in {"touch", "progress", "find", "ttl", "timeout", "peek", "clear", "save", "sync", "end"}
  <2>1. p \in Procs /\ TypeOK /\ c \in Call
    BY DEF RouteInv, Procs, TypeOK
  <2>2. c.at # "idle"
    BY <2>1, AdvanceIsOwn DEF OwnStep
  <2> QED
    BY <2>1, <2>2 DEF RouteInv, StepOf, StepsOf
<1>2. ASSUME NEW step \in Step \ {"idle"} PROVE ~Goto(p, step)
  BY <1>1, <1>2, GotoFields
<1>3. ASSUME NEW r, r # "true" PROVE ~Finish(p, r)
  BY <1>1, <1>3, FinishFields
<1>4. ~Fetch(p)
  <2> SUFFICES ASSUME Fetch(p) PROVE FALSE
    OBVIOUS
  <2>1. call'[p] = [c EXCEPT !.held = sess]
    BY <1>1 DEF Fetch, TypeOK
  <2> QED
    BY <1>1, <2>1 DEF Call
<1>5. ~ClearPending(p) /\ ~FindSession(p) /\ ~CheckTtl(p) /\ ~TimeOut(p)
  BY <1>2, <1>3, <1>4 DEF ClearPending, FindSession, CheckTtl, TimeOut, Found, NotFound, Step
<1>6. ~SaveFails(p) /\ ~SyncContent(p) /\ ~PersistProgress(p) /\ ~SessionFails(p) /\ ~Abort(p)
  BY <1>1, <1>2, <1>3
  DEF SaveFails, SyncContent, PersistProgress, SessionFails, Abort, At, Step
<1>7. ~SaveAttempt(p)
  <2> SUFFICES ASSUME SaveAttempt(p) PROVE FALSE
    OBVIOUS
  <2>1. call'[p] = [c EXCEPT !.at = "sync", !.base = Edited(c)]
    BY <1>1 DEF SaveAttempt, TypeOK, Call
  <2> QED
    BY <1>1, <2>1 DEF Call
<1>8. ~Peek(p)
  <2> SUFFICES ASSUME Peek(p) PROVE FALSE
    OBVIOUS
  <2>1. call'[p] = [c EXCEPT !.at = IF sess.pending = NoCells THEN "save" ELSE "clear",
                             !.pend = sess.pending]
    BY <1>1 DEF Peek, TypeOK, Call
  <2> QED
    BY <1>1, <2>1 DEF Call
<1>9. ~CreateSession(p) /\ ~AddPending(p) /\ ~SetSessionError(p) /\ ~Heartbeat(p)
  BY <1>1 DEF CreateSession, AddPending, SetSessionError, Heartbeat, At
<1> QED
  BY <1>5, <1>6, <1>7, <1>8, <1>9 DEF Advance

(* For one page whose session no heartbeat writes back in Redis: when its   *)
(* terminate has answered, the session is over, for good or until the next *)
(* request; no beat that raced with it revives it.                         *)
THEOREM SessionEndsCorrect ==
  ASSUME OneSession
  PROVE  Spec => []SessionEnds
<1>1. Init => SessionEnds
  BY DEF Init, SessionEnds, NoSession
<1>2. RouteInv /\ SessionEnds /\ [Next]_vars => SessionEnds'
  <2> SUFFICES ASSUME RouteInv, SessionEnds, [Next]_vars, NEW p \in Pages,
                      call'[p].at = "idle", call'[p].op = "terminate", call'[p].reply = "true"
               PROVE  sess'.status # "active"
    BY DEF SessionEnds, Replied, At
  <2>1. call[p].at = "idle" /\ call[p].op = "terminate" /\ call[p].reply = "true"
          => sess.status # "active"
    BY DEF SessionEnds, Replied, At
  <2>2. TypeOK /\ p \in Procs
    BY DEF RouteInv, Procs
  <2>3. CASE Request(p)
    BY <2>2, <2>3, RequestBegins
  <2>4. CASE Advance(p) \/ SessionFails(p) \/ Abort(p)
    <3>1. call[p].op = "terminate"
      BY <2>2, <2>4, AdvanceIsOwn DEF OwnStep
    <3>2. EndSession(p) /\ ~Fetch(p)
      <4>1. EndSession(p)
        BY <2>4, <3>1, TerminateEnds
      <4>2. ASSUME Fetch(p) PROVE FALSE
        <5>1. call'[p] = [call[p] EXCEPT !.held = sess]
          BY <2>2, <4>2 DEF Fetch, TypeOK
        <5> QED
          BY <2>2, <4>1, <5>1 DEF TypeOK, Call, EndSession, At
      <4> QED
        BY <4>1, <4>2
    <3>3. sess \in Session /\ Held(p) \in Session
      BY <2>2 DEF TypeOK, Held, Call
    <3> QED
      BY <3>2, <3>3 DEF EndSession, Missing, Present, Session
  <2>5. CASE BeatOnly
    BY <2>1, <2>5 DEF BeatOnly
  <2>6. CASE Passing
    BY <2>1, <2>6 DEF Passing, NoSession
  <2> QED
    BY <2>3, <2>4, <2>5, <2>6, SessionSteps
<1> QED
  BY <1>1, <1>2, RouteCorrect, PTL DEF Spec

(* Over Redis: no step between createSession and the answer to initialize  *)
(* touches the session; only its expiry does.                              *)
Opened(c) ==
  c.op = "initialize" /\ (c.at \in {"save", "sync"} \/ (c.at = "idle" /\ c.reply = "true"))

OpenInv == \A p \in Pages : Opened(call[p]) => sess.status \in {"none", "active"}

LEMMA OwnStepOpens ==
  ASSUME RouteInv, OpenInv, Store = "redis", "initialize" \notin Faults, NEW p \in Pages,
         Advance(p) \/ SessionFails(p) \/ Abort(p), Opened(call'[p])
  PROVE  sess'.status \in {"none", "active"}
<1> DEFINE c == call[p]
<1>1. /\ p \in Procs /\ TypeOK /\ c \in Call /\ c.op = "initialize" /\ c.op \notin Faults
      /\ c.at \in {"create", "save", "sync"}
  <2>1. p \in Procs /\ TypeOK /\ c \in Call
    BY DEF RouteInv, Procs, TypeOK
  <2>2. c.at # "idle" /\ c.op = "initialize"
    BY <2>1, AdvanceIsOwn DEF OwnStep, Opened
  <2> QED
    BY <2>1, <2>2 DEF RouteInv, StepOf, StepsOf
<1>2. CreateSession(p) \/ SaveAttempt(p) \/ SaveFails(p) \/ SyncContent(p)
  BY <1>1 DEF Advance, AddPending, SetSessionError, ClearPending, EndSession, Heartbeat,
              FindSession, CheckTtl, TimeOut, Peek, PersistProgress, SessionFails, Abort, At
<1>3. CASE CreateSession(p)
  BY <1>3 DEF CreateSession, FreshSession
<1>4. CASE SaveAttempt(p) \/ SaveFails(p) \/ SyncContent(p)
  <2>1. sess' = sess /\ c.at \in {"save", "sync"}
    BY <1>1, <1>4 DEF SaveAttempt, SaveFails, SyncContent, At
  <2> QED
    BY <1>1, <2>1 DEF OpenInv, Opened
<1> QED
  BY <1>2, <1>3, <1>4

(* For one page over Redis, without heartbeats and with a Redis that serves *)
(* the initialize: when it has answered "true" the session is active until *)
(* it expires, whatever an earlier launch left under the attempt's key.    *)
THEOREM InitializeOpensCorrect ==
  ASSUME OneSession, Store = "redis", "initialize" \notin Faults
  PROVE  Spec => []InitializeOpens
<1>1. Init => OpenInv
  BY DEF Init, OpenInv, NoSession
<1>2. RouteInv /\ OpenInv /\ [Next]_vars => OpenInv'
  <2> SUFFICES ASSUME RouteInv, OpenInv, [Next]_vars, NEW p \in Pages, Opened(call'[p])
               PROVE  sess'.status \in {"none", "active"}
    BY DEF OpenInv
  <2>1. CASE Request(p)
    BY <2>1, RequestBegins DEF Opened, RouteInv
  <2>2. CASE Advance(p) \/ SessionFails(p) \/ Abort(p)
    BY <2>2, OwnStepOpens
  <2>3. CASE Passing
    BY <2>3 DEF Passing, NoSession, OpenInv, Opened
  <2>4. ~BeatOnly
    BY DEF BeatOnly
  <2> QED
    BY <2>1, <2>2, <2>3, <2>4, SessionSteps
<1>3. OpenInv => InitializeOpens
  BY DEF OpenInv, InitializeOpens, Opened, Replied, At
<1> QED
  BY <1>1, <1>2, <1>3, RouteCorrect, PTL DEF Spec

(* What a get has found is the latest value the session took: while the    *)
(* get saves its log, the page it belongs to sets nothing.                 *)
Told(c) ==
  c.op = "get" /\ (c.at # "idle" \/ c.reply = "true") =>
    /\ c.elem \in Elements
    /\ c.at # "peek" /\ c.elem \notin RawOnly => accepted[c.elem] \in {NoValue, c.val}

GetInv == \A p \in Pages : Told(call[p])

LEMMA OwnStepTells ==
  ASSUME DurableInv, RouteInv, GetInv, NEW p \in Pages,
         Advance(p) \/ SessionFails(p) \/ Abort(p), call[p].op = "get"
  PROVE  Told(call[p])'
<1> DEFINE c == call[p]
<1>1. /\ p \in Procs /\ TypeOK /\ c \in Call /\ c.at \in {"peek", "save", "sync"}
      /\ c.elem \in Elements
      /\ c.at # "peek" /\ c.elem \notin RawOnly => accepted[c.elem] \in {NoValue, c.val}
  <2>1. p \in Procs /\ TypeOK /\ c \in Call
    BY DEF RouteInv, Procs, TypeOK
  <2>2. c.at # "idle"
    BY <2>1, AdvanceIsOwn DEF OwnStep
  <2>3. Told(c)
    BY DEF GetInv
  <2> QED
    BY <2>1, <2>2, <2>3 DEF RouteInv, StepOf, StepsOf, Told
<1>2. Peek(p) \/ SaveAttempt(p) \/ SaveFails(p) \/ SyncContent(p) \/ Abort(p)
  BY <1>1 DEF Advance, CreateSession, AddPending, SetSessionError, ClearPending, EndSession,
              Heartbeat, FindSession, CheckTtl, TimeOut, PersistProgress, SessionFails, At
<1>3. accepted' = accepted
  BY <1>2 DEF Peek, SaveAttempt, SaveFails, SyncContent, Abort
<1>4. ASSUME call'[p].elem = c.elem,
             c.elem \notin RawOnly => accepted[c.elem] \in {NoValue, call'[p].val}
      PROVE  Told(call[p])'
  BY <1>1, <1>3, <1>4 DEF Told
<1>5. CASE Peek(p)
  <2>1. PageInv(c)
    BY DEF DurableInv
  <2>2. c.base.cmi = attempt.cmi /\ accepted[c.elem] \in {NoValue, Visible(c.elem)}
    BY <1>1, <2>1 DEF PageInv
  <2>3. Cell(sess.pending, c.elem) = sess.pending[c.elem] /\ Cell(c.base.cmi, c.elem) = attempt.cmi[c.elem]
    BY <1>1, <2>2 DEF Cell
  <2>4. CASE sess.pending[c.elem] # NoValue
    <3>1. call' = [call EXCEPT ![p] = [NoCall EXCEPT !.op = "get", !.reply = "true",
                                         !.elem = c.elem, !.val = sess.pending[c.elem]]]
      BY <1>5, <2>3, <2>4 DEF Peek
    <3>2. call'[p].elem = c.elem /\ call'[p].val = sess.pending[c.elem]
      BY <1>1, <3>1 DEF TypeOK, NoCall
    <3> QED
      BY <1>4, <2>2, <2>4, <3>2 DEF Visible
  <2>5. CASE sess.pending[c.elem] = NoValue
    <3>1. call'[p] = [c EXCEPT !.at = "save", !.val = Stored(c)]
      BY <1>1, <1>5, <2>3, <2>5 DEF Peek, TypeOK, Call
    <3>2. call'[p].elem = c.elem /\ call'[p].val = Stored(c)
      BY <1>1, <3>1 DEF Call
    <3> QED
      BY <1>4, <2>2, <2>3, <2>5, <3>2 DEF Visible, Stored
  <2> QED
    BY <2>4, <2>5
<1>6. CASE SaveAttempt(p)
  <2>1. call'[p] = [c EXCEPT !.at = "sync", !.base = Edited(c)] /\ c.at = "save"
    BY <1>1, <1>6 DEF SaveAttempt, TypeOK, Call, At
  <2>2. call'[p].elem = c.elem /\ call'[p].val = c.val
    BY <1>1, <2>1 DEF Call
  <2> QED
    BY <1>1, <1>4, <2>1, <2>2
<1>7. CASE SyncContent(p)
  <2>1. /\ c.at = "sync"
        /\ call' = [call EXCEPT ![p] = [NoCall EXCEPT !.op = "get", !.reply = "true",
                                          !.elem = c.elem, !.val = c.val]]
    BY <1>1, <1>7 DEF SyncContent, At
  <2>2. call'[p].elem = c.elem /\ call'[p].val = c.val
    BY <1>1, <2>1 DEF TypeOK, NoCall
  <2> QED
    BY <1>1, <1>4, <2>1, <2>2
<1>8. CASE SaveFails(p) \/ Abort(p)
  <2>1. Finish(p, "failed")
    BY <1>1, <1>8 DEF SaveFails, Abort
  <2> QED
    BY <1>1, <2>1, FinishFields DEF Told
<1> QED
  BY <1>2, <1>5, <1>6, <1>7, <1>8

LEMMA GetStep ==
  ASSUME DurableInv, RouteInv, GetInv, OneWriter, [Next]_vars
  PROVE  GetInv'
<1> SUFFICES ASSUME NEW p \in Pages PROVE Told(call[p])'
  BY DEF GetInv
<1>1. Told(call[p]) /\ p \in Procs /\ TypeOK
  BY DEF GetInv, Procs, RouteInv
<1>2. OneSession
  BY DEF OneWriter, OneSession
<1>3. CASE Request(p)
  <2>1. CASE StartGet(p)
    <3>1. PICK e \in Elements :
            call' = [call EXCEPT ![p] = [NoCall EXCEPT !.op = "get", !.at = "peek",
                                           !.elem = e, !.base = attempt]]
      BY <2>1 DEF StartGet
    <3>2. call'[p].at = "peek" /\ call'[p].elem = e
      BY <1>1, <3>1 DEF TypeOK, NoCall
    <3> QED
      BY <3>2 DEF Told
  <2>2. CASE StartSet(p)
    <3>1. PICK e \in Elements : \E v \in Values[e] : StartSetOf(p, e, v)
      BY <2>2 DEF StartSet
    <3>2. PICK v \in Values[e] : StartSetOf(p, e, v)
      BY <3>1
    <3>3. call'[p].op = "set"
      BY <1>1, <3>2 DEF StartSetOf, TypeOK, NoCall
    <3> QED
      BY <3>3 DEF Told
  <2>3. CASE StartInitialize(p) \/ StartCommit(p) \/ StartTerminate(p) \/ StartReject(p)
    BY <1>1, <2>3, BeginFields
    DEF StartInitialize, StartCommit, StartTerminate, StartReject, Told
  <2> QED
    BY <1>3, <2>1, <2>2, <2>3 DEF Request
<1>4. CASE Advance(p) \/ SessionFails(p) \/ Abort(p)
  <2>1. call'[p].op = call[p].op
    BY <1>1, <1>4, AdvanceIsOwn DEF OwnStep
  <2> QED
    BY <1>4, <2>1, OwnStepTells DEF Told
<1>5. CASE BeatOnly
  BY <1>1, <1>5 DEF BeatOnly, Told
<1>6. CASE Passing
  <2>1. accepted' = accepted \/ accepted' = NoCells
    BY <1>6 DEF Passing
  <2>2. call'[p] = call[p] \/ (call'[p].at = "idle" /\ call'[p].reply = "failed")
    BY <1>6 DEF Passing
  <2> QED
    BY <1>1, <2>1, <2>2 DEF Told, NoCells
<1> QED
  BY <1>2, <1>3, <1>4, <1>5, <1>6, SessionSteps

(* Under the assumptions of Durable: a get that has answered "true" has     *)
(* told the latest value the session took, pending or committed since,     *)
(* unless the element is kept in rawCmiData alone.                         *)
THEOREM ReadYourWritesCorrect ==
  ASSUME OneWriter
  PROVE  Spec => []ReadYourWrites
<1>1. Init /\ TypeOK => DurableInv /\ GetInv
  <2>1. Init => GetInv
    BY DEF Init, GetInv, Told, NoCall, Procs
  <2> QED
    BY <2>1, DurableInvInit
<1>2. DurableInv /\ GetInv /\ RouteInv /\ TypeOK' /\ [Next]_vars => DurableInv' /\ GetInv'
  BY NextKeeps, GetStep
<1>3. GetInv => ReadYourWrites
  BY DEF GetInv, Told, ReadYourWrites, Replied, At
<1> QED
  BY <1>1, <1>2, <1>3, TypeCorrect, RouteCorrect, PTL DEF Spec

-------------------------------------------------------------------------------
(* With one writer, what a session answered holds until it is called again: *)
(* a get has told the latest value, and a terminated session stays over,   *)
(* whatever fails, restarts or expires (scormRuntimeCtrl.ts:184-395).       *)
THEOREM SessionAnswersCorrect ==
  ASSUME OneWriter
  PROVE  Spec => []SessionAnswers
<1>1. OneSession
  BY DEF OneWriter, OneSession
<1>2. SessionEnds /\ ReadYourWrites => SessionAnswers
  BY DEF SessionAnswers
<1> QED
  BY <1>1, <1>2, SessionEndsCorrect, ReadYourWritesCorrect, PTL

-------------------------------------------------------------------------------
(* In memory nothing but its owner changes a session: what a commit or a    *)
(* terminate clears is what it has read, and a commit has stored it.       *)

Holding(c) ==
  /\ c.op = "set" /\ c.at # "idle" => c.val # NoValue
  /\ c.op = "commit" /\ c.at \in {"save", "sync", "clear"} => sess.pending = c.pend
  /\ c.op = "commit" /\ c.at \in {"sync", "clear"} =>
       \A e \in Elements : c.pend[e] # NoValue => attempt.cmi[e] = c.pend[e]
  /\ c.op = "terminate" /\ c.at = "clear" => sess.pending = c.pend

HoldsInv == \A p \in Pages : Holding(call[p])

InMemory == Store = "memory" /\ \E p : Pages = {p}

(* What a page's step does to the pending values: setting one, clearing    *)
(* them, or, with no session before, making one without any.               *)
LEMMA PendingChanges ==
  ASSUME RouteInv, Store = "memory", NEW p \in Pages,
         Request(p) \/ Advance(p) \/ SessionFails(p) \/ Abort(p), sess'.pending # sess.pending
  PROVE  ClearPending(p) \/ AddPending(p)
<1>1. sess \in Session /\ TypeOK /\ p \in Procs
  BY DEF RouteInv, TypeOK, Procs
<1>2. ~Request(p)
  BY <1>1, RequestBegins
<1>3. ~CreateSession(p)
  BY <1>1 DEF CreateSession, Present, Session, FreshSession
<1>4. ~SetSessionError(p) /\ ~EndSession(p) /\ ~Heartbeat(p) /\ ~FindSession(p) /\ ~TimeOut(p)
  BY <1>1 DEF SetSessionError, EndSession, Heartbeat, FindSession, TimeOut, Fetch, Held, Session
<1> QED
  BY <1>2, <1>3, <1>4
  DEF Advance, CheckTtl, Peek, SaveAttempt, SaveFails, SyncContent, PersistProgress, SessionFails,
      Abort

LEMMA OwnStepHolds ==
  ASSUME OneDocument, HoldsInv, Store = "memory", NEW p \in Pages,
         Advance(p) \/ SessionFails(p) \/ Abort(p)
  PROVE  Holding(call[p])'
<1> DEFINE c == call[p]
<1>1. /\ p \in Procs /\ TypeOK /\ RouteInv /\ c \in Call /\ c.at # "idle" /\ c.at \in StepOf(c.op)
      /\ Holding(c) /\ call'[p].op = c.op /\ c.base = attempt
  <2>1. p \in Procs /\ TypeOK /\ RouteInv /\ c \in Call
    BY DEF OneDocument, RouteInv, Procs, TypeOK
  <2>2. c.at # "idle" /\ call'[p].op = c.op
    BY <2>1, AdvanceIsOwn DEF OwnStep
  <2> QED
    BY <2>1, <2>2 DEF RouteInv, HoldsInv, OneDocument
<1>2. call'[p].at = "idle" \/ call'[p].at \in StepOf(c.op)
  BY <1>1, OwnStepRoute
<1>3. c.op \in {"initialize", "set", "reject", "get", "commit", "terminate"}
  BY <1>1 DEF StepOf, StepsOf, Call, Operations, RouteInv
<1>4. CASE c.op \in {"initialize", "reject", "get"}
  BY <1>1, <1>4 DEF Holding
<1>5. CASE c.op = "set"
  <2>1. call'[p].at = "idle" \/ call'[p].val = c.val
    <3>1. ASSUME NEW step, Goto(p, step) PROVE call'[p].val = c.val
      <4>1. call'[p] = [c EXCEPT !.at = step, !.held = NoSession]
        BY <1>1, <3>1 DEF Goto, TypeOK, Call
      <4> QED
        BY <1>1, <4>1 DEF Call
    <3>2. ASSUME NEW r, Finish(p, r) PROVE call'[p].at = "idle"
      BY <1>1, <3>2, FinishFields
    <3>3. ~Fetch(p)
      BY DEF Fetch
    <3>4. c.at \in {"create", "add", "ack", "save", "sync", "progress", "error"}
      BY <1>1, <1>5 DEF StepOf, StepsOf
    <3>5. CASE CreateSession(p)
      BY <3>1, <3>5 DEF CreateSession
    <3>6. CASE AddPending(p)
      <4>1. CASE Goto(p, "ack")
        BY <3>1, <4>1
      <4>2. CASE call' = [call EXCEPT ![p].at = IF c.lazy THEN "error" ELSE "create",
                                      ![p].lazy = TRUE]
        <5>1. call'[p] = [c EXCEPT !.at = IF c.lazy THEN "error" ELSE "create", !.lazy = TRUE]
          BY <1>1, <4>2 DEF TypeOK, Call
        <5> QED
          BY <1>1, <5>1 DEF Call
      <4> QED
        BY <3>3, <3>6, <4>1, <4>2 DEF AddPending
    <3>7. CASE SetSessionError(p)
      BY <3>1, <3>2, <3>3, <3>7 DEF SetSessionError
    <3>8. CASE SaveAttempt(p)
      <4>1. call'[p] = [c EXCEPT !.at = "sync", !.base = Edited(c)]
        BY <1>1, <3>8 DEF SaveAttempt, TypeOK, Call
      <4> QED
        BY <1>1, <4>1 DEF Call
    <3>9. CASE SaveFails(p) \/ SyncContent(p) \/ PersistProgress(p)
      BY <1>5, <3>1, <3>2, <3>9 DEF SaveFails, SyncContent, PersistProgress
    <3>10. CASE SessionFails(p) \/ Abort(p)
      BY <3>1, <3>2, <3>10 DEF SessionFails, Abort
    <3> QED
      BY <3>4, <3>5, <3>6, <3>7, <3>8, <3>9, <3>10
      DEF Advance, ClearPending, EndSession, Heartbeat, FindSession, CheckTtl, TimeOut, Peek, At
  <2> QED
    BY <1>1, <1>5, <2>1 DEF Holding
<1>6. CASE c.op = "commit"
  <2>1. CASE c.at = "peek"
    <3>1. CASE Peek(p)
      <4>1. sess' = sess
        BY <3>1 DEF Peek
      <4>2. Finish(p, "true") \/ call'[p] = [c EXCEPT !.at = "save", !.pend = sess.pending]
        BY <1>1, <1>6, <3>1 DEF Peek, TypeOK, Call
      <4>3. call'[p].at = "idle" \/ (call'[p].at = "save" /\ call'[p].pend = sess.pending)
        BY <1>1, <4>2, FinishFields DEF Call
      <4> QED
        BY <1>1, <1>6, <4>1, <4>3 DEF Holding
    <3>2. CASE ~Peek(p)
      <4>1. Goto(p, "error") \/ Finish(p, "failed")
        BY <2>1, <3>2 DEF Advance, CreateSession, AddPending, SetSessionError, ClearPending, EndSession,
                    Heartbeat, FindSession, CheckTtl, TimeOut, SaveAttempt, SaveFails, SyncContent,
                    PersistProgress, SessionFails, Abort, At
      <4> QED
        BY <1>1, <1>6, <4>1, GotoFields, FinishFields DEF Holding
    <3> QED
      BY <3>1, <3>2
  <2>2. CASE c.at = "save"
    <3>1. CASE SaveAttempt(p)
      <4>1. /\ attempt' = Edited(c) /\ call'[p].at = "sync" /\ call'[p].pend = c.pend
            /\ sess' = sess /\ sess.pending = c.pend
        BY <1>1, <1>6, <2>2, <3>1, SaveIsEdited DEF SaveAttempt, Holding
      <4>2. attempt'.cmi = Overlay(attempt.cmi, c.pend)
        BY <1>1, <1>6, <4>1 DEF Edited, Committed, Stamped
      <4>3. \A e \in Elements : c.pend[e] # NoValue => attempt'.cmi[e] = c.pend[e]
        BY <4>2 DEF Overlay
      <4> QED
        BY <1>1, <1>6, <4>1, <4>3 DEF Holding
    <3>2. CASE ~SaveAttempt(p)
      <4>1. Goto(p, "error") \/ Finish(p, "failed")
        BY <1>6, <2>2, <3>2 DEF Advance, CreateSession, AddPending, SetSessionError, ClearPending,
                    EndSession, Heartbeat, FindSession, CheckTtl, TimeOut, Peek, SaveFails, SyncContent,
                    PersistProgress, SessionFails, Abort, At
      <4> QED
        BY <1>1, <1>6, <4>1, GotoFields, FinishFields DEF Holding
    <3> QED
      BY <3>1, <3>2
  <2>3. CASE c.at = "sync"
    <3>1. SyncContent(p) \/ Abort(p)
      BY <1>1, <1>6, <2>3, SyncingSyncs DEF Syncing
    <3>2. Goto(p, "clear") \/ Finish(p, "failed")
      BY <1>6, <2>3, <3>1 DEF SyncContent, Abort, At
    <3>3. UNCHANGED <<sess, attempt>>
      BY <3>1 DEF SyncContent, Abort, documents
    <3>4. call'[p].at = "idle" \/ (call'[p].at = "clear" /\ call'[p].pend = c.pend)
      BY <1>1, <3>2, GotoFields, FinishFields
    <3> QED
      BY <1>1, <1>6, <2>3, <3>3, <3>4 DEF Holding
  <2>4. CASE c.at \in {"clear", "ack", "error"}
    <3>1. call'[p].at \in {"idle", "ack", "error"}
      <4>1. Goto(p, "ack") \/ Goto(p, "error") \/ Finish(p, "true") \/ Finish(p, "false") \/ Finish(p, "failed")
        BY <1>6, <2>4 DEF Advance, CreateSession, AddPending, SetSessionError, ClearPending, EndSession,
                    Heartbeat, FindSession, CheckTtl, TimeOut, Peek, SaveAttempt, SaveFails, SyncContent,
                    PersistProgress, SessionFails, Abort, Fetch, At
      <4> QED
        BY <1>1, <4>1, GotoFields, FinishFields
    <3> QED
      BY <1>1, <1>6, <3>1 DEF Holding
  <2> QED
    BY <1>1, <1>6, <2>1, <2>2, <2>3, <2>4 DEF StepOf, StepsOf
<1>7. CASE c.op = "terminate"
  <2>1. CASE Peek(p)
    <3>1. sess' = sess
      BY <2>1 DEF Peek
    <3>2. call'[p] = [c EXCEPT !.at = IF sess.pending = NoCells THEN "save" ELSE "clear",
                               !.pend = sess.pending]
      BY <1>1, <1>7, <2>1 DEF Peek, TypeOK, Call
    <3>3. call'[p].pend = sess.pending
      BY <1>1, <3>2 DEF Call
    <3> QED
      BY <1>1, <1>7, <3>1, <3>3 DEF Holding
  <2>2. CASE ~Peek(p)
    <3>1. call'[p].at # "clear"
      <4>1. ASSUME NEW step, step # "clear", Goto(p, step) PROVE call'[p].at # "clear"
        BY <1>1, <4>1, GotoFields
      <4>2. ASSUME NEW r, Finish(p, r) PROVE call'[p].at # "clear"
        BY <1>1, <4>2, FinishFields
      <4>3. CASE SaveAttempt(p)
        BY <1>1, <4>3, SaveIsEdited
      <4>4. CASE ClearPending(p) \/ EndSession(p) \/ FindSession(p) \/ CheckTtl(p) \/ TimeOut(p)
        BY <4>1, <4>2, <1>7, <4>4
        DEF ClearPending, EndSession, FindSession, CheckTtl, TimeOut, Found, NotFound, Fetch
      <4>5. CASE SaveFails(p) \/ SyncContent(p) \/ PersistProgress(p) \/ Abort(p)
        BY <4>1, <4>2, <1>7, <4>5 DEF SaveFails, SyncContent, PersistProgress, Abort, At
      <4>6. ~CreateSession(p) /\ ~AddPending(p) /\ ~SetSessionError(p) /\ ~Heartbeat(p)
        BY <1>1, <1>7 DEF CreateSession, AddPending, SetSessionError, Heartbeat, At, StepOf, StepsOf
      <4> QED
        BY <1>7, <2>2, <4>3, <4>4, <4>5, <4>6 DEF Advance, SessionFails
    <3> QED
      BY <1>1, <1>7, <3>1 DEF Holding
  <2> QED
    BY <2>1, <2>2
<1> QED
  BY <1>3, <1>4, <1>5, <1>6, <1>7

LEMMA RequestHolds ==
  ASSUME TypeOK, NEW p \in Pages, Request(p)
  PROVE  Holding(call[p])'
<1>1. p \in Procs
  BY DEF Procs
<1>2. call'[p].at \notin {"save", "sync", "clear"}
  BY RequestBegins
<1>3. call'[p].op = "set" => call'[p].val # NoValue
  <2>1. CASE StartSet(p)
    <3>1. PICK e \in Elements : \E v \in Values[e] : StartSetOf(p, e, v)
      BY <2>1 DEF StartSet
    <3>2. PICK v \in Values[e] : StartSetOf(p, e, v)
      BY <3>1
    <3>3. v \in AnyValue
      BY <3>1, <3>2 DEF AnyValue
    <3>4. call'[p].val = v
      BY <1>1, <3>2 DEF StartSetOf, TypeOK, NoCall
    <3> QED
      BY <3>3, <3>4, ValuesAssumption
  <2>2. CASE StartGet(p)
    BY <1>1, <2>2 DEF StartGet, TypeOK, NoCall
  <2>3. CASE StartInitialize(p) \/ StartCommit(p) \/ StartTerminate(p) \/ StartReject(p)
    BY <1>1, <2>3, BeginFields
    DEF StartInitialize, StartCommit, StartTerminate, StartReject
  <2> QED
    BY <2>1, <2>2, <2>3 DEF Request
<1> QED
  BY <1>2, <1>3 DEF Holding

LEMMA HoldsStep ==
  ASSUME OneDocument, HoldsInv, InMemory, [Next]_vars
  PROVE  HoldsInv'
<1> SUFFICES ASSUME NEW p \in Pages PROVE Holding(call[p])'
  BY DEF HoldsInv
<1>1. Holding(call[p]) /\ p \in Procs /\ TypeOK /\ RouteInv
  BY DEF HoldsInv, Procs, RouteInv, OneDocument
<1>2. OneSession /\ Store = "memory"
  BY DEF InMemory, OneSession
<1>3. CASE Request(p)
  BY <1>1, <1>3, RequestHolds
<1>4. CASE Advance(p) \/ SessionFails(p) \/ Abort(p)
  BY <1>2, <1>4, OwnStepHolds
<1>5. CASE BeatOnly
  BY <1>1, <1>5 DEF BeatOnly, Holding
<1>6. CASE Passing /\ call'[p].at = "idle"
  BY <1>6 DEF Holding
<1>7. CASE Passing /\ call'[p].at # "idle"
  <2>1. call'[p] = call[p] /\ attempt' = attempt
    BY <1>7 DEF Passing
  <2>2. sess' = sess
    BY <1>1, <1>2, <1>7, <2>1 DEF Passing
  <2> QED
    BY <1>1, <2>1, <2>2 DEF Holding
<1> QED
  BY <1>1, <1>2, <1>3, <1>4, <1>5, <1>6, <1>7, SessionSteps

(* What the page clears is stored, or in the hands of its terminate. *)
LEMMA ClearDropsNothing ==
  ASSUME OneDocument, HoldsInv, InMemory, NEW p \in Pages, ClearPending(p), NEW e \in Elements
  PROVE  sess.pending[e] \in {NoValue, attempt'.cmi[e]} \cup InHand(e)'
<1> DEFINE c == call[p]
<1>1. /\ p \in Procs /\ TypeOK /\ c.at = "clear" /\ attempt' = attempt
      /\ c.op \in {"commit", "terminate"} /\ Holding(c)
  <2>1. p \in Procs /\ TypeOK /\ Holding(c) /\ attempt' = attempt /\ c.at = "clear"
    BY DEF OneDocument, RouteInv, Procs, HoldsInv, ClearPending, At, documents, Fetch
  <2>2. c.at \in StepOf(c.op)
    BY <2>1 DEF OneDocument, RouteInv
  <2> QED
    BY <2>1, <2>2 DEF StepOf, StepsOf
<1>2. sess.pending = c.pend
  BY <1>1 DEF Holding
<1>3. CASE c.op = "commit"
  BY <1>1, <1>2, <1>3 DEF Holding
<1>4. CASE c.op = "terminate"
  <2>1. Goto(p, "save")
    BY <1>4 DEF ClearPending, InMemory, Fetch
  <2>2. call'[p].op = "terminate" /\ call'[p].at = "save" /\ call'[p].pend = c.pend
    BY <1>1, <1>4, <2>1, GotoFields
  <2>3. c.pend[e] \in InHand(e)'
    BY <2>2 DEF InHand, At
  <2> QED
    BY <1>2, <2>3
<1> QED
  BY <1>1, <1>3, <1>4

(* In memory, for one page: while the session stays, a pending value leaves *)
(* it only for the attempt, or for the hands of a terminate about to save  *)
(* it, whatever request fails, times out or races with a heartbeat.        *)
THEOREM DropsNothingCorrect ==
  ASSUME InMemory
  PROVE  Spec => [][DropsNothing]_vars
<1>1. Init => HoldsInv
  BY DEF Init, HoldsInv, Holding, NoCall, Procs
<1>2. OneDocument /\ HoldsInv /\ [Next]_vars => HoldsInv'
  BY HoldsStep
<1>3. OneDocument /\ HoldsInv /\ [Next]_vars => [DropsNothing]_vars
  <2> SUFFICES ASSUME OneDocument, HoldsInv, [Next]_vars, Present(sess'), NEW e \in Elements,
                      sess'.pending[e] = NoValue
               PROVE  sess.pending[e] \in {NoValue, attempt'.cmi[e]} \cup InHand(e)'
    BY DEF DropsNothing
  <2>1. PICK p \in Pages : Pages = {p}
    BY DEF InMemory
  <2>2. /\ OneSession /\ Store = "memory" /\ RouteInv /\ TypeOK /\ p \in Procs /\ Holding(call[p])
        /\ sess \in Session /\ call[p] \in Call
    BY DEF InMemory, OneSession, OneDocument, RouteInv, Procs, TypeOK, HoldsInv
  <2>3. CASE sess'.pending = sess.pending
    BY <2>3
  <2>4. CASE ClearPending(p)
    BY <2>4, ClearDropsNothing
  <2>5. CASE AddPending(p) /\ sess'.pending # sess.pending
    <3>1. sess' = [sess EXCEPT !.pending[call[p].elem] = call[p].val]
      BY <2>2, <2>5 DEF AddPending, Held, Fetch
    <3>2. call[p].op = "set" /\ call[p].at = "add"
      BY <2>2, <2>5 DEF AddPending, At, RouteInv, StepOf, StepsOf, Call, Operations
    <3>3. call[p].val # NoValue
      BY <2>2, <3>2 DEF Holding
    <3>4. sess'.pending[e] = IF e = call[p].elem THEN call[p].val ELSE sess.pending[e]
      BY <2>2, <3>1 DEF Session, Cells
    <3> QED
      BY <3>3, <3>4
  <2>6. CASE BeatOnly \/ Passing
    BY <2>3, <2>6 DEF BeatOnly, Passing, Present, NoSession
  <2> QED
    BY <2>2, <2>3, <2>4, <2>5, <2>6, SessionSteps, PendingChanges
<1>4. \E p : Pages = {p}
  BY DEF InMemory
<1>5. Spec => []OneDocument
  BY <1>4, DocumentCorrect
<1> QED
  BY <1>1, <1>2, <1>3, <1>5, PTL DEF Spec

-------------------------------------------------------------------------------
(* The API object of a page, by itself. *)

Has(a, e) == a.cache[e] # NoValue

(* An object that no call of content can bring out of order: what it has   *)
(* cached can be sent, a running commit sends what is cached, and neither  *)
(* the commit timer nor the heartbeat outlives the session.                *)
ObjectOK(a) ==
  /\ a \in Api
  /\ \A e \in Elements : a.cache[e] \in Values[e] \cup {NoValue}
  /\ ~(a.initialized /\ a.terminated)
  /\ a.beating => a.initialized
  /\ a.scheduled => a.initialized /\ \E e \in Elements : Has(a, e)
  /\ \A e \in a.todo : Has(a, e)
  /\ a.doing = "none" => ~a.sent
  /\ a.todo # {} => a.doing \in {"commit", "finish"}
  /\ a.doing = "initialize" => ~a.initialized /\ ~a.terminated
  /\ a.doing \notin {"none", "initialize"} => a.initialized
  /\ a.doing \in {"commit", "finish", "terminate"} => ~a.scheduled
  /\ a.doing = "terminate" => ~a.beating

ObjectsOK == api \in [Pages -> Api] /\ \A p \in Pages : ObjectOK(api[p])

LEMMA ObjectIs ==
  ASSUME ObjectsOK, NEW p \in Pages
  PROVE  ObjectOK(api[p]) /\ api[p] \in Api
BY DEF ObjectsOK

LEMMA NewObject == ObjectOK(NewApi) /\ NewApi \in Api
<1>1. NewApi \in Api
  BY NoCellsType DEF NewApi, Api
<1> QED
  BY <1>1 DEF NewApi, ObjectOK, Has, NoCells

(* A step of one page leaves the objects of the others alone. *)
LEMMA OneObject ==
  ASSUME ObjectsOK, NEW p \in Pages, NEW a, ObjectOK(a), api' = [api EXCEPT ![p] = a]
  PROVE  ObjectsOK'
BY DEF ObjectsOK, ObjectOK

(* The calls of content. *)
LEMMA ContentObjects ==
  ASSUME ObjectsOK, NEW p \in Pages, ContentCall(p)
  PROVE  ObjectsOK'
<1> DEFINE a == api[p]
<1>1. ObjectOK(a) /\ a \in Api /\ a.doing = "none" /\ ~a.sent /\ a.todo = {}
  BY ObjectIs DEF ContentCall, LMSInitialize, LMSGetValue, LMSSetValue, LMSCommit, LMSFinish,
                  Free, ObjectOK
<1>2. api \in [Pages -> Api]
  BY DEF ObjectsOK
<1>3. CASE LMSInitialize(p)
  <2> DEFINE b == [a EXCEPT !.doing = "initialize"]
  <2>1. api' = [api EXCEPT ![p] = b]
    BY <1>3 DEF LMSInitialize
  <2>2. ObjectOK(b)
    BY <1>1, <1>3 DEF ObjectOK, Has, Api, LMSInitialize
  <2> HIDE DEF b
  <2> QED
    BY <2>1, <2>2, OneObject
<1>4. CASE LMSGetValue(p)
  <2> DEFINE b == [a EXCEPT !.doing = "get"]
  <2>1. api' = [api EXCEPT ![p] = b]
    BY <1>4 DEF LMSGetValue
  <2>2. ObjectOK(b)
    BY <1>1, <1>4 DEF ObjectOK, Has, Api, LMSGetValue
  <2> HIDE DEF b
  <2> QED
    BY <2>1, <2>2, OneObject
<1>5. CASE LMSSetValue(p)
  <2> PICK e \in Elements : \E v \in Values[e] :
        api' = [api EXCEPT ![p].cache[e] = v, ![p].told[e] = v, ![p].scheduled = TRUE]
    BY <1>5 DEF LMSSetValue
  <2> PICK v \in Values[e] :
        api' = [api EXCEPT ![p].cache[e] = v, ![p].told[e] = v, ![p].scheduled = TRUE]
    OBVIOUS
  <2> DEFINE b == [a EXCEPT !.cache = [@ EXCEPT ![e] = v], !.told = [@ EXCEPT ![e] = v],
                            !.scheduled = TRUE]
  <2>1. api' = [api EXCEPT ![p] = b]
    BY <1>1, <1>2 DEF Api
  <2>2. v \in AnyValue /\ v # NoValue
    BY ValuesAssumption DEF AnyValue
  <2>3. [a.cache EXCEPT ![e] = v] \in Cells /\ [a.told EXCEPT ![e] = v] \in Cells
    BY <1>1, <2>2 DEF Api, Cells
  <2>4. b \in Api /\ b.cache = [a.cache EXCEPT ![e] = v] /\ b.scheduled = TRUE
        /\ b.initialized = a.initialized /\ b.terminated = a.terminated
        /\ b.beating = a.beating /\ b.doing = a.doing /\ b.todo = a.todo /\ b.sent = a.sent
    BY <1>1, <2>3 DEF Api
  <2> HIDE DEF b
  <2>5. \A f \in Elements : b.cache[f] = IF f = e THEN v ELSE a.cache[f]
    BY <1>1, <2>4 DEF Api, Cells
  <2>6. a.initialized
    BY <1>5 DEF LMSSetValue
  <2>7. ObjectOK(b)
    BY <1>1, <2>2, <2>4, <2>5, <2>6 DEF ObjectOK, Has
  <2> QED
    BY <2>1, <2>7, OneObject
<1>6. CASE LMSCommit(p)
  <2> DEFINE b == [a EXCEPT !.scheduled = FALSE,
                            !.doing = IF Cached(p) = {} THEN "none" ELSE "commit",
                            !.todo = Cached(p)]
  <2>1. api' = [api EXCEPT ![p] = b]
    BY <1>6, <1>1, <1>2 DEF LMSCommit, Api
  <2>2. b \in Api /\ b.cache = a.cache /\ b.scheduled = FALSE
        /\ b.initialized = a.initialized /\ b.terminated = a.terminated
        /\ b.beating = a.beating /\ b.sent = a.sent /\ b.todo = Cached(p)
        /\ b.doing = IF Cached(p) = {} THEN "none" ELSE "commit"
    BY <1>1 DEF Api, Cached
  <2> HIDE DEF b
  <2>3. ObjectOK(b)
    BY <1>1, <1>6, <2>2 DEF ObjectOK, Has, LMSCommit, Cached
  <2> QED
    BY <2>1, <2>3, OneObject
<1>7. CASE LMSFinish(p)
  <2> DEFINE b == [a EXCEPT !.scheduled = Cached(p) = {} /\ @,
                            !.doing = IF Cached(p) = {} THEN "terminate" ELSE "finish",
                            !.todo = Cached(p),
                            !.beating = Cached(p) # {} /\ @]
  <2>1. api' = [api EXCEPT ![p] = b]
    BY <1>7, <1>1, <1>2 DEF LMSFinish, Api
  <2>2. b \in Api /\ b.cache = a.cache
        /\ b.initialized = a.initialized /\ b.terminated = a.terminated
        /\ b.sent = a.sent /\ b.todo = Cached(p)
        /\ b.doing = IF Cached(p) = {} THEN "terminate" ELSE "finish"
    BY <1>1 DEF Api, Cached
  <2>3. (b.scheduled => Cached(p) = {} /\ a.scheduled) /\ (b.beating => Cached(p) # {} /\ a.beating)
    BY <1>1 DEF Api
  <2> HIDE DEF b
  <2>4. ~b.scheduled
    BY <1>1, <2>3 DEF ObjectOK, Has, Cached
  <2>5. ObjectOK(b)
    BY <1>1, <1>7, <2>2, <2>3, <2>4 DEF ObjectOK, Has, LMSFinish, Cached
  <2> QED
    BY <2>1, <2>5, OneObject
<1> QED
  BY <1>3, <1>4, <1>5, <1>6, <1>7 DEF ContentCall

(* A request goes out, its answer arrives, or the page is closed. *)
LEMMA RequestObjects ==
  ASSUME ObjectsOK, NEW p \in Pages, AdapterStep(p) \/ Throw(p) \/ Reload(p)
  PROVE  ObjectsOK'
<1> DEFINE a == api[p]
<1>1. ObjectOK(a) /\ a \in Api /\ api \in [Pages -> Api]
  BY ObjectIs DEF ObjectsOK
<1>2. CASE SendInitialize(p) \/ SendGet(p) \/ SendCommit(p) \/ SendTerminate(p)
  <2> DEFINE b == [a EXCEPT !.sent = TRUE]
  <2>1. api' = [api EXCEPT ![p] = b]
    BY <1>2 DEF SendInitialize, SendGet, SendCommit, SendTerminate, Send
  <2>2. a.doing # "none"
    BY <1>2 DEF SendInitialize, SendGet, SendCommit, SendTerminate, Committing
  <2>3. ObjectOK(b)
    BY <1>1, <2>2 DEF ObjectOK, Has, Api
  <2> HIDE DEF b
  <2> QED
    BY <2>1, <2>3, OneObject
<1>3. CASE SendValue(p)
  <2> PICK e \in a.todo : api' = [api EXCEPT ![p].sent = TRUE, ![p].todo = @ \ {e}]
    BY <1>3 DEF SendValue
  <2> DEFINE b == [a EXCEPT !.sent = TRUE, !.todo = @ \ {e}]
  <2>1. api' = [api EXCEPT ![p] = b]
    BY <1>1 DEF Api
  <2>2. a.doing # "none"
    BY <1>3 DEF SendValue, Committing
  <2>3. ObjectOK(b)
    BY <1>1, <2>2 DEF ObjectOK, Has, Api
  <2> HIDE DEF b
  <2> QED
    BY <2>1, <2>3, OneObject
<1>4. CASE HearInitialize(p)
  <2> PICK done \in BOOLEAN : done = Succeeded(p)
    BY DEF Succeeded
  <2> DEFINE b == [a EXCEPT !.doing = "none", !.sent = FALSE, !.initialized = done,
                            !.beating = done]
  <2>1. api' = [api EXCEPT ![p] = b]
    BY <1>1, <1>4 DEF HearInitialize, Api
  <2>2. a.doing = "initialize"
    BY <1>4 DEF HearInitialize
  <2>3. ObjectOK(b)
    BY <1>1, <2>2 DEF ObjectOK, Has, Api
  <2> HIDE DEF b
  <2> QED
    BY <2>1, <2>3, OneObject
<1>5. ASSUME a.doing \notin {"commit", "finish"},
             api' = [api EXCEPT ![p] = [a EXCEPT !.doing = "none", !.sent = FALSE]]
      PROVE  ObjectsOK'
  <2> DEFINE b == [a EXCEPT !.doing = "none", !.sent = FALSE]
  <2>1. ObjectOK(b)
    BY <1>1, <1>5 DEF ObjectOK, Has, Api
  <2> HIDE DEF b
  <2> QED
    BY <1>5, <2>1, OneObject DEF b
<1>6. CASE HearGet(p)
  BY <1>1, <1>5, <1>6 DEF HearGet, Api
<1>7. CASE HearValue(p)
  <2> DEFINE b == [a EXCEPT !.sent = FALSE]
  <2>1. api' = [api EXCEPT ![p] = b]
    BY <1>7 DEF HearValue
  <2>2. ObjectOK(b)
    BY <1>1 DEF ObjectOK, Has, Api
  <2> HIDE DEF b
  <2> QED
    BY <2>1, <2>2, OneObject
<1>8. ASSUME NEW done \in BOOLEAN, Committing(p),
             api' = [api EXCEPT ![p] = AfterCommit(p, done)]
      PROVE  ObjectsOK'
  <2> DEFINE b == AfterCommit(p, done)
  <2>1. /\ b \in Api /\ b.todo = {} /\ b.sent = FALSE
        /\ b.initialized = a.initialized /\ b.terminated = a.terminated
        /\ b.scheduled = a.scheduled
        /\ b.cache = IF done THEN NoCells ELSE a.cache
        /\ b.beating => a.beating /\ b.doing = "none"
        /\ b.doing = IF a.doing = "commit" THEN "none" ELSE "terminate"
    BY <1>1, NoCellsType DEF AfterCommit, Api
  <2>2. a.doing \in {"commit", "finish"}
    BY <1>8 DEF Committing
  <2> HIDE DEF b
  <2>3. ObjectOK(b)
    BY <1>1, <2>1, <2>2 DEF ObjectOK, Has, NoCells
  <2> QED
    BY <1>8, <2>3, OneObject DEF b
<1>9. CASE HearCommit(p)
  <2> PICK done \in BOOLEAN : done = Succeeded(p)
    BY DEF Succeeded
  <2> QED
    BY <1>8, <1>9 DEF HearCommit
<1>10. CASE HearTerminate(p)
  <2> PICK done \in BOOLEAN : done = Succeeded(p)
    BY DEF Succeeded
  <2> DEFINE b == [a EXCEPT !.doing = "none", !.sent = FALSE, !.terminated = done,
                            !.initialized = ~done]
  <2>1. api' = [api EXCEPT ![p] = b]
    BY <1>1, <1>10 DEF HearTerminate, Api
  <2>2. a.doing = "terminate"
    BY <1>10 DEF HearTerminate
  <2>3. ObjectOK(b)
    BY <1>1, <2>2 DEF ObjectOK, Has, Api
  <2> HIDE DEF b
  <2> QED
    BY <2>1, <2>3, OneObject
<1>11. CASE Throw(p)
  BY <1>1, <1>5, <1>8, <1>11 DEF Throw, Committing
<1>12. CASE Reload(p)
  BY <1>12, NewObject, OneObject DEF Reload
<1> QED
  BY <1>2, <1>3, <1>4, <1>6, <1>7, <1>9, <1>10, <1>11, <1>12 DEF AdapterStep

LEMMA ObjectsInit == AdapterInit => ObjectsOK
BY NewObject DEF AdapterInit, ObjectsOK

LEMMA ObjectsStep == ObjectsOK /\ [AdapterNext]_adapterVars => ObjectsOK'
<1> SUFFICES ASSUME ObjectsOK, [AdapterNext]_adapterVars PROVE ObjectsOK'
  OBVIOUS
<1>1. ASSUME NEW p \in Pages, ContentCall(p) \/ AdapterStep(p) \/ Throw(p) \/ Reload(p)
      PROVE  ObjectsOK'
  BY <1>1, ContentObjects, RequestObjects
<1>2. CASE ServerStep \/ UNCHANGED adapterVars
  BY <1>2 DEF ServerStep, adapterVars, ObjectsOK
<1> QED
  BY <1>1, <1>2 DEF AdapterNext

(* Whatever content calls and whatever the answers are, the API objects of *)
(* all pages stay in order (scorm-api-1.2.js:65-330).                      *)
THEOREM ObjectsCorrect == AdapterSpec => []ObjectsOK
BY ObjectsInit, ObjectsStep, PTL DEF AdapterSpec

-------------------------------------------------------------------------------
(* The adapter and the runtime. *)

(* A step of a page's adapter is a request, or no step of the runtime.     *)
LEMMA PageStepIs ==
  ASSUME ObjectsOK, NEW p \in Pages,
         ContentCall(p) \/ AdapterStep(p) \/ Throw(p) \/ Reload(p)
  PROVE  Request(p) \/ UNCHANGED vars
<1>1. CASE ContentCall(p)
  BY <1>1 DEF ContentCall, LMSInitialize, LMSGetValue, LMSSetValue, LMSCommit, LMSFinish
<1>2. CASE SendInitialize(p) \/ SendGet(p) \/ SendCommit(p) \/ SendTerminate(p)
  BY <1>2 DEF SendInitialize, SendGet, SendCommit, SendTerminate, Send, Request
<1>3. CASE SendValue(p)
  <2>1. PICK e \in api[p].todo : StartSetOf(p, e, api[p].cache[e])
    BY <1>3 DEF SendValue
  <2>2. e \in Elements /\ api[p].cache[e] \in Values[e]
    BY ObjectIs DEF ObjectOK, Has, Api
  <2> QED
    BY <2>1, <2>2 DEF Request, StartSet
<1>4. CASE HearInitialize(p) \/ HearGet(p) \/ HearValue(p) \/ HearCommit(p) \/ HearTerminate(p)
  BY <1>4 DEF HearInitialize, HearGet, HearValue, HearCommit, HearTerminate
<1>5. CASE Throw(p) \/ Reload(p)
  BY <1>5 DEF Throw, Reload
<1> QED
  BY <1>1, <1>2, <1>3, <1>4, <1>5 DEF AdapterStep

LEMMA AdapterStepIs == ObjectsOK /\ [AdapterNext]_adapterVars => [Next]_vars
<1> SUFFICES ASSUME ObjectsOK, [AdapterNext]_adapterVars PROVE [Next]_vars
  OBVIOUS
<1>1. ASSUME NEW p \in Pages, ContentCall(p) \/ AdapterStep(p) \/ Throw(p) \/ Reload(p)
      PROVE  [Next]_vars
  BY <1>1, PageStepIs DEF Next
<1>2. CASE ServerStep
  BY <1>2 DEF ServerStep, Next
<1>3. CASE UNCHANGED adapterVars
  BY <1>3 DEF adapterVars
<1> QED
  BY <1>1, <1>2, <1>3 DEF AdapterNext

(* Behind its pages' adapters the runtime behaves as ScormRuntime says: an *)
(* adapter sends no request that ScormRuntime does not allow, so all that  *)
(* is proved of the runtime holds behind adapters, too.                    *)
THEOREM AdapterRuns == AdapterSpec => Spec
<1>1. AdapterInit => Init
  BY DEF AdapterInit
<1> QED
  BY <1>1, AdapterStepIs, ObjectsCorrect, PTL DEF AdapterSpec, Spec

-------------------------------------------------------------------------------
(* An object and its request. *)

(* What an object knows of its page's request c. *)
Waits(a, c) ==
  /\ ~a.sent => c.at = "idle"
  /\ a.sent => c.op \in IF a.doing \in {"commit", "finish"} THEN {"set", "commit"} ELSE {a.doing}

ApiInv ==
  /\ TypeOK
  /\ ObjectsOK
  /\ \A p \in Pages : Waits(api[p], call[p])

LEMMA ApiInvImplies == ApiInv => ApiOK
<1> SUFFICES ASSUME ApiInv, NEW p \in Pages
             PROVE  /\ api \in [Pages -> Api]
                    /\ ~(api[p].initialized /\ api[p].terminated)
                    /\ api[p].beating => api[p].initialized
                    /\ api[p].scheduled => api[p].initialized /\ Cached(p) # {}
                    /\ api[p].todo \subseteq Cached(p)
                    /\ Free(p) => ~api[p].sent /\ api[p].todo = {}
                    /\ ~api[p].sent => At(p, "idle")
                    /\ api[p].sent =>
                         call[p].op \in IF Committing(p) THEN {"set", "commit"} ELSE {api[p].doing}
  BY DEF ApiOK, ApiInv, ObjectsOK
<1>1. ObjectOK(api[p]) /\ Waits(api[p], call[p]) /\ api \in [Pages -> Api]
  BY DEF ApiInv, ObjectsOK
<1> QED
  BY <1>1 DEF ObjectOK, Has, Waits, Cached, Free, At, Committing, Api

(* The server goes on with requests, and drops some.                       *)
LEMMA ServerWaits ==
  ASSUME ApiInv, ServerStep, NEW p \in Pages
  PROVE  Waits(api[p], call[p])'
<1>1. Waits(api[p], call[p]) /\ api' = api /\ p \in Procs /\ call \in [Procs -> Call]
  BY DEF ApiInv, ServerStep, Procs, TypeOK
<1>2. call'[p].op = call[p].op /\ (call[p].at = "idle" => call'[p].at = "idle")
  <2>1. ASSUME NEW t \in Timers, StartBeat(t)
        PROVE  call'[p] = call[p]
    BY <1>1, <2>1, BeginFields, ProcessAssumption DEF StartBeat, ApiInv, Procs
  <2>2. ASSUME NEW q \in Procs, Advance(q) \/ SessionFails(q) \/ Abort(q)
        PROVE  call'[p].op = call[p].op /\ (call[p].at = "idle" => call'[p] = call[p])
    <3>1. OwnStep(q)
      BY <2>2, AdvanceIsOwn DEF ApiInv
    <3> QED
      BY <1>1, <3>1 DEF OwnStep
  <2>3. CASE Restart
    BY <1>1, <2>3 DEF Restart, At, NoCall
  <2>4. CASE Expire
    BY <2>4 DEF Expire
  <2> QED
    BY <2>1, <2>2, <2>3, <2>4 DEF ServerStep
<1> QED
  BY <1>1, <1>2 DEF Waits

(* An object changes while its request is not in flight, or starts one.    *)
LEMMA PageWaits ==
  ASSUME ApiInv, NEW p \in Pages, NEW q \in Pages,
         ContentCall(p) \/ AdapterStep(p) \/ Throw(p) \/ Reload(p)
  PROVE  Waits(api[q], call[q])'
<1> DEFINE a == api[p]
<1>1. /\ Waits(api[q], call[q]) /\ Waits(a, call[p]) /\ ObjectOK(a) /\ a \in Api
      /\ p \in Procs /\ q \in Procs
      /\ call \in [Procs -> Call] /\ api \in [Pages -> Api]
  BY ObjectIs DEF ApiInv, Procs, TypeOK, ObjectsOK
<1>2. CASE q # p
  <2>1. api'[q] = api[q]
    BY <1>1, <1>2 DEF ContentCall, LMSInitialize, LMSGetValue, LMSSetValue, LMSCommit,
       LMSFinish, AdapterStep, SendInitialize, SendGet, SendValue, SendCommit, SendTerminate,
       Send, HearInitialize, HearGet, HearValue, HearCommit, HearTerminate, Throw, Reload
  <2>2. call'[q] = call[q]
    <3>1. CASE UNCHANGED vars
      BY <3>1 DEF vars
    <3>2. CASE Request(p)
      BY <1>1, <1>2, <3>2 DEF Request, StartInitialize, StartSet, StartSetOf, StartReject,
         StartGet, StartCommit, StartTerminate, Begin
    <3> QED
      BY <3>1, <3>2, PageStepIs DEF ApiInv
  <2> QED
    BY <1>1, <2>1, <2>2 DEF Waits
<1>3. CASE q = p /\ ContentCall(p)
  <2>1. ~a.sent /\ call'[p] = call[p]
    BY <1>1, <1>3 DEF ContentCall, LMSInitialize, LMSGetValue, LMSSetValue, LMSCommit,
       LMSFinish, Free, ObjectOK, vars
  <2>2. CASE LMSInitialize(p) \/ LMSGetValue(p)
    BY <1>1, <1>3, <2>1, <2>2 DEF Waits, LMSInitialize, LMSGetValue, Api
  <2>3. CASE LMSSetValue(p)
    <3>1. api'[p].sent = a.sent
      <4> PICK e \in Elements : \E v \in Values[e] :
            api' = [api EXCEPT ![p].cache[e] = v, ![p].told[e] = v, ![p].scheduled = TRUE]
        BY <2>3 DEF LMSSetValue
      <4> QED
        BY <1>1 DEF Api
    <3> QED
      BY <1>1, <1>3, <2>1, <3>1 DEF Waits
  <2>4. CASE LMSCommit(p)
    BY <1>1, <1>3, <2>1, <2>4 DEF Waits, LMSCommit, Api
  <2>5. CASE LMSFinish(p)
    BY <1>1, <1>3, <2>1, <2>5 DEF Waits, LMSFinish, Api
  <2> QED
    BY <1>3, <2>2, <2>3, <2>4, <2>5 DEF ContentCall
<1>4. CASE q = p /\ Reload(p)
  <2>1. ~a.sent /\ call'[p] = call[p] /\ api'[p] = NewApi
    BY <1>1, <1>4 DEF Reload, Free, ObjectOK, vars
  <2> QED
    BY <1>1, <1>4, <2>1 DEF Waits, NewApi
<1>5. CASE q = p /\ (\/ HearInitialize(p) \/ HearGet(p) \/ HearValue(p) \/ HearCommit(p)
                     \/ HearTerminate(p) \/ Throw(p))
  <2>1. call'[p] = call[p] /\ call[p].at = "idle"
    BY <1>5 DEF HearInitialize, HearGet, HearValue, HearCommit, HearTerminate, Throw, Arrived,
       At, vars
  <2>2. CASE HearInitialize(p) \/ HearGet(p) \/ HearValue(p) \/ HearTerminate(p)
    <3>1. ~api'[p].sent
      BY <1>1, <2>2 DEF HearInitialize, HearGet, HearValue, HearTerminate, Api
    <3> QED
      BY <1>5, <2>1, <3>1 DEF Waits
  <2>3. CASE HearCommit(p)
    <3>1. ~api'[p].sent
      BY <1>1, <2>3 DEF HearCommit, AfterCommit, Api
    <3> QED
      BY <1>5, <2>1, <3>1 DEF Waits
  <2>4. CASE Throw(p)
    <3>1. ~api'[p].sent
      BY <1>1, <2>4 DEF Throw, AfterCommit, Api
    <3> QED
      BY <1>5, <2>1, <3>1 DEF Waits
  <2> QED
    BY <1>5, <2>2, <2>3, <2>4
<1>6. CASE q = p /\ (SendInitialize(p) \/ SendTerminate(p) \/ SendGet(p) \/ SendCommit(p))
  <2>1. api'[p].sent /\ api'[p].doing = a.doing
    BY <1>1, <1>6 DEF SendInitialize, SendTerminate, SendGet, SendCommit, Send, Api
  <2>2. CASE SendInitialize(p) \/ SendTerminate(p)
    <3>1. a.doing \in {"initialize", "terminate"} /\ call'[p].op = a.doing
      BY <1>1, <2>2, BeginFields DEF SendInitialize, SendTerminate, Send, StartInitialize,
         StartTerminate, ApiInv
    <3> QED
      BY <1>6, <2>1, <3>1 DEF Waits
  <2>3. CASE SendCommit(p)
    <3>1. a.doing \in {"commit", "finish"} /\ call'[p].op = "commit"
      BY <1>1, <2>3, BeginFields DEF SendCommit, Send, StartCommit, Committing, ApiInv
    <3> QED
      BY <1>6, <2>1, <3>1 DEF Waits
  <2>4. CASE SendGet(p)
    <3>1. a.doing = "get" /\ StartGet(p)
      BY <2>4 DEF SendGet, Send
    <3>2. call'[p].op = "get"
      BY <1>1, <3>1 DEF StartGet, NoCall
    <3> QED
      BY <1>6, <2>1, <3>1, <3>2 DEF Waits
  <2> QED
    BY <1>6, <2>2, <2>3, <2>4
<1>7. CASE q = p /\ SendValue(p)
  <2>1. api'[p].sent /\ api'[p].doing = a.doing /\ a.doing \in {"commit", "finish"}
    BY <1>1, <1>7 DEF SendValue, Committing, Api
  <2>2. call'[p].op = "set"
    BY <1>1, <1>7 DEF SendValue, StartSetOf, NoCall
  <2> QED
    BY <1>7, <2>1, <2>2 DEF Waits
<1> QED
  BY <1>2, <1>3, <1>4, <1>5, <1>6, <1>7 DEF AdapterStep

LEMMA ApiInvInit == AdapterInit => ApiInv
<1> SUFFICES ASSUME AdapterInit PROVE ApiInv
  OBVIOUS
<1>1. TypeOK /\ ObjectsOK
  BY InitType, ObjectsInit DEF AdapterInit
<1>2. \A p \in Pages : Waits(api[p], call[p])
  BY DEF AdapterInit, Init, Waits, NewApi, NoCall, Procs
<1> QED
  BY <1>1, <1>2 DEF ApiInv

LEMMA ApiInvStep == ApiInv /\ TypeOK' /\ [AdapterNext]_adapterVars => ApiInv'
<1> SUFFICES ASSUME ApiInv, TypeOK', [AdapterNext]_adapterVars PROVE ApiInv'
  OBVIOUS
<1>1. ObjectsOK'
  BY ObjectsStep DEF ApiInv
<1>2. ASSUME NEW q \in Pages PROVE Waits(api[q], call[q])'
  <2>1. CASE UNCHANGED adapterVars
    BY <2>1 DEF ApiInv, Waits, adapterVars, vars
  <2> QED
    BY <2>1, ServerWaits, PageWaits DEF AdapterNext
<1> QED
  BY <1>1, <1>2 DEF ApiInv

(* The inductive invariant of the API objects and their requests. *)
THEOREM ApiInvCorrect == AdapterSpec => []ApiInv
BY ApiInvInit, ApiInvStep, AdapterRuns, TypeCorrect, PTL DEF AdapterSpec

(* For any number of pages that have the attempt open, either store, and   *)
(* any faults and losses: an object waits for the request it sent and for  *)
(* no other, no timer or heartbeat outlives the session of its page, and   *)
(* the commit timer finds something to commit (scorm-api-1.2.js:65-330).   *)
THEOREM ApiCorrect == AdapterSpec => []ApiOK
BY ApiInvImplies, ApiInvCorrect, PTL

-------------------------------------------------------------------------------
(* A value content has set stays in the page's cache until the attempt has *)
(* it.  Where two pages share the attempt, or a request to set a value      *)
(* fails on the server, it does not; nor where heartbeats race with the    *)
(* session's writes, or a restart empties the sessions kept in memory.     *)

OnePage ==
  /\ \E p : Pages = {p}
  /\ "set" \notin Faults
  /\ Store = "redis" => Timers = {}
  /\ Store = "memory" => Faults = {}

(* The steps of each operation, where no set fails. *)
Route(op) ==
  CASE op = "initialize" -> {"create", "save", "sync"}
    [] op = "set" -> {"create", "add", "ack", "save", "sync", "progress"}
    [] op = "reject" -> {"error"}
    [] op = "get" -> {"peek", "save", "sync"}
    [] op = "commit" -> {"peek", "save", "sync", "clear", "ack", "error"}
    [] op = "terminate" -> {"touch", "progress", "find", "ttl", "timeout", "peek",
                            "clear", "save", "sync", "end"}
    [] OTHER -> {}

(* What holds of the page's request c: it is at a step of its operation,    *)
(* has the stored CMI, holds pending values from the peek on, and what it   *)
(* read of the session is what the session holds.                          *)
CallInv(c) ==
  /\ c.at = "idle" \/ c.at \in Route(c.op)
  /\ c.at # "idle" => c.base.cmi = attempt.cmi
  /\ c.op \notin {"commit", "terminate"} => c.pend = NoCells
  /\ c.at \in {"idle", "peek", "touch", "progress", "find", "ttl", "timeout"} => c.pend = NoCells
  /\ c.at = "idle" => ~Present(c.held)
  /\ Present(c.held) => Store = "redis" /\ c.held = sess
  /\ c.op = "set" /\ c.at = "create" => ~Present(sess)
  /\ c.op = "set" /\ c.at = "add" /\ c.lazy => Present(sess)

(* The cache agrees with what content set, and what has left the cache is   *)
(* in the attempt, with nothing older still pending anywhere.              *)
CacheTold(c, a) ==
  \A e \in Elements :
    /\ a.cache[e] \in {NoValue, a.told[e]}
    /\ a.cache[e] = NoValue /\ a.told[e] # NoValue =>
         /\ attempt.cmi[e] = a.told[e]
         /\ sess.pending[e] \in {NoValue, a.told[e]}
         /\ c.pend[e] \in {NoValue, a.told[e]}

Taking(c) == c.op = "set" /\ c.at \in {"add", "create"}

(* A request to set carries a cached value the commit has sent. *)
SetSends(c, a) ==
  Taking(c) => /\ a.doing \in {"commit", "finish"} /\ a.sent
               /\ c.elem \in Elements /\ c.elem \notin a.todo
               /\ c.val # NoValue /\ c.val = a.cache[c.elem]

(* What a commit has sent is pending, or about to be. *)
SentPends(c, a) ==
  a.doing \in {"commit", "finish"} /\ ~(a.sent /\ c.op = "commit") =>
    \A e \in Elements : Has(a, e) /\ e \notin a.todo =>
      (Taking(c) /\ c.elem = e) \/ sess.pending[e] = a.cache[e]

(* Where the cached values are as the commit itself goes on. *)
CommitStores(c, a) ==
  a.doing \in {"commit", "finish"} /\ a.sent /\ c.op = "commit" =>
    /\ a.todo = {}
    /\ \A e \in Elements : Has(a, e) =>
         /\ c.at = "peek" => sess.pending[e] = a.cache[e]
         /\ c.at = "save" => c.pend[e] = a.cache[e]
         /\ c.at \in {"sync", "clear"} => attempt.cmi[e] = a.cache[e]
         /\ c.at = "ack" \/ (c.at = "idle" /\ c.reply = "true") =>
              attempt.cmi[e] = a.cache[e] /\ sess.pending[e] = NoValue

ValuesInv(c, a) == CacheTold(c, a) /\ SetSends(c, a) /\ SentPends(c, a) /\ CommitStores(c, a)

KeptInv ==
  /\ ApiInv
  /\ TimersInv
  /\ \A p \in Pages : CallInv(call[p]) /\ ValuesInv(call[p], api[p])

LEMMA KeptInvImplies == KeptInv => Kept
BY DEF KeptInv, ValuesInv, CacheTold, Kept

(* The page, and what is known of it. *)
LEMMA PageIs ==
  ASSUME KeptInv, NEW p \in Pages
  PROVE  /\ p \in Procs /\ call[p] \in Call /\ TypeOK
         /\ CallInv(call[p]) /\ ValuesInv(call[p], api[p])
         /\ ObjectOK(api[p]) /\ api[p] \in Api /\ Waits(api[p], call[p])
BY ObjectIs DEF KeptInv, ApiInv, TypeOK, Procs

LEMMA PagesKept ==
  ASSUME KeptInv, OnePage, ApiInv', TimersInv', NEW p \in Pages,
         CallInv(call[p])', ValuesInv(call[p], api[p])'
  PROVE  KeptInv'
BY DEF KeptInv, OnePage

LEMMA KeptInvInit == AdapterInit => KeptInv
<1> SUFFICES ASSUME AdapterInit PROVE KeptInv
  OBVIOUS
<1>1. ApiInv /\ TimersInv
  BY ApiInvInit DEF AdapterInit, Init, TimersInv, NoCall, Procs
<1>2. ASSUME NEW p \in Pages
      PROVE  CallInv(call[p]) /\ ValuesInv(call[p], api[p])
  <2>1. call[p] = NoCall /\ api[p] = NewApi
    BY DEF AdapterInit, Init, Procs
  <2>2. CallInv(call[p])
    BY <2>1 DEF NoCall, CallInv, Present, NoSession
  <2>3. ValuesInv(call[p], api[p])
    BY <2>1 DEF NoCall, NewApi, NoCells, ValuesInv, CacheTold, SetSends, Taking, SentPends,
                CommitStores
  <2> QED
    BY <2>2, <2>3
<1> QED
  BY <1>1, <1>2 DEF KeptInv

(* What a request does with itself as it goes on. *)
LEMMA GotoRest ==
  ASSUME TypeOK, NEW p \in Procs, NEW step, Goto(p, step)
  PROVE  /\ call'[p].elem = call[p].elem /\ call'[p].val = call[p].val
         /\ call'[p].lazy = call[p].lazy
BY DEF Goto, TypeOK, Call

LEMMA CallGoto ==
  ASSUME TypeOK, NEW p \in Procs, CallInv(call[p]), NEW step, Goto(p, step),
         call[p].at # "idle", step \in Route(call[p].op), attempt'.cmi = attempt.cmi,
         \/ call[p].pend = NoCells
         \/ step \notin {"idle", "peek", "touch", "progress", "find", "ttl", "timeout"},
         call[p].op = "set" => step \notin {"add", "create"}
  PROVE  CallInv(call[p])'
BY GotoFields, GotoRest DEF CallInv, Route, NoSession, Present, NoCells

LEMMA CallFinish ==
  ASSUME TypeOK, NEW p \in Procs, NEW r, Finish(p, r)
  PROVE  CallInv(call[p])'
BY FinishFields DEF CallInv, NoSession, Present, NoCells

(* The page's request keeps its invariant. *)
LEMMA CallFetch ==
  ASSUME KeptInv, NEW p \in Pages, call[p].at # "idle", Fetch(p)
  PROVE  CallInv(call[p])'
<1>1. call'[p] = [call[p] EXCEPT !.held = sess] /\ UNCHANGED <<sess, attempt>> /\ Store = "redis"
  BY PageIs DEF Fetch, TypeOK, documents
<1>2. /\ call'[p].held = sess /\ call'[p].at = call[p].at /\ call'[p].op = call[p].op
      /\ call'[p].base = call[p].base /\ call'[p].pend = call[p].pend
      /\ call'[p].lazy = call[p].lazy
  BY <1>1, PageIs DEF Call
<1> QED
  BY <1>1, <1>2, PageIs DEF CallInv, NoCells

(* A failed set is not in the route of a set. *)
LEMMA SetGoesOn ==
  ASSUME KeptInv, OnePage, NEW p \in Pages, call[p].op = "set"
  PROVE  /\ call[p].at # "error"
         /\ ~SaveFails(p) /\ ~SessionFails(p) /\ ~Abort(p)
         /\ call[p].at = "create" => ~(Store = "memory" /\ Present(sess))
         /\ call[p].at = "add" /\ Missing(p) => ~call[p].lazy
<1>1. CallInv(call[p])
  BY PageIs
<1>2. call[p].pend = NoCells /\ SaveAllowed(NoCells)
  BY <1>1, RefusedAssumption DEF CallInv, SaveAllowed, NoCells
<1>3. ~SaveFails(p) /\ ~SessionFails(p) /\ ~Abort(p)
  BY <1>2 DEF OnePage, SaveFails, SessionFails, Abort
<1> QED
  BY <1>1, <1>3 DEF CallInv, Route, Missing

LEMMA CallSteps ==
  ASSUME KeptInv, OnePage, NEW p \in Pages, Advance(p) \/ SessionFails(p) \/ Abort(p)
  PROVE  CallInv(call[p])'
<1> DEFINE c == call[p]
<1>1. /\ CallInv(c) /\ c \in Call /\ c.at # "idle" /\ c.at \in Route(c.op)
      /\ p \in Procs /\ TypeOK
  BY PageIs, AdvanceIsOwn DEF OwnStep, CallInv
<1>2. \A step : c.op = "set" /\ c.at = step => step \in Route("set")
  BY <1>1
<1>3. CASE CreateSession(p)
  <2>1. c.at = "create" /\ attempt' = attempt /\ c.op \in {"initialize", "set"}
    BY <1>1, <1>3 DEF CreateSession, documents, Route, At, Call, Operations
  <2>2. CASE c.op = "initialize"
    BY <1>1, <1>3, <2>1, <2>2, CallGoto DEF CreateSession, Route
  <2>3. CASE c.op = "set"
    <3>1. Goto(p, "add") /\ sess' = FreshSession
      BY <1>3, <2>1, <2>3, SetGoesOn DEF CreateSession
    <3>2. Present(sess')
      BY <3>1 DEF Present, FreshSession
    <3> QED
      BY <1>1, <2>1, <2>3, <3>1, <3>2, GotoFields, GotoRest
      DEF CallInv, Route, NoSession, Present, NoCells
  <2> QED
    BY <2>1, <2>2, <2>3
<1>4. CASE AddPending(p)
  <2>1. c.at = "add" /\ c.op = "set"
    BY <1>1, <1>4 DEF AddPending, At, Route, Call, Operations
  <2>2. CASE Fetch(p)
    BY <1>1, <2>2, CallFetch
  <2>3. CASE Goto(p, "ack") /\ UNCHANGED documents
    BY <1>1, <2>1, <2>3, CallGoto DEF Route, documents
  <2>4. CASE /\ Missing(p) /\ UNCHANGED <<sess, documents>>
             /\ call' = [call EXCEPT ![p].at = IF c.lazy THEN "error" ELSE "create",
                                     ![p].lazy = TRUE]
    <3>1. c.lazy = FALSE
      BY <1>1, <2>1, <2>4, SetGoesOn DEF Call
    <3> DEFINE d == [c EXCEPT !.at = "create", !.lazy = TRUE]
    <3>2. call' = [call EXCEPT ![p] = d]
      BY <1>1, <2>4, <3>1 DEF TypeOK, Call
    <3>3. d.at = "create" /\ d.op = "set" /\ d.base = c.base /\ d.pend = c.pend /\ d.held = c.held
      BY <1>1, <2>1 DEF Call
    <3> HIDE DEF d
    <3>4. call'[p] = d
      BY <1>1, <3>2 DEF TypeOK
    <3> QED
      BY <1>1, <2>1, <2>4, <3>3, <3>4 DEF CallInv, Route, Missing, documents, NoCells
  <2> QED
    BY <1>4, <2>2, <2>3, <2>4 DEF AddPending
<1>5. CASE SetSessionError(p)
  <2>1. CASE Fetch(p)
    BY <1>1, <2>1, CallFetch
  <2>2. CASE c.op = "set" /\ Goto(p, "save") /\ UNCHANGED documents
    BY <1>1, <2>2, CallGoto DEF Route, documents
  <2>3. CASE Finish(p, "false") \/ Finish(p, "true")
    BY <1>1, <2>3, CallFinish
  <2> QED
    BY <1>5, <2>1, <2>2, <2>3, SetGoesOn DEF SetSessionError
<1>6. CASE ClearPending(p)
  <2>1. c.at = "clear" /\ c.op \in {"commit", "terminate"}
    BY <1>1, <1>6 DEF ClearPending, At, Route, Call, Operations
  <2>2. CASE Fetch(p)
    BY <1>1, <2>2, CallFetch
  <2>3. CASE Goto(p, IF c.op = "commit" THEN "ack" ELSE "save") /\ UNCHANGED documents
    BY <1>1, <2>1, <2>3, CallGoto DEF Route, documents
  <2> QED
    BY <1>6, <2>2, <2>3 DEF ClearPending
<1>7. CASE EndSession(p) \/ TimeOut(p)
  <2>1. CASE Fetch(p)
    BY <1>1, <2>1, CallFetch
  <2>2. CASE \E r : Finish(p, r)
    BY <1>1, <2>2, CallFinish
  <2> QED
    BY <1>7, <2>1, <2>2 DEF EndSession, TimeOut, NotFound
<1>8. CASE Heartbeat(p)
  BY <1>1, <1>8 DEF Heartbeat, At, Route
<1>9. CASE FindSession(p) \/ CheckTtl(p)
  <2>1. /\ c.op = "terminate" /\ c.pend = NoCells /\ attempt' = attempt
    BY <1>1, <1>9 DEF FindSession, CheckTtl, At, Route, Call, Operations, CallInv, documents
  <2>2. CASE \E step \in {"ttl", "timeout", "peek"} : Goto(p, step)
    BY <1>1, <2>1, <2>2, CallGoto DEF Route
  <2>3. CASE \E r : Finish(p, r)
    BY <1>1, <2>3, CallFinish
  <2> QED
    BY <1>9, <2>1, <2>2, <2>3 DEF FindSession, CheckTtl, Found, NotFound
<1>10. CASE Peek(p)
  <2>1. c.at = "peek" /\ UNCHANGED <<sess, attempt>> /\ c.pend = NoCells
    BY <1>1, <1>10 DEF Peek, At, documents, CallInv
  <2>2. CASE Finish(p, "true")
    BY <1>1, <2>2, CallFinish
  <2>3. ASSUME NEW step \in {"save", "clear"}, c.op \in {"commit", "terminate"},
               step = "clear" => c.op = "terminate",
               call' = [call EXCEPT ![p].at = step, ![p].pend = sess.pending]
        PROVE  CallInv(call[p])'
    <3> DEFINE d == [c EXCEPT !.at = step, !.pend = sess.pending]
    <3>1. call' = [call EXCEPT ![p] = d]
      BY <1>1, <2>3 DEF TypeOK, Call
    <3>2. d.at = step /\ d.op = c.op /\ d.base = c.base /\ d.held = c.held
      BY <1>1 DEF Call
    <3> HIDE DEF d
    <3>3. call'[p] = d
      BY <1>1, <3>1 DEF TypeOK
    <3> QED
      BY <1>1, <2>1, <2>3, <3>2, <3>3 DEF CallInv, Route, NoCells
  <2>4. CASE c.op = "get" /\ call' = [call EXCEPT ![p].at = "save", ![p].val = Stored(c)]
    <3> DEFINE d == [c EXCEPT !.at = "save", !.val = Stored(c)]
    <3>1. call' = [call EXCEPT ![p] = d]
      BY <1>1, <2>4 DEF TypeOK, Call
    <3>2. d.at = "save" /\ d.op = c.op /\ d.base = c.base /\ d.held = c.held /\ d.pend = c.pend
      BY <1>1 DEF Call
    <3> HIDE DEF d
    <3>3. call'[p] = d
      BY <1>1, <3>1 DEF TypeOK
    <3> QED
      BY <1>1, <2>1, <2>4, <3>2, <3>3 DEF CallInv, Route, NoCells
  <2>5. CASE call' = [call EXCEPT ![p] = [NoCall EXCEPT !.op = "get", !.reply = "true",
                                      !.elem = c.elem, !.val = Cell(sess.pending, c.elem)]]
    BY <1>1, <2>5 DEF TypeOK, NoCall, CallInv, Present, NoSession, NoCells
  <2>6. CASE c.op = "terminate" /\ sess.pending = NoCells
    BY <1>10, <2>3, <2>6 DEF Peek
  <2>7. CASE c.op = "terminate" /\ sess.pending # NoCells
    BY <1>10, <2>3, <2>7 DEF Peek
  <2>8. CASE c.op = "commit" /\ sess.pending # NoCells
    BY <1>10, <2>3, <2>8 DEF Peek
  <2> QED
    BY <1>10, <2>2, <2>4, <2>5, <2>6, <2>7, <2>8 DEF Peek
<1>11. CASE SaveAttempt(p)
  <2>1. c.at = "save" /\ attempt' = Saved(c) /\ UNCHANGED sess
    BY <1>11 DEF SaveAttempt, At
  <2> DEFINE d == [c EXCEPT !.at = "sync", !.base = Edited(c)]
  <2>2. call' = [call EXCEPT ![p] = d] /\ call'[p] = d
    BY <1>1, <1>11 DEF SaveAttempt, TypeOK, Call
  <2>3. d.at = "sync" /\ d.op = c.op /\ d.base = Edited(c) /\ d.held = c.held /\ d.pend = c.pend
    BY <1>1 DEF Call
  <2> HIDE DEF d
  <2>4. Edited(c).cmi = attempt'.cmi
    <3>1. c.pend = NoCells => Edited(c).cmi = c.base.cmi
      <4>1. c.pend = NoCells => Overlay(c.base.cmi, c.pend) = c.base.cmi
        BY <1>1 DEF Overlay, NoCells, Call, Attempt, Cells
      <4>2. Initialized(c.base).cmi = c.base.cmi
        BY <1>1 DEF Initialized, Call, Attempt
      <4> QED
        BY <4>1, <4>2 DEF Edited, Committed, Finished, Stamped
    <3> QED
      BY <1>1, <2>1, <3>1 DEF Saved, CallInv
  <2> QED
    BY <1>1, <2>1, <2>2, <2>3, <2>4 DEF CallInv, Route, NoCells
<1>12. CASE SaveFails(p)
  <2>1. CASE c.op = "commit" /\ Goto(p, "error")
    BY <1>1, <1>12, <2>1, CallGoto DEF SaveFails, Route, documents
  <2>2. CASE Finish(p, "failed")
    BY <1>1, <2>2, CallFinish
  <2> QED
    BY <1>12, <2>1, <2>2, SetGoesOn DEF SaveFails
<1>13. CASE SyncContent(p)
  <2>1. c.at \in {"sync", "touch"} /\ attempt' = attempt
    BY <1>13 DEF SyncContent
  <2>2. CASE Goto(p, "progress") /\ (c.at = "touch" \/ c.op = "set")
    <3>1. c.pend = NoCells /\ c.op \in {"set", "terminate"}
      BY <1>1, <2>1, <2>2 DEF CallInv, Route, Call, Operations
    <3> QED
      BY <1>1, <2>1, <2>2, <3>1, CallGoto DEF Route
  <2>3. CASE c.op = "commit" /\ Goto(p, "clear")
    BY <1>1, <2>1, <2>3, CallGoto DEF Route
  <2>4. CASE c.op = "terminate" /\ Goto(p, "end")
    BY <1>1, <2>1, <2>4, CallGoto DEF Route
  <2>5. CASE call' = [call EXCEPT ![p] = [NoCall EXCEPT !.op = "get", !.reply = "true",
                                            !.elem = c.elem, !.val = c.val]]
    BY <1>1, <2>5 DEF TypeOK, NoCall, CallInv, Present, NoSession, NoCells
  <2>6. CASE Finish(p, "true")
    BY <1>1, <2>6, CallFinish
  <2> QED
    BY <1>13, <2>2, <2>3, <2>4, <2>5, <2>6 DEF SyncContent, At
<1>14. CASE PersistProgress(p)
  <2>1. c.at = "progress" /\ attempt' = attempt /\ c.pend = NoCells /\ c.op \in {"set", "terminate"}
    BY <1>1, <1>14 DEF PersistProgress, At, CallInv, Route, Call, Operations
  <2>2. CASE c.op = "terminate" /\ Goto(p, "find")
    BY <1>1, <2>1, <2>2, CallGoto DEF Route
  <2>3. CASE Finish(p, "true")
    BY <1>1, <2>3, CallFinish
  <2> QED
    BY <1>14, <2>1, <2>2, <2>3 DEF PersistProgress
<1>15. CASE SessionFails(p) \/ Abort(p)
  <2>1. CASE c.op = "initialize" /\ Goto(p, "save") /\ UNCHANGED documents
    BY <1>1, <2>1, CallGoto DEF Route, documents
  <2>2. CASE c.op = "commit" /\ Goto(p, "error") /\ UNCHANGED documents
    BY <1>1, <2>2, CallGoto DEF Route, documents
  <2>3. CASE Finish(p, "failed")
    BY <1>1, <2>3, CallFinish
  <2> QED
    BY <1>15, <2>1, <2>2, <2>3, SetGoesOn DEF SessionFails, Abort
<1> QED
  BY <1>3, <1>4, <1>5, <1>6, <1>7, <1>8, <1>9, <1>10, <1>11, <1>12, <1>13, <1>14, <1>15
  DEF Advance

(* Steps that move no value: the attempt and the pending values stay, and   *)
(* the request drops what it carried or goes on with it.                   *)
LEMMA QuietValues ==
  ASSUME NEW p, ValuesInv(call[p], api[p]), api'[p] = api[p],
         attempt'.cmi = attempt.cmi, sess'.pending = sess.pending,
         call'[p].op = call[p].op, call'[p].pend \in {call[p].pend, NoCells},
         call[p].op = "set" =>
           /\ Taking(call[p]) <=> Taking(call'[p])
           /\ \/ call'[p].elem = call[p].elem /\ call'[p].val = call[p].val
              \/ ~Taking(call[p]),
         call[p].op = "commit" =>
           \/ call'[p].at = "error"
           \/ call'[p].at = "idle" /\ call'[p].reply # "true"
           \/ call'[p].at = call[p].at /\ call'[p].pend = call[p].pend
              /\ call[p].at # "idle"
           \/ call'[p].at = "clear" /\ call[p].at = "sync"
           \/ call'[p].at = "idle" /\ call[p].at = "ack"
           \/ call'[p].at = "idle" /\ call[p].at = "peek" /\ sess.pending = NoCells
  PROVE  ValuesInv(call[p], api[p])'
<1> DEFINE c == call[p]
           a == api[p]
<1>1. CacheTold(c, a)'
  BY DEF ValuesInv, CacheTold, NoCells
<1>2. SetSends(c, a)'
  BY DEF ValuesInv, SetSends, Taking
<1>3. SentPends(c, a)'
  BY DEF ValuesInv, SentPends, Taking, Has
<1>4. CommitStores(c, a)'
  <2>1. SUFFICES ASSUME a'.doing \in {"commit", "finish"}, a'.sent, c'.op = "commit"
                 PROVE  a'.todo = {} /\ \A e \in Elements : Has(a', e) =>
         /\ c'.at = "peek" => sess'.pending[e] = a'.cache[e]
         /\ c'.at = "save" => c'.pend[e] = a'.cache[e]
         /\ c'.at \in {"sync", "clear"} => attempt'.cmi[e] = a'.cache[e]
         /\ c'.at = "ack" \/ (c'.at = "idle" /\ c'.reply = "true") =>
              attempt'.cmi[e] = a'.cache[e] /\ sess'.pending[e] = NoValue
    BY DEF CommitStores, Has
  <2>2. CommitStores(c, a) /\ a.doing \in {"commit", "finish"} /\ a.sent /\ c.op = "commit"
    BY <2>1 DEF ValuesInv
  <2>3. a.todo = {} /\ \A e \in Elements : Has(a, e) =>
         /\ c.at = "peek" => sess.pending[e] = a.cache[e]
         /\ c.at = "save" => c.pend[e] = a.cache[e]
         /\ c.at \in {"sync", "clear"} => attempt.cmi[e] = a.cache[e]
         /\ c.at = "ack" \/ (c.at = "idle" /\ c.reply = "true") =>
              attempt.cmi[e] = a.cache[e] /\ sess.pending[e] = NoValue
    BY <2>2 DEF CommitStores
  <2> QED
    BY <2>1, <2>2, <2>3 DEF Has, NoCells
<1> QED
  BY <1>1, <1>2, <1>3, <1>4 DEF ValuesInv

(* Steps of the other calls: no request of theirs takes or stores.         *)
LEMMA OtherValues ==
  ASSUME NEW p, CacheTold(call[p], api[p])', ~Taking(call'[p]),
         api'[p].doing \notin {"commit", "finish"}
  PROVE  ValuesInv(call[p], api[p])'
BY DEF ValuesInv, SetSends, SentPends, CommitStores, Taking

(* While a request is in flight, its call waits for it. *)
LEMMA InFlight ==
  ASSUME KeptInv, NEW p \in Pages, call[p].at # "idle"
  PROVE  /\ api[p].sent
         /\ call[p].op \in IF api[p].doing \in {"commit", "finish"} THEN {"set", "commit"}
                           ELSE {api[p].doing}
BY PageIs DEF Waits

LEMMA FetchFields ==
  ASSUME KeptInv, NEW p \in Pages, Fetch(p)
  PROVE  /\ call'[p].held = sess /\ call'[p].at = call[p].at /\ call'[p].op = call[p].op
         /\ call'[p].pend = call[p].pend /\ call'[p].elem = call[p].elem
         /\ call'[p].val = call[p].val /\ call'[p].reply = call[p].reply
         /\ UNCHANGED <<sess, attempt>>
<1>1. call'[p] = [call[p] EXCEPT !.held = sess]
  BY PageIs DEF Fetch, TypeOK
<1> QED
  BY <1>1, PageIs DEF Fetch, documents, Call

LEMMA FetchValues ==
  ASSUME KeptInv, NEW p \in Pages, Fetch(p), call[p].at # "idle", api' = api
  PROVE  ValuesInv(call[p], api[p])'
BY FetchFields, PageIs, QuietValues DEF Taking

(* What a session operation would write back is the session there is. *)
LEMMA HeldIsSession ==
  ASSUME KeptInv, NEW p \in Pages, Present(Held(p))
  PROVE  Held(p) = sess
BY PageIs DEF CallInv, Held

LEMMA AbsentPends ==
  ASSUME TypeOK, ~Present(sess)
  PROVE  sess.pending = NoCells
BY DEF TypeOK, Session, Present

(* The steps that move values, one by one. *)
LEMMA CreateValues ==
  ASSUME KeptInv, OnePage, NEW p \in Pages, CreateSession(p), api' = api
  PROVE  ValuesInv(call[p], api[p])'
<1> DEFINE c == call[p]
           a == api[p]
<1>1. c.at = "create" /\ attempt' = attempt /\ c.op \in {"initialize", "set"} /\ TypeOK /\ p \in Procs
  BY PageIs DEF CreateSession, documents, At, CallInv, Route, Call, Operations
<1>2. sess'.pending \in {sess.pending, NoCells}
  BY DEF CreateSession, FreshSession
<1>3. CASE c.op = "set"
  <2>1. Goto(p, "add")
    BY <1>1, <1>3, SetGoesOn DEF CreateSession
  <2>2. sess'.pending = sess.pending
    BY <1>1, <1>2, <1>3, AbsentPends, PageIs DEF CallInv
  <2> QED
    BY <1>1, <1>3, <2>1, <2>2, PageIs, QuietValues, GotoFields, GotoRest DEF Taking
<1>4. CASE c.op = "initialize"
  <2>1. a.doing = "initialize"
    BY <1>1, <1>4, InFlight
  <2>2. \E step : Goto(p, step)
    BY <1>1 DEF CreateSession
  <2>3. call'[p].op = "initialize" /\ call'[p].pend = c.pend
    BY <1>1, <1>4, <2>2, GotoFields
  <2>4. CacheTold(c, a)'
    BY <1>1, <1>2, <2>3, PageIs DEF ValuesInv, CacheTold, NoCells
  <2> QED
    BY <2>1, <2>3, <2>4, OtherValues DEF Taking
<1> QED
  BY <1>1, <1>3, <1>4

(* addPendingCMI puts the value the request carries where the commit finds *)
(* it, over the session as it is.                                          *)
LEMMA AddValues ==
  ASSUME KeptInv, OnePage, NEW p \in Pages, AddPending(p), api' = api
  PROVE  ValuesInv(call[p], api[p])'
<1> DEFINE c == call[p]
           a == api[p]
<1>1. c.at = "add" /\ c.op = "set" /\ TypeOK /\ p \in Procs
  BY PageIs DEF AddPending, At, CallInv, Route, Call, Operations
<1>2. CASE Fetch(p)
  BY <1>1, <1>2, FetchValues
<1>3. CASE Missing(p) /\ UNCHANGED <<sess, documents>>
           /\ call' = [call EXCEPT ![p].at = IF c.lazy THEN "error" ELSE "create",
                                   ![p].lazy = TRUE]
  <2>1. c.lazy = FALSE
    BY <1>1, <1>3, SetGoesOn, PageIs DEF Call
  <2> DEFINE d == [c EXCEPT !.at = "create", !.lazy = TRUE]
  <2>2. call' = [call EXCEPT ![p] = d]
    BY <1>1, <1>3, <2>1 DEF TypeOK, Call
  <2>3. d.at = "create" /\ d.op = "set" /\ d.pend = c.pend /\ d.elem = c.elem /\ d.val = c.val
    BY <1>1, PageIs DEF Call
  <2> HIDE DEF d
  <2>4. call'[p] = d
    BY <1>1, <2>2 DEF TypeOK
  <2> QED
    BY <1>1, <1>3, <2>3, <2>4, PageIs, QuietValues DEF Taking, documents
<1>4. CASE /\ Present(Held(p)) /\ Goto(p, "ack") /\ UNCHANGED documents
           /\ sess' = [Held(p) EXCEPT !.pending[c.elem] = c.val]
  <2>1. /\ a.doing \in {"commit", "finish"} /\ a.sent
        /\ c.elem \in Elements /\ c.elem \notin a.todo
        /\ c.val # NoValue /\ c.val = a.cache[c.elem]
    BY <1>1, PageIs DEF ValuesInv, SetSends, Taking
  <2>2. \A e \in Elements : sess'.pending[e] = IF e = c.elem THEN c.val ELSE sess.pending[e]
    BY <1>1, <1>4, <2>1, HeldIsSession DEF TypeOK, Session, Cells
  <2>3. /\ call'[p].at = "ack" /\ call'[p].op = "set" /\ call'[p].pend = c.pend
        /\ attempt' = attempt
    BY <1>1, <1>4, GotoFields DEF documents
  <2>4. CacheTold(c, a)'
    BY <2>1, <2>2, <2>3, PageIs DEF ValuesInv, CacheTold
  <2>5. SentPends(c, a)'
    <3>1. SentPends(c, a)
      BY PageIs DEF ValuesInv
    <3> QED
      BY <1>1, <2>1, <2>2, <2>3, <3>1 DEF SentPends, Taking, Has
  <2> QED
    BY <2>3, <2>4, <2>5 DEF ValuesInv, SetSends, CommitStores, Taking
<1> QED
  BY <1>2, <1>3, <1>4 DEF AddPending

(* clearPendingCMI, when commit has stored what it clears. *)
LEMMA ClearValues ==
  ASSUME KeptInv, NEW p \in Pages, ClearPending(p), api' = api
  PROVE  ValuesInv(call[p], api[p])'
<1> DEFINE c == call[p]
           a == api[p]
<1>1. c.at = "clear" /\ c.op \in {"commit", "terminate"} /\ TypeOK /\ p \in Procs
  BY PageIs DEF ClearPending, At, CallInv, Route, Call, Operations
<1>2. CASE Fetch(p)
  BY <1>1, <1>2, FetchValues
<1>3. CASE /\ Present(Held(p)) \/ Missing(p)
           /\ sess' = IF Present(Held(p)) THEN [Held(p) EXCEPT !.pending = NoCells] ELSE sess
           /\ Goto(p, IF c.op = "commit" THEN "ack" ELSE "save")
           /\ UNCHANGED documents
  <2>1. sess'.pending = NoCells
    <3>1. CASE Present(Held(p))
      BY <1>1, <1>3, <3>1, HeldIsSession DEF TypeOK, Session
    <3>2. CASE ~Present(Held(p))
      BY <1>1, <1>3, <3>2, AbsentPends DEF Missing
    <3> QED
      BY <3>1, <3>2
  <2>2. /\ attempt' = attempt /\ call'[p].op = c.op /\ call'[p].pend = c.pend
        /\ call'[p].at = IF c.op = "commit" THEN "ack" ELSE "save"
    BY <1>1, <1>3, GotoFields DEF documents
  <2>3. CacheTold(c, a)'
    BY <2>1, <2>2, PageIs DEF ValuesInv, CacheTold, NoCells
  <2>4. CASE c.op = "terminate"
    <3>1. a.doing = "terminate"
      BY <1>1, <2>4, InFlight
    <3> QED
      BY <2>2, <2>3, <2>4, <3>1, OtherValues DEF Taking
  <2>5. CASE c.op = "commit"
    <3>1. a.doing \in {"commit", "finish"} /\ a.sent
      BY <1>1, <2>5, InFlight, PageIs DEF Api
    <3>2. a.todo = {} /\ \A e \in Elements : Has(a, e) => attempt.cmi[e] = a.cache[e]
      BY <1>1, <2>5, <3>1, PageIs DEF ValuesInv, CommitStores
    <3>3. CommitStores(c, a)'
      BY <2>1, <2>2, <2>5, <3>2 DEF CommitStores, Has, NoCells
    <3> QED
      BY <2>2, <2>3, <2>5, <3>1, <3>3 DEF ValuesInv, SetSends, SentPends, Taking
  <2> QED
    BY <1>1, <2>4, <2>5
<1> QED
  BY <1>2, <1>3 DEF ClearPending

(* Commit reads what it has sent; terminate reads what there is. *)
LEMMA PeekValues ==
  ASSUME KeptInv, NEW p \in Pages, Peek(p), api' = api
  PROVE  ValuesInv(call[p], api[p])'
<1> DEFINE c == call[p]
           a == api[p]
<1>1. /\ c.at = "peek" /\ c.op \in {"get", "commit", "terminate"} /\ TypeOK /\ p \in Procs
      /\ UNCHANGED <<sess, attempt>> /\ c.pend = NoCells /\ c \in Call
  BY PageIs DEF Peek, At, CallInv, documents
<1>2. CASE c.op = "commit" /\ sess.pending = NoCells
  <2>1. Finish(p, "true")
    BY <1>2 DEF Peek
  <2> QED
    BY <1>1, <1>2, <2>1, PageIs, FinishFields, QuietValues
<1>3. ASSUME NEW step \in {"save", "clear"}, c.op \in {"commit", "terminate"},
             step = "clear" => c.op = "terminate",
             call' = [call EXCEPT ![p].at = step, ![p].pend = sess.pending]
      PROVE  ValuesInv(call[p], api[p])'
  <2> DEFINE d == [c EXCEPT !.at = step, !.pend = sess.pending]
  <2>1. call' = [call EXCEPT ![p] = d]
    BY <1>1, <1>3 DEF TypeOK, Call
  <2>2. d.at = step /\ d.op = c.op /\ d.pend = sess.pending
    BY <1>1 DEF Call
  <2> HIDE DEF d
  <2>3. call'[p] = d
    BY <1>1, <2>1 DEF TypeOK
  <2>4. CacheTold(c, a)'
    BY <1>1, <2>2, <2>3, PageIs DEF ValuesInv, CacheTold
  <2>5. CASE c.op = "terminate"
    <3>1. a.doing = "terminate"
      BY <1>1, <2>5, InFlight
    <3> QED
      BY <2>2, <2>3, <2>4, <2>5, <3>1, OtherValues DEF Taking
  <2>6. CASE c.op = "commit"
    <3>1. a.doing \in {"commit", "finish"} /\ a.sent
      BY <1>1, <2>6, InFlight, PageIs DEF Api
    <3>2. a.todo = {} /\ \A e \in Elements : Has(a, e) => sess.pending[e] = a.cache[e]
      BY <1>1, <2>6, <3>1, PageIs DEF ValuesInv, CommitStores
    <3>3. CommitStores(c, a)'
      BY <1>3, <2>2, <2>3, <2>6, <3>2 DEF CommitStores, Has
    <3> QED
      BY <1>3, <2>2, <2>3, <2>4, <2>6, <3>1, <3>3 DEF ValuesInv, SetSends, SentPends, Taking
  <2> QED
    BY <1>3, <2>5, <2>6
<1>4. CASE c.op = "commit" /\ sess.pending # NoCells
  BY <1>3, <1>4 DEF Peek
<1>5. CASE c.op = "terminate" /\ sess.pending = NoCells
  BY <1>3, <1>5 DEF Peek
<1>6. CASE c.op = "terminate" /\ sess.pending # NoCells
  BY <1>3, <1>6 DEF Peek
<1>7. CASE c.op = "get"
  <2>1. call'[p].op = "get" /\ call'[p].pend = NoCells
    <3>1. CASE call' = [call EXCEPT ![p] = [NoCall EXCEPT !.op = "get", !.reply = "true",
                                      !.elem = c.elem, !.val = Cell(sess.pending, c.elem)]]
      BY <1>1, <3>1 DEF TypeOK, NoCall
    <3>2. CASE call' = [call EXCEPT ![p].at = "save", ![p].val = Stored(c)]
      <4>1. call'[p] = [c EXCEPT !.at = "save", !.val = Stored(c)]
        BY <1>1, <3>2 DEF TypeOK, Call
      <4> QED
        BY <1>1, <1>7, <4>1 DEF Call
    <3> QED
      BY <1>7, <3>1, <3>2 DEF Peek
  <2> QED
    BY <1>1, <1>7, <2>1, PageIs, QuietValues
<1> QED
  BY <1>1, <1>2, <1>4, <1>5, <1>6, <1>7

(* The save of a commit stores what it has read; terminate's, too. *)
LEMMA SaveValues ==
  ASSUME KeptInv, NEW p \in Pages, SaveAttempt(p), api' = api
  PROVE  ValuesInv(call[p], api[p])'
<1> DEFINE c == call[p]
           a == api[p]
<1>1. c.at = "save" /\ attempt' = Saved(c) /\ UNCHANGED sess /\ c \in Call /\ TypeOK /\ p \in Procs
  BY PageIs DEF SaveAttempt, At
<1>2. call'[p].at = "sync" /\ call'[p].op = c.op /\ call'[p].pend = c.pend
  <2>1. call'[p] = [c EXCEPT !.at = "sync", !.base = Edited(c)]
    BY <1>1 DEF SaveAttempt, TypeOK
  <2> QED
    BY <1>1, <2>1 DEF Call
<1>3. c.base.cmi = attempt.cmi
  BY <1>1, PageIs DEF CallInv
<1>4. CASE c.op \notin {"commit", "terminate"}
  <2>1. c.pend = NoCells
    BY <1>4, PageIs DEF CallInv
  <2>2. attempt'.cmi = attempt.cmi
    BY <1>1, <2>1 DEF Saved
  <2> QED
    BY <1>1, <1>2, <1>4, <2>2, PageIs, QuietValues DEF Taking
<1>5. CASE c.op \in {"commit", "terminate"}
  <2>1. \A e \in Elements : attempt'.cmi[e] = IF c.pend[e] = NoValue THEN attempt.cmi[e] ELSE c.pend[e]
    <3>1. Edited(c).cmi = Overlay(attempt.cmi, c.pend)
      BY <1>3, <1>5 DEF Edited, Committed, Finished, Stamped
    <3>2. CASE c.pend = NoCells
      BY <1>1, <3>2 DEF Saved, NoCells
    <3>3. CASE c.pend # NoCells
      BY <1>1, <3>1, <3>3 DEF Saved, Overlay
    <3> QED
      BY <3>2, <3>3
  <2>2. CacheTold(c, a)'
    BY <1>1, <1>2, <2>1, PageIs DEF ValuesInv, CacheTold
  <2>3. CASE c.op = "terminate"
    <3>1. a.doing = "terminate"
      BY <1>1, <2>3, InFlight
    <3> QED
      BY <1>2, <2>2, <2>3, <3>1, OtherValues DEF Taking
  <2>4. CASE c.op = "commit"
    <3>1. a.doing \in {"commit", "finish"} /\ a.sent
      BY <1>1, <2>4, InFlight, PageIs DEF Api
    <3>2. a.todo = {} /\ \A e \in Elements : Has(a, e) => c.pend[e] = a.cache[e]
      BY <1>1, <2>4, <3>1, PageIs DEF ValuesInv, CommitStores
    <3>3. CommitStores(c, a)'
      BY <1>2, <2>1, <2>4, <3>2 DEF CommitStores, Has
    <3> QED
      BY <1>2, <2>2, <2>4, <3>1, <3>3 DEF ValuesInv, SetSends, SentPends, Taking
  <2> QED
    BY <1>5, <2>3, <2>4
<1> QED
  BY <1>4, <1>5

(* The other steps of the handlers move no value. *)
LEMMA SessionValues ==
  ASSUME KeptInv, OnePage, NEW p \in Pages, api' = api,
         SetSessionError(p) \/ EndSession(p) \/ TimeOut(p)
  PROVE  ValuesInv(call[p], api[p])'
<1> DEFINE c == call[p]
<1>1. c.at # "idle" /\ TypeOK /\ p \in Procs /\ c.at \in Route(c.op)
  BY PageIs DEF SetSessionError, EndSession, TimeOut, At, CallInv
<1>2. CASE Fetch(p)
  BY <1>1, <1>2, FetchValues
<1>3. CASE ~Fetch(p)
  <2>1. attempt' = attempt /\ sess'.pending = sess.pending
    <3>1. CASE Present(Held(p))
      BY <1>1, <1>3, <3>1, HeldIsSession
      DEF SetSessionError, EndSession, TimeOut, documents, TypeOK, Session
    <3>2. CASE ~Present(Held(p))
      BY <1>3, <3>2 DEF SetSessionError, EndSession, TimeOut, documents
    <3> QED
      BY <3>1, <3>2
  <2>2. CASE SetSessionError(p) /\ c.op = "set"
    <3>1. Goto(p, "save") /\ c.at = "ack"
      BY <1>3, <2>2, SetGoesOn DEF SetSessionError, At
    <3> QED
      BY <1>1, <2>1, <2>2, <3>1, PageIs, QuietValues, GotoFields DEF Taking
  <2>3. CASE SetSessionError(p) /\ c.op # "set" /\ c.at = "error"
    <3>1. Finish(p, "false")
      BY <1>3, <2>3 DEF SetSessionError, At
    <3> QED
      BY <1>1, <2>1, <2>3, <3>1, PageIs, QuietValues, FinishFields
  <2>4. CASE SetSessionError(p) /\ c.op # "set" /\ c.at = "ack"
    <3>1. Finish(p, "true")
      BY <1>3, <2>4 DEF SetSessionError, At
    <3> QED
      BY <1>1, <2>1, <2>4, <3>1, PageIs, QuietValues, FinishFields
  <2>5. CASE EndSession(p) \/ TimeOut(p)
    <3>1. c.op = "terminate"
      BY <1>1, <2>5, PageIs DEF EndSession, TimeOut, At, Route, Call, Operations
    <3>2. \E r : Finish(p, r)
      BY <1>3, <2>5 DEF EndSession, TimeOut, NotFound
    <3> QED
      BY <1>1, <2>1, <3>1, <3>2, PageIs, QuietValues, FinishFields
  <2>6. SetSessionError(p) => c.at \in {"ack", "error"}
    BY DEF SetSessionError
  <2> QED
    BY <2>2, <2>3, <2>4, <2>5, <2>6
<1> QED
  BY <1>2, <1>3

LEMMA FindValues ==
  ASSUME KeptInv, NEW p \in Pages, api' = api, FindSession(p) \/ CheckTtl(p)
  PROVE  ValuesInv(call[p], api[p])'
<1>1. call[p].op = "terminate" /\ TypeOK /\ p \in Procs
  BY PageIs DEF FindSession, CheckTtl, At, CallInv, Route, Call, Operations
<1>2. attempt' = attempt /\ sess'.pending = sess.pending
  BY <1>1 DEF FindSession, CheckTtl, documents, TypeOK, Session
<1>3. CASE \E step : Goto(p, step)
  BY <1>1, <1>2, <1>3, PageIs, QuietValues, GotoFields
<1>4. CASE \E r : Finish(p, r)
  BY <1>1, <1>2, <1>4, PageIs, QuietValues, FinishFields
<1> QED
  BY <1>3, <1>4 DEF FindSession, CheckTtl, Found, NotFound

LEMMA DocumentValues ==
  ASSUME KeptInv, OnePage, NEW p \in Pages, api' = api,
         SaveFails(p) \/ SyncContent(p) \/ PersistProgress(p)
  PROVE  ValuesInv(call[p], api[p])'
<1> DEFINE c == call[p]
<1>1. /\ TypeOK /\ p \in Procs /\ c.at \in Route(c.op) /\ c \in Call
      /\ c.at \in {"save", "sync", "touch", "progress"}
      /\ UNCHANGED <<sess, attempt>>
  BY PageIs DEF SaveFails, SyncContent, PersistProgress, At, CallInv, documents
<1>2. CASE SaveFails(p)
  <2>1. CASE c.op = "commit" /\ Goto(p, "error")
    BY <1>1, <2>1, PageIs, QuietValues, GotoFields
  <2>2. CASE Finish(p, "failed")
    BY <1>1, <1>2, <2>2, PageIs, QuietValues, FinishFields, SetGoesOn
  <2> QED
    BY <1>2, <2>1, <2>2, SetGoesOn DEF SaveFails
<1>3. CASE SyncContent(p)
  <2>1. CASE Goto(p, "progress") /\ (c.at = "touch" \/ c.op = "set")
    <3>1. c.op \in {"set", "terminate"}
      BY <1>1, <2>1 DEF Route, Call, Operations
    <3> QED
      BY <1>1, <2>1, <3>1, PageIs, QuietValues, GotoFields, GotoRest DEF Taking
  <2>2. CASE c.op = "commit" /\ Goto(p, "clear")
    <3>1. c.at = "sync"
      BY <1>1, <1>3, <2>2 DEF SyncContent, Route
    <3> QED
      BY <1>1, <2>2, <3>1, PageIs, QuietValues, GotoFields
  <2>3. CASE c.op = "terminate" /\ Goto(p, "end")
    BY <1>1, <2>3, PageIs, QuietValues, GotoFields
  <2>4. CASE c.op = "get" /\ call' = [call EXCEPT ![p] = [NoCall EXCEPT !.op = "get",
                                   !.reply = "true", !.elem = c.elem, !.val = c.val]]
    <3>1. call'[p].op = "get" /\ call'[p].pend = NoCells
      BY <1>1, <2>4 DEF TypeOK, NoCall
    <3> QED
      BY <1>1, <2>4, <3>1, PageIs, QuietValues
  <2>5. CASE c.op \notin {"commit", "terminate", "get"} /\ Finish(p, "true")
    BY <1>1, <2>5, PageIs, QuietValues, FinishFields DEF Taking
  <2> QED
    BY <1>1, <1>3, <2>1, <2>2, <2>3, <2>4, <2>5 DEF SyncContent, At, Route
<1>4. CASE PersistProgress(p)
  <2>1. c.at = "progress" /\ c.op \in {"set", "terminate"}
    BY <1>1, <1>4 DEF PersistProgress, At, Route, Call, Operations
  <2>2. CASE Goto(p, "find") /\ c.op = "terminate"
    BY <1>1, <2>1, <2>2, PageIs, QuietValues, GotoFields
  <2>3. CASE Finish(p, "true")
    BY <1>1, <2>1, <2>3, PageIs, QuietValues, FinishFields DEF Taking
  <2> QED
    BY <1>4, <2>1, <2>2, <2>3 DEF PersistProgress
<1> QED
  BY <1>2, <1>3, <1>4

LEMMA FailureValues ==
  ASSUME KeptInv, OnePage, NEW p \in Pages, api' = api, SessionFails(p) \/ Abort(p)
  PROVE  ValuesInv(call[p], api[p])'
<1> DEFINE c == call[p]
<1>1. TypeOK /\ p \in Procs /\ c.op # "set" /\ UNCHANGED <<sess, attempt>>
  BY PageIs, SetGoesOn DEF SessionFails, Abort, documents
<1>2. CASE c.op = "initialize" /\ Goto(p, "save")
  BY <1>1, <1>2, PageIs, QuietValues, GotoFields
<1>3. CASE c.op = "commit" /\ Goto(p, "error")
  BY <1>1, <1>3, PageIs, QuietValues, GotoFields
<1>4. CASE Finish(p, "failed")
  BY <1>1, <1>4, PageIs, QuietValues, FinishFields
<1> QED
  BY <1>1, <1>2, <1>3, <1>4 DEF SessionFails, Abort

LEMMA ValueSteps ==
  ASSUME KeptInv, OnePage, NEW p \in Pages, Advance(p) \/ SessionFails(p) \/ Abort(p),
         api' = api
  PROVE  ValuesInv(call[p], api[p])'
<1>1. ~Heartbeat(p)
  BY PageIs DEF Heartbeat, At, CallInv, Route
<1>2. CASE CreateSession(p)
  BY <1>2, CreateValues
<1>3. CASE AddPending(p)
  BY <1>3, AddValues
<1>4. CASE SetSessionError(p) \/ EndSession(p) \/ TimeOut(p)
  BY <1>4, SessionValues
<1>5. CASE ClearPending(p)
  BY <1>5, ClearValues
<1>6. CASE FindSession(p) \/ CheckTtl(p)
  BY <1>6, FindValues
<1>7. CASE Peek(p)
  BY <1>7, PeekValues
<1>8. CASE SaveAttempt(p)
  BY <1>8, SaveValues
<1>9. CASE SaveFails(p) \/ SyncContent(p) \/ PersistProgress(p)
  BY <1>9, DocumentValues
<1>10. CASE SessionFails(p) \/ Abort(p)
  BY <1>10, FailureValues
<1> QED
  BY <1>1, <1>2, <1>3, <1>4, <1>5, <1>6, <1>7, <1>8, <1>9, <1>10 DEF Advance

LEMMA ServerKeeps ==
  ASSUME KeptInv, OnePage, ApiInv', ServerStep
  PROVE  KeptInv'
<1> api' = api /\ TypeOK /\ TypeOK' /\ TimersInv
  BY DEF ServerStep, KeptInv, ApiInv
<1>1. PICK p \in Pages : TRUE
  BY DEF OnePage
<1> USE PageIs
<1>2. ASSUME NEW t \in Timers, StartBeat(t) \/ Advance(t) \/ SessionFails(t) \/ Abort(t)
      PROVE  KeptInv'
  <2>1. Store = "memory"
    BY StoreAssumption DEF OnePage
  <2>2. /\ UNCHANGED <<attempt, accepted>> /\ sess'.pending = sess.pending
        /\ Present(sess') <=> Present(sess)
        /\ TimersInv' /\ call'[p] = call[p]
    BY <1>2, <2>1, TimerStep, ProcessAssumption DEF Procs
  <2>3. CallInv(call[p])'
    BY <2>1, <2>2 DEF CallInv, NoCells
  <2>4. ValuesInv(call[p], api[p])'
    BY <2>2 DEF ValuesInv, CacheTold, SetSends, SentPends, CommitStores, Taking, Has
  <2> QED
    BY <2>2, <2>3, <2>4, PagesKept
<1>3. ASSUME Advance(p) \/ SessionFails(p) \/ Abort(p)
      PROVE  KeptInv'
  <2>1. TimersInv'
    BY <1>3, AdvanceIsOwn, ProcessAssumption DEF OwnStep, TimersInv, Procs
  <2> QED
    BY <1>3, <2>1, CallSteps, ValueSteps, PagesKept
<1>4. CASE Restart
  <2>1. Store = "redis" /\ Timers = {} /\ UNCHANGED <<sess, attempt>>
    BY <1>4, StoreAssumption DEF OnePage, Restart, documents
  <2>2. \/ call'[p] = call[p] /\ call[p].at = "idle"
        \/ /\ call'[p].at = "idle" /\ call'[p].op = call[p].op /\ call'[p].reply = "failed"
           /\ call'[p].pend = NoCells /\ call'[p].held = NoSession /\ call[p].op \in Faults
    <3>1. CASE At(p, "idle")
      BY <1>4, <3>1 DEF Restart, At
    <3>2. CASE ~At(p, "idle")
      <4>1. call'[p] = [NoCall EXCEPT !.op = call[p].op, !.reply = "failed"]
            /\ call[p].op \in Faults
        BY <1>4, <3>2 DEF Restart, At
      <4> QED
        BY <4>1 DEF NoCall
    <3> QED
      BY <3>1, <3>2
  <2>3. CallInv(call[p])'
    BY <2>1, <2>2 DEF CallInv, Present, NoSession, NoCells
  <2>4. ValuesInv(call[p], api[p])'
    <3>1. CASE call'[p] = call[p]
      BY <2>1, <3>1 DEF ValuesInv, CacheTold, SetSends, SentPends, CommitStores, Taking, Has
    <3>2. CASE /\ call'[p].at = "idle" /\ call'[p].op = call[p].op /\ call'[p].reply = "failed"
               /\ call'[p].pend = NoCells /\ call[p].op \in Faults
      <4>1. call[p].op # "set"
        BY <3>2 DEF OnePage
      <4> QED
        BY <2>1, <3>2, <4>1, QuietValues
    <3> QED
      BY <2>2, <3>1, <3>2
  <2> QED
    BY <2>1, <2>3, <2>4, PagesKept DEF TimersInv
<1>5. CASE Expire /\ Free(p)
  <2>1. call' = call /\ attempt' = attempt /\ call[p].at = "idle"
    BY <1>5 DEF Expire, documents, Free, ObjectOK, Waits
  <2>2. sess'.pending \in {sess.pending, NoCells}
    BY <1>5 DEF Expire, NoSession
  <2>3. CallInv(call[p])'
    BY <2>1 DEF CallInv, NoCells
  <2>4. CacheTold(call[p], api[p])'
    BY <2>1, <2>2 DEF ValuesInv, CacheTold, NoCells
  <2>5. ValuesInv(call[p], api[p])'
    BY <1>5, <2>1, <2>4, OtherValues DEF Free, Taking
  <2>6. TimersInv'
    BY <2>1 DEF TimersInv
  <2> QED
    BY <2>3, <2>5, <2>6, PagesKept
<1>6. \A q \in Procs : q = p \/ q \in Timers
  BY <1>1 DEF OnePage, Procs
<1> QED
  BY <1>1, <1>2, <1>3, <1>4, <1>5, <1>6 DEF ServerStep

(* The calls of content change the cache and what it was told alike, and    *)
(* start a commit that has sent nothing yet.                               *)
LEMMA ContentKeeps ==
  ASSUME KeptInv, OnePage, ApiInv', NEW p \in Pages, ContentCall(p) \/ Reload(p)
  PROVE  KeptInv'
<1> DEFINE c == call[p]
           a == api[p]
<1> USE PageIs
<1>1. /\ UNCHANGED vars /\ c.at = "idle" /\ ~a.sent /\ a.doing = "none" /\ a \in Api
      /\ api \in [Pages -> Api]
  BY DEF ContentCall, LMSInitialize, LMSGetValue, LMSSetValue, LMSCommit, LMSFinish, Reload,
         Free, ObjectOK, Waits, KeptInv, ApiInv, ObjectsOK
<1>2. CallInv(call[p])' /\ TimersInv'
  BY <1>1 DEF vars, documents, CallInv, KeptInv, TimersInv, NoCells
<1>3. call' = call /\ attempt' = attempt /\ sess' = sess
  BY <1>1 DEF vars, documents
<1>4. CASE LMSInitialize(p) \/ LMSGetValue(p)
  <2>1. /\ api'[p].cache = a.cache /\ api'[p].told = a.told
        /\ api'[p].doing \notin {"commit", "finish"}
    BY <1>1, <1>4 DEF LMSInitialize, LMSGetValue, Api
  <2>2. CacheTold(call[p], api[p])'
    BY <1>3, <2>1 DEF ValuesInv, CacheTold
  <2>3. ValuesInv(call[p], api[p])'
    BY <1>1, <1>3, <2>1, <2>2, OtherValues DEF Taking
  <2> QED
    BY <1>2, <2>3, PagesKept
<1>5. CASE LMSSetValue(p)
  <2> PICK e \in Elements : \E v \in Values[e] :
        api' = [api EXCEPT ![p].cache[e] = v, ![p].told[e] = v, ![p].scheduled = TRUE]
    BY <1>5 DEF LMSSetValue
  <2> PICK v \in Values[e] :
        api' = [api EXCEPT ![p].cache[e] = v, ![p].told[e] = v, ![p].scheduled = TRUE]
    OBVIOUS
  <2>1. v # NoValue
    BY ValuesAssumption DEF AnyValue
  <2> DEFINE b == [a EXCEPT !.cache = [@ EXCEPT ![e] = v], !.told = [@ EXCEPT ![e] = v],
                            !.scheduled = TRUE]
  <2>2. api' = [api EXCEPT ![p] = b]
    BY <1>1 DEF Api
  <2>3. b.cache = [a.cache EXCEPT ![e] = v] /\ b.told = [a.told EXCEPT ![e] = v]
        /\ b.doing = a.doing
    BY <1>1 DEF Api
  <2> HIDE DEF b
  <2>4. api'[p] = b
    BY <1>1, <2>2
  <2>5. \A f \in Elements : /\ b.cache[f] = IF f = e THEN v ELSE a.cache[f]
                            /\ b.told[f] = IF f = e THEN v ELSE a.told[f]
    BY <1>1, <2>3 DEF Api, Cells
  <2>6. CacheTold(call[p], api[p])'
    <3>1. SUFFICES ASSUME NEW f \in Elements
          PROVE  /\ b.cache[f] \in {NoValue, b.told[f]}
                 /\ b.cache[f] = NoValue /\ b.told[f] # NoValue =>
                      /\ attempt.cmi[f] = b.told[f]
                      /\ sess.pending[f] \in {NoValue, b.told[f]}
                      /\ c.pend[f] \in {NoValue, b.told[f]}
      BY <1>3, <2>4 DEF CacheTold
    <3>2. CASE f = e
      BY <2>1, <2>5, <3>2
    <3>3. CASE f # e
      <4>1. b.cache[f] = a.cache[f] /\ b.told[f] = a.told[f] /\ CacheTold(c, a)
        BY <2>5, <3>3 DEF ValuesInv
      <4> QED
        BY <4>1 DEF CacheTold
    <3> QED
      BY <3>2, <3>3
  <2>7. ValuesInv(call[p], api[p])'
    BY <1>1, <1>3, <2>3, <2>4, <2>6, OtherValues DEF Taking
  <2> QED
    BY <1>2, <2>7, PagesKept
<1>6. CASE LMSCommit(p) \/ LMSFinish(p)
  <2>1. /\ api'[p].cache = a.cache /\ api'[p].told = a.told /\ api'[p].sent = a.sent
        /\ api'[p].todo = Cached(p)
    <3>1. CASE LMSCommit(p)
      BY <1>1, <3>1 DEF LMSCommit, Api
    <3>2. CASE LMSFinish(p)
      BY <1>1, <3>2 DEF LMSFinish, Api
    <3> QED
      BY <1>6, <3>1, <3>2
  <2>2. CacheTold(call[p], api[p])'
    BY <1>3, <2>1 DEF ValuesInv, CacheTold
  <2>3. SentPends(call[p], api[p])'
    BY <2>1 DEF SentPends, Has, Cached
  <2>4. ValuesInv(call[p], api[p])'
    BY <1>1, <1>3, <2>1, <2>2, <2>3 DEF ValuesInv, SetSends, CommitStores, Taking
  <2> QED
    BY <1>2, <2>4, PagesKept
<1>7. CASE Reload(p)
  <2>1. api'[p] = NewApi
    BY <1>1, <1>7 DEF Reload
  <2>2. CacheTold(call[p], api[p])'
    BY <2>1 DEF CacheTold, NewApi, NoCells
  <2>3. ValuesInv(call[p], api[p])'
    BY <1>1, <1>3, <2>1, <2>2, OtherValues DEF Taking, NewApi
  <2> QED
    BY <1>2, <2>3, PagesKept
<1> QED
  BY <1>4, <1>5, <1>6, <1>7 DEF ContentCall

(* A commit sends the values of the cache, and itself when all are sent. *)
LEMMA SendKeeps ==
  ASSUME KeptInv, OnePage, ApiInv', NEW p \in Pages,
         \/ SendInitialize(p) \/ SendGet(p) \/ SendValue(p) \/ SendCommit(p) \/ SendTerminate(p)
  PROVE  KeptInv'
<1> DEFINE c == call[p]
           a == api[p]
<1> USE PageIs
<1>1. /\ UNCHANGED <<sess, attempt>> /\ c.at = "idle" /\ ~a.sent /\ a \in Api
      /\ api \in [Pages -> Api]
  BY DEF SendInitialize, SendGet, SendValue, SendCommit, SendTerminate, Send, StartInitialize,
         StartTerminate, StartCommit, StartGet, StartSetOf, Begin, At, documents,
         KeptInv, ApiInv, ObjectsOK
<1>2. ASSUME TimersInv', call'[p].at \in Route(call'[p].op), call'[p].pend = NoCells,
             call'[p].held = NoSession, call'[p].base = attempt,
             call'[p].op = "set" => call'[p].at = "add" /\ call'[p].lazy = FALSE,
             ValuesInv(call[p], api[p])'
      PROVE  KeptInv'
  <2>1. CallInv(call[p])'
    BY <1>1, <1>2 DEF CallInv, NoSession, Present, NoCells, Route
  <2> QED
    BY <1>2, <2>1, PagesKept
<1>3. (\A q \in Procs : q # p => call'[q] = call[q]) => TimersInv'
  BY ProcessAssumption DEF KeptInv, TimersInv, Procs
<1>4. CASE SendInitialize(p) \/ SendTerminate(p) \/ SendGet(p)
  <2>1. api'[p] = [a EXCEPT !.sent = TRUE] /\ a.doing \in {"initialize", "terminate", "get"}
    BY <1>1, <1>4 DEF SendInitialize, SendTerminate, SendGet, Send
  <2>2. /\ api'[p].doing = a.doing /\ api'[p].cache = a.cache /\ api'[p].told = a.told
    BY <1>1, <2>1 DEF Api
  <2>3. /\ call'[p].at \in Route(call'[p].op) /\ call'[p].pend = NoCells
        /\ call'[p].held = NoSession /\ call'[p].base = attempt /\ call'[p].op # "set"
        /\ \A q \in Procs : q # p => call'[q] = call[q]
    <3>1. CASE SendInitialize(p) \/ SendTerminate(p)
      BY <3>1, BeginFields DEF SendInitialize, SendTerminate, Send, StartInitialize,
         StartTerminate, Route
    <3>2. CASE SendGet(p)
      <4>1. PICK e \in Elements :
              call' = [call EXCEPT ![p] = [NoCall EXCEPT !.op = "get", !.at = "peek",
                                             !.elem = e, !.base = attempt]]
        BY <3>2 DEF SendGet, Send, StartGet
      <4> QED
        BY <4>1 DEF TypeOK, NoCall, Route
    <3> QED
      BY <1>4, <3>1, <3>2
  <2>4. CacheTold(call[p], api[p])'
    BY <1>1, <2>2, <2>3 DEF ValuesInv, CacheTold, NoCells
  <2>5. ValuesInv(call[p], api[p])'
    BY <2>1, <2>2, <2>3, <2>4, OtherValues DEF Taking
  <2> QED
    BY <1>2, <1>3, <2>3, <2>5
<1>5. CASE SendCommit(p)
  <2>1. api'[p] = [a EXCEPT !.sent = TRUE] /\ a.doing \in {"commit", "finish"} /\ a.todo = {}
    BY <1>1, <1>5 DEF SendCommit, Send, Committing
  <2>2. /\ api'[p].doing = a.doing /\ api'[p].cache = a.cache /\ api'[p].told = a.told
        /\ api'[p].todo = {} /\ api'[p].sent = TRUE
    BY <1>1, <2>1 DEF Api
  <2>3. /\ call'[p].at = "peek" /\ call'[p].op = "commit" /\ call'[p].pend = NoCells
        /\ call'[p].held = NoSession /\ call'[p].base = attempt
        /\ \A q \in Procs : q # p => call'[q] = call[q]
    BY <1>5, BeginFields DEF SendCommit, Send, StartCommit
  <2>4. CacheTold(call[p], api[p])'
    BY <1>1, <2>2, <2>3 DEF ValuesInv, CacheTold, NoCells
  <2>5. \A e \in Elements : Has(a, e) => sess.pending[e] = a.cache[e]
    BY <1>1, <2>1 DEF ValuesInv, SentPends, Taking
  <2>6. CommitStores(call[p], api[p])'
    BY <1>1, <2>2, <2>3, <2>5 DEF CommitStores, Has
  <2>7. ValuesInv(call[p], api[p])'
    BY <2>2, <2>3, <2>4, <2>6 DEF ValuesInv, SetSends, SentPends, Taking
  <2> QED
    BY <1>2, <1>3, <2>3, <2>7 DEF Route
<1>6. CASE SendValue(p)
  <2>1. PICK e \in a.todo : /\ StartSetOf(p, e, a.cache[e])
                            /\ api' = [api EXCEPT ![p].sent = TRUE, ![p].todo = @ \ {e}]
    BY <1>6 DEF SendValue
  <2>2. /\ e \in Elements /\ a.cache[e] # NoValue /\ a.doing \in {"commit", "finish"}
    BY <1>1, <1>6 DEF SendValue, Committing, ObjectOK, Has, Api
  <2>3. api'[p] = [a EXCEPT !.sent = TRUE, !.todo = @ \ {e}]
    BY <1>1, <2>1 DEF Api
  <2>4. /\ api'[p].doing = a.doing /\ api'[p].cache = a.cache /\ api'[p].told = a.told
        /\ api'[p].todo = a.todo \ {e} /\ api'[p].sent = TRUE
    BY <1>1, <2>3 DEF Api
  <2>5. /\ call'[p].at = "add" /\ call'[p].op = "set" /\ call'[p].pend = NoCells
        /\ call'[p].held = NoSession /\ call'[p].base = attempt /\ call'[p].lazy = FALSE
        /\ call'[p].elem = e /\ call'[p].val = a.cache[e]
        /\ \A q \in Procs : q # p => call'[q] = call[q]
    BY <2>1 DEF StartSetOf, NoCall, TypeOK
  <2>6. CacheTold(call[p], api[p])'
    BY <1>1, <2>4, <2>5 DEF ValuesInv, CacheTold, NoCells
  <2>7. SetSends(call[p], api[p])'
    BY <2>2, <2>4, <2>5 DEF SetSends, Taking
  <2>8. SentPends(call[p], api[p])'
    <3>1. \A f \in Elements : Has(a, f) /\ f \notin a.todo => sess.pending[f] = a.cache[f]
      BY <1>1, <2>2 DEF ValuesInv, SentPends, Taking
    <3> QED
      BY <1>1, <2>2, <2>4, <2>5, <3>1 DEF SentPends, Taking, Has
  <2>9. ValuesInv(call[p], api[p])'
    BY <2>5, <2>6, <2>7, <2>8 DEF ValuesInv, CommitStores
  <2> QED
    BY <1>2, <1>3, <2>5, <2>9 DEF Route
<1> QED
  BY <1>4, <1>5, <1>6

(* Answers: a value leaves the cache when the commit has answered that it   *)
(* is stored.                                                              *)
LEMMA HearKeeps ==
  ASSUME KeptInv, OnePage, ApiInv', NEW p \in Pages,
         \/ HearInitialize(p) \/ HearGet(p) \/ HearValue(p) \/ HearCommit(p)
         \/ HearTerminate(p) \/ Throw(p)
  PROVE  KeptInv'
<1> DEFINE c == call[p]
           a == api[p]
<1> USE PageIs
<1>1. /\ UNCHANGED vars /\ c.at = "idle" /\ a \in Api /\ api \in [Pages -> Api]
  BY DEF HearInitialize, HearGet, HearValue, HearCommit, HearTerminate, Throw, Arrived, At,
         KeptInv, ApiInv, ObjectsOK
<1>2. call' = call /\ attempt' = attempt /\ sess' = sess /\ c.pend = NoCells
  BY <1>1 DEF vars, documents, CallInv
<1>3. CallInv(call[p])' /\ TimersInv'
  BY <1>2 DEF CallInv, KeptInv, TimersInv, NoCells
<1>4. ASSUME api'[p].cache = a.cache, api'[p].told = a.told,
             api'[p].doing \notin {"commit", "finish"}
      PROVE  KeptInv'
  <2>1. CacheTold(call[p], api[p])'
    BY <1>2, <1>4 DEF ValuesInv, CacheTold
  <2>2. ValuesInv(call[p], api[p])'
    BY <1>1, <1>2, <1>4, <2>1, OtherValues DEF Taking
  <2> QED
    BY <1>3, <2>2, PagesKept
<1>5. CASE HearInitialize(p) \/ HearGet(p) \/ HearTerminate(p)
  <2>1. api'[p].cache = a.cache /\ api'[p].told = a.told /\ api'[p].doing = "none"
    BY <1>1, <1>5 DEF HearInitialize, HearGet, HearTerminate, Api
  <2> QED
    BY <1>4, <2>1
<1>6. CASE HearValue(p)
  <2>1. /\ api'[p].cache = a.cache /\ api'[p].told = a.told /\ api'[p].doing = a.doing
        /\ api'[p].todo = a.todo /\ api'[p].sent = FALSE
    BY <1>1, <1>6 DEF HearValue, Api
  <2>2. c.op = "set" /\ a.doing \in {"commit", "finish"}
    BY <1>6 DEF HearValue, Committing
  <2>3. CacheTold(call[p], api[p])'
    BY <1>2, <2>1 DEF ValuesInv, CacheTold
  <2>4. SentPends(call[p], api[p])'
    BY <1>2, <2>1, <2>2 DEF ValuesInv, SentPends, Has
  <2>5. ValuesInv(call[p], api[p])'
    BY <1>1, <1>2, <2>1, <2>2, <2>3, <2>4 DEF ValuesInv, SetSends, CommitStores, Taking
  <2> QED
    BY <1>3, <2>5, PagesKept
<1>7. CASE HearCommit(p)
  <2>1. c.op = "commit" /\ a.doing \in {"commit", "finish"} /\ a.sent
    BY <1>7 DEF HearCommit, Committing, Arrived
  <2>2. PICK done \in BOOLEAN : done = Succeeded(p)
    BY DEF Succeeded
  <2>3. api'[p] = AfterCommit(p, done)
    BY <1>1, <1>7, <2>2 DEF HearCommit
  <2>4. /\ api'[p].cache = IF done THEN NoCells ELSE a.cache
        /\ api'[p].told = a.told /\ api'[p].doing \in {"none", "terminate"}
    BY <1>1, <2>3 DEF AfterCommit, Api
  <2>5. CASE ~done
    BY <1>4, <2>4, <2>5
  <2>6. CASE done
    <3>1. c.reply = "true"
      BY <2>2, <2>6 DEF Succeeded
    <3>2. \A e \in Elements : Has(a, e) => attempt.cmi[e] = a.cache[e] /\ sess.pending[e] = NoValue
      BY <1>1, <2>1, <3>1 DEF ValuesInv, CommitStores
    <3>3. CacheTold(call[p], api[p])'
      BY <1>2, <2>4, <2>6, <3>2 DEF ValuesInv, CacheTold, Has, NoCells
    <3>4. ValuesInv(call[p], api[p])'
      BY <1>1, <1>2, <2>4, <3>3, OtherValues DEF Taking
    <3> QED
      BY <1>3, <3>4, PagesKept
  <2> QED
    BY <2>5, <2>6
<1>8. CASE Throw(p)
  <2>1. /\ api'[p].cache = a.cache /\ api'[p].told = a.told
        /\ api'[p].doing \in {"none", "terminate"}
    BY <1>1, <1>8 DEF Throw, AfterCommit, Committing, Api
  <2> QED
    BY <1>4, <2>1
<1> QED
  BY <1>5, <1>6, <1>7, <1>8

LEMMA KeptInvStep == KeptInv /\ OnePage /\ ApiInv' /\ [AdapterNext]_adapterVars => KeptInv'
<1> SUFFICES ASSUME KeptInv, OnePage, ApiInv', [AdapterNext]_adapterVars PROVE KeptInv'
  OBVIOUS
<1>1. CASE UNCHANGED adapterVars
  BY <1>1 DEF KeptInv, TimersInv, CallInv, ValuesInv, CacheTold, SetSends, SentPends,
              CommitStores, Taking, Has, adapterVars, vars, documents, NoCells
<1> QED
  BY <1>1, ServerKeeps, ContentKeeps, SendKeeps, HearKeeps DEF AdapterNext, AdapterStep

(* One page, no failing set request, and a session store that is either     *)
(* Redis without heartbeats or the memory of a server that does not fail:   *)
(* whatever else fails, restarts, expires or is lost, a value LMSSetValue   *)
(* has answered "true" to is in the cache until the attempt has it, however *)
(* commits, auto-commits and LMSFinish end (scorm-api-1.2.js:147-330).     *)
THEOREM KeptCorrect ==
  ASSUME OnePage
  PROVE  AdapterSpec => []Kept
<1>1. KeptInv /\ ApiInv' /\ [AdapterNext]_adapterVars => KeptInv'
  BY KeptInvStep
<1> QED
  BY <1>1, KeptInvInit, KeptInvImplies, ApiInvCorrect, PTL DEF AdapterSpec

-------------------------------------------------------------------------------
(* Where nothing fails, is refused or is lost, LMSFinish stores.           *)

Undisturbed ==
  /\ \E p : Pages = {p}
  /\ Store = "redis" => Timers = {}
  /\ Faults = {} /\ Refused = {} /\ ~Lossy

(* A commit of the page is answered "true". *)
CommitAnswers(c) == c.op = "commit" => c.at # "error" /\ (c.at = "idle" => c.reply = "true")

(* So the page terminates, and has terminated, with an empty cache. *)
EmptyAtEnd(a) ==
  /\ a.doing = "terminate" /\ Version = "scorm_1.2" => \A e \in Elements : ~Has(a, e)
  /\ a.terminated => \A e \in Elements : ~Has(a, e)

StoresInv ==
  /\ KeptInv
  /\ \A p \in Pages : CommitAnswers(call[p]) /\ EmptyAtEnd(api[p])

LEMMA UndisturbedIsOnePage == Undisturbed => OnePage
BY DEF Undisturbed, OnePage

LEMMA StoresInvImplies == StoresInv => FinishStores
BY DEF StoresInv, EmptyAtEnd, Has, KeptInv, ValuesInv, CacheTold, FinishStores

LEMMA StoresInvInit == AdapterInit => StoresInv
<1>1. AdapterInit => \A p \in Pages : CommitAnswers(call[p]) /\ EmptyAtEnd(api[p])
  BY DEF AdapterInit, Init, NoCall, NewApi, NoCells, Procs, CommitAnswers, EmptyAtEnd, Has
<1> QED
  BY <1>1, KeptInvInit DEF StoresInv

(* No step of a commit leads to an error. *)
LEMMA CommitGoesOn ==
  ASSUME StoresInv, Undisturbed, NEW p \in Pages, Advance(p)
  PROVE  CommitAnswers(call[p])'
<1> DEFINE c == call[p]
<1>1. /\ TypeOK /\ p \in Procs /\ c.at # "idle" /\ c.at \in Route(c.op) /\ c \in Call
      /\ call'[p].op = c.op /\ CommitAnswers(c) /\ KeptInv
  BY PageIs, AdvanceIsOwn DEF StoresInv, KeptInv, ApiInv, OwnStep, CallInv
<1>2. CASE c.op # "commit"
  BY <1>1, <1>2 DEF CommitAnswers
<1>3. CASE c.op = "commit"
  <2>1. c.at \in {"peek", "save", "sync", "clear", "ack"}
    BY <1>1, <1>3 DEF CommitAnswers, Route
  <2>2. SetSessionError(p) \/ ClearPending(p) \/ Peek(p) \/ SaveAttempt(p) \/ SyncContent(p)
    <3>1. ~SaveFails(p)
      BY DEF Undisturbed, SaveFails, SaveAllowed
    <3> QED
      BY <1>3, <2>1, <3>1 DEF Advance, CreateSession, AddPending, EndSession, Heartbeat,
         FindSession, CheckTtl, TimeOut, PersistProgress, At
  <2>3. CASE Fetch(p)
    BY <1>1, <1>3, <2>3, FetchFields DEF CommitAnswers
  <2>4. CASE \E step \in {"clear", "ack"} : Goto(p, step)
    BY <1>1, <2>4, GotoFields DEF CommitAnswers
  <2>5. CASE Finish(p, "true")
    BY <1>1, <2>5, FinishFields DEF CommitAnswers
  <2>6. CASE call' = [call EXCEPT ![p].at = "save", ![p].pend = sess.pending]
    <3>1. call'[p] = [c EXCEPT !.at = "save", !.pend = sess.pending]
      BY <1>1, <2>6 DEF TypeOK, Call
    <3> QED
      BY <1>1, <3>1 DEF CommitAnswers, Call
  <2>7. CASE call' = [call EXCEPT ![p].at = "sync", ![p].base = Edited(c)]
    <3>1. call'[p] = [c EXCEPT !.at = "sync", !.base = Edited(c)]
      BY <1>1, <2>7 DEF TypeOK, Call
    <3> QED
      BY <1>1, <3>1 DEF CommitAnswers, Call
  <2>8. CASE SetSessionError(p)
    BY <1>3, <2>1, <2>3, <2>5, <2>8 DEF SetSessionError, At
  <2>9. CASE ClearPending(p)
    BY <1>3, <2>3, <2>4, <2>9 DEF ClearPending
  <2>10. CASE Peek(p)
    BY <1>3, <2>5, <2>6, <2>10 DEF Peek
  <2>11. CASE SaveAttempt(p)
    BY <2>7, <2>11 DEF SaveAttempt
  <2>12. CASE SyncContent(p)
    BY <1>3, <2>1, <2>4, <2>12 DEF SyncContent, At
  <2> QED
    BY <2>2, <2>8, <2>9, <2>10, <2>11, <2>12
<1> QED
  BY <1>2, <1>3

LEMMA ServerStores ==
  ASSUME StoresInv, Undisturbed, ServerStep, NEW p \in Pages
  PROVE  CommitAnswers(call[p])' /\ EmptyAtEnd(api[p])'
<1>1. api' = api /\ TypeOK /\ p \in Procs /\ CommitAnswers(call[p]) /\ EmptyAtEnd(api[p])
  BY PageIs DEF ServerStep, StoresInv
<1>2. EmptyAtEnd(api[p])'
  BY <1>1 DEF EmptyAtEnd, Has
<1>3. ASSUME call'[p] = call[p] PROVE CommitAnswers(call[p])'
  BY <1>1, <1>3 DEF CommitAnswers
<1>4. ASSUME NEW t \in Timers, StartBeat(t) PROVE CommitAnswers(call[p])'
  <2>1. call'[p] = call[p]
    BY <1>1, <1>4, BeginFields, ProcessAssumption DEF StartBeat, Procs
  <2> QED
    BY <1>3, <2>1
<1>5. ASSUME NEW q \in Procs, Advance(q) PROVE CommitAnswers(call[p])'
  <2>1. CASE q = p
    BY <1>5, <2>1, CommitGoesOn
  <2>2. CASE q # p
    BY <1>1, <1>3, <1>5, <2>2, AdvanceIsOwn DEF OwnStep
  <2> QED
    BY <2>1, <2>2
<1>6. CASE Expire
  BY <1>2, <1>3, <1>6 DEF Expire
<1>7. ~Restart /\ \A q \in Procs : ~SessionFails(q) /\ ~Abort(q)
  BY DEF Undisturbed, Restart, SessionFails, Abort
<1> QED
  BY <1>2, <1>4, <1>5, <1>6, <1>7 DEF ServerStep

LEMMA PageStores ==
  ASSUME StoresInv, Undisturbed, NEW p \in Pages,
         ContentCall(p) \/ AdapterStep(p) \/ Throw(p) \/ Reload(p)
  PROVE  CommitAnswers(call[p])' /\ EmptyAtEnd(api[p])'
<1> DEFINE c == call[p]
           a == api[p]
<1>1. /\ TypeOK /\ p \in Procs /\ CommitAnswers(c) /\ EmptyAtEnd(a) /\ KeptInv
      /\ ObjectOK(a) /\ a \in Api /\ api \in [Pages -> Api]
  BY PageIs DEF StoresInv, KeptInv, ApiInv, ObjectsOK
<1>2. CommitAnswers(call[p])'
  <2>1. CASE UNCHANGED vars
    BY <1>1, <2>1 DEF vars, CommitAnswers
  <2>2. CASE Request(p)
    <3>1. CASE StartInitialize(p) \/ StartCommit(p) \/ StartTerminate(p) \/ StartReject(p)
      BY <1>1, <3>1, BeginFields
      DEF StartInitialize, StartCommit, StartTerminate, StartReject, CommitAnswers
    <3>2. CASE StartSet(p)
      <4>1. PICK e \in Elements : \E v \in Values[e] : StartSetOf(p, e, v)
        BY <3>2 DEF StartSet
      <4>2. call'[p].op = "set"
        BY <1>1, <4>1 DEF StartSetOf, TypeOK, NoCall
      <4> QED
        BY <4>2 DEF CommitAnswers
    <3>3. CASE StartGet(p)
      <4>1. call'[p].op = "get"
        BY <1>1, <3>3 DEF StartGet, TypeOK, NoCall
      <4> QED
        BY <4>1 DEF CommitAnswers
    <3> QED
      BY <2>2, <3>1, <3>2, <3>3 DEF Request
  <2> QED
    BY <1>1, <2>1, <2>2, PageStepIs DEF KeptInv, ApiInv
<1>3. ASSUME api'[p].cache = a.cache, api'[p].terminated => a.terminated,
             api'[p].doing # "terminate" \/ api'[p].doing = a.doing
      PROVE  EmptyAtEnd(api[p])'
  BY <1>1, <1>3 DEF EmptyAtEnd, Has
<1>4. CASE LMSInitialize(p) \/ LMSGetValue(p) \/ LMSCommit(p)
  <2>1. /\ api'[p].cache = a.cache /\ api'[p].doing # "terminate"
        /\ api'[p].terminated = a.terminated
    <3>1. CASE LMSInitialize(p) \/ LMSGetValue(p)
      BY <1>1, <3>1 DEF LMSInitialize, LMSGetValue, Api
    <3>2. CASE LMSCommit(p)
      BY <1>1, <3>2 DEF LMSCommit, Api
    <3> QED
      BY <1>4, <3>1, <3>2
  <2> QED
    BY <1>2, <1>3, <2>1
<1>5. CASE LMSSetValue(p)
  <2>1. a.initialized /\ a.doing = "none"
    BY <1>5 DEF LMSSetValue, Free
  <2>2. api'[p].doing = a.doing /\ api'[p].terminated = a.terminated
    <3> PICK e \in Elements : \E v \in Values[e] :
          api' = [api EXCEPT ![p].cache[e] = v, ![p].told[e] = v, ![p].scheduled = TRUE]
      BY <1>5 DEF LMSSetValue
    <3> QED
      BY <1>1 DEF Api
  <2> QED
    BY <1>1, <1>2, <2>1, <2>2 DEF EmptyAtEnd, ObjectOK
<1>6. CASE LMSFinish(p)
  <2>1. /\ api'[p].cache = a.cache /\ api'[p].terminated = a.terminated
        /\ api'[p].doing = IF Cached(p) = {} THEN "terminate" ELSE "finish"
    BY <1>1, <1>6 DEF LMSFinish, Api
  <2> QED
    BY <1>1, <1>2, <2>1 DEF EmptyAtEnd, Has, Cached
<1>7. CASE SendInitialize(p) \/ SendGet(p) \/ SendCommit(p) \/ SendTerminate(p)
  <2>1. /\ api'[p].cache = a.cache /\ api'[p].doing = a.doing
        /\ api'[p].terminated = a.terminated
    BY <1>1, <1>7 DEF SendInitialize, SendGet, SendCommit, SendTerminate, Send, Api
  <2> QED
    BY <1>2, <1>3, <2>1
<1>8. CASE SendValue(p) \/ HearValue(p)
  <2>1. /\ api'[p].cache = a.cache /\ api'[p].doing = a.doing
        /\ api'[p].terminated = a.terminated
    BY <1>1, <1>8 DEF SendValue, HearValue, Api
  <2> QED
    BY <1>2, <1>3, <2>1
<1>9. CASE HearInitialize(p) \/ HearGet(p)
  <2>1. /\ api'[p].cache = a.cache /\ api'[p].doing = "none"
        /\ api'[p].terminated = a.terminated
    BY <1>1, <1>9 DEF HearInitialize, HearGet, Api
  <2> QED
    BY <1>2, <1>3, <2>1
<1>10. CASE HearCommit(p)
  <2>1. c.reply = "true"
    BY <1>1, <1>10 DEF HearCommit, Arrived, At, CommitAnswers
  <2>2. PICK done \in BOOLEAN : done = Succeeded(p)
    BY DEF Succeeded
  <2>3. api'[p] = AfterCommit(p, done)
    BY <1>1, <1>10, <2>2 DEF HearCommit
  <2>4. /\ api'[p].cache = IF done THEN NoCells ELSE a.cache
        /\ api'[p].terminated = a.terminated
    BY <1>1, <2>3 DEF AfterCommit, Api
  <2>5. Version = "scorm_1.2" => done
    BY <2>1, <2>2 DEF Succeeded
  <2> QED
    BY <1>1, <1>2, <2>4, <2>5 DEF EmptyAtEnd, Has, NoCells
<1>11. CASE HearTerminate(p)
  <2>1. PICK done \in BOOLEAN : done = Succeeded(p)
    BY DEF Succeeded
  <2>2. api' = [api EXCEPT ![p].doing = "none", ![p].sent = FALSE,
                           ![p].terminated = done, ![p].initialized = ~done]
    BY <1>11, <2>1 DEF HearTerminate
  <2>3. /\ api'[p].cache = a.cache /\ api'[p].doing = "none" /\ api'[p].terminated = done
    BY <1>1, <2>2 DEF Api
  <2>4. a.doing = "terminate" /\ (done => Version = "scorm_1.2")
    BY <1>11, <2>1 DEF HearTerminate, Succeeded
  <2> QED
    BY <1>1, <1>2, <2>3, <2>4 DEF EmptyAtEnd, Has
<1>12. ~Throw(p)
  BY DEF Throw, Undisturbed
<1>13. CASE Reload(p)
  <2>1. api'[p] = NewApi
    BY <1>1, <1>13 DEF Reload
  <2> QED
    BY <1>2, <2>1 DEF EmptyAtEnd, NewApi
<1> QED
  BY <1>2, <1>4, <1>5, <1>6, <1>7, <1>8, <1>9, <1>10, <1>11, <1>12, <1>13
  DEF ContentCall, AdapterStep

LEMMA StoresInvStep ==
  ASSUME StoresInv, Undisturbed, KeptInv', [AdapterNext]_adapterVars
  PROVE  StoresInv'
<1>1. ASSUME NEW p \in Pages PROVE CommitAnswers(call[p])' /\ EmptyAtEnd(api[p])'
  <2>1. CASE UNCHANGED adapterVars
    BY <2>1 DEF StoresInv, CommitAnswers, EmptyAtEnd, Has, adapterVars, vars
  <2>2. CASE ServerStep
    BY <2>2, ServerStores
  <2>3. ASSUME NEW q \in Pages, ContentCall(q) \/ AdapterStep(q) \/ Throw(q) \/ Reload(q)
        PROVE  CommitAnswers(call[p])' /\ EmptyAtEnd(api[p])'
    <3>1. q = p
      BY DEF Undisturbed
    <3> QED
      BY <2>3, <3>1, PageStores
  <2> QED
    BY <2>1, <2>2, <2>3 DEF AdapterNext
<1> QED
  BY <1>1 DEF StoresInv

LEMMA StoresInvCorrect ==
  ASSUME Undisturbed
  PROVE  AdapterSpec => []StoresInv
<1>1. KeptInv /\ ApiInv' /\ [AdapterNext]_adapterVars => KeptInv'
  BY KeptInvStep, UndisturbedIsOnePage
<1>2. AdapterSpec => []KeptInv
  BY <1>1, KeptInvInit, ApiInvCorrect, PTL DEF AdapterSpec
<1>3. StoresInv /\ KeptInv' /\ [AdapterNext]_adapterVars => StoresInv'
  BY StoresInvStep
<1> QED
  BY <1>2, <1>3, StoresInvInit, PTL DEF AdapterSpec

(* Where nothing fails, is refused or is lost, every value the content of   *)
(* the one page has set is stored when LMSFinish has answered "true",       *)
(* whatever heartbeats do in memory meanwhile and however often the         *)
(* session expires between the calls (scorm-api-1.2.js:147-200).           *)
THEOREM FinishStoresCorrect ==
  ASSUME Undisturbed
  PROVE  AdapterSpec => []FinishStores
BY StoresInvCorrect, StoresInvImplies, PTL

-------------------------------------------------------------------------------
(* The player's page, around an object where nothing fails.                *)

Empty(a) == \A e \in Elements : ~Has(a, e)

(* A page that is about to be left runs the commit it has begun with that, *)
(* or has nothing cached; one whose exit has been answered is through.     *)
InPage(a, g) ==
  /\ ~a.initialized => Empty(a)
  /\ a.initialized => Version = "scorm_1.2"
  /\ g.leaving => a.doing \in {"none", "commit"} /\ (a.doing = "none" => Empty(a))
  /\ g.final # "none" => a.terminated

PlayerInv ==
  /\ page \in [Pages -> Page]
  /\ \A p \in Pages : InPage(api[p], page[p]) /\ page[p].final \in {"none", attempt.status}

LEMMA PlayerInvInit == PlayerInit => PlayerInv
BY DEF PlayerInit, AdapterInit, PlayerInv, Page, NewPage, NewApi, InPage, Empty, Has, NoCells

LEMMA PlayerInvImplies == StoresInv /\ PlayerInv => LeftInOrder
<1> SUFFICES ASSUME StoresInv, PlayerInv, NEW p \in Pages
             PROVE  /\ page[p].leaving /\ Free(p) => Safe(p)
                    /\ page[p].final \in {"none", attempt.status}
  BY DEF LeftInOrder
<1>1. Kept
  BY KeptInvImplies DEF StoresInv
<1> QED
  BY <1>1 DEF PlayerInv, InPage, Empty, Has, Free, Safe, Kept

(* The buttons and the timers of the page only call its object. *)
LEMMA PlayerStepIs == [PlayerNext]_<<adapterVars, page>> => [AdapterNext]_adapterVars
BY DEF PlayerNext, UpdateScore, SuspendContent, ExitContent, ExitPlayer, BeforeUnload, Stay,
       Leave, AdapterNext, ContentCall

(* Around a page the object behaves as ScormAdapter says. *)
LEMMA PlayerRuns == PlayerSpec => AdapterSpec
<1>1. PlayerInit => AdapterInit
  BY DEF PlayerInit
<1> QED
  BY <1>1, PlayerStepIs, PTL DEF PlayerSpec, AdapterSpec

(* Once a page's session has ended, nothing saves the attempt. *)
LEMMA EndedStays ==
  ASSUME StoresInv, RouteInv, Undisturbed, ServerStep, NEW p \in Pages, api[p].terminated
  PROVE  attempt' = attempt
<1>1. call[p].at = "idle" /\ p \in Procs
  BY PageIs DEF StoresInv, ObjectOK, Waits
<1>2. ASSUME NEW t \in Timers, StartBeat(t) PROVE attempt' = attempt
  BY <1>2 DEF StartBeat, Begin, documents
<1>3. ASSUME NEW q \in Procs, Advance(q) PROVE attempt' = attempt
  <2>1. call[q].at # "idle"
    BY <1>3, AdvanceIsOwn DEF OwnStep, RouteInv
  <2>2. q \in Timers
    BY <1>1, <2>1 DEF Procs, Undisturbed
  <2> QED
    BY <1>3, <2>2, DocumentStays, TimersSaveNothing
<1>4. CASE Expire
  BY <1>4 DEF Expire, documents
<1>5. ~Restart /\ \A q \in Procs : ~SessionFails(q) /\ ~Abort(q)
  BY DEF Undisturbed, Restart, SessionFails, Abort
<1> QED
  BY <1>2, <1>3, <1>4, <1>5 DEF ServerStep

LEMMA PageSavesNothing ==
  ASSUME StoresInv, NEW p \in Pages,
         ContentCall(p) \/ AdapterStep(p) \/ Throw(p) \/ Reload(p)
  PROVE  attempt' = attempt
<1>1. Request(p) \/ UNCHANGED vars
  BY PageStepIs DEF StoresInv, KeptInv, ApiInv
<1> QED
  BY <1>1 DEF Request, StartInitialize, StartSet, StartSetOf, StartReject, StartGet, StartCommit,
              StartTerminate, Begin, vars, documents

(* What a call of content does to the object. *)
LEMMA CallsInPage ==
  ASSUME StoresInv, NEW p \in Pages, ContentCall(p)
  PROVE  /\ api'[p].initialized = api[p].initialized
         /\ api'[p].terminated = api[p].terminated
         /\ Empty(api[p]) /\ ~api[p].initialized => Empty(api'[p])
<1> DEFINE a == api[p]
<1>1. a \in Api /\ api \in [Pages -> Api]
  BY PageIs DEF StoresInv, KeptInv, ApiInv, ObjectsOK
<1>2. CASE LMSInitialize(p)
  BY <1>1, <1>2 DEF LMSInitialize, Api, Empty, Has
<1>3. CASE LMSGetValue(p)
  BY <1>1, <1>3 DEF LMSGetValue, Api, Empty, Has
<1>4. CASE LMSSetValue(p)
  <2>1. a.initialized
    BY <1>4 DEF LMSSetValue
  <2>2. PICK e \in Elements : \E v \in Values[e] :
          api' = [api EXCEPT ![p].cache[e] = v, ![p].told[e] = v, ![p].scheduled = TRUE]
    BY <1>4 DEF LMSSetValue
  <2>3. api'[p].initialized = a.initialized /\ api'[p].terminated = a.terminated
    BY <1>1, <2>2 DEF Api
  <2> QED
    BY <2>1, <2>3
<1>5. CASE LMSCommit(p)
  BY <1>1, <1>5 DEF LMSCommit, Api, Empty, Has
<1>6. CASE LMSFinish(p)
  <2>1. /\ api'[p].initialized = a.initialized /\ api'[p].terminated = a.terminated
        /\ api'[p].cache = a.cache
    BY <1>1, <1>6 DEF LMSFinish, Api
  <2> QED
    BY <2>1 DEF Empty, Has
<1> QED
  BY <1>2, <1>3, <1>4, <1>5, <1>6 DEF ContentCall

(* What the answers do to it. *)
LEMMA AnswersInPage ==
  ASSUME StoresInv, Undisturbed, NEW p \in Pages, AdapterStep(p), NEW g,
         InPage(api[p], g)
  PROVE  InPage(api'[p], g)
<1> DEFINE a == api[p]
           b == api'[p]
<1>1. /\ a \in Api /\ api \in [Pages -> Api] /\ ObjectOK(a)
      /\ EmptyAtEnd(a) /\ CommitAnswers(call[p])
  BY PageIs DEF StoresInv, KeptInv, ApiInv, ObjectsOK
<1>2. ASSUME b.initialized = a.initialized, b.terminated = a.terminated, b.cache = a.cache,
             b.doing = a.doing \/ ~g.leaving
      PROVE  InPage(b, g)
  BY <1>2 DEF InPage, Empty, Has
<1>3. CASE SendInitialize(p) \/ SendGet(p) \/ SendCommit(p) \/ SendTerminate(p)
  <2>1. /\ b.initialized = a.initialized /\ b.terminated = a.terminated
        /\ b.cache = a.cache /\ b.doing = a.doing
    BY <1>1, <1>3 DEF SendInitialize, SendGet, SendCommit, SendTerminate, Send, Api
  <2> QED
    BY <1>2, <2>1
<1>4. CASE SendValue(p) \/ HearValue(p)
  <2>1. /\ b.initialized = a.initialized /\ b.terminated = a.terminated
        /\ b.cache = a.cache /\ b.doing = a.doing
    BY <1>1, <1>4 DEF SendValue, HearValue, Api
  <2> QED
    BY <1>2, <2>1
<1>5. CASE HearInitialize(p)
  <2>1. PICK done \in BOOLEAN : done = Succeeded(p)
    BY DEF Succeeded
  <2>2. /\ b.initialized = done /\ b.terminated = a.terminated /\ b.cache = a.cache
        /\ a.doing = "initialize"
    BY <1>1, <1>5, <2>1 DEF HearInitialize, Api
  <2>3. done => Version = "scorm_1.2"
    BY <2>1 DEF Succeeded
  <2> QED
    BY <1>1, <2>2, <2>3 DEF InPage, Empty, Has, ObjectOK
<1>6. CASE HearGet(p)
  <2>1. /\ b.initialized = a.initialized /\ b.terminated = a.terminated
        /\ b.cache = a.cache /\ a.doing = "get"
    BY <1>1, <1>6 DEF HearGet, Api
  <2>2. ~g.leaving
    BY <2>1 DEF InPage
  <2> QED
    BY <1>2, <2>1, <2>2
<1>7. CASE HearCommit(p)
  <2>1. a.doing \in {"commit", "finish"} /\ a.initialized /\ call[p].reply = "true"
    BY <1>1, <1>7 DEF HearCommit, Committing, Arrived, At, CommitAnswers, ObjectOK
  <2>2. Succeeded(p) /\ b = AfterCommit(p, Succeeded(p))
    BY <1>1, <1>7, <2>1 DEF HearCommit, Succeeded, InPage
  <2>3. /\ b.initialized = a.initialized /\ b.terminated = a.terminated /\ b.cache = NoCells
        /\ b.doing = IF a.doing = "commit" THEN "none" ELSE "terminate"
    BY <1>1, <2>2 DEF AfterCommit, Api
  <2> QED
    BY <2>1, <2>3 DEF InPage, Empty, Has, NoCells
<1>8. CASE HearTerminate(p)
  <2>1. PICK done \in BOOLEAN : done = Succeeded(p)
    BY DEF Succeeded
  <2>2. /\ b.initialized = ~done /\ b.terminated = done /\ b.cache = a.cache
        /\ a.doing = "terminate"
    BY <1>1, <1>8, <2>1 DEF HearTerminate, Api
  <2>3. a.initialized /\ ~a.terminated
    BY <1>1, <2>2 DEF ObjectOK
  <2>4. Empty(a)
    BY <1>1, <2>2, <2>3 DEF InPage, EmptyAtEnd, Empty
  <2> QED
    BY <2>2, <2>3, <2>4 DEF InPage, Empty, Has
<1> QED
  BY <1>3, <1>4, <1>5, <1>6, <1>7, <1>8 DEF AdapterStep

(* The page's own events. *)
LEMMA EventsInPage ==
  ASSUME StoresInv, PlayerInv, Undisturbed, NEW p \in Pages,
         \/ ~page[p].leaving /\ ContentCall(p) /\ UNCHANGED page
         \/ UpdateScore(p) \/ SuspendContent(p) \/ ExitContent(p) \/ ExitPlayer(p)
         \/ BeforeUnload(p) \/ Stay(p) \/ Leave(p)
  PROVE  /\ page' \in [Pages -> Page] /\ InPage(api'[p], page'[p])
         /\ page'[p].final \in {"none", attempt'.status}
<1> DEFINE a == api[p]
           g == page[p]
<1>1. /\ a \in Api /\ api \in [Pages -> Api] /\ ObjectOK(a) /\ TypeOK
      /\ page \in [Pages -> Page] /\ g \in Page /\ InPage(a, g)
      /\ g.final \in {"none", attempt.status} /\ attempt.status \in Status
  <2>1. TypeOK /\ ObjectsOK
    BY DEF StoresInv, KeptInv, ApiInv
  <2>2. attempt.status \in Status
    BY <2>1 DEF TypeOK, Attempt
  <2> QED
    BY <2>1, <2>2 DEF ObjectsOK, PlayerInv
<1>2. ASSUME ContentCall(p), page' \in [Pages -> Page], ~page'[p].leaving,
             page'[p].final = g.final
      PROVE  InPage(api'[p], page'[p]) /\ page'[p].final \in {"none", attempt'.status}
  BY <1>1, <1>2, CallsInPage, PageSavesNothing DEF InPage
<1>3. CASE (~g.leaving /\ ContentCall(p) /\ UNCHANGED page) \/ UpdateScore(p) \/ SuspendContent(p)
  <2>1. ContentCall(p) /\ page' = page /\ ~g.leaving
    BY <1>3 DEF UpdateScore, SuspendContent, ContentCall
  <2> QED
    BY <1>1, <1>2, <2>1
<1>4. ASSUME NEW field, NEW value, Becomes(p, field, value),
             [g EXCEPT ![field] = value] \in Page
      PROVE  page' \in [Pages -> Page] /\ page'[p] = [g EXCEPT ![field] = value]
  BY <1>1, <1>4 DEF Becomes
<1>5. CASE ExitContent(p)
  <2> DEFINE n == [g EXCEPT !["exiting"] = TRUE]
  <2>1. n \in Page /\ n.leaving = g.leaving /\ n.final = g.final
    BY <1>1 DEF Page
  <2>2. page' \in [Pages -> Page] /\ page'[p] = n /\ ~g.leaving
    BY <1>4, <1>5, <2>1 DEF ExitContent
  <2>3. ContentCall(p) \/ UNCHANGED adapterVars
    BY <1>5 DEF ExitContent, ContentCall
  <2> HIDE DEF n
  <2>4. CASE ContentCall(p)
    BY <1>2, <2>1, <2>2, <2>4
  <2>5. CASE UNCHANGED adapterVars
    BY <1>1, <2>1, <2>2, <2>5 DEF InPage, adapterVars, vars
  <2> QED
    BY <2>2, <2>3, <2>4, <2>5
<1>6. CASE ExitPlayer(p)
  <2>1. UNCHANGED adapterVars /\ api' = api /\ attempt' = attempt
    BY <1>6 DEF ExitPlayer, adapterVars, vars
  <2>2. CASE a.terminated
    <3> DEFINE n == [g EXCEPT !["final"] = attempt.status]
    <3>1. n \in Page /\ n.leaving = g.leaving /\ n.final = attempt.status
      BY <1>1 DEF Page
    <3>2. page' \in [Pages -> Page] /\ page'[p] = n
      BY <1>4, <1>6, <2>2, <3>1 DEF ExitPlayer
    <3> HIDE DEF n
    <3> QED
      BY <1>1, <2>1, <2>2, <3>1, <3>2 DEF InPage
  <2>3. CASE ~a.terminated
    BY <1>1, <1>6, <2>1, <2>3 DEF ExitPlayer
  <2> QED
    BY <2>2, <2>3
<1>7. CASE BeforeUnload(p)
  <2> DEFINE n == [g EXCEPT !["leaving"] = TRUE]
  <2>1. n \in Page /\ n.leaving /\ n.final = g.final
    BY <1>1 DEF Page
  <2>2. page' \in [Pages -> Page] /\ page'[p] = n /\ a.doing = "none"
    BY <1>4, <1>7, <2>1 DEF BeforeUnload, Free
  <2> HIDE DEF n
  <2>3. CASE a.initialized
    <3>1. LMSCommit(p) /\ ContentCall(p)
      BY <1>7, <2>3 DEF BeforeUnload, ContentCall
    <3>2. /\ api'[p].initialized = a.initialized /\ api'[p].terminated = a.terminated
          /\ api'[p].cache = a.cache
          /\ api'[p].doing = IF Cached(p) = {} THEN "none" ELSE "commit"
      BY <1>1, <3>1 DEF LMSCommit, Api
    <3>3. api'[p].doing = "none" => Empty(a)
      BY <3>2 DEF Cached, Empty, Has
    <3> QED
      BY <1>1, <2>1, <2>2, <3>1, <3>2, <3>3, PageSavesNothing DEF InPage, Empty, Has
  <2>4. CASE ~a.initialized
    <3>1. api' = api /\ attempt' = attempt
      BY <1>7, <2>4 DEF BeforeUnload, adapterVars, vars
    <3> QED
      BY <1>1, <2>1, <2>2, <2>4, <3>1 DEF InPage
  <2> QED
    BY <2>3, <2>4
<1>8. CASE Stay(p)
  <2> DEFINE n == [g EXCEPT !["leaving"] = FALSE]
  <2>1. n \in Page /\ ~n.leaving /\ n.final = g.final
    BY <1>1 DEF Page
  <2>2. page' \in [Pages -> Page] /\ page'[p] = n /\ api' = api /\ attempt' = attempt
    BY <1>4, <1>8, <2>1 DEF Stay, adapterVars, vars
  <2> HIDE DEF n
  <2> QED
    BY <1>1, <2>1, <2>2 DEF InPage
<1>9. CASE Leave(p)
  <2>1. api'[p] = NewApi /\ page' = [page EXCEPT ![p] = NewPage]
    BY <1>1, <1>9 DEF Leave, Reload
  <2>2. NewPage \in Page /\ ~NewPage.leaving /\ NewPage.final = "none"
    BY DEF NewPage, Page
  <2> HIDE DEF NewPage
  <2> QED
    BY <1>1, <2>1, <2>2 DEF InPage, NewApi, Empty, Has, NoCells
<1> QED
  BY <1>3, <1>5, <1>6, <1>7, <1>8, <1>9

LEMMA PlayerInvStep ==
  ASSUME StoresInv, RouteInv, PlayerInv, Undisturbed, [PlayerNext]_<<adapterVars, page>>
  PROVE  PlayerInv'
<1>1. PICK p : Pages = {p}
  BY DEF Undisturbed
<1>2. p \in Pages /\ InPage(api[p], page[p]) /\ page[p].final \in {"none", attempt.status}
      /\ page \in [Pages -> Page]
  BY <1>1 DEF PlayerInv
<1> SUFFICES /\ page' \in [Pages -> Page] /\ InPage(api'[p], page'[p])
             /\ page'[p].final \in {"none", attempt'.status}
  BY <1>1 DEF PlayerInv
<1>3. CASE UNCHANGED <<adapterVars, page>>
  BY <1>2, <1>3 DEF adapterVars, vars
<1>4. CASE ServerStep /\ UNCHANGED page
  <2>1. api' = api
    BY <1>4 DEF ServerStep
  <2>2. page[p].final # "none" => attempt' = attempt
    BY <1>2, <1>4, EndedStays DEF InPage
  <2> QED
    BY <1>2, <1>4, <2>1, <2>2
<1>5. CASE AdapterStep(p) /\ UNCHANGED page
  BY <1>2, <1>5, AnswersInPage, PageSavesNothing
<1>6. ~Throw(p)
  BY DEF Throw, Undisturbed
<1>7. ASSUME \/ ~page[p].leaving /\ ContentCall(p) /\ UNCHANGED page
             \/ UpdateScore(p) \/ SuspendContent(p) \/ ExitContent(p) \/ ExitPlayer(p)
             \/ BeforeUnload(p) \/ Stay(p) \/ Leave(p)
      PROVE  /\ page' \in [Pages -> Page] /\ InPage(api'[p], page'[p])
             /\ page'[p].final \in {"none", attempt'.status}
  BY <1>2, <1>7, EventsInPage
<1> QED
  BY <1>1, <1>3, <1>4, <1>5, <1>6, <1>7 DEF PlayerNext

(* Where nothing fails, is refused or is lost, a page about to be left has  *)
(* stored what its content set, and what an exit has shown of an ended     *)
(* session stays so, whatever the heartbeats do beside it                  *)
(* (scormPlayerCtrl.ts:237-283, 714-785).                                  *)
THEOREM PlayerLeavesCorrect ==
  ASSUME Undisturbed
  PROVE  PlayerSpec => []LeftInOrder
<1>1. AdapterSpec => []StoresInv
  BY StoresInvCorrect
<1>2. AdapterSpec => []RouteInv
  BY AdapterRuns, RouteCorrect
<1>3. StoresInv /\ RouteInv /\ PlayerInv /\ [PlayerNext]_<<adapterVars, page>> => PlayerInv'
  BY PlayerInvStep
<1> QED
  BY <1>1, <1>2, <1>3, PlayerRuns, PlayerInvInit, PlayerInvImplies, PTL DEF PlayerSpec

===============================================================================
