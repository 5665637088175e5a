------------------------------- MODULE MCRecords -------------------------------
(* The course ledger, the segments and progress of custom content, and the  *)
(* academic records on small instances.  Each behaviour runs one of the     *)
(* three, chosen at the start, while the variables of the others stay: they *)
(* share no state.                                                          *)
EXTENDS CourseLedger, ContentProgress, AcademicRecords, TLC

CONSTANTS c1, k1, program, term, group, exam1, exam2, year1, year2

VARIABLE part   \* which of the three runs

MCUnset == -1
Body(type, content, package, order) ==
  [contentType |-> type, custom |-> content, package |-> package, order |-> order]
MCBodies == {Body("custom", c1, None, 0), Body("scorm", c1, k1, 2)}

(* A score that an attempt can have, and one that it can not.               *)
MCPayload ==
  {[score |-> 60, maxScore |-> Unset, sec |-> 1], [score |-> 150, maxScore |-> 0, sec |-> 0]}

MCKindOf ==
  program :> "program" @@ term :> "term" @@ group :> "group"
    @@ [i \in {exam1, exam2} |-> "exam"] @@ [i \in {year1, year2} |-> "year"]

(* One kind of record at a time is put to use: no request reads two kinds.  *)
InUse(kind) == \A i \in Item : record[i].at = IF KindOf[i] = kind THEN "new" ELSE "gone"
OneKind ==
  /\ record \in [Item -> {NewRecord, [NewRecord EXCEPT !.at = "gone"]}]
  /\ \E kind \in Kinds : InUse(kind)
  /\ question = [q \in Question |-> NoName]
  /\ clerk = [v \in Clerk |-> NoName]
  /\ filed = [q \in Question |-> NoName]

Init ==
  /\ part \in {"ledger", "progress", "records"}
  /\ HistoryInit
  /\ ContentsInit
  /\ ProgressInit
  /\ OneKind
  /\ part # "records" => InUse("program")

(* While a history is read, one request is in flight at most; once it is   *)
(* read, it is looked at before anything else happens.                     *)
OneBesideHistory ==
  /\ history'.at = "activity" =>
       \A q, r \in Request : request'[q].at # "idle" /\ request'[r].at # "idle" => q = r
  /\ history.at = "read" => UNCHANGED ledger

Next ==
  /\ UNCHANGED part
  /\ \/ /\ part = "ledger" /\ HistoryNext /\ UNCHANGED <<contents, recording, records>>
        /\ OneBesideHistory
     \/ part = "progress" /\ ProgressNext /\ UNCHANGED <<ledger, history, records>>
     \/ part = "records" /\ RecordsNext /\ UNCHANGED <<ledger, history, contents, recording>>

Spec == Init /\ [][Next]_<<part, ledger, history, contents, recording, records>>

Symmetry == Permutations(Request) \cup Permutations(Seat) \cup Permutations(Doc)

===============================================================================
