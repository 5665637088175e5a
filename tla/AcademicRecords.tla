---------------------------- MODULE AcademicRecords ----------------------------
(***************************************************************************)
(* The records an academy is run by: programs, academic terms and years,   *)
(* year groups, exams and the questions of exams (controller/academics).   *)
(* Each is created, renamed, archived and deleted by a request that reads  *)
(* first and writes later.  Only the names of years have a unique index.   *)
(***************************************************************************)
EXTENDS Naturals, FiniteSets

CONSTANTS
  Item,       \* the _ids of records
  KindOf,     \* the collection of each
  Question,   \* the _ids of questions
  Name,       \* names of records, and texts of questions
  NoName,     \* no name, record or question
  Clerk       \* the requests in flight at once

Kinds == {"program", "term", "year", "group", "exam"}

ASSUME RecordsAssumption ==
  /\ KindOf \in [Item -> Kinds]
  /\ NoName \notin Name \cup Item \cup Question

VARIABLES
  record,     \* record[i]: the document with _id i
  question,   \* question[q]: the text of question q, or NoName
  clerk,      \* clerk[v]: what request v is about to write
  filed       \* where each question was answered to be (no variable of the code)

records == <<record, question, clerk, filed>>

-------------------------------------------------------------------------------

(* `dated` stands for archivedAt being set; only exams have questions.     *)
Records ==
  [at : {"new", "live", "gone"}, name : Name \cup {NoName}, archived : BOOLEAN,
   dated : BOOLEAN, questions : SUBSET Question]
NewRecord ==
  [at |-> "new", name |-> NoName, archived |-> FALSE, dated |-> FALSE, questions |-> {}]
Work ==
  [at : {"insert", "rename", "archive", "unarchive", "ask", "push"}, record : Item,
   name : Name \cup {NoName}, question : Question \cup {NoName}] \cup {NoName}

RecordsInit ==
  /\ record = [i \in Item |-> NewRecord]
  /\ question = [q \in Question |-> NoName]
  /\ clerk = [v \in Clerk |-> NoName]
  /\ filed = [q \in Question |-> NoName]

LiveRecord(i) == record[i].at = "live"
Named(kind, n) == {i \in Item : KindOf[i] = kind /\ LiveRecord(i) /\ record[i].name = n}
Begins(v, at, i, n, q) ==
  /\ clerk[v] = NoName
  /\ clerk' = [clerk EXCEPT ![v] = [at |-> at, record |-> i, name |-> n, question |-> q]]
  /\ UNCHANGED <<record, question, filed>>
At(v, at) == clerk[v] # NoName /\ clerk[v].at = at
Ends(v) == clerk' = [clerk EXCEPT ![v] = NoName]

-------------------------------------------------------------------------------
(* Creating: a look for the name, then the insert. *)

Create(kind, v, i, n) ==
  /\ KindOf[i] = kind /\ record[i].at = "new"
  /\ \A w \in Clerk : clerk[w] # NoName => clerk[w].record # i
  /\ Named(kind, n) = {}
  /\ Begins(v, "insert", i, n, NoName)
createProgram(v, i, n) == Create("program", v, i, n)
createAcademicTerm(v, i, n) == Create("term", v, i, n)
createAcademicYear(v, i, n) == Create("year", v, i, n)
createYearGroup(v, i, n) == Create("group", v, i, n)
createExam(v, i, n) == Create("exam", v, i, n)

(* The unique index on the name of a year. *)
IndexRefuses(i, n) == KindOf[i] = "year" /\ Named("year", n) \ {i} # {}

Insert(v) ==
  /\ At(v, "insert")
  /\ LET i == clerk[v].record
         n == clerk[v].name
     IN  record' = IF IndexRefuses(i, n) THEN record
                   ELSE [record EXCEPT ![i].at = "live", ![i].name = n]
  /\ Ends(v) /\ UNCHANGED <<question, filed>>

-------------------------------------------------------------------------------
(* Renaming.  Of all kinds only a year may keep its own name; a body       *)
(* without a name finds none and leaves the name alone.                    *)

Rename(kind, v, i, n) ==
  /\ KindOf[i] = kind /\ LiveRecord(i)
  /\ Begins(v, "rename", i, n, NoName)
updateProgram(v, i, n) == Rename("program", v, i, n) /\ Named("program", n) = {}
updateAcademicTerms(v, i, n) == Rename("term", v, i, n) /\ Named("term", n) = {}
updateAcademicYear(v, i, n) == Rename("year", v, i, n) /\ Named("year", n) \subseteq {i}
updateYearGroup(v, i, n) == Rename("group", v, i, n) /\ Named("group", n) = {}
updateExam(v, i, n) == Rename("exam", v, i, n) /\ Named("exam", n) = {}

WriteName(v) ==
  /\ At(v, "rename")
  /\ LET i == clerk[v].record
         n == clerk[v].name
     IN  record' = IF n = NoName \/ ~LiveRecord(i) \/ IndexRefuses(i, n) THEN record
                   ELSE [record EXCEPT ![i].name = n]
  /\ Ends(v) /\ UNCHANGED <<question, filed>>

-------------------------------------------------------------------------------
(* Archiving of programs and terms: a copy is loaded, and what differs     *)
(* from it is saved.                                                       *)

StartArchive(kind, v, i) ==
  /\ KindOf[i] = kind /\ LiveRecord(i) /\ ~record[i].archived
  /\ Begins(v, "archive", i, NoName, NoName)
StartUnarchive(kind, v, i) ==
  /\ KindOf[i] = kind /\ LiveRecord(i) /\ record[i].archived
  /\ Begins(v, "unarchive", i, NoName, NoName)
archiveProgram(v, i) == StartArchive("program", v, i)
unarchiveProgram(v, i) == StartUnarchive("program", v, i)
archiveAcademicTerm(v, i) == StartArchive("term", v, i)
unarchiveAcademicTerm(v, i) == StartUnarchive("term", v, i)

SaveArchived(v) ==
  /\ At(v, "archive")
  /\ record' = IF LiveRecord(clerk[v].record)
               THEN [record EXCEPT ![clerk[v].record].archived = TRUE,
                                   ![clerk[v].record].dated = TRUE]
               ELSE record
  /\ Ends(v) /\ UNCHANGED <<question, filed>>

(* Mutant: the date of archiving stays. *)
SaveUnarchivedDated(v) ==
  /\ At(v, "unarchive")
  /\ record' = IF LiveRecord(clerk[v].record)
               THEN [record EXCEPT ![clerk[v].record].archived = FALSE]
               ELSE record
  /\ Ends(v) /\ UNCHANGED <<question, filed>>
SaveUnarchived(v) ==
  /\ At(v, "unarchive")
  /\ record' = IF LiveRecord(clerk[v].record)
               THEN [record EXCEPT ![clerk[v].record].archived = FALSE,
                                   ![clerk[v].record].dated = FALSE]
               ELSE record
  /\ Ends(v) /\ UNCHANGED <<question, filed>>

Delete(kind, i) ==
  /\ KindOf[i] = kind /\ LiveRecord(i)
  /\ record' = [record EXCEPT ![i].at = "gone"]
  /\ UNCHANGED <<question, clerk, filed>>
deleteProgram(i) == Delete("program", i)
deleteAcademicTerm(i) == Delete("term", i)
deleteAcademicYear(i) == Delete("year", i)
deleteYearGroup(i) == Delete("group", i)
deleteExam(i) == Delete("exam", i)

-------------------------------------------------------------------------------
(* Questions: the exam is loaded, the text looked for, the question stored *)
(* and pushed to the exam, whose save is a $push of the one id.            *)

createQuestion(v, i, q, text) ==
  /\ KindOf[i] = "exam" /\ LiveRecord(i)
  /\ question[q] = NoName
  /\ \A w \in Clerk : clerk[w] # NoName => clerk[w].question # q
  /\ \A other \in Question : question[other] # text
  /\ Begins(v, "ask", i, text, q)

StoreQuestion(v) ==
  /\ At(v, "ask")
  /\ question' = [question EXCEPT ![clerk[v].question] = clerk[v].name]
  /\ clerk' = [clerk EXCEPT ![v].at = "push"]
  /\ UNCHANGED <<record, filed>>

(* Mutant: the first questions of an exam are assigned. *)
AssignQuestion(v) ==
  /\ At(v, "push")
  /\ LET i == clerk[v].record
         q == clerk[v].question
     IN  IF LiveRecord(i)
         THEN /\ record' = [record EXCEPT ![i].questions = {q}]
              /\ filed' = [filed EXCEPT ![q] = i]
         ELSE UNCHANGED <<record, filed>>
  /\ Ends(v) /\ UNCHANGED question
PushQuestion(v) ==
  /\ At(v, "push")
  /\ LET i == clerk[v].record
         q == clerk[v].question
     IN  IF LiveRecord(i)
         THEN /\ record' = [record EXCEPT ![i].questions = @ \cup {q}]
              /\ filed' = [filed EXCEPT ![q] = i]
         ELSE UNCHANGED <<record, filed>>
  /\ Ends(v) /\ UNCHANGED question

(* The look of updateQuestion is not awaited, so it always finds.          *)
updateQuestion(q, text) ==
  /\ question[q] # NoName
  /\ question' = [question EXCEPT ![q] = text]
  /\ UNCHANGED <<record, clerk, filed>>

CutOffClerk(v) ==
  /\ clerk[v] # NoName
  /\ Ends(v) /\ UNCHANGED <<record, question, filed>>

-------------------------------------------------------------------------------

Creates(v, i, n) ==
  \/ createProgram(v, i, n) \/ createAcademicTerm(v, i, n) \/ createAcademicYear(v, i, n)
  \/ createYearGroup(v, i, n) \/ createExam(v, i, n)
Renames(v, i, n) ==
  \/ updateProgram(v, i, n) \/ updateAcademicTerms(v, i, n) \/ updateAcademicYear(v, i, n)
  \/ updateYearGroup(v, i, n) \/ updateExam(v, i, n)
Archives(v, i) ==
  \/ archiveProgram(v, i) \/ unarchiveProgram(v, i)
  \/ archiveAcademicTerm(v, i) \/ unarchiveAcademicTerm(v, i)
Deletes(i) ==
  \/ deleteProgram(i) \/ deleteAcademicTerm(i) \/ deleteAcademicYear(i)
  \/ deleteYearGroup(i) \/ deleteExam(i)
Writes(v) ==
  \/ Insert(v) \/ WriteName(v) \/ SaveArchived(v) \/ SaveUnarchived(v)
  \/ StoreQuestion(v) \/ PushQuestion(v) \/ CutOffClerk(v)

(* A look, and a request that is refused, write nothing. *)
Fetches == UNCHANGED records

RecordsNext ==
  \/ Fetches
  \/ \E v \in Clerk, i \in Item : Archives(v, i)
  \/ \E v \in Clerk, i \in Item, n \in Name : Creates(v, i, n)
  \/ \E v \in Clerk, i \in Item, n \in Name \cup {NoName} : Renames(v, i, n)
  \/ \E i \in Item : Deletes(i)
  \/ \E v \in Clerk, i \in Item, q \in Question, n \in Name : createQuestion(v, i, q, n)
  \/ \E q \in Question, n \in Name : updateQuestion(q, n)
  \/ \E v \in Clerk : Writes(v)

RecordsSpec == RecordsInit /\ [][RecordsNext]_records

-------------------------------------------------------------------------------

(* Every variable has its type. *)
RecordsTypeOK ==
  /\ record \in [Item -> Records]
  /\ question \in [Question -> Name \cup {NoName}]
  /\ clerk \in [Clerk -> Work]
  /\ filed \in [Question -> Item \cup {NoName}]

(* However archiving and unarchiving overlap, a program or term has its    *)
(* date of archiving exactly while it is archived (programsCtrl.ts:342,    *)
(* 376).                                                                   *)
ArchivedDated == \A i \in Item : record[i].archived <=> record[i].dated

(* A question whose creation was answered stays in its exam, whatever      *)
(* overlaps, and a question in an exam was stored (questionsCtrl.ts:63).   *)
QuestionsFiled ==
  /\ \A q \in Question : filed[q] # NoName => q \in record[filed[q]].questions
  /\ \A i \in Item : \A q \in record[i].questions : question[q] # NoName

(* What was answered of a record stays so, whatever overlaps.              *)
RecordsKept == ArchivedDated /\ QuestionsFiled

===============================================================================
