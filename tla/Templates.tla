------------------------------- MODULE Templates -------------------------------
(***************************************************************************)
(* Templates and the master stylesheets of departments                     *)
(* (templatesCtrl.ts, cssRating.ts): every update loads a document, awaits *)
(* what else it needs, and saves the paths in which it differs from the    *)
(* copy it loaded.  A stylesheet is told apart by its text and by the      *)
(* declarations that cssRating.ts finds in it.                             *)
(***************************************************************************)
EXTENDS Integers, FiniteSets, FiniteSetsExt

CONSTANTS
  Template, Author,
  TDept,            \* departments
  Whole,            \* the authors with access to all departments
  ScopeOf,          \* ScopeOf[a]: the departments author a has access to
  Css,              \* texts of stylesheets, the empty one included
  NoCss,            \* the empty text
  Declaration,      \* selectors with a property of theirs
  RulesOf,          \* RulesOf[s][x]: the value s gives to x, or Absent
  Absent,
  NoTDept,          \* no department
  Statuses,         \* the statuses that updates of a template give
  Unsaid,           \* a field that a request does not give
  MaxVersion        \* a bound on the updates of a master stylesheet

ASSUME TemplatesAssumption ==
  /\ Whole \subseteq Author /\ NoCss \in Css /\ NoTDept \notin TDept
  /\ \A x \in Declaration : RulesOf[NoCss][x] = Absent

VARIABLES
  template,   \* template[t]: the MasterTemplate document t
  master,     \* master[d]: the DepartmentMasterCSS of d; version 0: there is none
  author,     \* author[a]: the request that author a has in flight
  told,       \* told[t]: who wrote the text of t, whether it was scored, and
              \* whether the save lay over another's (no variable of the code)
  crossed     \* departments two of whose master updates overlapped (the same)

templating == <<template, master, author, told, crossed>>

-------------------------------------------------------------------------------

(* scoreCss: what the master has and the candidate has not, the reverse,   *)
(* and what they give different values.                                    *)
MissingIn(m, s) == {x \in Declaration : RulesOf[m][x] # Absent /\ RulesOf[s][x] = Absent}
Mismatched(m, s) ==
  {x \in Declaration : RulesOf[m][x] # Absent /\ RulesOf[s][x] # Absent
                         /\ RulesOf[m][x] # RulesOf[s][x]}
ScoreCss(m, s) ==
  Max({0, 100 - 2 * Cardinality(MissingIn(m, s)) - Cardinality(MissingIn(s, m))
              - 3 * Cardinality(Mismatched(m, s))})
Diffs(m, s) == MissingIn(m, s) \cup MissingIn(s, m) \cup Mismatched(m, s)

Score(m, s) == [value |-> ScoreCss(m.css, s), version |-> m.version, diffs |-> Diffs(m.css, s)]
Unscored(v) == [value |-> 0, version |-> v, diffs |-> {}]

NoMaster == [css |-> NoCss, version |-> 0]
MasterOf(d) == IF d = NoTDept THEN NoMaster ELSE master[d]

(* Who writes a text decides whether it stands. *)
OverrideOf(a, s) ==
  IF s = NoCss THEN "inherited" ELSE IF a \in Whole THEN "approved" ELSE "pending"

Unmade ==
  [at |-> "new", dept |-> NoTDept, global |-> FALSE, css |-> NoCss,
   score |-> Unscored(0), override |-> "inherited", status |-> "draft"]

NoWork == [at |-> "idle"]

TemplatesInit ==
  /\ template = [t \in Template |-> Unmade]
  /\ master = [d \in TDept |-> NoMaster]
  /\ author = [a \in Author |-> NoWork]
  /\ told = [t \in Template |-> [by |-> Unsaid, scored |-> FALSE, raced |-> FALSE]]
  /\ crossed = {}

Live == {t \in Template : template[t].at = "live"}
InScope(a, d) == a \in Whole \/ d = NoTDept \/ d \in ScopeOf[a]

Do(a, work) == author' = [author EXCEPT ![a] = work]

-------------------------------------------------------------------------------

(* updateMasterCss, up to its save. *)
StartMaster(a, d, s) ==
  /\ author[a].at = "idle"
  /\ a \in Whole
  /\ Do(a, [at |-> "master", dept |-> d, css |-> s, copy |-> master[d]])
  /\ UNCHANGED <<template, master, told, crossed>>

(* Mutant: the version is raised by the first update only. *)
MasterSavedOnce(copy, now, s) ==
  [css |-> IF s = copy.css THEN now.css ELSE s,
   version |-> IF copy.version = 0 THEN 1 ELSE copy.version]

(* The paths that differ from the copy, and the version always does. *)
MasterSaved(copy, now, s) ==
  [css |-> IF s = copy.css THEN now.css ELSE s, version |-> copy.version + 1]

(* A second first stylesheet of a department is refused by the index.      *)
SaveMaster(a) ==
  LET work == author[a]
      d == work.dept IN
  /\ work.at = "master"
  /\ work.copy.version = 0 => master[d].version = 0
  /\ work.copy.version < MaxVersion
  /\ master' = [master EXCEPT ![d] =
                  IF work.copy.version = 0
                  THEN [css |-> work.css, version |-> 1]
                  ELSE MasterSaved(work.copy, master[d], work.css)]
  /\ crossed' = IF work.copy = master[d] THEN crossed ELSE crossed \cup {d}
  /\ Do(a, NoWork)
  /\ UNCHANGED <<template, told>>

(* Mutant: a template that is not global may have no department. *)
DepartmentGiven(g, d) == TRUE

DepartmentRequired(g, d) == g \/ d # NoTDept

(* createTemplate, up to its insert: it has read the master stylesheet.    *)
StartCreateTemplate(a, d, g, s) ==
  LET css == IF s = Unsaid THEN NoCss ELSE s
      score == IF d # NoTDept /\ s # Unsaid THEN Score(MasterOf(d), s)
               ELSE Unscored(MasterOf(d).version) IN
  /\ author[a].at = "idle"
  /\ g => a \in Whole
  /\ DepartmentRequired(g, d)
  /\ InScope(a, d)
  /\ Do(a, [at |-> "create", scored |-> s # Unsaid,
            new |-> [at |-> "live", dept |-> d, global |-> g, css |-> css,
                     score |-> score, override |-> OverrideOf(a, css), status |-> "draft"]])
  /\ UNCHANGED <<template, master, told, crossed>>

InsertTemplate(a, t) ==
  /\ author[a].at = "create"
  /\ template[t].at = "new"
  /\ template' = [template EXCEPT ![t] = author[a].new]
  /\ told' = [told EXCEPT ![t] = [by |-> a, scored |-> author[a].scored, raced |-> FALSE]]
  /\ Do(a, NoWork)
  /\ UNCHANGED <<master, crossed>>

(* The templates that a may load to change them.                           *)
Editable(a, t) ==
  /\ t \in Live
  /\ ~template[t].global => InScope(a, template[t].dept)

(* The paths that an update of the text may write, as they were loaded.    *)
TextOf(doc) == [css |-> doc.css, score |-> doc.score, override |-> doc.override]

(* updateTemplate: a text is scored after one more await, where the        *)
(* template has a department.  A status is written if it is another one.   *)
StartUpdateTemplate(a, t, s, status) ==
  LET now == template[t] IN
  /\ author[a].at = "idle"
  /\ Editable(a, t)
  /\ now.global => a \in Whole
  /\ s # Unsaid \/ status # Unsaid
  /\ Do(a, [at |-> IF s # Unsaid /\ now.dept # NoTDept THEN "score" ELSE "save",
            of |-> t, status |-> IF status = now.status THEN Unsaid ELSE status,
            copy |-> IF s = Unsaid THEN Unsaid ELSE TextOf(now),
            new |-> IF s = Unsaid THEN Unsaid ELSE [TextOf(now) EXCEPT !.css = s]])
  /\ UNCHANGED <<template, master, told, crossed>>

(* Mutant: a new text keeps the approval of the old one. *)
ScoredKeepsOverride(a, new, m) == [new EXCEPT !.score = Score(m, new.css)]

Scored(a, new, m) ==
  [new EXCEPT !.score = Score(m, new.css), !.override = OverrideOf(a, new.css)]

ScoreText(a) ==
  LET m == master[template[author[a].of].dept] IN
  /\ author[a].at = "score"
  /\ Do(a, [author[a] EXCEPT !.at = "save", !.new = Scored(a, @, m)])
  /\ UNCHANGED <<template, master, told, crossed>>

(* publishTemplate refuses what waits for approval; archiveTemplate asks   *)
(* nothing but the scope.                                                  *)
StartStatus(a, t, status) ==
  /\ author[a].at = "idle"
  /\ Editable(a, t)
  /\ Do(a, [at |-> "save", of |-> t, copy |-> Unsaid, new |-> Unsaid,
            status |-> IF status = template[t].status THEN Unsaid ELSE status])
  /\ UNCHANGED <<template, master, told, crossed>>

PublishTemplate(a, t) ==
  /\ StartStatus(a, t, "published")
  /\ template[t].global => a \in Whole
  /\ template[t].override # "pending"
ArchiveTemplate(a, t) == StartStatus(a, t, "archived")

(* save: each path that differs from the copy.  A score with differences   *)
(* never equals another, for each of them has an _id of its own.           *)
TextSaved(now, copy, new) ==
  [now EXCEPT
     !.css = IF new.css = copy.css THEN @ ELSE new.css,
     !.score = IF new.score = copy.score /\ new.score.diffs = {} THEN @ ELSE new.score,
     !.override = IF new.override = copy.override THEN @ ELSE new.override]
StatusSaved(now, status) == [now EXCEPT !.status = IF status = Unsaid THEN @ ELSE status]

SaveTemplate(a) ==
  LET work == author[a]
      t == work.of
      texted == work.copy # Unsaid IN
  /\ work.at = "save"
  /\ template' = [template EXCEPT ![t] =
       StatusSaved(IF texted THEN TextSaved(@, work.copy, work.new) ELSE @, work.status)]
  /\ told' = IF ~texted THEN told
             ELSE [told EXCEPT ![t] =
                     [by |-> a, scored |-> TRUE, raced |-> TextOf(template[t]) # work.copy]]
  /\ Do(a, NoWork)
  /\ UNCHANGED <<master, crossed>>

(* Refused by the index, failed, or cut off by a restart.                  *)
AbandonTemplate(a) ==
  /\ author[a].at # "idle"
  /\ Do(a, NoWork)
  /\ UNCHANGED <<template, master, told, crossed>>

(* listTemplates, without filters, and getTemplate.                        *)
ListTemplates(a) ==
  {t \in Live : a \in Whole \/ template[t].global \/ template[t].dept \in ScopeOf[a]}
GetTemplate(a, t) ==
  /\ Editable(a, t)
  /\ template[t].global => a \in Whole

TemplatesNext ==
  \E a \in Author :
    \/ SaveMaster(a) \/ ScoreText(a) \/ SaveTemplate(a) \/ AbandonTemplate(a)
    \/ \E d \in TDept, s \in Css : StartMaster(a, d, s)
    \/ \E t \in Template :
         \/ InsertTemplate(a, t) \/ PublishTemplate(a, t) \/ ArchiveTemplate(a, t)
         \/ \E s \in Css \cup {Unsaid}, status \in Statuses \cup {Unsaid} :
              StartUpdateTemplate(a, t, s, status)
    \/ \E d \in TDept \cup {NoTDept}, g \in BOOLEAN, s \in Css \cup {Unsaid} :
         StartCreateTemplate(a, d, g, s)

TemplatesSpec == TemplatesInit /\ [][TemplatesNext]_templating

-------------------------------------------------------------------------------

(* Unless updates of the template overlapped, its override status tells    *)
(* who wrote its text: inherited for none, approved only for one with      *)
(* access to all departments (templatesCtrl.ts:390-395, 463-475).  The     *)
(* next update that nothing overlaps puts it right.                        *)
OverrideFollows ==
  \A t \in Live :
    template[t].dept # NoTDept /\ ~told[t].raced =>
      template[t].override = OverrideOf(told[t].by, template[t].css)

(* A score compared to the version that the master stylesheet has now is   *)
(* the score of the text against the stylesheet as it is now, whatever was *)
(* written between the scoring and the save (templatesCtrl.ts:466-475,     *)
(* 199-204); and no score is compared to a version still to come.          *)
ScoresComparable ==
  \A t \in Live :
    LET d == template[t].dept IN
    d \in TDept \ crossed /\ ~told[t].raced =>
      /\ template[t].score.version <= master[d].version
      /\ told[t].scored /\ template[t].score.version = master[d].version =>
           template[t].score = Score(master[d], template[t].css)

(* The templates that are not global, the list shows to exactly those who  *)
(* can open them (templatesCtrl.ts:264-277, 326-331): it looks only for    *)
(* departments, so none may be without.                                    *)
ListedIsReadable ==
  \A a \in Author, t \in Live :
    ~template[t].global => (t \in ListTemplates(a) <=> GetTemplate(a, t))

(* What a template tells of its text, its author and its score holds, and  *)
(* it is listed to who can open it (templatesCtrl.ts:199-475).             *)
TemplatesTell == OverrideFollows /\ ScoresComparable /\ ListedIsReadable

===============================================================================
