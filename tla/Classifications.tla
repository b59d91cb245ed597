--------------------------- MODULE Classifications ---------------------------
(***************************************************************************)
(* The classification table: its rows go from DRAFT over PENDING to ACTIVE *)
(* by the calls of ClassificationService, each naming one row and the      *)
(* status it expects.  The charging engine classifies by the active row    *)
(* with the latest effective_time that has passed, and looks for it every  *)
(* ten minutes.  A call that finds no row is no step.                      *)
(***************************************************************************)
EXTENDS Integers

CONSTANTS
  Content,         \* contents of a row: its name and its plan
  Cloner,          \* calls that read a row before they insert its copy
  NoRow,           \* no row, nothing loaded, nothing read
  MaxRows,         \* bound on the rows ever created
  LastDay          \* bound on the calendar

Row == 1..MaxRows

Day == 0..LastDay

ClassificationRow ==
  [status : {"DRAFT", "PENDING", "ACTIVE"}, effective : Day, rules : Content]

\* The engine keeps the rules alone; the row and its date are noted for the
\* properties.
LoadedClassification == [row : Row, effective : Day, rules : Content]

ASSUME ClassificationsAssumption ==
  /\ MaxRows \in Nat /\ LastDay \in Nat
  /\ NoRow \notin ClassificationRow \union LoadedClassification

VARIABLES
  classification,  \* the table, by row id
  rows,            \* the rows created so far
  cloning,         \* [Cloner -> the row it has read]
  classified,      \* what the engine has loaded
  today,           \* the clock
  agreed           \* history: the contents that were approved

classificationVars == <<classification, rows, cloning, classified, today, agreed>>

ClassificationsTypeOK ==
  /\ rows \in 0..MaxRows
  /\ classification \in [Row -> ClassificationRow \union {NoRow}]
  /\ \A c \in Row : c > rows => classification[c] = NoRow
  /\ cloning \in [Cloner -> ClassificationRow \union {NoRow}]
  /\ classified \in LoadedClassification \union {NoRow}
  /\ today \in Day
  /\ agreed \in SUBSET [effective : Day, rules : Content]

ClassificationsInit ==
  /\ rows = 0
  /\ classification = [c \in Row |-> NoRow]
  /\ cloning = [x \in Cloner |-> NoRow]
  /\ classified = NoRow
  /\ today = 0
  /\ agreed = {}

HasStatus(c, status) ==
  classification[c] # NoRow /\ classification[c].status = status

(***************************************************************************)
(* ClassificationService.                                                  *)
(***************************************************************************)
\* Mutant: the next row gets the same id.
InsertAgain(effective, rules) ==
  /\ rows < MaxRows
  /\ UNCHANGED rows
  /\ classification' = [classification EXCEPT ![rows + 1] =
       [status |-> "DRAFT", effective |-> effective, rules |-> rules]]

InsertDraft(effective, rules) ==
  /\ rows < MaxRows
  /\ rows' = rows + 1
  /\ classification' = [classification EXCEPT ![rows + 1] =
       [status |-> "DRAFT", effective |-> effective, rules |-> rules]]

CreateClassification(effective, rules) ==
  /\ InsertDraft(effective, rules)
  /\ UNCHANGED <<cloning, classified, today, agreed>>

ReadSource(x, c) ==
  /\ cloning[x] = NoRow
  /\ classification[c] # NoRow
  /\ cloning' = [cloning EXCEPT ![x] = classification[c]]
  /\ UNCHANGED <<classification, rows, classified, today, agreed>>

\* The copy is a draft whatever its source was, or has become since.
CloneClassification(x) ==
  /\ cloning[x] # NoRow
  /\ InsertDraft(cloning[x].effective, cloning[x].rules)
  /\ cloning' = [cloning EXCEPT ![x] = NoRow]
  /\ UNCHANGED <<classified, today, agreed>>

\* Mutant: an update of whatever status.
UpdateAny(c, effective, rules) ==
  /\ classification[c] # NoRow
  /\ classification' = [classification EXCEPT
       ![c].effective = effective, ![c].rules = rules]
  /\ UNCHANGED <<rows, cloning, classified, today, agreed>>

UpdateClassificationPlan(c, effective, rules) ==
  /\ HasStatus(c, "DRAFT")
  /\ classification' = [classification EXCEPT
       ![c].effective = effective, ![c].rules = rules]
  /\ UNCHANGED <<rows, cloning, classified, today, agreed>>

SubmitClassification(c) ==
  /\ HasStatus(c, "DRAFT")
  /\ classification' = [classification EXCEPT ![c].status = "PENDING"]
  /\ UNCHANGED <<rows, cloning, classified, today, agreed>>

ApproveClassification(c) ==
  /\ HasStatus(c, "PENDING")
  /\ classification' = [classification EXCEPT ![c].status = "ACTIVE"]
  /\ agreed' = agreed \union {[effective |-> classification[c].effective,
                               rules |-> classification[c].rules]}
  /\ UNCHANGED <<rows, cloning, classified, today>>

DeclineClassification(c) ==
  /\ HasStatus(c, "PENDING")
  /\ classification' = [classification EXCEPT ![c].status = "DRAFT"]
  /\ UNCHANGED <<rows, cloning, classified, today, agreed>>

\* Mutant: a row of whatever status goes.
DeleteAny(c) ==
  /\ classification[c] # NoRow
  /\ classification' = [classification EXCEPT ![c] = NoRow]
  /\ UNCHANGED <<rows, cloning, classified, today, agreed>>

DeleteClassification(c) ==
  /\ HasStatus(c, "DRAFT")
  /\ classification' = [classification EXCEPT ![c] = NoRow]
  /\ UNCHANGED <<rows, cloning, classified, today, agreed>>

(***************************************************************************)
(* The charging engine.                                                    *)
(***************************************************************************)
\* The rows that are in force.
Candidates == {c \in Row : HasStatus(c, "ACTIVE") /\ classification[c].effective < today}

\* FindActiveClassification: the latest of them, of several with one date any.
\* Without one the query answers an error and the engine keeps what it has.
ReloadClassification ==
  /\ \E c \in Candidates :
       /\ \A d \in Candidates : classification[d].effective <= classification[c].effective
       /\ classified' = [row |-> c, effective |-> classification[c].effective,
                         rules |-> classification[c].rules]
  /\ UNCHANGED <<classification, rows, cloning, today, agreed>>

NextDay ==
  /\ today < LastDay
  /\ today' = today + 1
  /\ UNCHANGED <<classification, rows, cloning, classified, agreed>>

ClassificationsNext ==
  \/ \E effective \in Day, rules \in Content :
       \/ CreateClassification(effective, rules)
       \/ \E c \in Row : UpdateClassificationPlan(c, effective, rules)
  \/ \E c \in Row :
       \/ SubmitClassification(c) \/ ApproveClassification(c)
       \/ DeclineClassification(c) \/ DeleteClassification(c)
       \/ \E x \in Cloner : ReadSource(x, c)
  \/ \E x \in Cloner : CloneClassification(x)
  \/ ReloadClassification
  \/ NextDay

ClassificationsSpec == ClassificationsInit /\ [][ClassificationsNext]_classificationVars

(***************************************************************************)
(* Properties.                                                             *)
(***************************************************************************)
\* The engine classifies by approved rules only, and not before their time
\* (FindActiveClassification after the calls of classification_service.go).
ClassifiedAsAgreed ==
  classified # NoRow =>
    /\ [effective |-> classified.effective, rules |-> classified.rules] \in agreed
    /\ classified.effective < today

\* Once classification plans are in force they only give way to later ones:
\* the engine never returns to an older plan, whatever editors do to the table
\* (no update or delete of classification.sql.go reaches an active row).
NeverAnOlderPlan ==
  [][classified # NoRow =>
       /\ classified' # NoRow
       /\ classified'.effective >= classified.effective]_classificationVars
==============================================================================
