----------------------------- MODULE PagesProofs -----------------------------
(***************************************************************************)
(* What the team's and the staff's pages keep, for any number of requests  *)
(* that overlap and any sizes: one section for each of the parts that      *)
(* MCPages composes, each about that part's own specification.             *)
(***************************************************************************)
EXTENDS EquipmentDrafts, TeamMembership, CommandCenter, TemplateReview, TeamTemplates,
        TemplateRequests, FleetRegistry, FiniteSetTheorems, SequenceTheorems,
        WellFoundedInduction, TLAPS

-----------------------------------------------------------------------------
(* Sets of numbers: a least element, and with a bound a greatest, which is *)
(* then what Max chooses.                                                  *)
LEMMA LeastNumber ==
    ASSUME NEW S \in SUBSET Nat, S # {}
    PROVE  \E m \in S : \A n \in S : m <= n
<1>1. PICK m \in S : \A n \in S : ~(<<n, m>> \in OpToRel(<, Nat))
  BY NatLessThanWellFounded, WFMin, Zenon
<1>2. \A n \in S : ~(n < m)
  BY <1>1 DEF OpToRel
<1>3. QED BY <1>2

LEMMA GreatestNumber ==
    ASSUME NEW S \in SUBSET Nat, S # {}, NEW bound \in Nat, \A n \in S : n <= bound
    PROVE  /\ Max(S) \in S
           /\ \A n \in S : n <= Max(S)
<1> DEFINE Above == {b \in Nat : \A n \in S : n <= b}
<1>1. PICK m \in Above : \A b \in Above : m <= b
  <2>1. bound \in Above
    OBVIOUS
  <2>2. Above \in SUBSET Nat /\ Above # {}
    BY <2>1
  <2> HIDE DEF Above
  <2>3. QED BY <2>2, LeastNumber
<1>2. m \in S
  <2>1. SUFFICES ASSUME m \notin S PROVE FALSE
    OBVIOUS
  <2>2. \A n \in S : n < m
    BY <2>1, <1>1
  <2>3. m # 0
    <3>1. PICK n \in S : n < m
      BY <2>2
    <3>2. n \in Nat /\ m \in Nat
      OBVIOUS
    <3>3. QED BY <3>1, <3>2
  <2>4. m - 1 \in Above
    BY <2>2, <2>3, <1>1
  <2>5. QED BY <2>4, <1>1
<1>3. \A n \in S : m >= n
  BY <1>1
<1>4. QED BY <1>2, <1>3 DEF Max

-----------------------------------------------------------------------------
(* Requests for a template (TemplateRequests): what the admin's form is    *)
(* about to save was checked, and a map that a row names was delivered.    *)
FormWasChecked ==
    desk.op = "posted" =>
        /\ desk.row.status \in {"in_progress", "ready_to_test", "completed"} => desk.row.paid
        /\ desk.row.status \in {"ready_to_test", "completed"} => desk.row.map

MapsWereDelivered ==
    /\ \A h \in HelpRequest : help[h].map => delivered[h] > 0
    /\ desk.op \in {"open", "posted"} =>
          /\ desk.on \in HelpRequest
          /\ desk.row.map => delivered[desk.on] > 0

NewRequestsAreBare ==
    \A v \in Visitor : visit[v].op = "ask" => visit[v].row.status = "submitted" /\ ~visit[v].row.map

HelpRow == [status : HelpStatus \cup {"none"}, paid : BOOLEAN, linked : BOOLEAN, replied : BOOLEAN, map : BOOLEAN]
Moment == [op : {"nothing", "open", "posted", "ask", "reply"}, on : HelpRequest \cup {Nothing.on}, row : HelpRow]

HelpInv ==
    /\ help \in [HelpRequest -> HelpRow]
    /\ delivered \in [HelpRequest -> Nat]
    /\ desk \in Moment /\ visit \in [Visitor -> Moment]
    /\ FormWasChecked /\ MapsWereDelivered /\ NewRequestsAreBare
    /\ WorkIsPaidFor

LEMMA HelpInitInv == HelpInit => HelpInv
<1>1. NoRequest \in HelpRow
  BY DEF NoRequest, HelpRow, HelpStatus
<1>2. Nothing \in Moment /\ Nothing.op = "nothing"
  BY <1>1 DEF Nothing, Moment
<1>3. QED
  BY <1>1, <1>2 DEF HelpInit, HelpInv, FormWasChecked, MapsWereDelivered, NewRequestsAreBare,
                    WorkIsPaidFor, NoRequest

(* One lemma per kind of action: the customer's ...                        *)
LEMMA CustomerStep ==
    ASSUME HelpInv, NEW v \in Visitor,
           LooksForRequest(v) \/ CreatesRequest(v) \/ Replies(v) \/ \E h \in HelpRequest : ReadsQuestion(v, h)
    PROVE  HelpInv'
<1> USE DEF HelpInv, Moment, HelpRow
<1>0. NoRequest \in HelpRow /\ Nothing \in Moment /\ "submitted" \in HelpStatus
  BY DEF NoRequest, HelpStatus, Nothing
<1>1. CASE LooksForRequest(v)
  <2>1. PICK linked \in BOOLEAN :
          visit' = [visit EXCEPT ![v] = [op |-> "ask", on |-> Nothing.on,
                       row |-> [NoRequest EXCEPT !.status = "submitted", !.linked = linked]]]
    BY <1>1 DEF LooksForRequest, Visits
  <2>2. UNCHANGED <<help, delivered, validated, desk>>
    BY <1>1 DEF LooksForRequest
  <2> DEFINE row == [NoRequest EXCEPT !.status = "submitted", !.linked = linked]
  <2>3. row \in HelpRow /\ row.status = "submitted" /\ ~row.map
    BY DEF NoRequest, HelpStatus
  <2> HIDE DEF row
  <2>4. visit' = [visit EXCEPT ![v] = [op |-> "ask", on |-> Nothing.on, row |-> row]]
    BY <2>1 DEF row
  <2>5. QED
    BY <2>2, <2>3, <2>4 DEF FormWasChecked, MapsWereDelivered, NewRequestsAreBare, WorkIsPaidFor
<1>2. CASE CreatesRequest(v)
  <2>1. PICK h \in HelpRequest : help' = [help EXCEPT ![h] = visit[v].row]
    BY <1>2 DEF CreatesRequest
  <2>2. visit[v].op = "ask" /\ visit' = [visit EXCEPT ![v] = Nothing] /\ UNCHANGED <<delivered, validated, desk>>
    BY <1>2 DEF CreatesRequest, Leaves
  <2>3. QED
    BY <2>1, <2>2, <1>0 DEF FormWasChecked, MapsWereDelivered, NewRequestsAreBare, WorkIsPaidFor, Nothing
<1>3. CASE Replies(v)
  <2>1. /\ help' = [help EXCEPT ![visit[v].on].status = "submitted", ![visit[v].on].replied = TRUE]
        /\ visit' = [visit EXCEPT ![v] = Nothing] /\ UNCHANGED <<delivered, validated, desk>>
    BY <1>3 DEF Replies, Leaves
  <2> DEFINE row == [help[visit[v].on] EXCEPT !.status = "submitted", !.replied = TRUE]
  <2>a. visit[v].on \in HelpRequest => row \in HelpRow
    BY <1>0
  <2>b. help' = [help EXCEPT ![visit[v].on] = row]
    BY <2>1
  <2>2. help' \in [HelpRequest -> HelpRow]
    <3> HIDE DEF row
    <3>1. QED BY <2>a, <2>b
  <2>3. \A h \in HelpRequest :
          /\ help'[h].paid = help[h].paid /\ help'[h].map = help[h].map
          /\ help'[h].status = help[h].status \/ help'[h].status = "submitted"
    BY <2>1
  <2>4. FormWasChecked'
    BY <2>1 DEF FormWasChecked
  <2>5. MapsWereDelivered'
    BY <2>1, <2>3 DEF MapsWereDelivered
  <2>6. WorkIsPaidFor'
    BY <2>1, <2>3 DEF WorkIsPaidFor
  <2>7. visit' \in [Visitor -> Moment] /\ \A w \in Visitor \ {v} : visit'[w] = visit[w]
    BY <2>1, <1>0
  <2>8. visit'[v].op # "ask"
    BY <2>1 DEF Nothing
  <2>9. NewRequestsAreBare'
    <3> SUFFICES ASSUME NEW w \in Visitor, visit'[w].op = "ask"
                 PROVE  visit'[w].row.status = "submitted" /\ ~visit'[w].row.map
      BY DEF NewRequestsAreBare
    <3>1. visit'[w] = visit[w]
      BY <2>7, <2>8
    <3>2. QED BY <3>1 DEF NewRequestsAreBare
  <2>10. QED
    BY <2>1, <2>2, <2>4, <2>5, <2>6, <2>7, <2>9
<1>4. CASE \E h \in HelpRequest : ReadsQuestion(v, h)
  <2>1. PICK h \in HelpRequest : visit' = [visit EXCEPT ![v] = [op |-> "reply", on |-> h, row |-> NoRequest]]
    BY <1>4 DEF ReadsQuestion, Visits
  <2>2. UNCHANGED <<help, delivered, validated, desk>>
    BY <1>4 DEF ReadsQuestion
  <2>3. QED
    BY <2>1, <2>2, <1>0 DEF FormWasChecked, MapsWereDelivered, NewRequestsAreBare, WorkIsPaidFor
<1>5. QED BY <1>1, <1>2, <1>3, <1>4

(* ... and the staff's, with the equipment's tests.                        *)
LEMMA StaffStep ==
    ASSUME HelpInv,
           \/ PostsForm \/ SavesForm \/ LeavesForm \/ ReadingsConfirmed
           \/ \E h \in HelpRequest : OpensForm(h) \/ Delivers(h) \/ LinksEquipment(h)
    PROVE  HelpInv'
<1> USE DEF HelpInv, Moment, HelpRow
<1>0. NoRequest \in HelpRow /\ Nothing \in Moment /\ Nothing.op = "nothing"
  BY DEF NoRequest, HelpStatus, Nothing
<1>1. CASE PostsForm
  <2>1. PICK status \in HelpStatus, paid \in BOOLEAN, linked \in {desk.row.linked, TRUE} :
          LET row == [desk.row EXCEPT !.status = status, !.paid = paid, !.linked = linked, !.map = help[desk.on].map]
          IN  Clean(help[desk.on].status, row) /\ desk' = [op |-> "posted", on |-> desk.on, row |-> row]
    BY <1>1 DEF PostsForm
  <2> DEFINE row == [desk.row EXCEPT !.status = status, !.paid = paid, !.linked = linked, !.map = help[desk.on].map]
  <2>2. desk.op = "open" /\ desk.on \in HelpRequest /\ UNCHANGED <<help, delivered, validated, visit>>
    BY <1>1 DEF PostsForm, MapsWereDelivered
  <2>3. row \in HelpRow /\ row.status = status /\ row.paid = paid /\ row.map = help[desk.on].map
    BY <2>2
  <2>4. Clean(help[desk.on].status, row) /\ desk' = [op |-> "posted", on |-> desk.on, row |-> row]
    BY <2>1
  <2> HIDE DEF row
  <2>5. FormWasChecked'
    BY <2>3, <2>4 DEF Clean, FormWasChecked
  <2>6. MapsWereDelivered'
    BY <2>2, <2>3, <2>4 DEF MapsWereDelivered
  <2>7. desk' \in Moment
    BY <2>2, <2>3, <2>4
  <2>8. QED
    BY <2>2, <2>5, <2>6, <2>7 DEF NewRequestsAreBare, WorkIsPaidFor
<1>2. CASE SavesForm
  BY <1>2, <1>0 DEF SavesForm, FormWasChecked, MapsWereDelivered, NewRequestsAreBare, WorkIsPaidFor
<1>3. CASE LeavesForm
  BY <1>3, <1>0 DEF LeavesForm, FormWasChecked, MapsWereDelivered, NewRequestsAreBare, WorkIsPaidFor
<1>4. CASE ReadingsConfirmed
  BY <1>4 DEF ReadingsConfirmed, FormWasChecked, MapsWereDelivered, NewRequestsAreBare, WorkIsPaidFor
<1>5. ASSUME NEW h \in HelpRequest, OpensForm(h) PROVE HelpInv'
  BY <1>5 DEF OpensForm, FormWasChecked, MapsWereDelivered, NewRequestsAreBare, WorkIsPaidFor
<1>6. ASSUME NEW h \in HelpRequest, Delivers(h) PROVE HelpInv'
  <2>1. /\ help[h].paid /\ delivered' = [delivered EXCEPT ![h] = delivered[h] + 1]
        /\ help' = [help EXCEPT ![h] = [help[h] EXCEPT !.map = TRUE, !.status = "ready_to_test"]]
        /\ UNCHANGED <<desk, visit>>
    BY <1>6 DEF Delivers
  <2> DEFINE row == [help[h] EXCEPT !.map = TRUE, !.status = "ready_to_test"]
  <2>a. row \in HelpRow
    BY DEF HelpStatus
  <2>b. help' = [help EXCEPT ![h] = row]
    BY <2>1
  <2>2. help' \in [HelpRequest -> HelpRow]
    <3> HIDE DEF row
    <3>1. QED BY <2>a, <2>b
  <2>3. /\ help'[h].map /\ help'[h].paid
        /\ \A g \in HelpRequest : g # h => help'[g] = help[g]
    BY <2>1
  <2>4. delivered' \in [HelpRequest -> Nat] /\ delivered'[h] > 0 /\ \A g \in HelpRequest : delivered'[g] >= delivered[g]
    BY <2>1
  <2>5. MapsWereDelivered'
    BY <2>1, <2>3, <2>4 DEF MapsWereDelivered
  <2>6. WorkIsPaidFor'
    BY <2>3, <2>4 DEF WorkIsPaidFor
  <2>7. QED BY <2>1, <2>2, <2>4, <2>5, <2>6 DEF FormWasChecked, NewRequestsAreBare
<1>7. ASSUME NEW h \in HelpRequest, LinksEquipment(h) PROVE HelpInv'
  <2> DEFINE row == [help[h] EXCEPT !.linked = TRUE]
  <2>1. /\ row \in HelpRow /\ row.map = help[h].map /\ row.paid = help[h].paid
        /\ row.status = help[h].status
    OBVIOUS
  <2>2. help' = [help EXCEPT ![h] = row] /\ UNCHANGED <<delivered, desk, visit>>
    BY <1>7 DEF LinksEquipment
  <2> HIDE DEF row
  <2>3. QED
    BY <2>1, <2>2 DEF FormWasChecked, MapsWereDelivered, NewRequestsAreBare, WorkIsPaidFor
<1>8. QED BY <1>1, <1>2, <1>3, <1>4, <1>5, <1>6, <1>7

LEMMA HelpStepInv == HelpInv /\ [HelpNext]_helpVars => HelpInv'
<1>1. HelpInv /\ HelpNext => HelpInv'
  BY CustomerStep, StaffStep DEF HelpNext
<1>2. HelpInv /\ UNCHANGED helpVars => HelpInv'
  BY DEF HelpInv, helpVars, FormWasChecked, MapsWereDelivered, NewRequestsAreBare, WorkIsPaidFor, Moment
<1>3. QED BY <1>1, <1>2

(* Work on a request is paid for or waived, and a map that is announced    *)
(* was delivered, however many forms, replies and deliveries overlap.      *)
THEOREM WorkPaidFor == HelpSpec => []WorkIsPaidFor
<1>1. HelpInv => WorkIsPaidFor
  BY DEF HelpInv
<1>2. QED BY <1>1, HelpInitInv, HelpStepInv, PTL DEF HelpSpec

-----------------------------------------------------------------------------
(* The Command Center's layouts: types, and a row without a key is no row. *)
RowsHaveKeys ==
    /\ personal.stamp = NoStamp => personal = NoRow
    /\ teamDefault.stamp = NoStamp => teamDefault = NoRow

LayoutInv == LayoutTypeOK /\ RowsHaveKeys

LEMMA LayoutParts ==
    /\ NoStamp \in Stamp /\ NoRow \in LayoutRow /\ NoRow.stamp = NoStamp /\ NoAnswer \in LayoutAnswer
    /\ \A row \in LayoutRow : row.stamp \in Stamp /\ row.layout \in Layout
<1>1. NoStamp \in Stamp
  BY DEF Stamp
<1>2. NovenaDefault \in Layout
  BY DEF NovenaDefault, Layout
<1>3. QED BY <1>1, <1>2 DEF NoRow, LayoutRow, NoAnswer, LayoutAnswer

(* What a save, a publication and a reset write.                           *)
LEMMA StoredRow ==
    ASSUME LayoutTypeOK, NEW row \in LayoutRow, row.stamp = NoStamp => row = NoRow,
           MayStore(row), CountsRow(row), NEW layout \in Layout
    PROVE  /\ [stamp |-> NextStamp(row), layout |-> layout] \in LayoutRow
           /\ NextStamp(row) # NoStamp
           /\ lastRow' \in 0 .. MaxLayoutRows
<1>1. lastRow \in 0 .. MaxLayoutRows
  BY DEF LayoutTypeOK
<1>2. CASE row = NoRow
  <2>1. lastRow + 1 \in 1 .. MaxLayoutRows /\ 1 \in 1 .. MaxRevision
    BY <1>1, <1>2, LayoutAssumption DEF MayStore
  <2>2. NextStamp(row) = [pk |-> lastRow + 1, revision |-> 1] /\ lastRow' = lastRow + 1
    BY <1>2 DEF NextStamp, CountsRow
  <2>3. lastRow + 1 # 0
    BY <1>1
  <2>4. NextStamp(row) \in Stamp /\ NextStamp(row) # NoStamp
    BY <2>1, <2>2, <2>3 DEF Stamp, NoStamp
  <2>5. QED BY <2>1, <2>2, <2>4 DEF LayoutRow
<1>3. CASE row # NoRow
  <2>1. row.stamp \in [pk : 1 .. MaxLayoutRows, revision : 1 .. MaxRevision]
    BY <1>3, LayoutParts DEF Stamp
  <2>2. NextStamp(row) = [row.stamp EXCEPT !.revision = row.stamp.revision + 1] /\ lastRow' = lastRow
    BY <1>3 DEF NextStamp, CountsRow
  <2>3. row.stamp.revision + 1 \in 1 .. MaxRevision
    BY <2>1, <1>3, LayoutAssumption DEF MayStore
  <2>4. NextStamp(row) \in [pk : 1 .. MaxLayoutRows, revision : 1 .. MaxRevision]
    BY <2>1, <2>2, <2>3
  <2>5. NextStamp(row) \in Stamp /\ NextStamp(row) # NoStamp
    BY <2>4 DEF Stamp, NoStamp
  <2>6. QED BY <1>1, <2>2, <2>5 DEF LayoutRow
<1>4. QED BY <1>2, <1>3

LEMMA LayoutsTyped ==
    LayoutTypeOK => /\ Resolved \in Layout
                    /\ \A submitted \in SubmittedPanels : Merged(Resolved, submitted) \in Layout
<1> SUFFICES ASSUME LayoutTypeOK PROVE Resolved \in Layout /\ \A submitted \in SubmittedPanels : Merged(Resolved, submitted) \in Layout
  OBVIOUS
<1>1. NovenaDefault \in Layout
  BY DEF NovenaDefault, Layout
<1>2. Resolved \in Layout
  BY <1>1, LayoutParts DEF Resolved, LayoutTypeOK
<1>3. ASSUME NEW submitted \in SubmittedPanels PROVE Merged(Resolved, submitted) \in Layout
  <2>1. PICK panels \in SUBSET Panel : submitted \in [panels -> {"shown", "hidden"}]
    BY <1>3 DEF SubmittedPanels
  <2>2. QED BY <2>1, <1>2 DEF Merged, Layout
<1>4. QED BY <1>2, <1>3

LEMMA LayoutInitInv == LayoutInit => LayoutInv
<1> SUFFICES ASSUME LayoutInit PROVE LayoutInv
  OBVIOUS
<1>1. personal \in LayoutRow /\ teamDefault \in LayoutRow /\ RowsHaveKeys
  BY LayoutParts DEF LayoutInit, RowsHaveKeys
<1>2. lastRow \in 0 .. MaxLayoutRows
  <2>1. lastRow = 0
    BY DEF LayoutInit
  <2>2. QED BY <2>1, LayoutAssumption
<1>6. impactShown \in BOOLEAN
  BY Zenon DEF LayoutInit
<1>3. mine \in [Tab -> Stamp] /\ ours \in [Tab -> Stamp] /\ seen \in [Tab -> Stamp]
  BY LayoutParts DEF LayoutInit
<1>4. mode \in [Tab -> {"viewing", "editing"}] /\ answer \in [Tab -> LayoutAnswer]
  BY LayoutParts DEF LayoutInit
<1>5. QED BY <1>1, <1>2, <1>3, <1>4, <1>6 DEF LayoutInv, LayoutTypeOK

(* A command's answer carries the stamps of what the command left.         *)
LEMMA AnswersTyped ==
    ASSUME LayoutInv, NEW t \in Tab, LayoutAnswers(t), personal' \in LayoutRow, teamDefault' \in LayoutRow
    PROVE  answer' \in [Tab -> LayoutAnswer] /\ UNCHANGED <<impactShown, mode, mine, ours, seen>>
<1>1. personal'.stamp \in Stamp /\ teamDefault'.stamp \in Stamp
  BY LayoutParts
<1>2. QED BY <1>1 DEF LayoutAnswers, LayoutAnswer, LayoutInv, LayoutTypeOK

LEMMA LayoutStepInv == LayoutInv /\ [LayoutNext]_layoutVars => LayoutInv'
<1> SUFFICES ASSUME LayoutInv, [LayoutNext]_layoutVars PROVE LayoutInv'
  OBVIOUS
<1>t. LayoutTypeOK /\ RowsHaveKeys
  BY DEF LayoutInv
<1>s. personal.stamp \in Stamp /\ teamDefault.stamp \in Stamp
  BY <1>t, LayoutParts DEF LayoutTypeOK
<1>1. ASSUME NEW t \in Tab, LoadCommandCenter(t) \/ Refresh(t) \/ Customize(t) \/ CancelEdit(t)
      PROVE LayoutInv'
  BY <1>1, <1>t, <1>s, LayoutParts
     DEF LoadCommandCenter, Refresh, Customize, CancelEdit, Binds, LayoutInv, LayoutTypeOK, RowsHaveKeys, rowVars
<1>2. ASSUME NEW t \in Tab, HearAnswer(t) PROVE LayoutInv'
  <2>1. answer[t].mine \in Stamp /\ answer[t].ours \in Stamp
    BY <1>t DEF LayoutTypeOK, LayoutAnswer
  <2>2. QED
    BY <1>2, <2>1, <1>t, LayoutParts DEF HearAnswer, LayoutInv, LayoutTypeOK, RowsHaveKeys, rowVars
<1>3. ASSUME NEW t \in Tab, SavePersonal(t) PROVE LayoutInv'
  <2>1. PICK submitted \in SubmittedPanels :
          personal' = [stamp |-> NextStamp(personal), layout |-> Merged(Resolved, submitted)]
    BY <1>3 DEF SavePersonal
  <2>2. personal' \in LayoutRow /\ personal'.stamp # NoStamp /\ lastRow' \in 0 .. MaxLayoutRows
    BY <2>1, <1>3, <1>t, StoredRow, LayoutsTyped DEF SavePersonal, LayoutTypeOK, RowsHaveKeys
  <2>3. personal'.stamp \in Stamp
    BY <2>2, LayoutParts
  <2>4. QED
    BY <1>3, <2>2, <2>3, <1>t, <1>s DEF SavePersonal, LayoutInv, LayoutTypeOK, RowsHaveKeys
<1>4. ASSUME NEW t \in Tab, ResetPersonal(t) PROVE LayoutInv'
  <2>1. personal' = NoRow /\ UNCHANGED <<teamDefault, lastRow>> /\ LayoutAnswers(t)
    BY <1>4 DEF ResetPersonal
  <2>2. answer' \in [Tab -> LayoutAnswer] /\ UNCHANGED <<impactShown, mode, mine, ours, seen>>
    BY <2>1, <1>t, AnswersTyped, LayoutParts DEF LayoutInv, LayoutTypeOK
  <2>3. QED BY <2>1, <2>2, <1>t, LayoutParts DEF LayoutInv, LayoutTypeOK, RowsHaveKeys
<1>5. ASSUME NEW t \in Tab, RemoveDefault(t) PROVE LayoutInv'
  <2>1. teamDefault' = NoRow /\ UNCHANGED <<personal, lastRow>> /\ LayoutAnswers(t)
    BY <1>5 DEF RemoveDefault
  <2>2. answer' \in [Tab -> LayoutAnswer] /\ UNCHANGED <<impactShown, mode, mine, ours, seen>>
    BY <2>1, <1>t, AnswersTyped, LayoutParts DEF LayoutInv, LayoutTypeOK
  <2>3. QED BY <2>1, <2>2, <1>t, LayoutParts DEF LayoutInv, LayoutTypeOK, RowsHaveKeys
<1>6. ASSUME NEW t \in Tab, PublishDefault(t) PROVE LayoutInv'
  <2>1. /\ teamDefault' = [stamp |-> NextStamp(teamDefault), layout |-> Resolved]
        /\ CountsRow(teamDefault) /\ MayStore(teamDefault) /\ UNCHANGED personal /\ LayoutAnswers(t)
    BY <1>6 DEF PublishDefault
  <2>2. teamDefault' \in LayoutRow /\ teamDefault'.stamp # NoStamp /\ lastRow' \in 0 .. MaxLayoutRows
    BY <2>1, <1>t, StoredRow, LayoutsTyped DEF LayoutTypeOK, RowsHaveKeys
  <2>3. answer' \in [Tab -> LayoutAnswer] /\ UNCHANGED <<impactShown, mode, mine, ours, seen>>
    BY <2>1, <2>2, <1>t, AnswersTyped DEF LayoutInv, LayoutTypeOK
  <2>4. QED BY <2>1, <2>2, <2>3, <1>t DEF LayoutInv, LayoutTypeOK, RowsHaveKeys
<1>7. CASE ImpactChanges
  BY <1>7, <1>t DEF ImpactChanges, LayoutInv, LayoutTypeOK, RowsHaveKeys, rowVars, tabVars
<1>8. CASE UNCHANGED layoutVars
  BY <1>8, <1>t DEF LayoutInv, LayoutTypeOK, RowsHaveKeys, layoutVars, rowVars, tabVars
<1>9. QED BY <1>1, <1>2, <1>3, <1>4, <1>5, <1>6, <1>7, <1>8 DEF LayoutNext

(* The variables of the layouts keep their types.                          *)
THEOREM LayoutTypeCorrect == LayoutSpec => []LayoutTypeOK
<1>1. LayoutInv => LayoutTypeOK
  BY DEF LayoutInv
<1>2. QED BY <1>1, LayoutInitInv, LayoutStepInv, PTL DEF LayoutSpec

(* Of a row with the key a tab knows, only the revision it knows may be    *)
(* replaced by what that tab sends.                                        *)
LEMMA ReplacementStep ==
    ASSUME LayoutInv, [LayoutNext]_layoutVars, NEW t \in Tab, mine'[t] # mine[t] \/ answer'[t] # answer[t]
    PROVE  /\ personal' # personal /\ mine[t].pk = personal.stamp.pk => mine[t] = personal.stamp
           /\ teamDefault' # teamDefault /\ ours[t].pk = teamDefault.stamp.pk => ours[t] = teamDefault.stamp
<1>t. LayoutTypeOK
  BY DEF LayoutInv
<1>1. \A a, b \in Stamp : a.pk = b.pk /\ a.revision = b.revision => a = b
  BY DEF Stamp, NoStamp
<1>2. mine[t] \in Stamp /\ ours[t] \in Stamp /\ personal.stamp \in Stamp /\ teamDefault.stamp \in Stamp
  BY <1>t, LayoutParts DEF LayoutTypeOK
<1>3. ASSUME personal' # personal PROVE mine[t].revision = personal.stamp.revision
  <2>1. PICK u \in Tab : SavePersonal(u) \/ ResetPersonal(u)
    BY <1>3 DEF LayoutNext, layoutVars, rowVars, LoadCommandCenter, Refresh, Customize, CancelEdit,
                HearAnswer, PublishDefault, RemoveDefault, ImpactChanges
  <2>2. u = t
    BY <2>1, <1>t DEF SavePersonal, ResetPersonal, LayoutAnswers, LayoutTypeOK
  <2>3. QED BY <2>1, <2>2 DEF SavePersonal, ResetPersonal, SameRevision
<1>4. ASSUME teamDefault' # teamDefault PROVE ours[t].revision = teamDefault.stamp.revision
  <2>1. PICK u \in Tab : PublishDefault(u) \/ RemoveDefault(u)
    BY <1>4 DEF LayoutNext, layoutVars, rowVars, LoadCommandCenter, Refresh, Customize, CancelEdit,
                HearAnswer, SavePersonal, ResetPersonal, ImpactChanges
  <2>2. u = t
    BY <2>1, <1>t DEF PublishDefault, RemoveDefault, LayoutAnswers, LayoutTypeOK
  <2>3. QED BY <2>1, <2>2 DEF PublishDefault, RemoveDefault, SameRevision
<1>5. QED BY <1>1, <1>2, <1>3, <1>4

(* A layout is replaced only by a tab that holds its newest revision.      *)
THEOREM OnlyKnownRowsReplaced == LayoutSpec => ReplacesWhatItKnows
<1>1. LayoutInv /\ [LayoutNext]_layoutVars
        => [\A t \in Tab : mine'[t] # mine[t] \/ answer'[t] # answer[t] =>
              /\ personal' # personal /\ mine[t].pk = personal.stamp.pk => mine[t] = personal.stamp
              /\ teamDefault' # teamDefault /\ ours[t].pk = teamDefault.stamp.pk => ours[t] = teamDefault.stamp]_layoutVars
  BY ReplacementStep
<1>2. QED BY <1>1, LayoutInitInv, LayoutStepInv, PTL DEF LayoutSpec, ReplacesWhatItKnows

-----------------------------------------------------------------------------
(* Equipment drafts: what each page shows, was posted and holds, with the  *)
(* rows there are.                                                         *)
RefRecord == [place : Nat, id : 0 .. MaxRows, key : Endpoint]
PostRecord == [kind : {"none", "draft", "test", "edit", "retry"}, conn : Endpoint \cup {Nil},
               template : Template \cup {Nil}, meant : Endpoint \cup {Nil}]
PageRecord == [at : {"away", "shown", "posted", "saved", "prepared", "editing", "typed"},
               ref : RefRecord \cup {Nil}, post : PostRecord, id : 0 .. MaxRows, row : DraftRow \cup {Nil}]

(* A page of a run with n rows: it names one of them and holds a copy, and *)
(* from the post on it keeps to the endpoint that the customer meant.      *)
PageFits(sheet, n) ==
    /\ sheet \in PageRecord /\ sheet.id <= n
    /\ sheet.at = "shown" => sheet.ref \in RefRecord
    /\ sheet.at \in {"posted", "saved", "editing"} => sheet.post.conn \in Endpoint
    /\ sheet.at = "posted" /\ sheet.id # 0 => sheet.row \in DraftRow
    /\ sheet.at \in {"saved", "prepared", "editing"} => sheet.id # 0
    /\ sheet.at \in {"saved", "prepared", "editing", "typed"} => sheet.row \in DraftRow
    /\ sheet.at \in {"posted", "saved"} /\ sheet.post.kind = "test" => sheet.post.conn = sheet.post.meant
    /\ sheet.at = "saved" => sheet.row.conn = sheet.post.conn
    /\ sheet.at \in {"editing", "prepared"} => sheet.row.conn = sheet.post.meant

RowsFit ==
    /\ draftRows \in Seq(DraftRow) /\ Len(draftRows) <= MaxRows
    /\ DOMAIN listed \subseteq Nat /\ \A k \in DOMAIN listed : listed[k] \in Endpoint
    /\ made \in 0 .. MaxDevices /\ devices \subseteq 1 .. made

PagesFit ==
    /\ draftPage \in [DraftPage -> PageRecord]
    /\ \A p \in DraftPage : PageFits(draftPage[p], Len(draftRows))

DraftInv == RowsFit /\ PagesFit

LEMMA AwayFits == \A n \in Nat : PageFits(Away, n)
<1>1. NoPost \in PostRecord
  BY DEF NoPost, PostRecord
<1>2. Away \in PageRecord /\ Away.at = "away" /\ Away.id = 0
  BY <1>1, DraftAssumption DEF Away, PageRecord
<1>3. QED BY <1>2 DEF PageFits

(* A step is safe when the rows fit, none is removed, and the page that    *)
(* makes it fits them.                                                     *)
LEMMA PageStep ==
    ASSUME DraftInv, RowsFit', Len(draftRows) <= Len(draftRows'),
           NEW p \in DraftPage, NEW sheet, Stays(p, sheet), PageFits(sheet, Len(draftRows'))
    PROVE  DraftInv'
<1>1. draftPage' = [draftPage EXCEPT ![p] = sheet]
  BY DEF Stays
<1>2. Len(draftRows) \in Nat /\ Len(draftRows') \in Nat
  BY LenProperties DEF DraftInv, RowsFit
<1>3. \A q \in DraftPage : PageFits(draftPage[q], Len(draftRows'))
  BY <1>2 DEF PageFits, DraftInv, PagesFit, PageRecord
<1>4. sheet \in PageRecord
  BY DEF PageFits
<1>5. draftPage' \in [DraftPage -> PageRecord]
  BY <1>1, <1>4 DEF DraftInv, PagesFit
<1>6. ASSUME NEW q \in DraftPage PROVE PageFits(draftPage'[q], Len(draftRows'))
  <2>1. draftPage'[q] = IF q = p THEN sheet ELSE draftPage[q]
    BY <1>1 DEF DraftInv, PagesFit
  <2>2. QED BY <2>1, <1>3
<1>7. QED BY <1>5, <1>6 DEF DraftInv, PagesFit

LEMMA AnswerStep ==
    ASSUME DraftInv, RowsFit', Len(draftRows) <= Len(draftRows'), NEW p \in DraftPage, Answers(p)
    PROVE  DraftInv'
<1>1. Len(draftRows') \in Nat
  BY LenProperties DEF RowsFit
<1>2. QED BY <1>1, AwayFits, PageStep DEF Answers

(* The rows after one is rewritten, or added.                              *)
LEMMA RowRewritten ==
    ASSUME RowsFit, NEW i \in 1 .. Len(draftRows), NEW row \in DraftRow,
           draftRows' = [draftRows EXCEPT ![i] = row]
    PROVE  draftRows' \in Seq(DraftRow) /\ Len(draftRows') = Len(draftRows)
BY ExceptSeq DEF RowsFit

LEMMA RowAdded ==
    ASSUME RowsFit, NEW row \in DraftRow, draftRows' = Append(draftRows, row)
    PROVE  draftRows' \in Seq(DraftRow) /\ Len(draftRows') = Len(draftRows) + 1
BY AppendProperties DEF RowsFit

LEMMA RowsTyped ==
    ASSUME RowsFit
    PROVE  /\ DOMAIN draftRows = 1 .. Len(draftRows) /\ Len(draftRows) \in 0 .. MaxRows
           /\ \A i \in DOMAIN draftRows : draftRows[i] \in DraftRow
<1>1. /\ Len(draftRows) \in Nat /\ DOMAIN draftRows = 1 .. Len(draftRows)
      /\ draftRows \in [1 .. Len(draftRows) -> DraftRow]
  BY LenProperties DEF RowsFit
<1>2. QED BY <1>1, DraftAssumption DEF RowsFit

LEMMA OnlyIsOne == ASSUME NEW ids, ids # {} PROVE Only(ids) \in ids
  BY DEF Only

LEMMA DraftInitInv == DraftInit => DraftInv
<1> SUFFICES ASSUME DraftInit PROVE DraftInv
  OBVIOUS
<1>1. draftRows \in Seq(DraftRow) /\ Len(draftRows) = 0
  BY EmptySeq DEF DraftInit
<1>2. DOMAIN listed = {}
  BY DEF DraftInit
<1>3. RowsFit
  BY <1>1, <1>2, DraftAssumption DEF DraftInit, RowsFit
<1>4. PageFits(Away, Len(draftRows))
  BY <1>1, AwayFits
<1>5. QED BY <1>3, <1>4 DEF DraftInit, DraftInv, PagesFit, PageFits

(* The page is shown, posts, or is refused.                                *)
LEMMA ShowsStep == ASSUME DraftInv, NEW p \in DraftPage, Shows(p) PROVE DraftInv'
<1>1. PICK ref \in Refs : Stays(p, [Away EXCEPT !.at = "shown", !.ref = ref])
  BY DEF Shows
<1>2. UNCHANGED <<listed, draftRows, made, devices>>
  BY DEF Shows
<1>3. RowsFit' /\ RowsFit
  BY <1>2 DEF RowsFit, DraftInv
<1>4. ref \in RefRecord
  <2>1. CASE \E k \in DOMAIN listed : ref = [place |-> k, id |-> 0, key |-> listed[k]]
    <3>1. PICK k \in DOMAIN listed : ref = [place |-> k, id |-> 0, key |-> listed[k]]
      BY <2>1
    <3>2. k \in Nat /\ listed[k] \in Endpoint /\ 0 \in 0 .. MaxRows
      BY <1>3, DraftAssumption DEF RowsFit
    <3>3. QED BY <3>1, <3>2 DEF RefRecord
  <2>2. CASE \E i \in DOMAIN draftRows : ref = [place |-> 0, id |-> i, key |-> draftRows[i].key]
    <3>1. PICK i \in DOMAIN draftRows : ref = [place |-> 0, id |-> i, key |-> draftRows[i].key]
      BY <2>2
    <3>2. i \in 0 .. MaxRows /\ draftRows[i].key \in Endpoint
      BY <1>3, RowsTyped, DraftAssumption DEF DraftRow
    <3>3. QED BY <3>1, <3>2 DEF RefRecord
  <2>3. QED BY <2>1, <2>2 DEF Refs
<1>5. PageFits([Away EXCEPT !.at = "shown", !.ref = ref], Len(draftRows))
  <2> DEFINE sheet == [Away EXCEPT !.at = "shown", !.ref = ref]
  <2>1. Away \in PageRecord /\ Away.id = 0
    BY AwayFits DEF PageFits, Away
  <2>2. sheet \in PageRecord /\ sheet.at = "shown" /\ sheet.ref = ref /\ sheet.id = 0
    BY <2>1, <1>4 DEF PageRecord
  <2>3. Len(draftRows) \in 0 .. MaxRows
    BY <1>3, RowsTyped
  <2> HIDE DEF sheet
  <2>4. PageFits(sheet, Len(draftRows))
    BY <2>2, <2>3, <1>4 DEF PageFits
  <2>5. QED BY <2>4 DEF sheet
<1>6. QED BY <1>1, <1>2, <1>3, <1>5, PageStep, RowsTyped

LEMMA PostsStep == ASSUME DraftInv, NEW p \in DraftPage, Posts(p) PROVE DraftInv'
<1> DEFINE ref == draftPage[p].ref
           id == IF ref.id # 0 THEN ref.id ELSE Only(DraftsOf(listed[ref.place]))
<1>1. /\ draftPage[p].at = "shown"
      /\ IF ref.id # 0 THEN StillDraft(ref) ELSE StillThere(ref)
      /\ \E kind \in {"draft", "test"}, u \in Unit, t \in Template \cup {Nil} :
           /\ kind = "test" => ref.id = 0 /\ t # Nil
           /\ Stays(p, [Away EXCEPT !.at = "posted", !.id = id, !.row = IF id = 0 THEN Nil ELSE draftRows[id],
                   !.post = [kind |-> kind, conn |-> <<Found(ref)[1], u>>, template |-> t, meant |-> <<ref.key[1], u>>]])
      /\ UNCHANGED <<listed, draftRows, made, devices>>
  BY DEF Posts, DraftAt
<1>2. PICK kind \in {"draft", "test"}, u \in Unit, t \in Template \cup {Nil} :
           /\ kind = "test" => ref.id = 0 /\ t # Nil
           /\ Stays(p, [Away EXCEPT !.at = "posted", !.id = id, !.row = IF id = 0 THEN Nil ELSE draftRows[id],
                   !.post = [kind |-> kind, conn |-> <<Found(ref)[1], u>>, template |-> t, meant |-> <<ref.key[1], u>>]])
  BY <1>1
<1>3. RowsFit' /\ RowsFit
  BY <1>1 DEF RowsFit, DraftInv
<1>4. ref \in RefRecord
  BY <1>1 DEF DraftInv, PagesFit, PageFits
<1> HIDE DEF ref
<1>5. id \in 0 .. Len(draftRows)
  <2>1. CASE ref.id # 0
    BY <2>1, <1>1, <1>3, RowsTyped DEF StillDraft
  <2>2. CASE ref.id = 0 /\ DraftsOf(listed[ref.place]) # {}
    <3>1. Only(DraftsOf(listed[ref.place])) \in DOMAIN draftRows
      BY <2>2, OnlyIsOne DEF DraftsOf
    <3>2. QED BY <3>1, <2>2, <1>3, RowsTyped
  <2>3. CASE ref.id = 0 /\ DraftsOf(listed[ref.place]) = {}
    BY <2>3, <1>3, RowsTyped DEF Only
  <2>4. QED BY <2>1, <2>2, <2>3
<1> DEFINE row == IF id = 0 THEN Nil ELSE draftRows[id]
           conn == <<Found(ref)[1], u>>
           meant == <<ref.key[1], u>>
           post == [kind |-> kind, conn |-> conn, template |-> t, meant |-> meant]
           sheet == [Away EXCEPT !.at = "posted", !.id = id, !.row = row, !.post = post]
<1>6. row \in DraftRow \cup {Nil} /\ (id # 0 => row \in DraftRow)
  BY <1>5, <1>3, RowsTyped
<1>7. conn \in Endpoint /\ meant \in Endpoint /\ (kind = "test" => conn = meant)
  <2>1. meant \in Endpoint
    BY <1>4 DEF RefRecord, Endpoint
  <2>2. CASE ref.id # 0
    <3>1. draftRows[ref.id].conn \in Endpoint
      BY <2>2, <1>1, <1>3, RowsTyped DEF StillDraft, DraftRow
    <3>2. QED BY <3>1, <2>1, <2>2, <1>2 DEF Found, Endpoint
  <2>3. CASE ref.id = 0
    <3>1. Found(ref) = ref.key
      BY <2>3, <1>1 DEF Found, StillThere
    <3>2. QED BY <3>1, <2>1
  <2>4. QED BY <2>2, <2>3
<1> HIDE DEF row, conn, meant, id
<1>8. post \in PostRecord
  BY <1>7 DEF PostRecord
<1>9. Away \in PageRecord
  BY AwayFits DEF PageFits
<1>10. Len(draftRows) \in 0 .. MaxRows
  BY <1>3, RowsTyped
<1>a. id \in 0 .. MaxRows
  BY <1>5, <1>10, DraftAssumption
<1> HIDE DEF post
<1>c. sheet.at = "posted" /\ sheet.post = post /\ sheet.id = id /\ sheet.row = row
  BY <1>9 DEF PageRecord
<1>d. sheet \in PageRecord
  BY <1>a, <1>6, <1>8, <1>9 DEF PageRecord
<1>11. PageFits(sheet, Len(draftRows))
  BY <1>5, <1>6, <1>7, <1>c, <1>d, <1>10 DEF PageFits, post
<1>12. Stays(p, sheet)
  BY <1>2 DEF row, conn, meant, id, post
<1> HIDE DEF sheet
<1>13. QED BY <1>1, <1>3, <1>10, <1>11, <1>12, PageStep

LEMMA RefusalStep ==
    ASSUME DraftInv, NEW p \in DraftPage, Refuses(p) \/ RemovesDraft(p)
    PROVE  DraftInv'
<1>t. RowsFit
  BY DEF DraftInv
<1>1. CASE Refuses(p)
  BY <1>1, <1>t, AnswerStep, RowsTyped DEF Refuses, RowsFit
<1>2. CASE RemovesDraft(p)
  <2> DEFINE i == draftPage[p].ref.id
             row == [draftRows[i] EXCEPT !.removed = TRUE]
  <2>1. i \in DOMAIN draftRows /\ Answers(p) /\ UNCHANGED <<listed, made, devices>>
    BY <1>2 DEF RemovesDraft, StillDraft
  <2>2. row \in DraftRow
    BY <2>1, <1>t, RowsTyped DEF DraftRow
  <2>3. draftRows' = [draftRows EXCEPT ![i] = row]
    BY <1>2 DEF RemovesDraft
  <2>4. draftRows' \in Seq(DraftRow) /\ Len(draftRows') = Len(draftRows)
    <3> HIDE DEF row, i
    <3>1. QED BY <2>1, <2>2, <2>3, <1>t, RowsTyped, RowRewritten
  <2>5. RowsFit'
    BY <2>1, <2>4, <1>t DEF RowsFit
  <2>6. QED BY <2>1, <2>4, <2>5, <1>t, AnswerStep, RowsTyped
<1>3. QED BY <1>1, <1>2

(* The first save: the row becomes the posted endpoint's.                  *)
LEMMA SavesRowStep == ASSUME DraftInv, NEW p \in DraftPage, SavesRow(p) PROVE DraftInv'
<1> DEFINE conn == draftPage[p].post.conn
           id == IF Mine(p) # 0 THEN Mine(p) ELSE Only(RowsOf(conn))
           old == IF Mine(p) # 0 THEN Copy(p) ELSE IF id # 0 THEN draftRows[id] ELSE Blank
           new == [old EXCEPT !.key = conn, !.conn = conn, !.removed = FALSE]
           sheet == [draftPage[p] EXCEPT !.at = "saved", !.id = IF id = 0 THEN Len(draftRows) + 1 ELSE id, !.row = new]
<1>1. /\ draftPage[p].at = "posted" /\ UNCHANGED <<listed, made, devices>>
      /\ \/ Answers(p) /\ UNCHANGED draftRows
         \/ /\ ~(id = 0 /\ Len(draftRows) = MaxRows)
            /\ draftRows' = IF id = 0 THEN Append(draftRows, new) ELSE [draftRows EXCEPT ![id] = new]
            /\ Stays(p, sheet)
  BY DEF SavesRow, DraftAt
<1>t. RowsFit /\ Len(draftRows) \in 0 .. MaxRows /\ MaxRows \in Nat
  BY RowsTyped, DraftAssumption DEF DraftInv
<1>p. draftPage[p] \in PageRecord /\ PageFits(draftPage[p], Len(draftRows))
  BY DEF DraftInv, PagesFit
<1>2. conn \in Endpoint
  BY <1>1, <1>p DEF PageFits
<1>3. id \in 0 .. Len(draftRows)
  <2>1. CASE Mine(p) # 0
    BY <2>1, <1>p, <1>t DEF Mine, PageFits, PageRecord
  <2>2. CASE Mine(p) = 0 /\ RowsOf(conn) # {}
    <3>1. Only(RowsOf(conn)) \in DOMAIN draftRows
      BY <2>2, OnlyIsOne DEF RowsOf
    <3>2. QED BY <3>1, <2>2, <1>t, RowsTyped
  <2>3. CASE Mine(p) = 0 /\ RowsOf(conn) = {}
    BY <2>3, <1>t DEF Only
  <2>4. QED BY <2>1, <2>2, <2>3
<1> HIDE DEF id, conn
<1>4. old \in DraftRow \/ old = Blank
  <2>1. CASE Mine(p) # 0
    BY <2>1, <1>1, <1>p DEF Mine, Copy, PageFits
  <2>2. CASE Mine(p) = 0
    BY <2>2, <1>3, <1>t, RowsTyped
  <2>3. QED BY <2>1, <2>2
<1> HIDE DEF old
<1>5. new \in DraftRow /\ new.conn = conn
  <2>1. CASE old \in DraftRow
    BY <2>1, <1>2 DEF DraftRow
  <2>2. CASE old = Blank
    <3>1. Blank \in [key : {Nil}, conn : {Nil}, template : {Nil}, device : 0 .. MaxDevices, removed : BOOLEAN, state : {"discovered"}]
      <4>1. 0 \in 0 .. MaxDevices
        BY DraftAssumption
      <4>2. QED BY <4>1 DEF Blank, NoDevice
    <3>2. QED BY <2>2, <3>1, <1>2 DEF DraftRow
  <2>3. QED BY <1>4, <2>1, <2>2
<1> HIDE DEF new
<1>6. CASE Answers(p) /\ UNCHANGED draftRows
  BY <1>1, <1>6, <1>t, AnswerStep DEF RowsFit
<1>7. CASE /\ ~(id = 0 /\ Len(draftRows) = MaxRows)
           /\ draftRows' = IF id = 0 THEN Append(draftRows, new) ELSE [draftRows EXCEPT ![id] = new]
           /\ Stays(p, sheet)
  <2>1. /\ draftRows' \in Seq(DraftRow)
        /\ Len(draftRows') = IF id = 0 THEN Len(draftRows) + 1 ELSE Len(draftRows)
    <3>1. CASE id = 0
      BY <3>1, <1>7, <1>5, <1>t, RowAdded
    <3>2. CASE id # 0
      <4>1. id \in 1 .. Len(draftRows) /\ draftRows' = [draftRows EXCEPT ![id] = new]
        BY <3>2, <1>3, <1>7, <1>t
      <4>2. QED BY <3>2, <4>1, <1>5, <1>t, RowRewritten
    <3>3. QED BY <3>1, <3>2
  <2>2. Len(draftRows') \in 0 .. MaxRows /\ Len(draftRows) <= Len(draftRows')
    BY <2>1, <1>7, <1>t
  <2>3. RowsFit'
    BY <2>1, <2>2, <1>1, <1>t DEF RowsFit
  <2>4. /\ sheet \in PageRecord /\ sheet.at = "saved" /\ sheet.row = new /\ sheet.post = draftPage[p].post
        /\ sheet.id \in 1 .. Len(draftRows')
    <3> DEFINE n == IF id = 0 THEN Len(draftRows) + 1 ELSE id
    <3>1. n \in 1 .. Len(draftRows') /\ n \in 0 .. MaxRows
      BY <1>3, <2>1, <2>2, <1>t
    <3> HIDE DEF n
    <3>2. sheet = [draftPage[p] EXCEPT !.at = "saved", !.id = n, !.row = new]
      BY DEF n
    <3>3. QED BY <3>1, <3>2, <1>p, <1>5 DEF PageRecord
  <2> HIDE DEF sheet
  <2>5. PageFits(sheet, Len(draftRows'))
    BY <2>4, <2>2, <1>2, <1>5, <1>p, <1>1 DEF PageFits, conn
  <2>6. QED BY <2>2, <2>3, <2>5, <1>7, PageStep
<1>8. QED BY <1>1, <1>6, <1>7

(* A write of the named row in place, by a page that is answered or goes   *)
(* on with what it holds.                                                  *)
LEMMA RowWritten ==
    ASSUME RowsFit, NEW i \in 1 .. Len(draftRows), NEW row \in DraftRow, draftRows' = [draftRows EXCEPT ![i] = row],
           UNCHANGED listed, made' \in 0 .. MaxDevices, devices' \subseteq 1 .. made'
    PROVE  RowsFit' /\ Len(draftRows) <= Len(draftRows')
<1>1. draftRows' \in Seq(DraftRow) /\ Len(draftRows') = Len(draftRows)
  BY RowRewritten
<1>2. Len(draftRows) \in 0 .. MaxRows
  BY RowsTyped
<1>3. QED BY <1>1, <1>2 DEF RowsFit

LEMMA SavesDraftStep == ASSUME DraftInv, NEW p \in DraftPage, SavesDraft(p) PROVE DraftInv'
<1> DEFINE post == draftPage[p].post
           i == Mine(p)
           state == IF post.template = Nil THEN "discovered" ELSE "template_selected"
           row == [draftRows[i] EXCEPT !.conn = post.conn, !.template = post.template, !.state = state]
<1>t. RowsFit /\ Len(draftRows) \in 0 .. MaxRows
  BY RowsTyped DEF DraftInv
<1>p. draftPage[p] \in PageRecord /\ PageFits(draftPage[p], Len(draftRows)) /\ draftPage[p].at = "saved"
  BY DEF DraftInv, PagesFit, SavesDraft, DraftAt
<1>1. i \in 1 .. Len(draftRows)
  BY <1>p, <1>t DEF PageFits, Mine, PageRecord
<1>2. row \in DraftRow
  <2>1. draftRows[i] \in DraftRow
    BY <1>1, <1>t, RowsTyped
  <2>2. post.conn \in Endpoint /\ post.template \in UsableTemplate \cup {Nil}
    BY <1>p DEF PageFits, PageRecord, PostRecord, UsableTemplate
  <2>3. state \in {"discovered", "template_selected", "validating", "needs_attention"}
    OBVIOUS
  <2> HIDE DEF post, i, state
  <2>4. QED BY <2>1, <2>2, <2>3 DEF DraftRow
<1>3. draftRows' = [draftRows EXCEPT ![i] = row] /\ Answers(p) /\ UNCHANGED <<listed, made, devices>>
  BY DEF SavesDraft
<1> HIDE DEF post, i, state, row
<1>4. QED BY <1>1, <1>2, <1>3, <1>t, RowWritten, AnswerStep DEF RowsFit

(* A live check: its equipment, then the row with its template.            *)
LEMMA PreparesStep == ASSUME DraftInv, NEW p \in DraftPage, Prepares(p) PROVE DraftInv'
<1> DEFINE i == Mine(p)
           kept == [Copy(p) EXCEPT !.device = IF @ = NoDevice THEN made + 1 ELSE @]
<1>t. RowsFit /\ Len(draftRows) \in 0 .. MaxRows /\ MaxDevices \in Nat
  BY RowsTyped, DraftAssumption DEF DraftInv
<1>p. draftPage[p] \in PageRecord /\ PageFits(draftPage[p], Len(draftRows)) /\ draftPage[p].at = "saved"
  BY DEF DraftInv, PagesFit, Prepares, DraftAt
<1>1. /\ i \in 1 .. Len(draftRows) /\ draftRows[i] \in DraftRow /\ Copy(p) \in DraftRow
      /\ draftPage[p].post.kind = "test" /\ UNCHANGED listed
  BY <1>p, <1>t, RowsTyped DEF PageFits, Mine, Copy, PageRecord, Prepares
<1>2. Copy(p).conn = draftPage[p].post.meant
  BY <1>p, <1>1 DEF PageFits, Copy
<1>3. ASSUME Answers(p), UNCHANGED <<draftRows, made, devices>> PROVE DraftInv'
  BY <1>1, <1>3, <1>t, AnswerStep DEF RowsFit
<1>4. ASSUME made < MaxDevices, made' = made + 1, devices' = devices \cup {made'}, Copy(p).device = NoDevice,
             draftRows' = [draftRows EXCEPT ![i].device = made', ![i].conn = kept.conn],
             Stays(p, [draftPage[p] EXCEPT !.at = "prepared", !.row = kept])
      PROVE DraftInv'
  <2> DEFINE row == [draftRows[i] EXCEPT !.device = made + 1, !.conn = kept.conn]
             sheet == [draftPage[p] EXCEPT !.at = "prepared", !.row = kept]
  <2>1. made + 1 \in 0 .. MaxDevices /\ made' \in 0 .. MaxDevices /\ devices' \subseteq 1 .. made'
    BY <1>4, <1>t DEF RowsFit
  <2>2. kept = [Copy(p) EXCEPT !.device = made + 1]
    BY <1>4
  <2>3. kept \in DraftRow /\ kept.conn = Copy(p).conn
    BY <2>1, <2>2, <1>1 DEF DraftRow
  <2> HIDE DEF kept
  <2>4. row \in DraftRow
    <3>1. kept.conn \in Endpoint
      BY <2>3 DEF DraftRow
    <3>2. QED BY <3>1, <2>1, <1>1 DEF DraftRow
  <2>5. draftRows' = [draftRows EXCEPT ![i] = row]
    BY <1>4
  <2>6. RowsFit' /\ Len(draftRows) <= Len(draftRows')
    <3> HIDE DEF row
    <3>1. QED BY <2>1, <2>4, <2>5, <1>1, <1>t, RowWritten
  <2>7. /\ sheet \in PageRecord /\ sheet.at = "prepared" /\ sheet.row = kept
        /\ sheet.post = draftPage[p].post /\ sheet.id = i
    BY <2>3, <1>p DEF PageRecord, Mine
  <2>8. Len(draftRows') \in Nat
    BY <2>6, RowsTyped, LenProperties DEF RowsFit
  <2> HIDE DEF sheet
  <2>9. PageFits(sheet, Len(draftRows'))
    BY <2>3, <2>6, <2>7, <2>8, <1>1, <1>2, <1>t DEF PageFits
  <2>10. QED BY <2>6, <2>9, <1>4, PageStep DEF sheet
<1>5. ASSUME Stays(p, [draftPage[p] EXCEPT !.at = "prepared"]), UNCHANGED <<draftRows, made, devices>>
      PROVE DraftInv'
  <2> DEFINE sheet == [draftPage[p] EXCEPT !.at = "prepared"]
  <2>1. /\ sheet \in PageRecord /\ sheet.at = "prepared" /\ sheet.row = Copy(p)
        /\ sheet.post = draftPage[p].post /\ sheet.id = i
    BY <1>p DEF PageRecord, Mine, Copy
  <2>2. RowsFit' /\ Len(draftRows) <= Len(draftRows')
    BY <1>1, <1>5, <1>t DEF RowsFit
  <2> HIDE DEF sheet
  <2>3. PageFits(sheet, Len(draftRows'))
    BY <2>1, <1>1, <1>2, <1>5, <1>t DEF PageFits
  <2>4. QED BY <2>2, <2>3, <1>5, PageStep DEF sheet
<1>6. QED BY <1>3, <1>4, <1>5 DEF Prepares

LEMMA TestsStep == ASSUME DraftInv, NEW p \in DraftPage, Tests(p) PROVE DraftInv'
<1> DEFINE i == Mine(p)
           row == [Copy(p) EXCEPT !.template = draftPage[p].post.template, !.state = "validating"]
<1>t. RowsFit /\ Len(draftRows) \in 0 .. MaxRows
  BY RowsTyped DEF DraftInv
<1>p. draftPage[p] \in PageRecord /\ PageFits(draftPage[p], Len(draftRows)) /\ draftPage[p].at = "prepared"
  BY DEF DraftInv, PagesFit, Tests, DraftAt
<1>1. i \in 1 .. Len(draftRows) /\ Copy(p) \in DraftRow
  BY <1>p, <1>t DEF PageFits, Mine, Copy, PageRecord
<1>2. row \in DraftRow
  BY <1>p, <1>1 DEF DraftRow, PageRecord, PostRecord, UsableTemplate
<1>3. Answers(p) /\ UNCHANGED <<listed, made, devices>>
  BY DEF Tests
<1>4. draftRows' = [draftRows EXCEPT ![i] = row] \/ UNCHANGED draftRows
  BY DEF Tests
<1> HIDE DEF i, row
<1>5. RowsFit' /\ Len(draftRows) <= Len(draftRows')
  <2>1. CASE draftRows' = [draftRows EXCEPT ![i] = row]
    BY <2>1, <1>1, <1>2, <1>3, <1>t, RowWritten DEF RowsFit
  <2>2. CASE UNCHANGED draftRows
    BY <2>2, <1>3, <1>t DEF RowsFit
  <2>3. QED BY <2>1, <2>2, <1>4
<1>6. QED BY <1>3, <1>5, AnswerStep

(* An edit or a retry of a row with equipment, read and saved whole.       *)
LEMMA EditsStep == ASSUME DraftInv, NEW p \in DraftPage, Edits(p) PROVE DraftInv'
<1>1. PICK i \in DOMAIN draftRows, u \in Unit, t \in Template \cup {Nil}, kind \in {"edit", "retry"} :
         LET conn == <<draftRows[i].conn[1], u>>
         IN  Stays(p, [Away EXCEPT !.at = "editing", !.id = i, !.row = [draftRows[i] EXCEPT !.conn = conn],
                         !.post = [kind |-> kind, conn |-> conn, template |-> t, meant |-> conn]])
  BY DEF Edits
<1> DEFINE conn == <<draftRows[i].conn[1], u>>
           row == [draftRows[i] EXCEPT !.conn = conn]
           post == [kind |-> kind, conn |-> conn, template |-> t, meant |-> conn]
           sheet == [Away EXCEPT !.at = "editing", !.id = i, !.row = row, !.post = post]
<1>t. RowsFit /\ Len(draftRows) \in 0 .. MaxRows /\ draftRows[i] \in DraftRow /\ i \in 1 .. Len(draftRows)
  BY RowsTyped DEF DraftInv
<1>2. conn \in Endpoint
  <2>1. draftRows[i].conn \in Interface \X Unit
    BY <1>t DEF DraftRow, Endpoint
  <2>2. draftRows[i].conn[1] \in Interface
    BY <2>1
  <2>3. QED BY <2>2 DEF Endpoint
<1> HIDE DEF conn
<1>3. row \in DraftRow /\ row.conn = conn
  BY <1>2, <1>t DEF DraftRow
<1>4. post \in PostRecord /\ post.conn = conn /\ post.meant = conn
  BY <1>2 DEF PostRecord
<1>5. Stays(p, sheet)
  BY <1>1 DEF conn
<1> HIDE DEF row, post
<1>6. sheet \in PageRecord /\ sheet.at = "editing" /\ sheet.row = row /\ sheet.post = post /\ sheet.id = i
  <2>1. Away \in PageRecord /\ i \in 0 .. MaxRows
    BY AwayFits, <1>t, DraftAssumption DEF PageFits
  <2>2. QED BY <2>1, <1>3, <1>4 DEF PageRecord
<1> HIDE DEF sheet
<1>7. PageFits(sheet, Len(draftRows))
  BY <1>2, <1>3, <1>4, <1>6, <1>t DEF PageFits
<1>8. UNCHANGED <<listed, draftRows, made, devices>>
  BY DEF Edits
<1>9. QED BY <1>5, <1>7, <1>8, <1>t, PageStep DEF RowsFit

LEMMA SavesEditStep == ASSUME DraftInv, NEW p \in DraftPage, SavesEdit(p) PROVE DraftInv'
<1> DEFINE i == Mine(p)
           t == draftPage[p].post.template
           kit == IF t = Nil THEN NoDevice ELSE Copy(p).device
           state == IF t = Nil THEN "discovered" ELSE "template_selected"
           row == [Copy(p) EXCEPT !.template = t, !.device = kit, !.state = state]
           sheet == [draftPage[p] EXCEPT !.at = "prepared", !.row = row]
<1>t. RowsFit /\ Len(draftRows) \in 0 .. MaxRows
  BY RowsTyped DEF DraftInv
<1>p. draftPage[p] \in PageRecord /\ PageFits(draftPage[p], Len(draftRows)) /\ draftPage[p].at = "editing"
  BY DEF DraftInv, PagesFit, SavesEdit, DraftAt
<1>1. i \in 1 .. Len(draftRows) /\ Copy(p) \in DraftRow /\ Copy(p).conn = draftPage[p].post.meant
  BY <1>p, <1>t DEF PageFits, Mine, Copy, PageRecord
<1>2. row \in DraftRow /\ row.conn = Copy(p).conn
  <2>1. t \in UsableTemplate \cup {Nil}
    BY <1>p DEF PageRecord, PostRecord, UsableTemplate
  <2>2. kit \in 0 .. MaxDevices
    BY <1>1, DraftAssumption DEF DraftRow, NoDevice
  <2>3. state \in {"discovered", "template_selected", "validating", "needs_attention"}
    OBVIOUS
  <2> HIDE DEF t, kit, state
  <2>4. QED BY <2>1, <2>2, <2>3, <1>1 DEF DraftRow
<1>3. \/ /\ draftRows' = [draftRows EXCEPT ![i] = row] /\ devices' \subseteq devices
         /\ Stays(p, sheet) \/ Answers(p)
      \/ Answers(p) /\ UNCHANGED <<draftRows, devices>>
  BY DEF SavesEdit
<1>4. UNCHANGED <<listed, made>>
  BY DEF SavesEdit
<1> HIDE DEF i, t, kit, state, row
<1>5. CASE Answers(p) /\ UNCHANGED <<draftRows, devices>>
  BY <1>4, <1>5, <1>t, AnswerStep DEF RowsFit
<1>6. CASE /\ draftRows' = [draftRows EXCEPT ![i] = row] /\ devices' \subseteq devices
           /\ Stays(p, sheet) \/ Answers(p)
  <2>1. made' \in 0 .. MaxDevices /\ devices' \subseteq 1 .. made'
    BY <1>4, <1>6, <1>t DEF RowsFit
  <2>2. RowsFit' /\ Len(draftRows) <= Len(draftRows')
    BY <2>1, <1>1, <1>2, <1>4, <1>6, <1>t, RowWritten
  <2>3. /\ sheet \in PageRecord /\ sheet.at = "prepared" /\ sheet.row = row
        /\ sheet.post = draftPage[p].post /\ sheet.id = i
    BY <1>2, <1>p DEF PageRecord, Mine, i
  <2>4. Len(draftRows') \in Nat
    BY <2>2, LenProperties DEF RowsFit
  <2> HIDE DEF sheet
  <2>5. PageFits(sheet, Len(draftRows'))
    BY <2>2, <2>3, <2>4, <1>1, <1>2, <1>t DEF PageFits
  <2>6. QED BY <2>2, <2>5, <1>6, PageStep, AnswerStep
<1>7. QED BY <1>3, <1>5, <1>6

(* Signals typed in by hand, and what happens without a page.              *)
LEMMA TypesInStep == ASSUME DraftInv, NEW p \in DraftPage, TypesIn(p) PROVE DraftInv'
<1> DEFINE ref == draftPage[p].ref
           known == IF ref.id # 0 THEN ref.id ELSE Only(DraftsOf(listed[ref.place]))
<1>1. PICK conn \in Endpoint :
         LET id == IF known # 0 THEN known ELSE Only({i \in RowsOf(conn) : ~draftRows[i].removed})
             kit == IF id = 0 THEN NoDevice ELSE draftRows[id].device
         IN  /\ kit = NoDevice => Cardinality(devices) < DeviceLimit /\ made < MaxDevices
             /\ made' = IF kit = NoDevice THEN made + 1 ELSE made
             /\ devices' = IF kit = NoDevice THEN devices \cup {made'} ELSE devices
             /\ Stays(p, [Away EXCEPT !.at = "typed", !.id = id,
                     !.row = [IF id = 0 THEN Blank ELSE draftRows[id] EXCEPT
                                !.key = conn, !.conn = conn, !.device = IF kit = NoDevice THEN made' ELSE kit,
                                !.template = Own, !.state = "template_selected", !.removed = FALSE]])
  BY DEF TypesIn
<1>2. /\ draftPage[p].at = "shown" /\ UNCHANGED <<listed, draftRows>>
      /\ IF ref.id # 0 THEN StillDraft(ref) ELSE StillThere(ref)
  BY DEF TypesIn, DraftAt
<1>t. RowsFit /\ Len(draftRows) \in 0 .. MaxRows /\ MaxRows \in Nat /\ MaxDevices \in Nat
  BY RowsTyped, DraftAssumption DEF DraftInv
<1>3. known \in 0 .. Len(draftRows)
  <2>1. CASE ref.id # 0
    BY <2>1, <1>2, <1>t, RowsTyped DEF StillDraft
  <2>2. CASE ref.id = 0 /\ DraftsOf(listed[ref.place]) # {}
    <3>1. Only(DraftsOf(listed[ref.place])) \in DOMAIN draftRows
      BY <2>2, OnlyIsOne DEF DraftsOf
    <3>2. QED BY <3>1, <2>2, <1>t, RowsTyped
  <2>3. CASE ref.id = 0 /\ DraftsOf(listed[ref.place]) = {}
    BY <2>3, <1>t DEF Only
  <2>4. QED BY <2>1, <2>2, <2>3
<1> HIDE DEF known
<1> DEFINE ids == {i \in RowsOf(conn) : ~draftRows[i].removed}
           id == IF known # 0 THEN known ELSE Only(ids)
           kit == IF id = 0 THEN NoDevice ELSE draftRows[id].device
           kept == IF kit = NoDevice THEN made' ELSE kit
           old == IF id = 0 THEN Blank ELSE draftRows[id]
           row == [old EXCEPT !.key = conn, !.conn = conn, !.device = kept,
                              !.template = Own, !.state = "template_selected", !.removed = FALSE]
           sheet == [Away EXCEPT !.at = "typed", !.id = id, !.row = row]
<1>4. /\ kit = NoDevice => made < MaxDevices
      /\ made' = IF kit = NoDevice THEN made + 1 ELSE made
      /\ devices' = IF kit = NoDevice THEN devices \cup {made'} ELSE devices
      /\ Stays(p, sheet)
  BY <1>1
<1>5. id \in 0 .. Len(draftRows)
  <2>1. CASE known = 0 /\ ids # {}
    <3>1. Only(ids) \in DOMAIN draftRows
      <4>1. ids \subseteq DOMAIN draftRows
        BY DEF RowsOf
      <4> HIDE DEF ids
      <4>2. QED BY <4>1, <2>1, OnlyIsOne
    <3>2. QED BY <3>1, <2>1, <1>t, RowsTyped
  <2>2. CASE known = 0 /\ ids = {}
    BY <2>2, <1>t DEF Only
  <2>3. QED BY <2>1, <2>2, <1>3
<1> HIDE DEF ids, id
<1>6. kit \in 0 .. MaxDevices
  <2>1. id # 0 => draftRows[id] \in DraftRow
    BY <1>5, <1>t, RowsTyped
  <2>2. QED BY <2>1, <1>t DEF DraftRow, NoDevice
<1> HIDE DEF kit
<1>7. made' \in 0 .. MaxDevices /\ devices' \subseteq 1 .. made' /\ kept \in 0 .. MaxDevices
  BY <1>4, <1>6, <1>t DEF RowsFit
<1>8. row \in DraftRow
  <2>1. old \in [key : Endpoint \cup {Nil}, conn : Endpoint \cup {Nil}, template : UsableTemplate \cup {Nil}, device : 0 .. MaxDevices,
                 removed : BOOLEAN, state : {"discovered", "template_selected", "validating", "needs_attention"}]
    <3>1. CASE id = 0
      <4>1. 0 \in 0 .. MaxDevices
        BY <1>t
      <4>2. QED BY <3>1, <4>1 DEF Blank, NoDevice
    <3>2. CASE id # 0
      BY <3>2, <1>5, <1>t, RowsTyped DEF DraftRow
    <3>3. QED BY <3>1, <3>2
  <2> HIDE DEF old, kept
  <2>2. Own \in UsableTemplate
    BY DEF UsableTemplate
  <2>3. QED BY <2>1, <2>2, <1>7 DEF DraftRow
<1> HIDE DEF row
<1>9. sheet \in PageRecord /\ sheet.at = "typed" /\ sheet.id = id /\ sheet.row = row
  <2>1. Away \in PageRecord /\ id \in 0 .. MaxRows
    BY AwayFits, <1>5, <1>t DEF PageFits
  <2>2. QED BY <2>1, <1>8 DEF PageRecord
<1> HIDE DEF sheet
<1>10. PageFits(sheet, Len(draftRows))
  BY <1>5, <1>8, <1>9, <1>t DEF PageFits
<1>11. QED BY <1>2, <1>4, <1>7, <1>10, <1>t, PageStep DEF RowsFit

LEMMA SavesTypedStep == ASSUME DraftInv, NEW p \in DraftPage, SavesTyped(p) PROVE DraftInv'
<1> DEFINE rows1 == RowsOf(Copy(p).key)
           id == IF Mine(p) # 0 THEN Mine(p) ELSE Only(rows1)
<1>t. RowsFit /\ Len(draftRows) \in 0 .. MaxRows /\ MaxRows \in Nat
  BY RowsTyped, DraftAssumption DEF DraftInv
<1>p. draftPage[p] \in PageRecord /\ PageFits(draftPage[p], Len(draftRows)) /\ draftPage[p].at = "typed"
  BY DEF DraftInv, PagesFit, SavesTyped, DraftAt
<1>1. Copy(p) \in DraftRow
  BY <1>p DEF PageFits, Copy
<1>2. id \in 0 .. Len(draftRows)
  <2>1. CASE Mine(p) # 0
    BY <2>1, <1>p, <1>t DEF Mine, PageFits, PageRecord
  <2>2. CASE Mine(p) = 0 /\ rows1 # {}
    <3>1. Only(rows1) \in DOMAIN draftRows
      BY <2>2, OnlyIsOne DEF RowsOf
    <3>2. QED BY <3>1, <2>2, <1>t, RowsTyped
  <2>3. CASE Mine(p) = 0 /\ rows1 = {}
    BY <2>3, <1>t DEF Only
  <2>4. QED BY <2>1, <2>2, <2>3
<1>3. Answers(p) /\ UNCHANGED <<listed, made, devices>>
  BY DEF SavesTyped
<1>4. \/ UNCHANGED draftRows
      \/ id = 0 /\ Len(draftRows) # MaxRows /\ draftRows' = Append(draftRows, Copy(p))
      \/ id # 0 /\ draftRows' = [draftRows EXCEPT ![id] = Copy(p)]
  BY DEF SavesTyped
<1> HIDE DEF id
<1>5. RowsFit' /\ Len(draftRows) <= Len(draftRows')
  <2>1. CASE UNCHANGED draftRows
    BY <2>1, <1>3, <1>t DEF RowsFit
  <2>2. CASE id = 0 /\ Len(draftRows) # MaxRows /\ draftRows' = Append(draftRows, Copy(p))
    BY <2>2, <1>1, <1>3, <1>t, RowAdded DEF RowsFit
  <2>3. CASE id # 0 /\ draftRows' = [draftRows EXCEPT ![id] = Copy(p)]
    <3>1. id \in 1 .. Len(draftRows)
      BY <2>3, <1>2, <1>t
    <3>2. QED BY <2>3, <3>1, <1>1, <1>3, <1>t, RowWritten DEF RowsFit
  <2>4. QED BY <2>1, <2>2, <2>3, <1>4
<1>6. QED BY <1>3, <1>5, AnswerStep

LEMMA OtherDraftStep ==
    ASSUME DraftInv, ReportLists \/ \E i \in RowId : Restarts(i) \/ CheckFails(i)
    PROVE  DraftInv'
<1>t. RowsFit /\ PagesFit /\ Len(draftRows) \in 0 .. MaxRows
  BY RowsTyped DEF DraftInv
<1>1. CASE ReportLists
  <2>1. PICK n \in 0 .. 2 : \E found \in [1 .. n -> {<<i, CHOOSE u \in Unit : TRUE>> : i \in Interface}] : listed' = found
    BY <1>1 DEF ReportLists
  <2>2. PICK found \in [1 .. n -> {<<i, CHOOSE u \in Unit : TRUE>> : i \in Interface}] : listed' = found
    BY <2>1
  <2>3. DOMAIN listed' \subseteq Nat /\ \A k \in DOMAIN listed' : listed'[k] \in Endpoint
    BY <2>2, DraftAssumption DEF Endpoint
  <2>4. QED BY <1>1, <1>t, <2>3 DEF ReportLists, DraftInv, RowsFit, PagesFit
<1>2. ASSUME NEW i \in RowId, NEW row \in DraftRow, i \in DOMAIN draftRows, draftRows' = [draftRows EXCEPT ![i] = row],
             devices' \subseteq devices, UNCHANGED <<listed, made, draftPage>>
      PROVE  DraftInv'
  <2>1. i \in 1 .. Len(draftRows)
    BY <1>2, <1>t, RowsTyped
  <2>2. draftRows' \in Seq(DraftRow) /\ Len(draftRows') = Len(draftRows)
    BY <2>1, <1>2, <1>t, RowRewritten
  <2>3. QED BY <2>2, <1>2, <1>t DEF DraftInv, RowsFit, PagesFit
<1>3. ASSUME NEW i \in RowId, Restarts(i) PROVE DraftInv'
  <2> DEFINE row == [draftRows[i] EXCEPT !.device = NoDevice, !.template = Nil, !.state = "discovered", !.removed = TRUE]
  <2>1. i \in DOMAIN draftRows /\ draftRows[i] \in DraftRow
    BY <1>3, <1>t, RowsTyped DEF Restarts
  <2>2. NoDevice \in 0 .. MaxDevices
    BY DraftAssumption DEF NoDevice
  <2>3. row \in DraftRow
    BY <2>1, <2>2 DEF DraftRow
  <2>4. draftRows' = [draftRows EXCEPT ![i] = row] /\ devices' \subseteq devices /\ UNCHANGED <<listed, made, draftPage>>
    BY <1>3 DEF Restarts
  <2> HIDE DEF row
  <2>5. QED BY <2>1, <2>3, <2>4, <1>2
<1>4. ASSUME NEW i \in RowId, CheckFails(i) PROVE DraftInv'
  <2> DEFINE row == [draftRows[i] EXCEPT !.state = "needs_attention"]
  <2>1. i \in DOMAIN draftRows /\ draftRows[i] \in DraftRow
    BY <1>4, <1>t, RowsTyped DEF CheckFails
  <2>2. row \in DraftRow
    BY <2>1 DEF DraftRow
  <2>3. draftRows' = [draftRows EXCEPT ![i] = row] /\ devices' \subseteq devices /\ UNCHANGED <<listed, made, draftPage>>
    BY <1>4 DEF CheckFails
  <2> HIDE DEF row
  <2>4. QED BY <2>1, <2>2, <2>3, <1>2
<1>5. QED BY <1>1, <1>3, <1>4

LEMMA DraftStepInv == DraftInv /\ [DraftNext]_draftVars => DraftInv'
<1>1. DraftInv /\ DraftNext => DraftInv'
  BY ShowsStep, PostsStep, RefusalStep, SavesRowStep, SavesDraftStep, PreparesStep, TestsStep,
     TypesInStep, SavesTypedStep, EditsStep, SavesEditStep, OtherDraftStep DEF DraftNext
<1>2. DraftInv /\ UNCHANGED draftVars => DraftInv'
  BY DEF DraftInv, RowsFit, PagesFit, draftVars
<1>3. QED BY <1>1, <1>2

(* The rows, the equipment and what each page holds keep their types.      *)
THEOREM DraftTypeCorrect == DraftSpec => []DraftTypeOK
<1>1. DraftInv => DraftTypeOK
  <2> SUFFICES ASSUME DraftInv PROVE DraftTypeOK
    OBVIOUS
  <2>1. RowsFit /\ PagesFit
    BY DEF DraftInv
  <2>2. QED BY <2>1, RowsTyped DEF DraftTypeOK, RowsFit, PagesFit, PageFits, PageRecord
<1>2. QED BY <1>1, DraftInitInv, DraftStepInv, PTL DEF DraftSpec

(* Every live check reads the endpoint the customer meant, however lists,  *)
(* rows and other pages changed since the page was shown.                  *)
THEOREM ChecksAreMeant == DraftSpec => []ChecksUseChosenTemplates
<1>1. DraftInv => ChecksUseChosenTemplates
  BY DEF DraftInv, PagesFit, PageFits, ChecksUseChosenTemplates, DraftAt, Copy
<1>2. QED BY <1>1, DraftInitInv, DraftStepInv, PTL DEF DraftSpec

-----------------------------------------------------------------------------
(* The fleet under its plan: a request that nothing overtook still has     *)
(* what it checked before it.                                              *)
StillHolds(r) ==
    /\ r.op = "claim" => BoxAllowed
    /\ r.op = "add" => MachineAllowed
    /\ r.op = "quick" => MachineAllowed \/ \E d \in Machines : r.on = {d}
    /\ r.op = "name" => r.machine \in Machines
    /\ r.op = "box" => r.box \in Boxes /\ r.copy = box[r.box]

FleetInv ==
    /\ DOMAIN box = Box /\ DOMAIN machine = 1 .. MaxMachines /\ DOMAIN fleetRequest = FleetRequest
    /\ IsFiniteSet(Boxes) /\ limit \in FleetLimits
    /\ \A q \in FleetRequest \ overtaken : StillHolds(fleetRequest[q])

(* Adding one element, shrinking, and replacing one element.               *)
LEMMA OneMore ==
    ASSUME NEW old, NEW new, NEW x, IsFiniteSet(old), new \subseteq old \cup {x}
    PROVE  IsFiniteSet(new) /\ Cardinality(new) <= Cardinality(old) + 1
           /\ Cardinality(new) \in Nat /\ Cardinality(old) \in Nat
<1>1. /\ IsFiniteSet(old \cup {x})
      /\ Cardinality(old \cup {x}) = IF x \in old THEN Cardinality(old) ELSE Cardinality(old) + 1
  BY FS_AddElement
<1>2. IsFiniteSet(new) /\ Cardinality(new) <= Cardinality(old \cup {x})
  BY <1>1, FS_Subset
<1>3. Cardinality(old) \in Nat /\ Cardinality(new) \in Nat
  BY <1>2, FS_CardinalityType
<1>4. QED BY <1>1, <1>2, <1>3

LEMMA NoMore ==
    ASSUME NEW old, NEW new, IsFiniteSet(old), new \subseteq old
    PROVE  IsFiniteSet(new) /\ ~(Cardinality(new) > Cardinality(old))
<1>1. IsFiniteSet(new) /\ Cardinality(new) <= Cardinality(old)
  BY FS_Subset
<1>2. Cardinality(old) \in Nat /\ Cardinality(new) \in Nat
  BY <1>1, FS_CardinalityType
<1>3. QED BY <1>1, <1>2

LEMMA OneForOne ==
    ASSUME NEW old, NEW new, NEW d \in old, NEW x, IsFiniteSet(old), new \subseteq (old \ {d}) \cup {x}
    PROVE  ~(Cardinality(new) > Cardinality(old))
<1>1. IsFiniteSet(old \ {d}) /\ Cardinality(old \ {d}) = Cardinality(old) - 1
  BY FS_RemoveElement
<1>2. Cardinality(new) <= Cardinality(old \ {d}) + 1 /\ Cardinality(new) \in Nat
  BY <1>1, OneMore
<1>3. Cardinality(old) \in Nat
  BY FS_CardinalityType
<1>4. QED BY <1>1, <1>2, <1>3

LEMMA FleetFinite ==
    ASSUME FleetInv
    PROVE  IsFiniteSet(Machines) /\ IsFiniteSet(Counted) /\ limit.machines \in Nat /\ limit.boxes \in Nat
<1>1. IsFiniteSet(1 .. MaxMachines)
  BY FS_Interval, FleetAssumption
<1>2. Machines \in SUBSET (1 .. MaxMachines) /\ Counted \in SUBSET Boxes
  BY DEF Machines, Counted
<1>3. limit \in [boxes : Nat, machines : Nat]
  BY FleetAssumption DEF FleetInv
<1>4. IsFiniteSet(Boxes)
  BY DEF FleetInv
<1>5. QED BY <1>1, <1>2, <1>3, <1>4, FS_Subset

LEMMA FleetInitInv == FleetInit => FleetInv
<1> SUFFICES ASSUME FleetInit PROVE FleetInv
  OBVIOUS
<1>1. Boxes = {}
  BY DEF FleetInit, Boxes
<1>2. IsFiniteSet(Boxes)
  BY <1>1, FS_EmptySet
<1>3. \A q \in FleetRequest : fleetRequest[q].op = "quiet"
  BY DEF FleetInit, Quiet
<1>4. QED BY <1>2, <1>3 DEF FleetInit, FleetInv, StillHolds

(* What writes overtakes every other request; what asks writes nothing.    *)
LEMMA AnsweredFleet ==
    ASSUME FleetInv, NEW q \in FleetRequest, FleetAnswers(q)
    PROVE  /\ DOMAIN fleetRequest' = FleetRequest
           /\ \A x \in FleetRequest \ overtaken' : fleetRequest'[x].op = "quiet"
<1>1. fleetRequest' = [fleetRequest EXCEPT ![q] = Quiet] /\ DOMAIN fleetRequest = FleetRequest
  BY DEF FleetAnswers, FleetInv
<1>2. \A x \in FleetRequest \ overtaken' : fleetRequest'[x] = Quiet
  BY <1>1 DEF FleetAnswers, Pending
<1>3. QED BY <1>1, <1>2 DEF Quiet

LEMMA OvertakenFleet ==
    ASSUME FleetInv, Overtakes
    PROVE  /\ DOMAIN fleetRequest' = FleetRequest
           /\ \A x \in FleetRequest \ overtaken' : fleetRequest'[x].op = "quiet"
<1>1. \A x \in FleetRequest \ overtaken' : fleetRequest'[x] = Quiet
  BY DEF Overtakes, Pending
<1>2. QED BY <1>1 DEF Quiet, Overtakes, FleetInv

LEMMA AskedFleet ==
    ASSUME FleetInv, NEW q \in FleetRequest, NEW r, Asks(q, r), StillHolds(r)
    PROVE  FleetInv'
<1>1. UNCHANGED <<box, machine, limit, overtaken>> /\ fleetRequest' = [fleetRequest EXCEPT ![q] = r]
  BY DEF Asks
<1>2. Machines' = Machines /\ Counted' = Counted /\ Boxes' = Boxes
  BY <1>1 DEF Counted, Machines, Boxes
<1>3. BoxAllowed' = BoxAllowed /\ MachineAllowed' = MachineAllowed
  BY <1>1, <1>2 DEF BoxAllowed, MachineAllowed
<1>4. ASSUME NEW x \in FleetRequest \ overtaken' PROVE StillHolds(fleetRequest[x])'
  <2>1. StillHolds(fleetRequest'[x])
    <3>1. CASE x = q
      BY <3>1, <1>1 DEF FleetInv
    <3>2. CASE x # q
      BY <3>2, <1>1, <1>4 DEF FleetInv
    <3>3. QED BY <3>1, <3>2
  <2>2. QED BY <2>1, <1>1, <1>2, <1>3 DEF StillHolds
<1>5. QED BY <1>1, <1>2, <1>4 DEF FleetInv

LEMMA WrittenFleet ==
    ASSUME FleetInv, Overtakes \/ \E q \in FleetRequest : FleetAnswers(q),
           DOMAIN box' = Box, DOMAIN machine' = 1 .. MaxMachines, limit' \in FleetLimits,
           NEW g, Boxes' \subseteq Boxes \cup {g}
    PROVE  FleetInv'
<1>1. /\ DOMAIN fleetRequest' = FleetRequest
      /\ \A x \in FleetRequest \ overtaken' : fleetRequest'[x].op = "quiet"
  BY AnsweredFleet, OvertakenFleet
<1>2. IsFiniteSet(Boxes')
  BY OneMore DEF FleetInv
<1>3. \A x \in FleetRequest \ overtaken' : StillHolds(fleetRequest[x])'
  BY <1>1 DEF StillHolds
<1>4. QED BY <1>1, <1>2, <1>3 DEF FleetInv

(* What asks finds what it asked for.                                      *)
LEMMA AskingStep ==
    ASSUME FleetInv, NEW q \in FleetRequest,
           \/ \E g \in Box, s \in Place : AsksToClaim(q, g, s)
           \/ \E g \in Box : OpensBoxForm(q, g) \/ (\E resolve \in BOOLEAN : AsksToQuickAdd(q, g, resolve))
           \/ \E s \in Place : AsksToClose(q, s) \/ (\E g \in Box \cup {"none"} : AsksToAdd(q, s, g))
           \/ \E d \in 1 .. MaxMachines : OpensName(q, d)
    PROVE  \E r : Asks(q, r) /\ StillHolds(r)
<1>1. ASSUME NEW g \in Box, NEW s \in Place, AsksToClaim(q, g, s) PROVE \E r : Asks(q, r) /\ StillHolds(r)
  BY <1>1 DEF AsksToClaim, StillHolds
<1>2. ASSUME NEW g \in Box, OpensBoxForm(q, g) PROVE \E r : Asks(q, r) /\ StillHolds(r)
  BY <1>2 DEF OpensBoxForm, StillHolds
<1>3. ASSUME NEW g \in Box, NEW resolve \in BOOLEAN, AsksToQuickAdd(q, g, resolve)
      PROVE  \E r : Asks(q, r) /\ StillHolds(r)
  <2>1. PICK on \in IF resolve /\ Replaced(g) # {} THEN {{d} : d \in Replaced(g)} ELSE {{}} :
          Asks(q, [op |-> "quick", box |-> g, place |-> box[g].at, on |-> on])
    BY <1>3 DEF AsksToQuickAdd
  <2>2. MachineAllowed \/ \E d \in Machines : on = {d}
    <3>1. CASE resolve /\ Replaced(g) # {}
      BY <2>1, <3>1 DEF Replaced, MachinesOf
    <3>2. CASE ~(resolve /\ Replaced(g) # {})
      BY <1>3, <3>2 DEF AsksToQuickAdd, Spare
    <3>3. QED BY <3>1, <3>2
  <2>3. StillHolds([op |-> "quick", box |-> g, place |-> box[g].at, on |-> on])
    BY <2>2 DEF StillHolds
  <2>4. QED BY <2>1, <2>3
<1>4. ASSUME NEW s \in Place, AsksToClose(q, s) PROVE \E r : Asks(q, r) /\ StillHolds(r)
  BY <1>4 DEF AsksToClose, StillHolds
<1>5. ASSUME NEW s \in Place, NEW g \in Box \cup {"none"}, AsksToAdd(q, s, g)
      PROVE  \E r : Asks(q, r) /\ StillHolds(r)
  BY <1>5 DEF AsksToAdd, StillHolds
<1>6. ASSUME NEW d \in 1 .. MaxMachines, OpensName(q, d) PROVE \E r : Asks(q, r) /\ StillHolds(r)
  BY <1>6 DEF OpensName, StillHolds
<1>7. QED BY <1>1, <1>2, <1>3, <1>4, <1>5, <1>6

(* What each answer leaves of the gateways and the equipment, and what of  *)
(* the counts when nothing overtook the request.                           *)
NoGrowth == ~Grows(Machines, Machines', limit.machines) /\ ~Grows(Counted, Counted', limit.boxes)
Shrinks == Machines' \subseteq Machines /\ Counted' \subseteq Counted
WritesFleet ==
    /\ DOMAIN box' = Box /\ DOMAIN machine' = 1 .. MaxMachines
    /\ limit' \in FleetLimits
    /\ \E g : Boxes' \subseteq Boxes \cup {g}

LEMMA ShrinkingIsNoGrowth == ASSUME FleetInv, Shrinks PROVE NoGrowth
  BY FleetFinite, NoMore DEF Shrinks, NoGrowth, Grows

LEMMA ClaimsStep ==
    ASSUME FleetInv, NEW q \in FleetRequest, Claims(q)
    PROVE  WritesFleet /\ (q \notin overtaken => NoGrowth)
<1> DEFINE r == fleetRequest[q]
<1>1. /\ DOMAIN box' = Box /\ UNCHANGED <<machine, limit>> /\ r.op = "claim"
      /\ \A g \in Box : g # r.box => box'[g] = box[g]
  BY DEF Claims, Busy, FleetInv
<1>2. Boxes' \subseteq Boxes \cup {r.box} /\ Counted' \subseteq Counted \cup {r.box} /\ Machines' = Machines
  BY <1>1 DEF Boxes, Counted, Machines
<1>3. ASSUME q \notin overtaken PROVE NoGrowth
  <2>1. BoxAllowed
    BY <1>1, <1>3 DEF FleetInv, StillHolds
  <2>2. /\ Cardinality(Counted') <= Cardinality(Counted) + 1
        /\ Cardinality(Counted) \in Nat /\ Cardinality(Counted') \in Nat
    BY <1>2, OneMore, FleetFinite
  <2>3. ~Grows(Counted, Counted', limit.boxes)
    BY <2>1, <2>2, FleetFinite DEF BoxAllowed, Grows
  <2>4. ~Grows(Machines, Machines', limit.machines)
    BY <1>2, FleetFinite, NoMore DEF Grows
  <2>5. QED BY <2>3, <2>4 DEF NoGrowth
<1>4. QED BY <1>1, <1>2, <1>3 DEF WritesFleet, FleetInv

LEMMA BoxFormStep ==
    ASSUME FleetInv, NEW q \in FleetRequest, NEW s \in Place, SavesBoxForm(q, s)
    PROVE  WritesFleet /\ (q \notin overtaken => NoGrowth)
<1> DEFINE r == fleetRequest[q]
           row == [at |-> s, phase |-> r.copy.phase, asked |-> box[r.box] # NoBox /\ box[r.box].asked]
<1>1. box' = [box EXCEPT ![r.box] = row] /\ UNCHANGED <<machine, limit>> /\ r.op = "box"
  BY DEF SavesBoxForm, Busy
<1>2. /\ DOMAIN box' = Box /\ \A g \in Box : g # r.box => box'[g] = box[g]
      /\ r.box \in Box => box'[r.box].phase = r.copy.phase
  BY <1>1 DEF FleetInv
<1>3. Boxes' \subseteq Boxes \cup {r.box} /\ Machines' = Machines
  BY <1>1, <1>2 DEF Boxes, Machines
<1>4. ASSUME q \notin overtaken PROVE NoGrowth
  <2>1. r.box \in Boxes /\ r.copy = box[r.box]
    BY <1>1, <1>4 DEF FleetInv, StillHolds
  <2>2. Counted' \subseteq Counted
    BY <1>2, <2>1 DEF Counted, Boxes
  <2>3. QED BY <1>3, <2>2, ShrinkingIsNoGrowth DEF Shrinks
<1>5. QED BY <1>1, <1>2, <1>3, <1>4 DEF WritesFleet, FleetInv

LEMMA AddsStep ==
    ASSUME FleetInv, NEW q \in FleetRequest, AddsMachine(q)
    PROVE  WritesFleet /\ (q \notin overtaken => NoGrowth)
<1>1. /\ UNCHANGED <<box, limit>> /\ fleetRequest[q].op = "add" /\ DOMAIN machine' = 1 .. MaxMachines
      /\ \A d \in 1 .. MaxMachines : d # born + 1 => machine'[d] = machine[d]
  BY DEF AddsMachine, New, Busy, FleetInv
<1>2. Boxes' = Boxes /\ Counted' = Counted /\ Machines' \subseteq Machines \cup {born + 1}
  BY <1>1 DEF Boxes, Counted, Machines
<1>3. ASSUME q \notin overtaken PROVE NoGrowth
  <2>1. MachineAllowed
    BY <1>1, <1>3 DEF FleetInv, StillHolds
  <2>2. /\ Cardinality(Machines') <= Cardinality(Machines) + 1
        /\ Cardinality(Machines) \in Nat /\ Cardinality(Machines') \in Nat
    BY <1>2, OneMore, FleetFinite
  <2>3. ~Grows(Machines, Machines', limit.machines)
    BY <2>1, <2>2, FleetFinite DEF MachineAllowed, Grows
  <2>4. ~Grows(Counted, Counted', limit.boxes)
    BY <1>2, FleetFinite, NoMore DEF Grows
  <2>5. QED BY <2>3, <2>4 DEF NoGrowth
<1>4. QED BY <1>1, <1>2, <1>3 DEF WritesFleet, FleetInv

LEMMA QuickAddsStep ==
    ASSUME FleetInv, NEW q \in FleetRequest, QuickAdds(q)
    PROVE  WritesFleet /\ (q \notin overtaken => NoGrowth)
<1> DEFINE r == fleetRequest[q]
<1>1. /\ UNCHANGED <<box, limit>> /\ r.op = "quick" /\ DOMAIN machine' = 1 .. MaxMachines
      /\ \/ UNCHANGED machine
         \/ \A d \in 1 .. MaxMachines : d # born + 1 => machine'[d] = IF d \in r.on THEN NoMachine ELSE machine[d]
  BY DEF QuickAdds, Busy, FleetInv
<1>2. Boxes' = Boxes /\ Counted' = Counted
  BY <1>1 DEF Boxes, Counted
<1>3. Machines' = Machines \/ Machines' \subseteq (Machines \ r.on) \cup {born + 1}
  BY <1>1 DEF Machines
<1>4. ASSUME q \notin overtaken PROVE NoGrowth
  <2>1. MachineAllowed \/ \E d \in Machines : r.on = {d}
    BY <1>1, <1>4 DEF FleetInv, StillHolds
  <2>2. ASSUME MachineAllowed PROVE ~Grows(Machines, Machines', limit.machines)
    <3>1. Machines' \subseteq Machines \cup {born + 1}
      BY <1>3
    <3>2. /\ Cardinality(Machines') <= Cardinality(Machines) + 1
          /\ Cardinality(Machines) \in Nat /\ Cardinality(Machines') \in Nat
      BY <3>1, OneMore, FleetFinite
    <3>3. QED BY <2>2, <3>2, FleetFinite DEF MachineAllowed, Grows
  <2>3. ASSUME \E d \in Machines : r.on = {d} PROVE ~Grows(Machines, Machines', limit.machines)
    <3>1. PICK d \in Machines : r.on = {d}
      BY <2>3
    <3>2. ~(Cardinality(Machines') > Cardinality(Machines))
      <4>1. CASE Machines' = Machines
        BY <4>1, FleetFinite, NoMore
      <4>2. CASE Machines' \subseteq (Machines \ {d}) \cup {born + 1}
        BY <4>2, <3>1, FleetFinite, OneForOne
      <4>3. QED BY <1>3, <3>1, <4>1, <4>2
    <3>3. QED BY <3>2 DEF Grows
  <2>4. ~Grows(Counted, Counted', limit.boxes)
    BY <1>2, FleetFinite, NoMore DEF Grows
  <2>5. QED BY <2>1, <2>2, <2>3, <2>4 DEF NoGrowth
<1>5. QED BY <1>1, <1>2, <1>4 DEF WritesFleet, FleetInv

(* The other steps remove, or leave the counts alone.                      *)
LEMMA SavesNameStep ==
    ASSUME FleetInv, NEW q \in FleetRequest, SavesName(q)
    PROVE  WritesFleet /\ (q \notin overtaken => NoGrowth)
<1> DEFINE r == fleetRequest[q]
<1>1. /\ UNCHANGED <<box, limit>> /\ r.op = "name" /\ DOMAIN machine' = 1 .. MaxMachines
      /\ \A d \in 1 .. MaxMachines : d # r.machine => machine'[d] = machine[d]
  BY DEF SavesName, Busy, FleetInv
<1>2. Boxes' = Boxes /\ Counted' = Counted /\ Machines' \subseteq Machines \cup {r.machine}
  BY <1>1 DEF Boxes, Counted, Machines
<1>3. ASSUME q \notin overtaken PROVE NoGrowth
  <2>1. r.machine \in Machines
    BY <1>1, <1>3 DEF FleetInv, StillHolds
  <2>2. Shrinks
    BY <1>2, <2>1 DEF Shrinks
  <2>3. QED BY <2>2, ShrinkingIsNoGrowth
<1>4. QED BY <1>1, <1>2, <1>3 DEF WritesFleet, FleetInv

LEMMA ClosesStep ==
    ASSUME FleetInv, NEW q \in FleetRequest, Closes(q)
    PROVE  WritesFleet /\ NoGrowth
<1>1. /\ UNCHANGED limit /\ DOMAIN box' = Box /\ DOMAIN machine' = 1 .. MaxMachines
      /\ \A g \in Box : box'[g] \in {box[g], NoBox}
      /\ \A d \in 1 .. MaxMachines : machine'[d] \in {machine[d], NoMachine}
  BY DEF Closes, FleetInv
<1>2. Boxes' \subseteq Boxes /\ Shrinks
  BY <1>1 DEF Shrinks, Boxes, Counted, Machines
<1>3. QED BY <1>1, <1>2, ShrinkingIsNoGrowth DEF WritesFleet, FleetInv

LEMMA UnaskedStep ==
    ASSUME FleetInv,
           \/ \E g \in Box : AsksForRelease(g) \/ Released(g) \/ (\E s \in Place : ClaimsAgain(g, s))
           \/ \E d \in 1 .. MaxMachines : DeletesMachine(d)
           \/ PlanChanges
    PROVE  WritesFleet /\ NoGrowth /\ Overtakes
<1>1. ASSUME NEW g \in Box, AsksForRelease(g) \/ (\E s \in Place : ClaimsAgain(g, s))
      PROVE  WritesFleet /\ NoGrowth /\ Overtakes
  <2>1. /\ UNCHANGED <<machine, limit>> /\ DOMAIN box' = Box /\ g \in Counted /\ Overtakes
        /\ \A h \in Box : h # g => box'[h] = box[h]
    BY <1>1 DEF AsksForRelease, ClaimsAgain, FleetInv
  <2>2. Boxes' \subseteq Boxes \cup {g} /\ Shrinks
    BY <2>1 DEF Shrinks, Boxes, Counted, Machines
  <2>3. QED BY <2>1, <2>2, ShrinkingIsNoGrowth DEF WritesFleet, FleetInv
<1>2. ASSUME NEW g \in Box, Released(g) PROVE WritesFleet /\ NoGrowth /\ Overtakes
  <2>1. /\ UNCHANGED limit /\ DOMAIN box' = Box /\ g \in Counted /\ Overtakes
        /\ \A h \in Box : h # g => box'[h] = box[h]
        /\ DOMAIN machine' = 1 .. MaxMachines
        /\ \A d \in 1 .. MaxMachines : machine'[d] \in {machine[d], NoMachine}
    BY <1>2 DEF Released, FleetInv, Counted
  <2>2. Boxes' \subseteq Boxes \cup {g} /\ Shrinks
    BY <2>1 DEF Shrinks, Boxes, Counted, Machines
  <2>3. QED BY <2>1, <2>2, ShrinkingIsNoGrowth DEF WritesFleet, FleetInv
<1>3. ASSUME NEW d \in 1 .. MaxMachines, DeletesMachine(d) PROVE WritesFleet /\ NoGrowth /\ Overtakes
  <2>1. /\ UNCHANGED <<box, limit>> /\ Overtakes /\ DOMAIN machine' = 1 .. MaxMachines
        /\ \A c \in 1 .. MaxMachines : machine'[c] \in {machine[c], NoMachine}
    BY <1>3 DEF DeletesMachine, FleetInv
  <2>2. Boxes' = Boxes /\ Shrinks
    BY <2>1 DEF Shrinks, Boxes, Counted, Machines
  <2>3. QED BY <2>1, <2>2, ShrinkingIsNoGrowth DEF WritesFleet, FleetInv
<1>4. CASE PlanChanges
  <2>1. UNCHANGED <<box, machine>> /\ limit' \in FleetLimits /\ Overtakes
    BY <1>4 DEF PlanChanges
  <2>2. Boxes' = Boxes /\ Shrinks
    BY <2>1 DEF Shrinks, Boxes, Counted, Machines
  <2>3. QED BY <2>1, <2>2, ShrinkingIsNoGrowth DEF WritesFleet, FleetInv
<1>5. QED BY <1>1, <1>2, <1>3, <1>4

(* A step either asks, or answers one request, or is of nobody's asking.   *)
Answering(q) ==
    \/ \E s \in Place : SavesBoxForm(q, s)
    \/ Claims(q) \/ AddsMachine(q) \/ QuickAdds(q) \/ SavesName(q) \/ Closes(q)

LEMMA AnsweringStep ==
    ASSUME FleetInv, NEW q \in FleetRequest, Answering(q)
    PROVE  WritesFleet /\ (q \notin overtaken => NoGrowth) /\ FleetAnswers(q) /\ q \in Pending
<1>1. WritesFleet /\ (q \notin overtaken => NoGrowth)
  BY ClaimsStep, BoxFormStep, AddsStep, QuickAddsStep, SavesNameStep, ClosesStep DEF Answering
<1>2. FleetAnswers(q)
  BY DEF Answering, SavesBoxForm, Claims, AddsMachine, QuickAdds, SavesName, Closes
<1>3. fleetRequest[q].op # "quiet"
  BY DEF Answering, SavesBoxForm, Claims, AddsMachine, QuickAdds, SavesName, Closes, Busy
<1>4. QED BY <1>1, <1>2, <1>3 DEF Pending, Quiet

LEMMA FleetStep ==
    ASSUME FleetInv, [FleetNext]_fleetVars
    PROVE  FleetInv' /\ (NoGrowth \/ \E q \in Ending : q \in overtaken)
<1>1. ASSUME NEW q \in FleetRequest, NEW r, Asks(q, r), StillHolds(r)
      PROVE FleetInv' /\ NoGrowth
  <2>1. Machines' = Machines /\ Counted' = Counted
    BY <1>1 DEF Asks, Machines, Counted, Boxes
  <2>2. QED BY <2>1, <1>1, AskedFleet, ShrinkingIsNoGrowth DEF Shrinks
<1>2. ASSUME NEW q \in FleetRequest, Answering(q)
      PROVE FleetInv' /\ (NoGrowth \/ \E p \in Ending : p \in overtaken)
  <2>1. WritesFleet /\ (q \notin overtaken => NoGrowth) /\ FleetAnswers(q) /\ q \in Pending
    BY <1>2, AnsweringStep
  <2>2. FleetInv'
    BY <2>1, WrittenFleet DEF WritesFleet
  <2>3. q \in Ending
    BY <2>1 DEF Ending, FleetAnswers, FleetInv
  <2>4. QED BY <2>1, <2>2, <2>3
<1>3. ASSUME \/ \E g \in Box : AsksForRelease(g) \/ Released(g) \/ (\E s \in Place : ClaimsAgain(g, s))
             \/ \E d \in 1 .. MaxMachines : DeletesMachine(d)
             \/ PlanChanges
      PROVE  FleetInv' /\ NoGrowth
  BY <1>3, UnaskedStep, WrittenFleet DEF WritesFleet
<1>4. CASE UNCHANGED fleetVars
  <2>1. Machines' = Machines /\ Counted' = Counted /\ Boxes' = Boxes
    BY <1>4 DEF fleetVars, Machines, Counted, Boxes
  <2>2. BoxAllowed' = BoxAllowed /\ MachineAllowed' = MachineAllowed
    BY <1>4, <2>1 DEF fleetVars, BoxAllowed, MachineAllowed
  <2>3. FleetInv'
    BY <1>4, <2>1, <2>2 DEF FleetInv, fleetVars, StillHolds
  <2>4. QED BY <2>1, <2>3, ShrinkingIsNoGrowth DEF Shrinks
<1>5. ASSUME NEW q \in FleetRequest, FleetRequestStep(q)
      PROVE FleetInv' /\ (NoGrowth \/ \E p \in Ending : p \in overtaken)
  <2>1. CASE Answering(q)
    BY <2>1, <1>2
  <2>2. CASE ~Answering(q)
    <3>1. \E r : Asks(q, r) /\ StillHolds(r)
      BY <2>2, <1>5, AskingStep DEF FleetRequestStep, Answering
    <3>2. QED BY <3>1, <1>1
  <2>3. QED BY <2>1, <2>2
<1>6. QED BY <1>3, <1>4, <1>5 DEF FleetNext

(* The plan's limits are exceeded only by a request that another's write   *)
(* overtook, for any sites, gateways, equipment and requests.              *)
THEOREM PlanIsKeptWithoutOverlaps == FleetSpec => OnlyOverlapsExceedThePlan
<1>1. FleetInv /\ [FleetNext]_fleetVars => FleetInv'
  BY FleetStep
<1>2. FleetInv /\ [FleetNext]_fleetVars
        => [(Grows(Machines, Machines', limit.machines) \/ Grows(Counted, Counted', limit.boxes))
              => \E q \in Ending : q \in overtaken]_fleetVars
  BY FleetStep DEF NoGrowth
<1>3. QED BY <1>1, <1>2, FleetInitInv, PTL DEF FleetSpec, OnlyOverlapsExceedThePlan

-----------------------------------------------------------------------------
(* The catalog (TemplateReview): the revisions of a key are numbered from 1 *)
(* without a gap or a repetition, and what is offered has the last number. *)
(* The admin's form only holds what the submission once was.               *)
CatalogRecord == [source : {"curated", "community"}, key : Key, rev : Nat,
                  evidence : Evidence \cup {"legacy_unreviewed", "retired"}, current : BOOLEAN]
SubmissionRecord == [status : {"none", "awaiting", "published", "rejected"}, published : Nat]

Numbered(all) == \A t \in DOMAIN all : all[t].key # "none" =>
    /\ all[t].rev > 0
    /\ \A n \in 1 .. all[t].rev : \E u \in DOMAIN all : all[u].key = all[t].key /\ all[u].rev = n
NoneTwice(all) == \A t, u \in DOMAIN all :
    all[t].key # "none" /\ all[t].key = all[u].key /\ all[t].rev = all[u].rev => t = u
OfferedIsLast(all) == \A t, u \in DOMAIN all :
    all[t].current /\ all[t].key # "none" /\ all[u].key = all[t].key => all[u].rev <= all[t].rev
OnlyKeyedDocumented(all) == \A t \in DOMAIN all : all[t].evidence = "documented" => all[t].key # "none"
WithinLength(all) == \A t \in DOMAIN all : all[t].rev <= Len(all)
CatalogKept(all) == /\ all \in Seq(CatalogRecord) /\ WithinLength(all)
                    /\ Numbered(all) /\ NoneTwice(all) /\ OfferedIsLast(all) /\ OnlyKeyedDocumented(all)

Names(record, all) == /\ record \in SubmissionRecord /\ record.published <= Len(all)
                      /\ record.status = "published" => record.published > 0
FormsFit == /\ submission \in [Submission -> SubmissionRecord]
            /\ \A s \in Submission : Names(submission[s], catalog)
            /\ form.op # "closed" => form.on \in Submission
            /\ form.op = "edit" => Names(form.row, catalog)
ReviewInv == CatalogKept(catalog) /\ FormsFit /\ shipped \in Nat

LEMMA ReviewInitInv == ReviewInit => ReviewInv
<1> SUFFICES ASSUME ReviewInit PROVE ReviewInv
  OBVIOUS
<1>1. Legacy \in CatalogRecord /\ Legacy.key = "none" /\ Legacy.evidence = "legacy_unreviewed"
  BY DEF Legacy, CatalogRow, CatalogRecord, Key
<1> DEFINE legacy == Legacy
<1>2. catalog = << >> \/ catalog = <<legacy>>
  BY DEF ReviewInit
<1> HIDE DEF legacy
<1>3. CatalogKept(catalog)
  <2>1. CASE catalog = << >>
    <3>1. DOMAIN catalog = {} /\ catalog \in Seq(CatalogRecord)
      BY <2>1
    <3>2. QED BY <3>1 DEF CatalogKept, WithinLength, Numbered, NoneTwice, OfferedIsLast, OnlyKeyedDocumented
  <2>2. CASE catalog = <<legacy>>
    <3>1. DOMAIN catalog = {1} /\ catalog \in Seq(CatalogRecord) /\ catalog[1] = legacy
      BY <2>2, <1>1 DEF legacy
    <3>2. QED BY <1>1, <3>1 DEF legacy, Legacy, CatalogRow, CatalogKept, WithinLength, Numbered, NoneTwice, OfferedIsLast, OnlyKeyedDocumented
  <2>3. QED BY <1>2, <2>1, <2>2
<1>4. NewSubmission \in SubmissionRecord /\ NewSubmission.published = 0 /\ NewSubmission.status = "none"
  BY DEF NewSubmission, SubmissionRecord
<1>5. FormsFit
  BY <1>2, <1>4 DEF ReviewInit, FormsFit, Names, Closed
<1>6. QED BY <1>3, <1>5 DEF ReviewInit, ReviewInv

(* The next revision of a key takes the place of its last.                 *)
LEMMA RevisionAdded ==
    ASSUME CatalogKept(catalog), NEW old \in Nat, NEW new \in CatalogRecord,
           catalog' = Replacing(old, new), new.key # "none", new.rev > 0, new.rev <= Len(catalog) + 1,
           \A u \in DOMAIN catalog : catalog[u].key = new.key => catalog[u].rev < new.rev,
           \A n \in 1 .. new.rev - 1 : Taken(new.key, n),
           \A u \in DOMAIN catalog : catalog[u].current /\ u # old => catalog[u].key # new.key
    PROVE  CatalogKept(catalog') /\ Len(catalog') = Len(catalog) + 1
<1> DEFINE last == Len(catalog) + 1
           off == [t \in DOMAIN catalog |-> IF t = old THEN [catalog[t] EXCEPT !.current = FALSE] ELSE catalog[t]]
<1>1. catalog \in Seq(CatalogRecord) /\ Len(catalog) \in Nat /\ DOMAIN catalog = 1 .. Len(catalog)
  BY LenProperties DEF CatalogKept
<1>2. \A t \in DOMAIN catalog : /\ off[t] \in CatalogRecord /\ off[t].key = catalog[t].key /\ off[t].rev = catalog[t].rev
                                /\ off[t].evidence = catalog[t].evidence
                                /\ off[t].current => catalog[t].current /\ t # old
  <2> SUFFICES ASSUME NEW t \in DOMAIN catalog
               PROVE  /\ off[t] \in CatalogRecord /\ off[t].key = catalog[t].key /\ off[t].rev = catalog[t].rev
                      /\ off[t].evidence = catalog[t].evidence
                      /\ off[t].current => catalog[t].current /\ t # old
    OBVIOUS
  <2>1. catalog[t] \in CatalogRecord
    BY <1>1
  <2>2. off[t] = IF t = old THEN [catalog[t] EXCEPT !.current = FALSE] ELSE catalog[t]
    OBVIOUS
  <2> HIDE DEF off
  <2>3. QED BY <2>1, <2>2 DEF CatalogRecord
<1>3. off \in Seq(CatalogRecord) /\ Len(off) = Len(catalog) /\ DOMAIN off = DOMAIN catalog
  <2>1. off \in [1 .. Len(catalog) -> CatalogRecord]
    BY <1>1, <1>2
  <2> HIDE DEF off
  <2>2. QED BY <2>1, <1>1
<1>4. catalog' = Append(off, new)
  BY DEF Replacing
<1> HIDE DEF off
<1>5. /\ catalog' \in Seq(CatalogRecord) /\ Len(catalog') = last /\ DOMAIN catalog' = 1 .. last
      /\ catalog'[last] = new /\ \A t \in DOMAIN catalog : catalog'[t] = off[t]
  BY <1>1, <1>3, <1>4
<1>6. \A t \in DOMAIN catalog' : t \in DOMAIN catalog \/ t = last
  BY <1>1, <1>5
<1>7. \A t \in DOMAIN catalog : /\ t \in DOMAIN catalog'
                                /\ catalog'[t].key = catalog[t].key /\ catalog'[t].rev = catalog[t].rev /\ catalog[t].rev \in Nat
                                /\ catalog'[t].evidence = catalog[t].evidence
                                /\ catalog'[t].current => catalog[t].current /\ t # old
  <2> SUFFICES ASSUME NEW t \in DOMAIN catalog
               PROVE  /\ t \in DOMAIN catalog'
                      /\ catalog'[t].key = catalog[t].key /\ catalog'[t].rev = catalog[t].rev /\ catalog[t].rev \in Nat
                      /\ catalog'[t].evidence = catalog[t].evidence
                      /\ catalog'[t].current => catalog[t].current /\ t # old
    OBVIOUS
  <2>1. t \in DOMAIN catalog' /\ catalog'[t] = off[t]
    BY <1>1, <1>5
  <2>2. catalog[t].rev \in Nat
    <3>1. catalog[t] \in CatalogRecord
      BY <1>1
    <3> QED BY <3>1 DEF CatalogRecord
  <2>3. /\ off[t].key = catalog[t].key /\ off[t].rev = catalog[t].rev /\ off[t].evidence = catalog[t].evidence
        /\ off[t].current => catalog[t].current /\ t # old
    BY <1>2, Zenon
  <2> QED BY <2>1, <2>2, <2>3, Zenon
<1>8. Numbered(catalog')
  <2> SUFFICES ASSUME NEW t \in DOMAIN catalog', catalog'[t].key # "none"
               PROVE  /\ catalog'[t].rev > 0
                      /\ \A n \in 1 .. catalog'[t].rev :
                            \E u \in DOMAIN catalog' : catalog'[u].key = catalog'[t].key /\ catalog'[u].rev = n
    BY DEF Numbered
  <2>1. CASE t \in DOMAIN catalog
    <3>1. catalog'[t].key = catalog[t].key /\ catalog'[t].rev = catalog[t].rev
      BY <2>1, <1>7, Zenon
    <3>2. /\ catalog[t].rev > 0
          /\ \A n \in 1 .. catalog[t].rev : Taken(catalog[t].key, n)
      <4>1. Numbered(catalog) /\ catalog[t].key # "none"
        BY <3>1 DEF CatalogKept
      <4>2. QED BY <4>1, <2>1, Zenon DEF Numbered, Taken
    <3>3. ASSUME NEW n \in 1 .. catalog'[t].rev
          PROVE  \E u \in DOMAIN catalog' : catalog'[u].key = catalog'[t].key /\ catalog'[u].rev = n
      <4>1. Taken(catalog[t].key, n)
        BY <3>1, <3>2
      <4>2. PICK u \in DOMAIN catalog : catalog[u].key = catalog[t].key /\ catalog[u].rev = n
        BY <4>1 DEF Taken
      <4>3. u \in DOMAIN catalog' /\ catalog'[u].key = catalog[u].key /\ catalog'[u].rev = catalog[u].rev
        BY <1>7, Zenon
      <4>4. QED BY <3>1, <4>2, <4>3, Zenon
    <3>4. catalog'[t].rev > 0
      BY <3>1, <3>2
    <3>5. QED BY <3>3, <3>4
  <2>2. CASE t = last
    <3>1. \A n \in 1 .. new.rev - 1 : \E u \in DOMAIN catalog' : catalog'[u].key = new.key /\ catalog'[u].rev = n
      BY <1>7 DEF Taken
    <3>2. last \in DOMAIN catalog' /\ new.rev \in Nat
      BY <1>1, <1>5 DEF CatalogRecord
    <3>3. QED BY <2>2, <3>1, <3>2, <1>5
  <2>3. QED BY <2>1, <2>2, <1>6
<1>9. NoneTwice(catalog')
  <2> SUFFICES ASSUME NEW t \in DOMAIN catalog', NEW u \in DOMAIN catalog', catalog'[t].key # "none",
                      catalog'[t].key = catalog'[u].key, catalog'[t].rev = catalog'[u].rev
               PROVE  t = u
    BY DEF NoneTwice
  <2>1. CASE t \in DOMAIN catalog /\ u \in DOMAIN catalog
    BY <2>1, <1>7 DEF CatalogKept, NoneTwice
  <2>2. CASE t = last \/ u = last
    BY <2>2, <1>5, <1>6, <1>7
  <2>3. QED BY <2>1, <2>2, <1>6
<1>10. OfferedIsLast(catalog')
  <2> SUFFICES ASSUME NEW t \in DOMAIN catalog', NEW u \in DOMAIN catalog', catalog'[t].key # "none",
                      catalog'[t].current, catalog'[u].key = catalog'[t].key
               PROVE  catalog'[u].rev <= catalog'[t].rev
    BY DEF OfferedIsLast
  <2>1. CASE t \in DOMAIN catalog /\ u \in DOMAIN catalog
    BY <2>1, <1>7 DEF CatalogKept, OfferedIsLast
  <2>2. CASE t = last
    <3>1. new.rev \in Nat
      BY DEF CatalogRecord
    <3>2. QED BY <2>2, <3>1, <1>5, <1>6, <1>7
  <2>3. CASE t \in DOMAIN catalog /\ u = last
    BY <2>3, <1>5, <1>7
  <2>4. QED BY <2>1, <2>2, <2>3, <1>6
<1>11. OnlyKeyedDocumented(catalog')
  BY <1>5, <1>6, <1>7 DEF CatalogKept, OnlyKeyedDocumented
<1>12. WithinLength(catalog')
  BY <1>1, <1>5, <1>6, <1>7 DEF CatalogKept, WithinLength
<1>13. QED BY <1>5, <1>8, <1>9, <1>10, <1>11, <1>12 DEF CatalogKept

LEMMA RowsOfCatalog ==
    ASSUME CatalogKept(catalog)
    PROVE  /\ Len(catalog) \in Nat /\ DOMAIN catalog = 1 .. Len(catalog)
           /\ \A t \in DOMAIN catalog : catalog[t] \in CatalogRecord
  BY LenProperties DEF CatalogKept

LEMMA Reach == CatalogKept(catalog) => \A t \in DOMAIN catalog : catalog[t].rev <= Len(catalog)
  BY DEF CatalogKept, WithinLength

(* What follows a row that is the last of its key, or is offered, is the   *)
(* key's next number.                                                      *)
LEMMA NumbersUpTo ==
    ASSUME CatalogKept(catalog), NEW t \in DOMAIN catalog, catalog[t].key # "none",
           ~Taken(catalog[t].key, catalog[t].rev + 1)
    PROVE  /\ \A u \in DOMAIN catalog : catalog[u].key = catalog[t].key => catalog[u].rev < catalog[t].rev + 1
           /\ \A n \in 1 .. (catalog[t].rev + 1) - 1 : Taken(catalog[t].key, n)
           /\ \A u \in DOMAIN catalog : catalog[u].current /\ u # t => catalog[u].key # catalog[t].key
<1>1. \A u \in DOMAIN catalog : catalog[u].rev \in Nat
  BY RowsOfCatalog DEF CatalogRecord
<1>2. ASSUME NEW u \in DOMAIN catalog, catalog[u].key = catalog[t].key
      PROVE  catalog[u].rev <= catalog[t].rev
  <2>1. SUFFICES ASSUME catalog[u].rev > catalog[t].rev PROVE FALSE
    BY <1>1
  <2>2. catalog[t].rev + 1 \in 1 .. catalog[u].rev
    BY <2>1, <1>1
  <2>3. QED BY <2>2, <1>2 DEF CatalogKept, Numbered, Taken
<1>3. \A n \in 1 .. catalog[t].rev : Taken(catalog[t].key, n)
  BY DEF CatalogKept, Numbered, Taken
<1>4. (catalog[t].rev + 1) - 1 = catalog[t].rev
  BY <1>1
<1>5. ASSUME NEW u \in DOMAIN catalog, catalog[u].current, u # t, catalog[u].key = catalog[t].key
      PROVE  FALSE
  <2>1. catalog[t].rev <= catalog[u].rev
    BY <1>5 DEF CatalogKept, OfferedIsLast
  <2>2. catalog[t].rev = catalog[u].rev
    BY <2>1, <1>1, <1>2, <1>5
  <2>3. QED BY <2>2, <1>5 DEF CatalogKept, NoneTwice
<1>6. \A u \in DOMAIN catalog : catalog[u].key = catalog[t].key => catalog[u].rev < catalog[t].rev + 1
  BY <1>1, <1>2
<1>7. QED BY <1>3, <1>4, <1>5, <1>6

LEMMA PublicationStep ==
    ASSUME ReviewInv, NEW s \in Submission, Promotion(s) \/ \E evidence \in Evidence : FirstPublication(s, evidence)
    PROVE  CatalogKept(catalog') /\ Len(catalog') = Len(catalog) + 1
<1>t. /\ CatalogKept(catalog) /\ Len(catalog) \in Nat /\ DOMAIN catalog = 1 .. Len(catalog)
      /\ \A t \in DOMAIN catalog : catalog[t] \in CatalogRecord
  BY RowsOfCatalog DEF ReviewInv
<1>1. CASE Promotion(s)
  <2> DEFINE old == submission[s].published
             new == CatalogRow(catalog[old].source, catalog[old].key, catalog[old].rev + 1, "field_verified")
  <2>1. /\ catalog[old].evidence = "documented" /\ ~Taken(catalog[old].key, catalog[old].rev + 1)
        /\ catalog' = Replacing(old, new) /\ submission[s].status = "published"
    BY <1>1 DEF Promotion
  <2>2. old \in DOMAIN catalog /\ old \in Nat
    BY <2>1, <1>t DEF ReviewInv, FormsFit, Names, SubmissionRecord
  <2> HIDE DEF old
  <2>3. catalog[old].key # "none"
    BY <2>1, <2>2, <1>t DEF CatalogKept, OnlyKeyedDocumented
  <2>4. catalog[old] \in CatalogRecord
    BY <2>2, <1>t
  <2>5. new \in CatalogRecord /\ new.key = catalog[old].key /\ new.rev = catalog[old].rev + 1 /\ new.rev > 0
        /\ new.rev <= Len(catalog) + 1
    BY <2>2, <2>4, <1>t, Reach DEF CatalogRow, CatalogRecord, Evidence
  <2> HIDE DEF new
  <2>6. QED BY <2>1, <2>2, <2>3, <2>5, <1>t, NumbersUpTo, RevisionAdded
<1>2. ASSUME NEW evidence \in Evidence, FirstPublication(s, evidence)
      PROVE  CatalogKept(catalog') /\ Len(catalog') = Len(catalog) + 1
  <2> DEFINE both == publication[s].listed \cap CatalogListed
             old == IF both = {} THEN 0 ELSE Min(both)
             kept == old # 0 /\ catalog[old].key # "none"
             key == IF kept THEN catalog[old].key ELSE s
             rev == IF kept THEN catalog[old].rev + 1 ELSE 1
             new == CatalogRow("community", key, rev, evidence)
  <2>1. ~Taken(key, rev) /\ catalog' = Replacing(old, new)
    BY <1>2 DEF FirstPublication
  <2>2. old = 0 \/ old \in CatalogListed
    <3>1. both \in SUBSET Nat
      BY <1>t DEF CatalogListed
    <3>2. CASE both # {}
      <4>1. PICK m \in both : \A n \in both : m <= n
        BY <3>1, <3>2, LeastNumber
      <4>2. Min(both) \in both
        BY <4>1 DEF Min
      <4>3. QED BY <4>2, <3>2
    <3>3. CASE both = {}
      BY <3>3
    <3>4. QED BY <3>2, <3>3
  <2> HIDE DEF old
  <2>3. old \in Nat
    BY <2>2, <1>t DEF CatalogListed
  <2>4. CASE kept
    <3>1. old \in DOMAIN catalog /\ catalog[old].key # "none" /\ key = catalog[old].key /\ rev = catalog[old].rev + 1
      BY <2>2, <2>4 DEF CatalogListed
    <3>2. catalog[old] \in CatalogRecord
      BY <3>1, <1>t
    <3> HIDE DEF key, rev
    <3>3. new \in CatalogRecord /\ new.key = catalog[old].key /\ new.rev = catalog[old].rev + 1 /\ new.rev > 0
          /\ new.rev <= Len(catalog) + 1
      BY <3>1, <3>2, <1>t, Reach DEF CatalogRow, CatalogRecord
    <3> HIDE DEF new
    <3>4. QED BY <2>1, <2>3, <3>1, <3>3, <1>t, NumbersUpTo, RevisionAdded
  <2>5. CASE ~kept
    <3>1. key = s /\ rev = 1 /\ s # "none" /\ s \in Key
      BY <2>5, ReviewAssumption DEF Key
    <3> HIDE DEF key, rev
    <3>2. new \in CatalogRecord /\ new.key = s /\ new.rev = 1 /\ new.rev <= Len(catalog) + 1
      BY <3>1, <1>t DEF CatalogRow, CatalogRecord
    <3> HIDE DEF new
    <3>3. \A u \in DOMAIN catalog : catalog[u].key # s
      <4> SUFFICES ASSUME NEW u \in DOMAIN catalog, catalog[u].key = s PROVE FALSE
        OBVIOUS
      <4>1. 1 \in 1 .. catalog[u].rev
        BY <1>t, <3>1 DEF CatalogKept, Numbered, CatalogRecord
      <4>2. Taken(s, 1)
        BY <4>1, <3>1, <1>t DEF CatalogKept, Numbered, Taken
      <4>3. QED BY <4>2, <2>1, <3>1
    <3>4. \A n \in 1 .. new.rev - 1 : Taken(new.key, n)
      BY <3>2
    <3>5. QED BY <2>1, <2>3, <3>1, <3>2, <3>3, <3>4, <1>t, RevisionAdded
  <2>6. QED BY <2>4, <2>5
<1>3. QED BY <1>1, <1>2

(* A row that leaves the list or is retired.                               *)
LEMMA LeavesTheList ==
    ASSUME CatalogKept(catalog), catalog' \in Seq(CatalogRecord), Len(catalog') = Len(catalog),
           \A t \in DOMAIN catalog : /\ catalog'[t].key = catalog[t].key /\ catalog'[t].rev = catalog[t].rev
                                     /\ catalog'[t].current => catalog[t].current
                                     /\ catalog'[t].evidence = "documented" => catalog[t].evidence = "documented"
    PROVE  CatalogKept(catalog')
<1>1. DOMAIN catalog' = DOMAIN catalog
  BY LenProperties DEF CatalogKept
<1>2. Numbered(catalog')
  BY <1>1 DEF CatalogKept, Numbered
<1>3. NoneTwice(catalog') /\ OfferedIsLast(catalog') /\ OnlyKeyedDocumented(catalog')
  BY <1>1 DEF CatalogKept, NoneTwice, OfferedIsLast, OnlyKeyedDocumented
<1>4. WithinLength(catalog')
  BY <1>1 DEF CatalogKept, WithinLength
<1>5. QED BY <1>2, <1>3, <1>4 DEF CatalogKept

LEMMA RetireStep ==
    ASSUME CatalogKept(catalog), NEW t \in DOMAIN catalog, Retire(t)
    PROVE  CatalogKept(catalog') /\ Len(catalog') = Len(catalog)
<1> DEFINE row == [catalog[t] EXCEPT !.current = FALSE, !.evidence = "retired"]
<1>t. /\ Len(catalog) \in Nat /\ DOMAIN catalog = 1 .. Len(catalog)
      /\ \A u \in DOMAIN catalog : catalog[u] \in CatalogRecord
  BY RowsOfCatalog
<1>1. row \in CatalogRecord /\ row.key = catalog[t].key /\ row.rev = catalog[t].rev /\ ~row.current /\ row.evidence = "retired"
  <2>1. catalog[t] \in CatalogRecord
    BY <1>t
  <2>2. QED BY <2>1 DEF CatalogRecord
<1>2. catalog' = [catalog EXCEPT ![t] = row]
  BY DEF Retire
<1> HIDE DEF row
<1>3. catalog' \in Seq(CatalogRecord) /\ Len(catalog') = Len(catalog)
  BY <1>1, <1>2, ExceptSeq DEF CatalogKept
<1>4. \A u \in DOMAIN catalog : catalog'[u] = IF u = t THEN row ELSE catalog[u]
  BY <1>2
<1>5. QED BY <1>1, <1>3, <1>4, LeavesTheList

LEMMA LastOfKey ==
    ASSUME NEW all \in Seq(CatalogRecord), WithinLength(all), NEW t \in DOMAIN all
    PROVE  /\ \E u \in DOMAIN all : all[u].key = all[t].key /\ all[u].rev = Newest(all, all[t].key)
           /\ \A u \in DOMAIN all : all[u].key = all[t].key => all[u].rev <= Newest(all, all[t].key)
<1> DEFINE key == all[t].key
           revs == {all[u].rev : u \in {v \in DOMAIN all : all[v].key = key}}
<1>1. DOMAIN all = 1 .. Len(all) /\ Len(all) \in Nat /\ \A u \in DOMAIN all : all[u] \in CatalogRecord
  BY LenProperties
<1>2. revs \in SUBSET Nat /\ all[t].rev \in revs /\ \A n \in revs : n <= Len(all)
  BY <1>1 DEF CatalogRecord, WithinLength
<1>3. Newest(all, key) = Max(revs)
  BY DEF Newest
<1>4. \A u \in DOMAIN all : all[u].key = key => all[u].rev \in revs
  OBVIOUS
<1>5. \A n \in revs : \E u \in DOMAIN all : all[u].key = key /\ all[u].rev = n
  OBVIOUS
<1> HIDE DEF revs
<1>6. Max(revs) \in revs /\ \A n \in revs : n <= Max(revs)
  BY <1>1, <1>2, GreatestNumber
<1>7. QED BY <1>3, <1>4, <1>5, <1>6

(* A release's missing revisions are the ones above those of its key.      *)
LEMMA MissingIsAbove ==
    ASSUME CatalogKept(catalog), shipped \in Nat
    PROVE  LET missing == {rev \in 1 .. shipped : ~Taken("manifest", rev)}
               first == shipped - Cardinality(missing)
           IN  /\ Cardinality(missing) \in Nat /\ first \in Nat /\ first <= Len(catalog)
               /\ \A n \in 1 .. first : Taken("manifest", n)
               /\ Cardinality(missing) > 0 =>
                    \A t \in DOMAIN catalog : catalog[t].key = "manifest" => catalog[t].rev <= first
<1> DEFINE missing == {rev \in 1 .. shipped : ~Taken("manifest", rev)}
           there == {0} \cup {rev \in 1 .. shipped : Taken("manifest", rev)}
           last == Max(there)
<1>t. /\ Len(catalog) \in Nat /\ DOMAIN catalog = 1 .. Len(catalog)
      /\ \A t \in DOMAIN catalog : catalog[t] \in CatalogRecord
  BY RowsOfCatalog
<1>1. last \in there /\ \A n \in there : n <= last
  <2>1. there \in SUBSET Nat /\ there # {} /\ \A n \in there : n <= shipped
    OBVIOUS
  <2> HIDE DEF there
  <2>2. QED BY <2>1, GreatestNumber
<1> HIDE DEF last
<1>2. last \in 0 .. shipped /\ last <= Len(catalog)
  <2>1. ASSUME Taken("manifest", last) PROVE last <= Len(catalog)
    BY <2>1, Reach DEF Taken
  <2>2. QED BY <1>1, <1>t, <2>1
<1>3. \A n \in 1 .. last : Taken("manifest", n)
  <2>1. CASE last = 0
    BY <2>1
  <2>2. CASE last # 0
    <3>1. PICK t \in DOMAIN catalog : catalog[t].key = "manifest" /\ catalog[t].rev = last
      BY <2>2, <1>1 DEF Taken
    <3>2. QED BY <3>1 DEF CatalogKept, Numbered, Taken
  <2>3. QED BY <2>1, <2>2
<1>4. missing = last + 1 .. shipped
  <2>1. ASSUME NEW n \in 1 .. shipped PROVE Taken("manifest", n) <=> n <= last
    BY <2>1, <1>1, <1>2, <1>3
  <2>2. QED BY <2>1, <1>2
<1>5. Cardinality(missing) = shipped - last
  <2>1. last + 1 \in Int /\ shipped \in Int
    BY <1>2
  <2>2. Cardinality(last + 1 .. shipped) = IF last + 1 > shipped THEN 0 ELSE shipped - (last + 1) + 1
    BY <2>1, FS_Interval
  <2>3. last \in Nat /\ last <= shipped /\ shipped \in Nat
    BY <1>2
  <2> HIDE DEF missing
  <2>4. QED BY <2>2, <2>3, <1>4
<1>6. ASSUME last < shipped, NEW t \in DOMAIN catalog, catalog[t].key = "manifest"
      PROVE  catalog[t].rev <= last
  <2>1. SUFFICES ASSUME catalog[t].rev > last PROVE FALSE
    BY <1>t, <1>2 DEF CatalogRecord
  <2>2. last + 1 \in 1 .. catalog[t].rev
    BY <2>1, <1>t, <1>2 DEF CatalogRecord
  <2>3. Taken("manifest", last + 1)
    BY <2>2, <1>6 DEF CatalogKept, Numbered, Taken
  <2>4. last + 1 \in there
    BY <2>3, <1>2, <1>6
  <2>5. QED BY <2>4, <1>1, <1>2
<1>7. /\ Cardinality(missing) \in Nat /\ shipped - Cardinality(missing) = last
      /\ Cardinality(missing) > 0 => last < shipped
  BY <1>2, <1>5
<1> HIDE DEF missing
<1>8. /\ Cardinality(missing) > 0 =>
           \A t \in DOMAIN catalog : catalog[t].key = "manifest" => catalog[t].rev <= last
  BY <1>6, <1>7
<1>9. last \in Nat
  BY <1>2
<1>10. QED BY <1>2, <1>3, <1>7, <1>8, <1>9 DEF missing

LEMMA ImportStep ==
    ASSUME CatalogKept(catalog), shipped \in Nat, Import
    PROVE  CatalogKept(catalog') /\ Len(catalog') >= Len(catalog)
<1> DEFINE missing == {rev \in 1 .. shipped : ~Taken("manifest", rev)}
           count == Cardinality(missing)
           first == shipped - count
           len == Len(catalog)
           created == [i \in 1 .. count |-> CatalogRow("curated", "manifest", first + i, "documented")]
           kept == [t \in DOMAIN catalog |-> IF catalog[t].key = "none" THEN [catalog[t] EXCEPT !.current = FALSE, !.evidence = "retired"]
                                             ELSE catalog[t]]
           all == kept \o created
<1>t. /\ catalog \in Seq(CatalogRecord) /\ len \in Nat /\ DOMAIN catalog = 1 .. len
      /\ \A t \in DOMAIN catalog : catalog[t] \in CatalogRecord
  BY RowsOfCatalog DEF CatalogKept
<1>1. catalog' = NewestListed(all)
  BY DEF Import
<1>2. /\ count \in Nat /\ first \in Nat /\ first <= len
      /\ \A n \in 1 .. first : Taken("manifest", n)
      /\ count > 0 => \A t \in DOMAIN catalog : catalog[t].key = "manifest" => catalog[t].rev <= first
  BY MissingIsAbove
<1> HIDE DEF missing, count, first
<1>3. created \in Seq(CatalogRecord) /\ Len(created) = count
  <2>1. \A i \in 1 .. count : CatalogRow("curated", "manifest", first + i, "documented") \in CatalogRecord
    BY <1>2 DEF CatalogRow, CatalogRecord, Key, Evidence
  <2>2. created \in [1 .. count -> CatalogRecord]
    BY <2>1
  <2> HIDE DEF created
  <2>3. QED BY <2>2, <1>2
<1>4. \A i \in 1 .. count : created[i].key = "manifest" /\ created[i].rev = first + i /\ created[i].evidence = "documented"
  BY DEF CatalogRow
<1>5. \A t \in DOMAIN catalog :
         /\ kept[t] \in CatalogRecord /\ kept[t].key = catalog[t].key /\ kept[t].rev = catalog[t].rev
         /\ kept[t].current => catalog[t].current
         /\ kept[t].evidence = "documented" => catalog[t].evidence = "documented"
  <2> SUFFICES ASSUME NEW t \in DOMAIN catalog
               PROVE  /\ kept[t] \in CatalogRecord /\ kept[t].key = catalog[t].key /\ kept[t].rev = catalog[t].rev
                      /\ kept[t].current => catalog[t].current
                      /\ kept[t].evidence = "documented" => catalog[t].evidence = "documented"
    OBVIOUS
  <2>1. catalog[t] \in CatalogRecord
    BY <1>t
  <2>2. kept[t] = IF catalog[t].key = "none" THEN [catalog[t] EXCEPT !.current = FALSE, !.evidence = "retired"] ELSE catalog[t]
    OBVIOUS
  <2> HIDE DEF kept
  <2>3. QED BY <2>1, <2>2 DEF CatalogRecord
<1>6. kept \in Seq(CatalogRecord) /\ Len(kept) = len
  <2>1. kept \in [1 .. len -> CatalogRecord]
    BY <1>t, <1>5
  <2> HIDE DEF kept
  <2>2. QED BY <2>1, <1>t
<1> HIDE DEF created, kept
<1>7. /\ all \in Seq(CatalogRecord) /\ Len(all) = len + count /\ DOMAIN all = 1 .. len + count
      /\ \A t \in 1 .. len : all[t] = kept[t]
      /\ \A i \in 1 .. count : all[len + i] = created[i]
  BY SMTT(30), <1>t, <1>2, <1>3, <1>6
<1> HIDE DEF all
<1>8. \A t \in DOMAIN all : t \in DOMAIN catalog \/ \E i \in 1 .. count : t = len + i
  <2> SUFFICES ASSUME NEW t \in DOMAIN all, t > len PROVE t - len \in 1 .. count /\ t = len + (t - len)
    BY <1>t, <1>7
  <2>1. QED BY <1>t, <1>2, <1>7
<1>9. \A t \in DOMAIN catalog :
         /\ t \in DOMAIN all /\ all[t].key = catalog[t].key /\ all[t].rev = catalog[t].rev
         /\ all[t].current => catalog[t].current
         /\ all[t].evidence = "documented" => catalog[t].evidence = "documented"
  BY <1>t, <1>2, <1>5, <1>7
<1>10. \A i \in 1 .. count : all[len + i].key = "manifest" /\ all[len + i].rev = first + i /\ len + i \in DOMAIN all
  <2> SUFFICES ASSUME NEW i \in 1 .. count
               PROVE  all[len + i].key = "manifest" /\ all[len + i].rev = first + i /\ len + i \in DOMAIN all
    OBVIOUS
  <2>1. all[len + i] = created[i] /\ created[i].key = "manifest" /\ created[i].rev = first + i
    BY <1>4, <1>7
  <2>2. len + i \in 1 .. len + count
    BY <1>t, <1>2
  <2>3. QED BY <2>1, <2>2, <1>7
<1>11. WithinLength(all)
  <2> SUFFICES ASSUME NEW t \in DOMAIN all PROVE all[t].rev <= len + count
    BY <1>7 DEF WithinLength
  <2>1. CASE t \in DOMAIN catalog
    <3>1. catalog[t].rev <= len /\ catalog[t].rev \in Nat
      BY <2>1, <1>t, Reach DEF CatalogRecord
    <3>2. QED BY <3>1, <2>1, <1>t, <1>2, <1>9
  <2>2. ASSUME NEW i \in 1 .. count, t = len + i PROVE all[t].rev <= len + count
    BY <2>2, <1>t, <1>2, <1>10
  <2>3. QED BY <2>1, <2>2, <1>8
<1>12. Numbered(all)
  <2> SUFFICES ASSUME NEW t \in DOMAIN all, all[t].key # "none"
               PROVE  /\ all[t].rev > 0
                      /\ \A n \in 1 .. all[t].rev : \E u \in DOMAIN all : all[u].key = all[t].key /\ all[u].rev = n
    BY DEF Numbered
  <2>1. CASE t \in DOMAIN catalog
    <3>1. /\ catalog[t].rev > 0
          /\ \A n \in 1 .. catalog[t].rev : \E u \in DOMAIN catalog : catalog[u].key = catalog[t].key /\ catalog[u].rev = n
      BY <2>1, <1>9 DEF CatalogKept, Numbered
    <3>2. QED BY <3>1, <2>1, <1>9
  <2>2. ASSUME NEW i \in 1 .. count, t = len + i
        PROVE  /\ all[t].rev > 0
               /\ \A n \in 1 .. all[t].rev : \E u \in DOMAIN all : all[u].key = all[t].key /\ all[u].rev = n
    <3>1. all[t].rev = first + i /\ all[t].key = "manifest"
      BY <2>2, <1>10
    <3>2. ASSUME NEW n \in 1 .. first PROVE \E u \in DOMAIN all : all[u].key = "manifest" /\ all[u].rev = n
      <4>1. PICK u \in DOMAIN catalog : catalog[u].key = "manifest" /\ catalog[u].rev = n
        BY <1>2 DEF Taken
      <4>2. QED BY <4>1, <1>9
    <3>3. ASSUME NEW n \in first + 1 .. first + i PROVE \E u \in DOMAIN all : all[u].key = "manifest" /\ all[u].rev = n
      <4>1. n - first \in 1 .. count /\ first + (n - first) = n
        BY <1>2
      <4>2. QED BY <4>1, <1>10
    <3>4. QED BY <3>1, <3>2, <3>3, <1>2
  <2>3. QED BY <2>1, <2>2, <1>8
<1>13. NoneTwice(all)
  <2>1. ASSUME NEW t \in DOMAIN catalog, NEW i \in 1 .. count, catalog[t].key = "manifest", catalog[t].rev = first + i
        PROVE  FALSE
    BY <2>1, <1>2
  <2>2. ASSUME NEW t \in DOMAIN all, NEW u \in DOMAIN all, all[t].key # "none",
               all[t].key = all[u].key, all[t].rev = all[u].rev
        PROVE  t = u
    <3>1. CASE t \in DOMAIN catalog /\ u \in DOMAIN catalog
      BY <2>2, <3>1, <1>9 DEF CatalogKept, NoneTwice
    <3>2. ASSUME t \in DOMAIN catalog, NEW i \in 1 .. count, u = len + i PROVE FALSE
      BY <2>1, <2>2, <3>2, <1>9, <1>10
    <3>3. ASSUME u \in DOMAIN catalog, NEW i \in 1 .. count, t = len + i PROVE FALSE
      BY <2>1, <2>2, <3>3, <1>9, <1>10
    <3>4. ASSUME NEW i \in 1 .. count, NEW j \in 1 .. count, t = len + i, u = len + j PROVE t = u
      <4>1. first + i = first + j
        BY <2>2, <3>4, <1>10
      <4>2. QED BY <4>1, <3>4, <1>2
    <3>5. QED BY <3>1, <3>2, <3>3, <3>4, <1>8
  <2>3. QED BY <2>2 DEF NoneTwice
<1>14. OnlyKeyedDocumented(all)
  BY <1>8, <1>9, <1>10 DEF CatalogKept, OnlyKeyedDocumented
<1>15. \A t \in DOMAIN all :
         /\ catalog'[t] \in CatalogRecord /\ catalog'[t].key = all[t].key /\ catalog'[t].rev = all[t].rev
         /\ catalog'[t].evidence = all[t].evidence
         /\ catalog'[t].current => all[t].current /\ (all[t].key = "manifest" => all[t].rev = Newest(all, "manifest"))
  <2> SUFFICES ASSUME NEW t \in DOMAIN all
               PROVE  /\ catalog'[t] \in CatalogRecord /\ catalog'[t].key = all[t].key /\ catalog'[t].rev = all[t].rev
                      /\ catalog'[t].evidence = all[t].evidence
                      /\ catalog'[t].current => all[t].current /\ (all[t].key = "manifest" => all[t].rev = Newest(all, "manifest"))
    OBVIOUS
  <2>1. all[t] \in CatalogRecord
    BY <1>7
  <2>2. catalog'[t] = IF all[t].key = "manifest" /\ all[t].rev # Newest(all, "manifest") THEN [all[t] EXCEPT !.current = FALSE] ELSE all[t]
    BY <1>1 DEF NewestListed
  <2>3. QED BY <2>1, <2>2 DEF CatalogRecord
<1>16. catalog' \in Seq(CatalogRecord) /\ Len(catalog') = len + count /\ DOMAIN catalog' = DOMAIN all
  <2>1. DOMAIN catalog' = DOMAIN all /\ catalog' = [t \in DOMAIN all |-> catalog'[t]]
    BY <1>1 DEF NewestListed
  <2>2. catalog' \in [1 .. len + count -> CatalogRecord] /\ len + count \in Nat
    BY <2>1, <1>t, <1>2, <1>7, <1>15
  <2>3. QED BY <2>1, <2>2
<1>17. WithinLength(catalog') /\ NoneTwice(catalog') /\ OnlyKeyedDocumented(catalog') /\ Numbered(catalog')
  <2>1. WithinLength(catalog')
    BY <1>7, <1>11, <1>15, <1>16 DEF WithinLength
  <2>2. NoneTwice(catalog') /\ OnlyKeyedDocumented(catalog')
    BY <1>13, <1>14, <1>15, <1>16 DEF NoneTwice, OnlyKeyedDocumented
  <2>3. Numbered(catalog')
    BY <1>12, <1>15, <1>16 DEF Numbered
  <2>4. QED BY <2>1, <2>2, <2>3
<1>18. OfferedIsLast(catalog')
  <2> SUFFICES ASSUME NEW t \in DOMAIN all, NEW u \in DOMAIN all, catalog'[t].current, all[t].key # "none", all[u].key = all[t].key
               PROVE  all[u].rev <= all[t].rev
    BY <1>15, <1>16 DEF OfferedIsLast
  <2>1. CASE all[t].key = "manifest"
    BY <2>1, <1>7, <1>11, <1>15, LastOfKey
  <2>2. CASE all[t].key # "manifest"
    <3>1. t \in DOMAIN catalog /\ u \in DOMAIN catalog
      BY <2>2, <1>8, <1>10
    <3>2. QED BY <3>1, <1>9, <1>15 DEF CatalogKept, OfferedIsLast
  <2>3. QED BY <2>1, <2>2
<1>19. QED BY <1>t, <1>2, <1>16, <1>17, <1>18 DEF CatalogKept

LEMMA FormsStay ==
    ASSUME FormsFit, Len(catalog) \in Nat, Len(catalog') \in Nat, Len(catalog') >= Len(catalog), UNCHANGED <<submission, form>>
    PROVE  FormsFit'
<1>1. ASSUME NEW record, Names(record, catalog) PROVE Names(record, catalog')
  BY <1>1 DEF Names, SubmissionRecord
<1>2. QED BY <1>1 DEF FormsFit

LEMMA ReviewStep == ReviewInv /\ [ReviewNext]_reviewVars => ReviewInv'
<1> SUFFICES ASSUME ReviewInv, [ReviewNext]_reviewVars PROVE ReviewInv'
  OBVIOUS
<1>t. /\ CatalogKept(catalog) /\ shipped \in Nat /\ FormsFit /\ Len(catalog) \in Nat
      /\ submission \in [Submission -> SubmissionRecord]
      /\ \A s \in Submission : Names(submission[s], catalog)
  BY RowsOfCatalog DEF ReviewInv, FormsFit
<1>1. ASSUME CatalogKept(catalog'), Len(catalog') >= Len(catalog), UNCHANGED <<submission, form, shipped>>
      PROVE  ReviewInv'
  <2>1. Len(catalog') \in Nat
    BY <1>1, LenProperties DEF CatalogKept
  <2>2. QED BY <1>1, <1>t, <2>1, FormsStay DEF ReviewInv
<1>2. CASE Import
  BY <1>1, <1>2, <1>t, ImportStep DEF Import
<1>3. ASSUME NEW t \in DOMAIN catalog, Retire(t) PROVE ReviewInv'
  <2>1. CatalogKept(catalog') /\ Len(catalog') = Len(catalog)
    BY <1>3, <1>t, RetireStep
  <2>2. UNCHANGED <<submission, form, shipped>>
    BY <1>3 DEF Retire
  <2>3. QED BY <2>1, <2>2, <1>1, <1>t
<1>4. CASE Release
  BY <1>4, <1>t DEF Release, ReviewInv, FormsFit
<1>5. CASE Saves
  <2> DEFINE new == IF form.op = "edit" THEN form.row ELSE [submission[form.on] EXCEPT !.status = "rejected"]
  <2>1. /\ form.op # "closed" /\ form' = Closed /\ UNCHANGED <<catalog, shipped>>
        /\ submission' = [submission EXCEPT ![form.on] = new]
    BY <1>5 DEF Saves
  <2>2. Names(new, catalog)
    BY <2>1, <1>t DEF FormsFit, Names, SubmissionRecord
  <2> HIDE DEF new
  <2>3. new \in SubmissionRecord /\ form.on \in Submission
    BY <2>1, <2>2, <1>t DEF Names, FormsFit
  <2>4. submission' \in [Submission -> SubmissionRecord] /\ \A s \in Submission : Names(submission'[s], catalog)
    BY <2>1, <2>2, <2>3, <1>t
  <2>5. form'.op = "closed"
    BY <2>1 DEF Closed
  <2>6. FormsFit'
    BY <2>1, <2>4, <2>5 DEF FormsFit
  <2>7. QED BY <2>1, <2>6, <1>t DEF ReviewInv
<1>6. ASSUME NEW s \in Submission, Submit(s) PROVE ReviewInv'
  <2>1. /\ submission' = [submission EXCEPT ![s].status = "awaiting"] /\ UNCHANGED <<catalog, shipped, form>>
    BY <1>6 DEF Submit
  <2> DEFINE new == [submission[s] EXCEPT !.status = "awaiting"]
  <2>2. Names(new, catalog)
    BY <1>t DEF Names, SubmissionRecord
  <2>3. submission' = [submission EXCEPT ![s] = new]
    BY <2>1
  <2> HIDE DEF new
  <2>4. submission' \in [Submission -> SubmissionRecord] /\ \A r \in Submission : Names(submission'[r], catalog)
    BY <2>2, <2>3, <1>t DEF Names
  <2>5. FormsFit'
    BY <2>1, <2>4, <1>t DEF FormsFit
  <2>6. QED BY <2>1, <2>5, <1>t DEF ReviewInv
<1>7. ASSUME NEW s \in Submission, Opens(s) PROVE ReviewInv'
  <2>1. /\ \/ form' = [op |-> "edit", on |-> s, row |-> submission[s]]
           \/ form' = [op |-> "reject", on |-> s, row |-> NewSubmission]
        /\ UNCHANGED <<catalog, submission, shipped>>
    BY <1>7 DEF Opens
  <2>2. form'.on \in Submission /\ (form'.op = "edit" => Names(form'.row, catalog))
    BY <2>1, <1>t
  <2>3. FormsFit'
    BY <2>1, <2>2, <1>t DEF FormsFit
  <2>4. QED BY <2>1, <2>3, <1>t DEF ReviewInv
<1>8. ASSUME NEW s \in Submission, Publishes(s) PROVE ReviewInv'
  <2> DEFINE next == Len(catalog) + 1
             new == [submission[s] EXCEPT !.status = "published", !.published = next]
  <2>1. /\ submission' = [submission EXCEPT ![s].status = "published", ![s].published = Len(catalog) + 1]
        /\ UNCHANGED <<shipped, form>>
        /\ Promotion(s) \/ \E evidence \in Evidence : FirstPublication(s, evidence)
    BY <1>8 DEF Publishes
  <2>2. CatalogKept(catalog') /\ Len(catalog') = Len(catalog) + 1
    BY <2>1, PublicationStep
  <2>3. \A record : Names(record, catalog) => Names(record, catalog')
    BY <2>2, <1>t DEF Names, SubmissionRecord
  <2>4. Names(new, catalog')
    <3>1. submission[s] \in SubmissionRecord
      BY <1>t
    <3>2. next \in Nat /\ next > 0 /\ next <= Len(catalog')
      BY <2>2, <1>t
    <3> HIDE DEF next
    <3>3. new \in SubmissionRecord /\ new.published = next
      BY <3>1, <3>2 DEF SubmissionRecord
    <3> HIDE DEF new
    <3>4. QED BY <3>2, <3>3 DEF Names
  <2>5. submission' = [submission EXCEPT ![s] = new]
    BY <2>1
  <2> HIDE DEF new
  <2>6. submission' \in [Submission -> SubmissionRecord] /\ \A r \in Submission : Names(submission'[r], catalog')
    BY <2>3, <2>4, <2>5, <1>t DEF Names
  <2>7. FormsFit'
    BY <2>1, <2>3, <2>6, <1>t DEF FormsFit
  <2>8. QED BY <2>1, <2>2, <2>7, <1>t DEF ReviewInv
<1>9. ASSUME NEW s \in Submission, PublishReads(s) \/ PublishFails(s) PROVE ReviewInv'
  BY <1>9, <1>t DEF PublishReads, PublishFails, ReviewInv, FormsFit
<1>10. CASE UNCHANGED reviewVars
  BY <1>10, <1>t DEF reviewVars, ReviewInv, FormsFit
<1>11. QED BY <1>2, <1>3, <1>4, <1>5, <1>6, <1>7, <1>8, <1>9, <1>10 DEF ReviewNext

(* A map on offer is the newest revision of its key, however many reviews,  *)
(* promotions, retirements and imports interleave.                         *)
THEOREM OffersAreNewest == ReviewSpec => []OnlyTheNewestIsOffered
<1>1. ReviewInv => OnlyTheNewestIsOffered
  <2> SUFFICES ASSUME ReviewInv, NEW t \in DOMAIN catalog, catalog[t].current, catalog[t].key # "none"
               PROVE  catalog[t].rev = Newest(catalog, catalog[t].key)
    BY DEF OnlyTheNewestIsOffered
  <2>1. /\ catalog \in Seq(CatalogRecord) /\ WithinLength(catalog) /\ OfferedIsLast(catalog)
        /\ \A u \in DOMAIN catalog : catalog[u].rev \in Nat
    BY RowsOfCatalog DEF ReviewInv, CatalogKept, CatalogRecord
  <2>2. PICK u \in DOMAIN catalog : catalog[u].key = catalog[t].key /\ catalog[u].rev = Newest(catalog, catalog[t].key)
    BY <2>1, LastOfKey
  <2>3. catalog[t].rev <= catalog[u].rev
    BY <2>1, <2>2, LastOfKey
  <2>4. catalog[u].rev <= catalog[t].rev
    BY <2>1, <2>2 DEF OfferedIsLast
  <2>5. QED BY <2>1, <2>2, <2>3, <2>4
<1>2. QED BY <1>1, ReviewInitInv, ReviewStep, PTL DEF ReviewSpec

-----------------------------------------------------------------------------
(* Private templates (TeamTemplates): a family's revisions are numbered     *)
(* from 1 without a gap or a repetition, and a draft whose next number is  *)
(* free is the only one of its family that can be listed.                  *)
TeamRowRecord == [family : Nat \ {0}, rev : Nat \ {0}, listed : BOOLEAN]
HasNumber(all, f, n) == \E u \in DOMAIN all : all[u].family = f /\ all[u].rev = n

FamiliesNumbered(all) == \A t \in DOMAIN all :
    /\ all[t].family <= Len(all) /\ all[t].rev <= Len(all)
    /\ \A n \in 1 .. all[t].rev : HasNumber(all, all[t].family, n)
NumbersDiffer(all) == \A t, u \in DOMAIN all : all[t].family = all[u].family /\ all[t].rev = all[u].rev => t = u
FamiliesKept(all) == all \in Seq(TeamRowRecord) /\ FamiliesNumbered(all) /\ NumbersDiffer(all)

ListedAlone(x, all) ==
    /\ x \in 0 .. Len(all)
    /\ x # 0 /\ ~HasNumber(all, all[x].family, all[x].rev + 1) =>
         \A u \in DOMAIN all : all[u].listed /\ all[u].family = all[x].family => u = x
FamilyKnown(f, all) == f = 0 \/ \E t \in DOMAIN all : all[t].family = f
RequestFits(request, all) ==
    /\ request.op = "draft" => ListedAlone(request.last, all)
    /\ request.op = "map" => request.on \in Equipment /\ FamilyKnown(request.last, all)
DeviceRecord == [template : Nat, saved : Nat, confirmed : BOOLEAN]
TemplatesInv ==
    /\ FamiliesKept(rows) /\ ListedAlone(draft, rows)
    /\ DOMAIN page = Page /\ \A p \in Page : RequestFits(page[p], rows)
    /\ device \in [Equipment -> DeviceRecord]
    /\ \A e \in Equipment : device[e].template <= Len(rows) /\ device[e].saved <= Len(rows)

NoFork ==
    ~Forked(rows) /\ Forked(rows') =>
        \E p \in Page : page[p].op = "map" /\ page'[p].op = "free" /\ page[p].listed # Family(page[p].last) \cap TeamListed

LEMMA TemplatesInitInv == TemplatesInit => TemplatesInv
<1> SUFFICES ASSUME TemplatesInit PROVE TemplatesInv
  OBVIOUS
<1>1. rows \in Seq(TeamRowRecord) /\ DOMAIN rows = {} /\ Len(rows) = 0
  BY DEF TemplatesInit
<1>2. FamiliesKept(rows) /\ ListedAlone(draft, rows)
  BY <1>1 DEF TemplatesInit, FamiliesKept, FamiliesNumbered, NumbersDiffer, ListedAlone
<1>3. \A p \in Page : RequestFits(page[p], rows)
  BY DEF TemplatesInit, RequestFits, Free
<1>4. QED BY <1>1, <1>2, <1>3 DEF TemplatesInit, TemplatesInv, DeviceRecord

LEMMA RowsOfTeam ==
    ASSUME FamiliesKept(rows)
    PROVE  /\ Len(rows) \in Nat /\ DOMAIN rows = 1 .. Len(rows)
           /\ \A t \in DOMAIN rows : rows[t] \in TeamRowRecord /\ rows[t].family \in 1 .. Len(rows) /\ rows[t].rev \in 1 .. Len(rows)
<1>1. Len(rows) \in Nat /\ DOMAIN rows = 1 .. Len(rows) /\ \A t \in DOMAIN rows : rows[t] \in TeamRowRecord
  BY LenProperties DEF FamiliesKept
<1>2. QED BY <1>1 DEF FamiliesKept, FamiliesNumbered, TeamRowRecord

(* A row with the family's next number is added and some leave the list.   *)
LEMMA TeamRowAdded ==
    ASSUME FamiliesKept(rows), NEW old, NEW new \in TeamRowRecord, AddsRow(old, new),
           new.family <= Len(rows) + 1, new.rev <= Len(rows) + 1,
           \A u \in DOMAIN rows : rows[u].family = new.family => rows[u].rev < new.rev,
           \A n \in 1 .. new.rev - 1 : HasNumber(rows, new.family, n)
    PROVE  /\ FamiliesKept(rows') /\ Len(rows') = Len(rows) + 1 /\ rows'[NextRow] = new
           /\ \A t \in DOMAIN rows : /\ rows'[t].family = rows[t].family /\ rows'[t].rev = rows[t].rev
                                     /\ rows'[t].listed => rows[t].listed /\ t \notin old
           /\ \A x : ListedAlone(x, rows) => ListedAlone(x, rows')
           /\ \A f : FamilyKnown(f, rows) => FamilyKnown(f, rows')
<1> DEFINE off == [t \in DOMAIN rows |-> IF t \in old THEN [rows[t] EXCEPT !.listed = FALSE] ELSE rows[t]]
<1>t. /\ Len(rows) \in Nat /\ DOMAIN rows = 1 .. Len(rows)
      /\ \A t \in DOMAIN rows : rows[t] \in TeamRowRecord /\ rows[t].family \in 1 .. Len(rows) /\ rows[t].rev \in 1 .. Len(rows)
  BY RowsOfTeam
<1>1. \A t \in DOMAIN rows : /\ off[t] \in TeamRowRecord /\ off[t].family = rows[t].family /\ off[t].rev = rows[t].rev
                             /\ off[t].listed => rows[t].listed /\ t \notin old
  <2> SUFFICES ASSUME NEW t \in DOMAIN rows
               PROVE  /\ off[t] \in TeamRowRecord /\ off[t].family = rows[t].family /\ off[t].rev = rows[t].rev
                      /\ off[t].listed => rows[t].listed /\ t \notin old
    OBVIOUS
  <2>1. rows[t] \in TeamRowRecord
    BY <1>t
  <2>2. off[t] = IF t \in old THEN [rows[t] EXCEPT !.listed = FALSE] ELSE rows[t]
    OBVIOUS
  <2> HIDE DEF off
  <2>3. QED BY <2>1, <2>2 DEF TeamRowRecord
<1>2. rows' = Append(off, new)
  BY DEF AddsRow
<1>3. off \in Seq(TeamRowRecord) /\ Len(off) = Len(rows)
  <2>1. off \in [1 .. Len(rows) -> TeamRowRecord]
    BY <1>t, <1>1
  <2> HIDE DEF off
  <2>2. QED BY <2>1, <1>t
<1> HIDE DEF off
<1>4. /\ rows' \in Seq(TeamRowRecord) /\ Len(rows') = Len(rows) + 1 /\ DOMAIN rows' = 1 .. Len(rows) + 1
      /\ rows'[Len(rows) + 1] = new /\ \A t \in DOMAIN rows : rows'[t] = off[t]
  BY <1>t, <1>2, <1>3
<1>5. \A t \in DOMAIN rows' : t \in DOMAIN rows \/ t = Len(rows) + 1
  BY <1>t, <1>4
<1>6. \A t \in DOMAIN rows : /\ t \in DOMAIN rows'
                             /\ rows'[t].family = rows[t].family /\ rows'[t].rev = rows[t].rev
                             /\ rows'[t].listed => rows[t].listed /\ t \notin old
  BY <1>t, <1>1, <1>4
<1>7. new.family \in Nat /\ new.rev \in Nat /\ new.rev > 0 /\ Len(rows) + 1 \in DOMAIN rows'
  BY <1>t, <1>4 DEF TeamRowRecord
<1>8. \A f, n : HasNumber(rows, f, n) => HasNumber(rows', f, n)
  BY <1>6 DEF HasNumber
<1>9. HasNumber(rows', new.family, new.rev)
  BY <1>4, <1>7 DEF HasNumber
<1>10. FamiliesNumbered(rows')
  <2> SUFFICES ASSUME NEW t \in DOMAIN rows'
               PROVE  /\ rows'[t].family <= Len(rows) + 1 /\ rows'[t].rev <= Len(rows) + 1
                      /\ \A n \in 1 .. rows'[t].rev : HasNumber(rows', rows'[t].family, n)
    BY <1>4 DEF FamiliesNumbered
  <2>1. CASE t \in DOMAIN rows
    <3>1. rows[t].family \in 1 .. Len(rows) /\ rows[t].rev \in 1 .. Len(rows)
      BY <2>1, <1>t
    <3>2. \A n \in 1 .. rows[t].rev : HasNumber(rows, rows[t].family, n)
      BY <2>1 DEF FamiliesKept, FamiliesNumbered
    <3>3. QED BY <3>1, <3>2, <2>1, <1>t, <1>6, <1>8
  <2>2. CASE t = Len(rows) + 1
    <3>1. \A n \in 1 .. new.rev : n \in 1 .. new.rev - 1 \/ n = new.rev
      BY <1>7
    <3>2. QED BY <3>1, <2>2, <1>4, <1>7, <1>8, <1>9
  <2>3. QED BY <2>1, <2>2, <1>5
<1>11. NumbersDiffer(rows')
  <2> SUFFICES ASSUME NEW t \in DOMAIN rows', NEW u \in DOMAIN rows', rows'[t].family = rows'[u].family, rows'[t].rev = rows'[u].rev
               PROVE  t = u
    BY DEF NumbersDiffer
  <2>1. CASE t \in DOMAIN rows /\ u \in DOMAIN rows
    BY <2>1, <1>6 DEF FamiliesKept, NumbersDiffer
  <2>2. CASE t = Len(rows) + 1 \/ u = Len(rows) + 1
    BY <2>2, <1>t, <1>4, <1>5, <1>6, <1>7
  <2>3. QED BY <2>1, <2>2, <1>5
<1>12. ASSUME NEW x, ListedAlone(x, rows) PROVE ListedAlone(x, rows')
  <2> SUFFICES ASSUME x # 0, ~HasNumber(rows', rows'[x].family, rows'[x].rev + 1),
                      NEW u \in DOMAIN rows', rows'[u].listed, rows'[u].family = rows'[x].family
               PROVE  u = x
    BY <1>t, <1>4, <1>12 DEF ListedAlone
  <2>1. x \in DOMAIN rows /\ rows'[x].family = rows[x].family /\ rows'[x].rev = rows[x].rev /\ rows[x].rev \in Nat
    BY <1>t, <1>6, <1>12 DEF ListedAlone
  <2>2. ~HasNumber(rows, rows[x].family, rows[x].rev + 1)
    BY <2>1, <1>8
  <2>3. CASE u \in DOMAIN rows
    BY <2>1, <2>2, <2>3, <1>6, <1>12 DEF ListedAlone
  <2>4. CASE u = Len(rows) + 1
    <3>1. rows[x].family = new.family /\ rows[x].rev < new.rev
      BY <2>1, <2>4, <1>4
    <3>2. rows[x].rev + 1 \in 1 .. new.rev - 1 \/ rows[x].rev + 1 = new.rev
      BY <3>1, <2>1, <1>7
    <3>3. QED BY <3>1, <3>2, <2>1, <2>2, <1>9
  <2>5. QED BY <2>3, <2>4, <1>5
<1>13. \A f : FamilyKnown(f, rows) => FamilyKnown(f, rows')
  BY <1>6 DEF FamilyKnown
<1>14. QED BY <1>4, <1>6, <1>10, <1>11, <1>12, <1>13 DEF FamiliesKept, NextRow

(* A family that nobody began, and the next number of one.                 *)
LEMMA FirstOfFamily ==
    ASSUME FamiliesKept(rows), NEW old, AddsRow(old, TeamRow(NextRow, 1))
    PROVE  /\ FamiliesKept(rows') /\ Len(rows') = Len(rows) + 1
           /\ \A x : ListedAlone(x, rows) => ListedAlone(x, rows')
           /\ \A f : FamilyKnown(f, rows) => FamilyKnown(f, rows')
           /\ ListedAlone(NextRow, rows')
           /\ Forked(rows') => Forked(rows)
<1> DEFINE len == Len(rows)
           new == TeamRow(NextRow, 1)
<1>t. len \in Nat /\ DOMAIN rows = 1 .. len /\ \A t \in DOMAIN rows : rows[t].family \in 1 .. len /\ rows[t].rev \in 1 .. len
  BY RowsOfTeam
<1>1. new \in TeamRowRecord /\ new.family = len + 1 /\ new.rev = 1
  BY <1>t DEF TeamRow, TeamRowRecord, NextRow
<1> HIDE DEF new
<1>2. \A u \in DOMAIN rows : rows[u].family # len + 1
  BY <1>t
<1>3. /\ FamiliesKept(rows') /\ Len(rows') = len + 1 /\ rows'[len + 1] = new
      /\ \A t \in DOMAIN rows : /\ rows'[t].family = rows[t].family /\ rows'[t].rev = rows[t].rev
                                /\ rows'[t].listed => rows[t].listed /\ t \notin old
      /\ \A x : ListedAlone(x, rows) => ListedAlone(x, rows')
      /\ \A f : FamilyKnown(f, rows) => FamilyKnown(f, rows')
  <2>1. AddsRow(old, new)
    BY DEF new
  <2>2. new.family <= len + 1 /\ new.rev <= len + 1
    BY <1>t, <1>1
  <2>3. \A u \in DOMAIN rows : rows[u].family = new.family => rows[u].rev < new.rev
    BY <1>1, <1>2
  <2>4. \A n \in 1 .. new.rev - 1 : HasNumber(rows, new.family, n)
    BY <1>1
  <2>5. QED BY <1>1, <2>1, <2>2, <2>3, <2>4, TeamRowAdded DEF NextRow
<1>4. DOMAIN rows' = 1 .. len + 1
  BY <1>3, LenProperties DEF FamiliesKept
<1>5. \A t \in DOMAIN rows' : t \in DOMAIN rows \/ t = len + 1
  BY <1>t, <1>4
<1>6. \A u \in DOMAIN rows' : rows'[u].family = len + 1 => u = len + 1
  BY <1>2, <1>3, <1>5
<1>7. ListedAlone(len + 1, rows')
  BY <1>t, <1>1, <1>3, <1>6 DEF ListedAlone
<1>8. Forked(rows') => Forked(rows)
  <2> SUFFICES ASSUME NEW t \in DOMAIN rows', NEW u \in DOMAIN rows', t # u, rows'[t].family = rows'[u].family,
                      rows'[t].listed, rows'[u].listed
               PROVE  Forked(rows)
    BY DEF Forked
  <2>1. t \in DOMAIN rows /\ u \in DOMAIN rows
    BY <1>1, <1>3, <1>5, <1>6
  <2>2. QED BY <2>1, <1>3 DEF Forked
<1>9. QED BY <1>3, <1>7, <1>8 DEF NextRow

LEMMA NextOfFamily ==
    ASSUME FamiliesKept(rows), NEW old, NEW x \in DOMAIN rows, ~HasNumber(rows, rows[x].family, rows[x].rev + 1),
           AddsRow(old, TeamRow(rows[x].family, rows[x].rev + 1))
    PROVE  /\ FamiliesKept(rows') /\ Len(rows') = Len(rows) + 1
           /\ \A y : ListedAlone(y, rows) => ListedAlone(y, rows')
           /\ \A f : FamilyKnown(f, rows) => FamilyKnown(f, rows')
           /\ (\A u \in DOMAIN rows : rows[u].listed /\ rows[u].family = rows[x].family => u \in old)
                => ListedAlone(NextRow, rows') /\ (Forked(rows') => Forked(rows))
<1> DEFINE len == Len(rows)
           new == TeamRow(rows[x].family, rows[x].rev + 1)
<1>t. /\ len \in Nat /\ DOMAIN rows = 1 .. len
      /\ \A t \in DOMAIN rows : rows[t].family \in 1 .. len /\ rows[t].rev \in 1 .. len
  BY RowsOfTeam
<1>1. new \in TeamRowRecord /\ new.family = rows[x].family /\ new.rev = rows[x].rev + 1
  BY <1>t DEF TeamRow, TeamRowRecord
<1>2. ASSUME NEW u \in DOMAIN rows, rows[u].family = rows[x].family PROVE rows[u].rev <= rows[x].rev
  <2>1. SUFFICES ASSUME rows[u].rev > rows[x].rev PROVE FALSE
    BY <1>t
  <2>2. rows[x].rev + 1 \in 1 .. rows[u].rev
    BY <2>1, <1>t
  <2>3. QED BY <2>2, <1>2 DEF FamiliesKept, FamiliesNumbered
<1> HIDE DEF new
<1>3. /\ FamiliesKept(rows') /\ Len(rows') = len + 1 /\ rows'[len + 1] = new
      /\ \A t \in DOMAIN rows : /\ rows'[t].family = rows[t].family /\ rows'[t].rev = rows[t].rev
                                /\ rows'[t].listed => rows[t].listed /\ t \notin old
      /\ \A y : ListedAlone(y, rows) => ListedAlone(y, rows')
      /\ \A f : FamilyKnown(f, rows) => FamilyKnown(f, rows')
  <2>1. AddsRow(old, new)
    BY DEF new
  <2>2. new.family <= len + 1 /\ new.rev <= len + 1
    BY <1>t, <1>1
  <2>3. \A u \in DOMAIN rows : rows[u].family = new.family => rows[u].rev < new.rev
    BY <1>t, <1>1, <1>2
  <2>4. \A n \in 1 .. new.rev - 1 : HasNumber(rows, new.family, n)
    <3>1. new.rev - 1 = rows[x].rev
      BY <1>t, <1>1
    <3>2. QED BY <3>1, <1>1 DEF FamiliesKept, FamiliesNumbered
  <2>5. QED BY <1>1, <2>1, <2>2, <2>3, <2>4, TeamRowAdded DEF NextRow
<1>4. DOMAIN rows' = 1 .. len + 1
  BY <1>3, LenProperties DEF FamiliesKept
<1>5. \A t \in DOMAIN rows' : t \in DOMAIN rows \/ t = len + 1
  BY <1>t, <1>4
<1>6. ASSUME \A u \in DOMAIN rows : rows[u].listed /\ rows[u].family = rows[x].family => u \in old
      PROVE  ListedAlone(len + 1, rows') /\ (Forked(rows') => Forked(rows))
  <2>1. \A u \in DOMAIN rows' : rows'[u].listed /\ rows'[u].family = new.family => u = len + 1
    BY <1>1, <1>3, <1>5, <1>6
  <2>2. ListedAlone(len + 1, rows')
    BY <2>1, <1>t, <1>3 DEF ListedAlone
  <2>3. ASSUME NEW t \in DOMAIN rows', NEW u \in DOMAIN rows', t # u, rows'[t].family = rows'[u].family,
               rows'[t].listed, rows'[u].listed
        PROVE  Forked(rows)
    <3>1. t \in DOMAIN rows /\ u \in DOMAIN rows
      BY <2>1, <2>3, <1>3, <1>5
    <3>2. QED BY <3>1, <2>3, <1>3 DEF Forked
  <2>4. QED BY <2>2, <2>3 DEF Forked
<1>7. QED BY <1>3, <1>6 DEF NextRow

LEMMA FamilyRows == \A f : Family(f) = {t \in DOMAIN rows : rows[t].family = f} /\ \A n : n \in Numbers(f) <=> HasNumber(rows, f, n)
  BY DEF Family, Numbers, HasNumber

(* The last number of a family the page knows.                             *)
LEMMA LastNumber ==
    ASSUME FamiliesKept(rows), NEW f, NEW t \in DOMAIN rows, rows[t].family = f
    PROVE  \E x \in DOMAIN rows : rows[x].family = f /\ rows[x].rev = Max(Numbers(f)) /\ ~HasNumber(rows, f, rows[x].rev + 1)
<1>t. /\ Len(rows) \in Nat /\ DOMAIN rows = 1 .. Len(rows)
      /\ \A u \in DOMAIN rows : rows[u].family \in 1 .. Len(rows) /\ rows[u].rev \in 1 .. Len(rows)
  BY RowsOfTeam
<1> DEFINE numbers == Numbers(f)
<1>1. numbers \in SUBSET Nat /\ numbers # {} /\ \A n \in numbers : n <= Len(rows)
  <2>1. numbers = {rows[u].rev : u \in {v \in DOMAIN rows : rows[v].family = f}}
    BY DEF Numbers, Family
  <2>2. rows[t].rev \in numbers
    BY <2>1
  <2>3. \A n \in numbers : n \in Nat /\ n <= Len(rows)
    BY <2>1, <1>t
  <2>4. QED BY <2>2, <2>3
<1> HIDE DEF numbers
<1>2. Max(numbers) \in numbers /\ \A n \in numbers : n <= Max(numbers)
  BY <1>1, <1>t, GreatestNumber
<1>3. PICK x \in DOMAIN rows : rows[x].family = f /\ rows[x].rev = Max(numbers)
  BY <1>2 DEF numbers, Numbers, Family
<1>4. rows[x].rev + 1 \notin numbers
  BY <1>t, <1>2, <1>3
<1>5. QED BY <1>3, <1>4, FamilyRows DEF numbers

(* A row written by no request, and a request that writes no row.          *)
LEMMA RetiresTeamStep ==
    ASSUME TemplatesInv, NEW t \in DOMAIN rows, Retires(t)
    PROVE  TemplatesInv' /\ NoFork
<1> DEFINE row == [rows[t] EXCEPT !.listed = FALSE]
<1>t. /\ FamiliesKept(rows) /\ Len(rows) \in Nat /\ DOMAIN rows = 1 .. Len(rows)
      /\ \A u \in DOMAIN rows : rows[u] \in TeamRowRecord
  BY RowsOfTeam DEF TemplatesInv
<1>1. row \in TeamRowRecord /\ row.family = rows[t].family /\ row.rev = rows[t].rev /\ ~row.listed
  <2>1. rows[t] \in TeamRowRecord
    BY <1>t
  <2>2. QED BY <2>1 DEF TeamRowRecord
<1>2. rows' = [rows EXCEPT ![t] = row] /\ UNCHANGED <<draft, device, page>>
  BY DEF Retires
<1> HIDE DEF row
<1>3. rows' \in Seq(TeamRowRecord) /\ Len(rows') = Len(rows) /\ DOMAIN rows' = DOMAIN rows
  BY <1>t, <1>1, <1>2, ExceptSeq DEF FamiliesKept
<1>4. \A u \in DOMAIN rows : rows'[u].family = rows[u].family /\ rows'[u].rev = rows[u].rev /\ (rows'[u].listed => rows[u].listed)
  BY <1>1, <1>2
<1>5. \A f, n : HasNumber(rows', f, n) <=> HasNumber(rows, f, n)
  BY <1>3, <1>4 DEF HasNumber
<1>6. FamiliesKept(rows')
  BY <1>3, <1>4, <1>5, <1>t DEF FamiliesKept, FamiliesNumbered, NumbersDiffer
<1>7. ASSUME NEW x, ListedAlone(x, rows) PROVE ListedAlone(x, rows')
  <2>1. x # 0 => x \in DOMAIN rows
    BY <1>t, <1>7 DEF ListedAlone
  <2>2. QED BY <2>1, <1>3, <1>4, <1>5, <1>7 DEF ListedAlone
<1>8. \A p \in Page : RequestFits(page[p], rows')
  BY <1>3, <1>4, <1>7 DEF TemplatesInv, RequestFits, FamilyKnown
<1>9. Forked(rows') => Forked(rows)
  BY <1>3, <1>4 DEF Forked
<1>10. QED BY <1>2, <1>3, <1>6, <1>7, <1>8, <1>9 DEF TemplatesInv, NoFork

LEMMA RowlessStep ==
    ASSUME TemplatesInv, UNCHANGED rows, ListedAlone(draft', rows),
           \/ UNCHANGED page
           \/ \E p \in Page : \E request : RequestFits(request, rows) /\ page' = [page EXCEPT ![p] = request],
           device' \in [Equipment -> DeviceRecord],
           \A e \in Equipment : device'[e].template <= Len(rows) /\ device'[e].saved <= Len(rows)
    PROVE  TemplatesInv' /\ NoFork
<1>1. DOMAIN page' = Page /\ \A p \in Page : RequestFits(page'[p], rows)
  BY DEF TemplatesInv
<1>2. QED BY <1>1 DEF TemplatesInv, NoFork

LEMMA FreeFits == \A all : RequestFits(Free, all)
  BY DEF RequestFits, Free

LEMMA FamilyOfDevice ==
    ASSUME TemplatesInv, NEW e \in Equipment
    PROVE  FamilyKnown(FamilyOf(e), rows)
<1> DEFINE t == IF device[e].saved # 0 THEN device[e].saved ELSE device[e].template
<1>1. t \in Nat /\ t <= Len(rows)
  BY DEF TemplatesInv, DeviceRecord
<1>2. FamilyOf(e) = IF t = 0 THEN 0 ELSE rows[t].family
  BY DEF FamilyOf
<1>3. t # 0 => t \in DOMAIN rows
  BY <1>1, RowsOfTeam DEF TemplatesInv
<1> HIDE DEF t
<1>4. QED BY <1>2, <1>3 DEF FamilyKnown

(* A draft publishes what its page last read.                              *)
LEMMA PublishesStep ==
    ASSUME TemplatesInv, NEW p \in Page, PublishesDraft(p)
    PROVE  TemplatesInv' /\ NoFork
<1> DEFINE old == page[p].last
<1>t. /\ FamiliesKept(rows) /\ Len(rows) \in Nat /\ DOMAIN rows = 1 .. Len(rows) /\ DOMAIN page = Page
      /\ ListedAlone(old, rows)
  BY RowsOfTeam DEF TemplatesInv, RequestFits, PublishesDraft
<1>1. /\ IF old = 0 THEN AddsRow({}, TeamRow(NextRow, 1))
         ELSE /\ rows[old].rev + 1 \notin Numbers(rows[old].family)
              /\ AddsRow({old}, TeamRow(rows[old].family, rows[old].rev + 1))
      /\ draft' = NextRow /\ page' = [page EXCEPT ![p] = Free] /\ UNCHANGED device
  BY DEF PublishesDraft, EndsPage, LeavesList
<1> HIDE DEF old
<1>2. /\ FamiliesKept(rows') /\ Len(rows') = Len(rows) + 1
      /\ \A y : ListedAlone(y, rows) => ListedAlone(y, rows')
      /\ \A f : FamilyKnown(f, rows) => FamilyKnown(f, rows')
      /\ ListedAlone(NextRow, rows') /\ (Forked(rows') => Forked(rows))
  <2>1. CASE old = 0
    BY <2>1, <1>1, <1>t, FirstOfFamily
  <2>2. CASE old # 0
    <3>1. old \in DOMAIN rows /\ ~HasNumber(rows, rows[old].family, rows[old].rev + 1)
      BY <2>2, <1>1, <1>t, FamilyRows DEF ListedAlone
    <3>2. \A u \in DOMAIN rows : rows[u].listed /\ rows[u].family = rows[old].family => u \in {old}
      BY <2>2, <3>1, <1>t DEF ListedAlone
    <3>3. QED BY <2>2, <3>1, <3>2, <1>1, <1>t, NextOfFamily
  <2>3. QED BY <2>1, <2>2
<1>3. DOMAIN page' = Page /\ \A q \in Page : RequestFits(page'[q], rows')
  BY <1>1, <1>2, <1>t, FreeFits DEF TemplatesInv, RequestFits
<1>4. \A e \in Equipment : device[e].template <= Len(rows') /\ device[e].saved <= Len(rows')
  BY <1>2, <1>t DEF TemplatesInv, DeviceRecord
<1>5. QED BY <1>1, <1>2, <1>3, <1>4 DEF TemplatesInv, NoFork

(* A map is added to the family the page read.                             *)
LEMMA AddsMapStep ==
    ASSUME TemplatesInv, NEW p \in Page, AddsMap(p)
    PROVE  TemplatesInv' /\ NoFork
<1> DEFINE e == page[p].on
           f == page[p].last
           waited == page[p].listed \cap TeamListed
           old == IF waited = {} THEN {} ELSE {Min(waited)}
<1>t. /\ FamiliesKept(rows) /\ Len(rows) \in Nat /\ DOMAIN rows = 1 .. Len(rows) /\ DOMAIN page = Page
      /\ e \in Equipment /\ FamilyKnown(f, rows)
  BY RowsOfTeam DEF TemplatesInv, RequestFits, AddsMap
<1>1. /\ page[p].op = "map"
      /\ IF f = 0 THEN AddsRow({}, TeamRow(NextRow, 1)) ELSE AddsRow(old, TeamRow(f, Max(Numbers(f)) + 1))
      /\ device' = [device EXCEPT ![e].saved = NextRow, ![e].confirmed = FALSE]
      /\ page' = [page EXCEPT ![p] = Free] /\ UNCHANGED draft
  BY DEF AddsMap, EndsPage
<1>2. ~Forked(rows) /\ page[p].listed = Family(f) \cap TeamListed =>
        \A u \in DOMAIN rows : rows[u].listed /\ rows[u].family = f => u \in old
  <2> SUFFICES ASSUME ~Forked(rows), page[p].listed = Family(f) \cap TeamListed,
                      NEW u \in DOMAIN rows, rows[u].listed, rows[u].family = f
               PROVE  u \in old
    OBVIOUS
  <2>1. u \in waited /\ \A v \in waited : v = u
    BY FamilyRows DEF TeamListed, Forked
  <2>2. waited = {u} /\ u \in Nat
    BY <2>1, <1>t
  <2>3. Min({u}) = u
    BY <2>2 DEF Min
  <2>4. QED BY <2>2, <2>3
<1> HIDE DEF old, waited
<1>3. /\ FamiliesKept(rows') /\ Len(rows') = Len(rows) + 1
      /\ \A y : ListedAlone(y, rows) => ListedAlone(y, rows')
      /\ \A g : FamilyKnown(g, rows) => FamilyKnown(g, rows')
      /\ ~Forked(rows) /\ page[p].listed = Family(f) \cap TeamListed => ~Forked(rows')
  <2>1. CASE f = 0
    BY <2>1, <1>1, <1>t, FirstOfFamily
  <2>2. CASE f # 0
    <3>1. PICK x \in DOMAIN rows : rows[x].family = f /\ rows[x].rev = Max(Numbers(f)) /\ ~HasNumber(rows, f, rows[x].rev + 1)
      BY <2>2, <1>t, LastNumber DEF FamilyKnown
    <3>2. AddsRow(old, TeamRow(rows[x].family, rows[x].rev + 1))
      BY <2>2, <3>1, <1>1
    <3>3. QED BY <3>1, <3>2, <1>2, <1>t, NextOfFamily
  <2>3. QED BY <2>1, <2>2
<1>4. DOMAIN page' = Page /\ page'[p] = Free /\ \A q \in Page : RequestFits(page'[q], rows')
  BY <1>1, <1>3, <1>t, FreeFits DEF TemplatesInv, RequestFits
<1>5. /\ device' \in [Equipment -> DeviceRecord]
      /\ \A d \in Equipment : device'[d].template <= Len(rows') /\ device'[d].saved <= Len(rows')
  <2> DEFINE row == [device[e] EXCEPT !.saved = NextRow, !.confirmed = FALSE]
  <2>1. NextRow \in Nat /\ NextRow <= Len(rows')
    BY <1>t, <1>3 DEF NextRow
  <2>2. device[e] \in DeviceRecord /\ device[e].template <= Len(rows)
    BY <1>t DEF TemplatesInv
  <2>3. row \in DeviceRecord /\ row.template = device[e].template /\ row.saved = NextRow
    BY <2>1, <2>2 DEF DeviceRecord
  <2>4. device' = [device EXCEPT ![e] = row]
    BY <1>1
  <2> HIDE DEF row
  <2>5. device' \in [Equipment -> DeviceRecord]
    BY <2>3, <2>4, <1>t DEF TemplatesInv
  <2>6. \A d \in Equipment : device[d].template \in Nat /\ device[d].saved \in Nat
                             /\ device[d].template <= Len(rows) /\ device[d].saved <= Len(rows)
    BY DEF TemplatesInv, DeviceRecord
  <2>7. ASSUME NEW d \in Equipment PROVE device'[d].template <= Len(rows') /\ device'[d].saved <= Len(rows')
    <3>1. CASE d = e
      BY <3>1, <2>1, <2>2, <2>3, <2>4, <2>6, <1>t, <1>3 DEF TemplatesInv
    <3>2. CASE d # e
      BY <3>2, <2>4, <2>6, <1>t, <1>3
    <3>3. QED BY <3>1, <3>2
  <2>8. QED BY <2>5, <2>7
<1>6. NoFork
  BY <1>1, <1>3, <1>4 DEF NoFork, Free
<1>7. QED BY <1>1, <1>3, <1>4, <1>5, <1>6 DEF TemplatesInv

LEMMA TemplatesStep == TemplatesInv /\ [TemplatesNext]_templateVars => TemplatesInv' /\ NoFork
<1> SUFFICES ASSUME TemplatesInv, [TemplatesNext]_templateVars PROVE TemplatesInv' /\ NoFork
  OBVIOUS
<1>t. /\ ListedAlone(draft, rows) /\ device \in [Equipment -> DeviceRecord]
      /\ \A e \in Equipment : device[e].template <= Len(rows) /\ device[e].saved <= Len(rows)
      /\ Len(rows) \in Nat /\ DOMAIN rows = 1 .. Len(rows)
  BY RowsOfTeam DEF TemplatesInv
<1>1. ASSUME NEW e \in Equipment, ConfirmsMap(e) \/ \E t \in DOMAIN rows : UsesTemplate(e, t)
      PROVE  TemplatesInv' /\ NoFork
  <2>1. /\ UNCHANGED <<rows, draft, page>>
        /\ \E t \in 0 .. Len(rows), confirmed \in BOOLEAN :
             device' = [device EXCEPT ![e] = [device[e] EXCEPT !.template = t, !.confirmed = confirmed]]
    <3>1. CASE ConfirmsMap(e)
      <4>1. device' = [device EXCEPT ![e] = [device[e] EXCEPT !.template = device[e].template, !.confirmed = TRUE]]
        <5>1. device[e] \in DeviceRecord
          BY <1>t
        <5>2. [device[e] EXCEPT !.template = device[e].template, !.confirmed = TRUE] = [device[e] EXCEPT !.confirmed = TRUE]
          BY <5>1 DEF DeviceRecord
        <5>3. QED BY <5>2, <3>1 DEF ConfirmsMap
      <4>2. device[e].template \in 0 .. Len(rows)
        BY <1>t DEF DeviceRecord
      <4>3. QED BY <4>1, <4>2, <3>1 DEF ConfirmsMap
    <3>2. ASSUME NEW t \in DOMAIN rows, UsesTemplate(e, t)
          PROVE  /\ UNCHANGED <<rows, draft, page>>
                 /\ device' = [device EXCEPT ![e] = [device[e] EXCEPT !.template = t, !.confirmed = FALSE]]
                 /\ t \in 0 .. Len(rows)
      <4>1. UNCHANGED <<rows, draft, page>> /\ device' = [device EXCEPT ![e].template = t, ![e].confirmed = FALSE]
        BY <3>2 DEF UsesTemplate
      <4>2. [device EXCEPT ![e].template = t, ![e].confirmed = FALSE]
              = [device EXCEPT ![e] = [device[e] EXCEPT !.template = t, !.confirmed = FALSE]]
        BY <1>t DEF DeviceRecord
      <4>3. QED BY <4>1, <4>2, <1>t
    <3>3. QED BY <1>1, <3>1, <3>2
  <2>2. PICK t \in 0 .. Len(rows), confirmed \in BOOLEAN :
             device' = [device EXCEPT ![e] = [device[e] EXCEPT !.template = t, !.confirmed = confirmed]]
    BY <2>1
  <2> DEFINE row == [device[e] EXCEPT !.template = t, !.confirmed = confirmed]
  <2>3. row \in DeviceRecord /\ row.template <= Len(rows) /\ row.saved <= Len(rows)
    <3>1. device[e] \in DeviceRecord /\ device[e].saved <= Len(rows) /\ t \in Nat /\ t <= Len(rows)
      BY <1>t
    <3>2. row \in DeviceRecord /\ row.template = t /\ row.saved = device[e].saved
      BY <3>1 DEF DeviceRecord
    <3>3. QED BY <3>1, <3>2
  <2>4. device' = [device EXCEPT ![e] = row]
    BY <2>2
  <2> HIDE DEF row
  <2>5. /\ device' \in [Equipment -> DeviceRecord]
        /\ \A d \in Equipment : device'[d].template <= Len(rows) /\ device'[d].saved <= Len(rows)
    BY <2>3, <2>4, <1>t
  <2>6. QED BY <2>1, <2>5, <1>t, RowlessStep
<1>2. ASSUME NEW p \in Page, OpensDraft(p) PROVE TemplatesInv' /\ NoFork
  <2> DEFINE request == [op |-> "draft", on |-> Anyone, last |-> draft, listed |-> {}]
  <2>1. page' = [page EXCEPT ![p] = request] /\ UNCHANGED <<rows, draft, device>>
    BY <1>2 DEF OpensDraft, BeginsPage
  <2>2. RequestFits(request, rows)
    BY <1>t DEF RequestFits
  <2> HIDE DEF request
  <2>3. QED BY <2>1, <2>2, <1>t, RowlessStep
<1>3. ASSUME NEW p \in Page, SavesDraftCopy(p) PROVE TemplatesInv' /\ NoFork
  <2>1. ListedAlone(draft', rows) /\ page' = [page EXCEPT ![p] = Free] /\ UNCHANGED <<rows, device>>
    BY <1>3 DEF SavesDraftCopy, EndsPage, TemplatesInv, RequestFits
  <2>2. QED BY <2>1, <1>t, FreeFits, RowlessStep
<1>4. ASSUME NEW p \in Page, Fails(p) PROVE TemplatesInv' /\ NoFork
  <2>1. page' = [page EXCEPT ![p] = Free] /\ UNCHANGED <<rows, draft, device>>
    BY <1>4 DEF Fails, EndsPage
  <2>2. QED BY <2>1, <1>t, FreeFits, RowlessStep
<1>5. ASSUME NEW p \in Page, NEW e \in Equipment, SavesMap(p, e) PROVE TemplatesInv' /\ NoFork
  <2> DEFINE request == [op |-> "map", on |-> e, last |-> FamilyOf(e), listed |-> Family(FamilyOf(e)) \cap TeamListed]
  <2>1. page' = [page EXCEPT ![p] = request] /\ UNCHANGED <<rows, draft, device>>
    BY <1>5 DEF SavesMap, BeginsPage
  <2>2. RequestFits(request, rows)
    BY FamilyOfDevice DEF RequestFits
  <2> HIDE DEF request
  <2>3. QED BY <2>1, <2>2, <1>t, RowlessStep
<1>6. CASE UNCHANGED templateVars
  BY <1>6 DEF templateVars, TemplatesInv, NoFork
<1>7. QED BY <1>1, <1>2, <1>3, <1>4, <1>5, <1>6, RetiresTeamStep, PublishesStep, AddsMapStep DEF TemplatesNext

(* For any devices, pages and templates, a family is forked only by a map   *)
(* saved while another took the place of what its page had read.           *)
THEOREM ForksAreOverlaps == TemplatesSpec => OnlyOverlappingSavesForkAFamily
<1>1. TemplatesInv /\ [TemplatesNext]_templateVars => TemplatesInv'
  BY TemplatesStep
<1>2. TemplatesInv /\ [TemplatesNext]_templateVars
        => [~Forked(rows) /\ Forked(rows') =>
              \E p \in Page : page[p].op = "map" /\ page'[p].op = "free"
                              /\ page[p].listed # Family(page[p].last) \cap TeamListed]_templateVars
  BY TemplatesStep DEF NoFork
<1>3. QED BY <1>1, <1>2, TemplatesInitInv, PTL DEF TemplatesSpec, OnlyOverlappingSavesForkAFamily

-----------------------------------------------------------------------------
(* A team's members (TeamMembership): a request that no write overtook      *)
(* still has before it what it read.  A join only adds a member.            *)
MemberRecord == [role : Role, id : 0 .. MaxJoins]
TeamRequestRecord ==
    [op : {"idle", "edit", "remove", "invite", "join", "joined", "closeTeam", "closeAccount"},
     actor : User, target : User, row : MemberRecord, inv : Invite \cup {"none"}, overtaken : BOOLEAN]

ReadStands(request) ==
    request.op \in {"edit", "remove"} /\ ~request.overtaken =>
        /\ member[request.target].id # 0 /\ request.row.id = member[request.target].id
        /\ request.op = "edit" => IF request.actor = request.target THEN request.row = member[request.target]
                                  ELSE request.actor \in Managers
        /\ request.op = "remove" /\ request.target \in Managers => \E m \in Managers : m # request.target
TeamInv ==
    /\ TeamTypeOK /\ teamRequest \in [TeamRequest -> TeamRequestRecord]
    /\ \A q \in TeamRequest : ReadStands(teamRequest[q])

RequestIsFair(q) ==
    teamRequest[q].op \in {"edit", "remove"} /\ teamRequest'[q].op = "idle" /\ ~teamRequest[q].overtaken =>
        /\ Managers # {} => Managers' # {}
        /\ teamRequest[q].actor = teamRequest[q].target /\ teamRequest[q].op = "edit" => member' = member

LEMMA IdleFits == Idle \in TeamRequestRecord /\ Idle.op = "idle"
  BY TeamAssumption DEF Idle, NoMember, TeamRequestRecord, MemberRecord, Role

LEMMA TeamInitInv == TeamInit => TeamInv
<1> SUFFICES ASSUME TeamInit PROVE TeamInv
  OBVIOUS
<1>1. member \in [User -> MemberRecord] /\ joins \in 0 .. MaxJoins
  BY TeamAssumption DEF TeamInit, NoMember, MemberRecord, Role
<1>2. /\ account \in [User -> {"none", "open", "closed"}] /\ teamOpen \in BOOLEAN
      /\ invite \in [Invite -> [state : {"none", "pending", "accepted"}, email : User, role : Role]]
  BY TeamAssumption DEF TeamInit, NoInvite, Role
<1>3. teamRequest \in [TeamRequest -> TeamRequestRecord] /\ \A q \in TeamRequest : teamRequest[q].op = "idle"
  BY IdleFits DEF TeamInit
<1>4. QED BY <1>1, <1>2, <1>3 DEF TeamInv, TeamTypeOK, ReadStands, MemberRecord

(* A request begins with what it read, or ends; in between only joins add   *)
(* members.                                                                *)
LEMMA BeginsStep ==
    ASSUME TeamInv, NEW q \in TeamRequest, NEW op \in {"edit", "remove", "invite", "join", "closeTeam", "closeAccount"},
           NEW actor \in User, NEW target \in User, NEW row \in MemberRecord, NEW inv \in Invite \cup {"none"},
           Begins(q, op, actor, target, row, inv), UNCHANGED member,
           ReadStands([op |-> op, actor |-> actor, target |-> target, row |-> row, inv |-> inv, overtaken |-> FALSE])
    PROVE  /\ teamRequest' \in [TeamRequest -> TeamRequestRecord]
           /\ \A r \in TeamRequest : ReadStands(teamRequest'[r])
           /\ \A r \in TeamRequest : RequestIsFair(r)
<1> DEFINE asked == [op |-> op, actor |-> actor, target |-> target, row |-> row, inv |-> inv, overtaken |-> FALSE]
<1>1. asked \in TeamRequestRecord /\ asked.op # "idle"
  BY DEF TeamRequestRecord
<1>2. teamRequest' = [teamRequest EXCEPT ![q] = asked] /\ teamRequest[q].op = "idle"
  BY DEF Begins
<1>3. ReadStands(asked)
  OBVIOUS
<1> HIDE DEF asked
<1>4. QED BY <1>1, <1>2, <1>3 DEF TeamInv, RequestIsFair

LEMMA EndsStep ==
    ASSUME TeamInv, NEW q \in TeamRequest, NEW wrote \in BOOLEAN, Ends(q, wrote), UNCHANGED member \/ wrote
    PROVE  /\ teamRequest' \in [TeamRequest -> TeamRequestRecord]
           /\ \A r \in TeamRequest : teamRequest'[r].op \in {"edit", "remove"} /\ ~teamRequest'[r].overtaken
                                       => teamRequest'[r] = teamRequest[r] /\ UNCHANGED member
           /\ \A r \in TeamRequest : r # q => RequestIsFair(r)
<1>1. ASSUME NEW r \in TeamRequest
      PROVE  /\ teamRequest'[r] \in TeamRequestRecord
             /\ teamRequest'[r].op \in {"edit", "remove"} /\ ~teamRequest'[r].overtaken => teamRequest'[r] = teamRequest[r] /\ UNCHANGED member
             /\ r # q => teamRequest'[r].op = teamRequest[r].op
  <2>1. teamRequest'[r] = IF r = q THEN Idle
                          ELSE IF wrote /\ teamRequest[r].op # "idle" THEN [teamRequest[r] EXCEPT !.overtaken = TRUE]
                          ELSE teamRequest[r]
    BY DEF Ends
  <2>2. teamRequest[r] \in TeamRequestRecord
    BY DEF TeamInv
  <2>3. [teamRequest[r] EXCEPT !.overtaken = TRUE] \in TeamRequestRecord
        /\ [teamRequest[r] EXCEPT !.overtaken = TRUE].op = teamRequest[r].op
        /\ [teamRequest[r] EXCEPT !.overtaken = TRUE].overtaken
    BY <2>2 DEF TeamRequestRecord
  <2>4. CASE r = q
    BY <2>1, <2>4, IdleFits
  <2>5. CASE r # q /\ wrote /\ teamRequest[r].op # "idle"
    BY <2>1, <2>3, <2>5
  <2>6. CASE r # q /\ ~(wrote /\ teamRequest[r].op # "idle")
    <3>1. teamRequest'[r] = teamRequest[r]
      BY <2>1, <2>6
    <3>2. QED BY <3>1, <2>2, <2>6
  <2>7. QED BY <2>4, <2>5, <2>6
<1>2. teamRequest' = [r \in TeamRequest |-> teamRequest'[r]]
  BY DEF Ends
<1>3. teamRequest' \in [TeamRequest -> TeamRequestRecord]
  BY <1>1, <1>2
<1>4. QED BY <1>1, <1>3 DEF RequestIsFair

(* What is unchanged when a request begins or ends without a new member.   *)
TypesHold == /\ member' \in [User -> MemberRecord] /\ joins' \in 0 .. MaxJoins
             /\ account' \in [User -> {"none", "open", "closed"}]
             /\ invite' \in [Invite -> [state : {"none", "pending", "accepted"}, email : User, role : Role]]
             /\ teamOpen' \in BOOLEAN

LEMMA Types ==
    ASSUME TeamInv
    PROVE  /\ member \in [User -> MemberRecord] /\ joins \in 0 .. MaxJoins
           /\ account \in [User -> {"none", "open", "closed"}]
           /\ invite \in [Invite -> [state : {"none", "pending", "accepted"}, email : User, role : Role]]
           /\ teamOpen \in BOOLEAN
           /\ teamRequest \in [TeamRequest -> TeamRequestRecord]
           /\ \A q \in TeamRequest : teamRequest[q] \in TeamRequestRecord /\ ReadStands(teamRequest[q])
  BY DEF TeamInv, TeamTypeOK, MemberRecord

LEMMA TypesGiveInv ==
    ASSUME TypesHold, teamRequest' \in [TeamRequest -> TeamRequestRecord],
           \A r \in TeamRequest : ReadStands(teamRequest[r])'
    PROVE  TeamInv'
  BY DEF TypesHold, TeamInv, TeamTypeOK, MemberRecord

LEMMA BeginsFair ==
    ASSUME TeamInv, TypesHold, NEW q \in TeamRequest, NEW op \in {"edit", "remove", "invite", "join", "closeTeam", "closeAccount"},
           NEW actor \in User, NEW target \in User, NEW row \in MemberRecord, NEW inv \in Invite \cup {"none"},
           Begins(q, op, actor, target, row, inv), UNCHANGED member,
           ReadStands([op |-> op, actor |-> actor, target |-> target, row |-> row, inv |-> inv, overtaken |-> FALSE])
    PROVE  TeamInv' /\ \A r \in TeamRequest : RequestIsFair(r)
<1>1. /\ teamRequest' \in [TeamRequest -> TeamRequestRecord]
      /\ \A r \in TeamRequest : ReadStands(teamRequest'[r])
      /\ \A r \in TeamRequest : RequestIsFair(r)
  BY BeginsStep
<1>2. \A r \in TeamRequest : ReadStands(teamRequest[r])'
  BY <1>1 DEF ReadStands, Managers
<1>3. QED BY <1>1, <1>2, TypesGiveInv

LEMMA EndsFair ==
    ASSUME TeamInv, TypesHold, NEW q \in TeamRequest, NEW wrote \in BOOLEAN, Ends(q, wrote), UNCHANGED member \/ wrote,
           RequestIsFair(q)
    PROVE  TeamInv' /\ \A r \in TeamRequest : RequestIsFair(r)
<1>1. /\ teamRequest' \in [TeamRequest -> TeamRequestRecord]
      /\ \A r \in TeamRequest : teamRequest'[r].op \in {"edit", "remove"} /\ ~teamRequest'[r].overtaken
                                  => teamRequest'[r] = teamRequest[r] /\ UNCHANGED member
      /\ \A r \in TeamRequest : r # q => RequestIsFair(r)
  BY EndsStep
<1>2. \A r \in TeamRequest : ReadStands(teamRequest[r])
  BY Types
<1>3. \A r \in TeamRequest : ReadStands(teamRequest[r])'
  BY <1>1, <1>2 DEF ReadStands, Managers
<1>4. QED BY <1>1, <1>3, TypesGiveInv

(* Members' rows: a role is saved, or a member removed.                     *)
LEMMA EditStep ==
    ASSUME TeamInv, NEW q \in TeamRequest, SavesMember(q)
    PROVE  TeamInv' /\ \A r \in TeamRequest : RequestIsFair(r)
<1> DEFINE request == teamRequest[q]
           target == request.target
<1>t. /\ member \in [User -> MemberRecord] /\ request \in TeamRequestRecord /\ ReadStands(request)
      /\ request.row \in MemberRecord /\ target \in User
  BY Types DEF TeamRequestRecord
<1>1. /\ request.op = "edit"
      /\ \/ member' = [member EXCEPT ![target] = request.row] /\ Ends(q, TRUE)
         \/ UNCHANGED member /\ Ends(q, FALSE)
      /\ UNCHANGED <<joins, account, invite, teamOpen>>
  BY DEF SavesMember, Doing
<1>2. TypesHold
  BY <1>1, <1>t, Types DEF TypesHold
<1>3. CASE UNCHANGED member /\ Ends(q, FALSE)
  <2>1. RequestIsFair(q)
    BY <1>3 DEF RequestIsFair, Managers
  <2>2. QED BY <2>1, <1>2, <1>3, EndsFair
<1>4. CASE member' = [member EXCEPT ![target] = request.row] /\ Ends(q, TRUE)
  <2>1. ASSUME ~request.overtaken, request.actor = target PROVE member' = member
    <3>1. request.row = member[target]
      BY <2>1, <1>t, <1>1 DEF ReadStands
    <3>2. QED BY <3>1, <1>t, <1>4
  <2>2. ASSUME ~request.overtaken, request.actor # target PROVE Managers' # {}
    <3>1. request.actor \in Managers
      BY <2>2, <1>t, <1>1 DEF ReadStands
    <3>2. member'[request.actor] = member[request.actor]
      BY <2>2, <3>1, <1>t, <1>4 DEF Managers
    <3>3. QED BY <3>1, <3>2 DEF Managers
  <2>3. RequestIsFair(q)
    BY <2>1, <2>2 DEF RequestIsFair, Managers
  <2>4. QED BY <2>3, <1>2, <1>4, EndsFair
<1>5. QED BY <1>1, <1>3, <1>4

LEMMA RemovalStep ==
    ASSUME TeamInv, NEW q \in TeamRequest, Removes(q)
    PROVE  TeamInv' /\ \A r \in TeamRequest : RequestIsFair(r)
<1> DEFINE request == teamRequest[q]
           target == request.target
<1>t. /\ member \in [User -> MemberRecord] /\ request \in TeamRequestRecord /\ ReadStands(request) /\ target \in User
      /\ NoMember \in MemberRecord
  BY Types, TeamAssumption DEF TeamRequestRecord, NoMember, MemberRecord, Role
<1>1. /\ request.op = "remove" /\ Ends(q, TRUE)
      /\ member' = [member EXCEPT ![target] = NoMember] \/ member' = member
      /\ UNCHANGED <<joins, account, invite, teamOpen>>
  BY DEF Removes, Doing
<1>2. TypesHold
  BY <1>1, <1>t, Types DEF TypesHold
<1>3. ASSUME ~request.overtaken, Managers # {} PROVE Managers' # {}
  <2>1. \E m \in Managers : m # target
    BY <1>3, <1>t, <1>1 DEF ReadStands
  <2>2. PICK m \in Managers : m # target
    BY <2>1
  <2>3. member'[m] = member[m]
    BY <2>2, <1>t, <1>1 DEF Managers
  <2>4. QED BY <2>2, <2>3 DEF Managers
<1>4. RequestIsFair(q)
  BY <1>1, <1>3 DEF RequestIsFair
<1>5. QED BY <1>1, <1>2, <1>4, EndsFair

LEMMA JoinStep ==
    ASSUME TeamInv, NEW q \in TeamRequest, Joins(q)
    PROVE  TeamInv' /\ \A r \in TeamRequest : RequestIsFair(r)
<1> DEFINE u == teamRequest[q].actor
           row == [role |-> teamRequest[q].row.role, id |-> joins + 1]
           after == [teamRequest[q] EXCEPT !.op = "joined"]
<1>t. /\ member \in [User -> MemberRecord] /\ teamRequest[q] \in TeamRequestRecord /\ u \in User
      /\ joins \in 0 .. MaxJoins /\ MaxJoins \in Nat /\ teamRequest \in [TeamRequest -> TeamRequestRecord]
      /\ \A r \in TeamRequest : ReadStands(teamRequest[r])
  BY Types, TeamAssumption DEF TeamRequestRecord
<1>1. /\ joins < MaxJoins /\ teamRequest[q].op = "join"
      /\ IF member[u].id = 0 THEN joins' = joins + 1 /\ member' = [member EXCEPT ![u] = row]
         ELSE UNCHANGED <<joins, member>>
      /\ teamRequest' = [teamRequest EXCEPT ![q] = after]
      /\ UNCHANGED <<account, invite, teamOpen>>
  BY DEF Joins, Doing
<1>2. row \in MemberRecord
  <2>1. joins + 1 \in 0 .. MaxJoins /\ teamRequest[q].row.role \in Role
    BY <1>1, <1>t DEF TeamRequestRecord, MemberRecord
  <2>2. QED BY <2>1 DEF MemberRecord
<1>3. after \in TeamRequestRecord /\ after.op = "joined"
  BY <1>t DEF TeamRequestRecord
<1> HIDE DEF row, after
<1>4. TypesHold
  BY <1>1, <1>2, <1>t, Types DEF TypesHold
<1>5. \A v \in User : member[v].id # 0 => member'[v] = member[v]
  BY <1>1, <1>t
<1>6. \A v \in Managers : v \in Managers'
  BY <1>5 DEF Managers
<1>7. \A v \in User : member[v].id # 0 /\ v \in Managers' => v \in Managers
  BY <1>5 DEF Managers
<1>8. ASSUME NEW r \in TeamRequest PROVE ReadStands(teamRequest[r])' /\ RequestIsFair(r)
  <2>1. CASE r = q
    <3>1. teamRequest'[r].op = "joined"
      BY <2>1, <1>1, <1>3, <1>t
    <3>2. QED BY <3>1 DEF ReadStands, RequestIsFair
  <2>2. CASE r # q
    <3>1. teamRequest'[r] = teamRequest[r]
      BY <2>2, <1>1, <1>t
    <3> DEFINE request == teamRequest[r]
    <3>2. request.target \in User /\ ReadStands(request)
      BY <1>t DEF TeamRequestRecord
    <3>3. ReadStands(teamRequest[r])'
      BY <3>1, <3>2, <1>5, <1>6, <1>7 DEF ReadStands
    <3>4. RequestIsFair(r)
      BY <3>1 DEF RequestIsFair
    <3>5. QED BY <3>3, <3>4
  <2>3. QED BY <2>1, <2>2
<1>9. teamRequest' \in [TeamRequest -> TeamRequestRecord]
  BY <1>1, <1>3, <1>t
<1>10. QED BY <1>4, <1>8, <1>9, TypesGiveInv

(* What a request reads when it begins.                                    *)
LEMMA ReadsMemberStep ==
    ASSUME TeamInv, NEW q \in TeamRequest, ReadsMember(q)
    PROVE  TeamInv' /\ \A r \in TeamRequest : RequestIsFair(r)
<1>1. PICK actor \in User, target \in User, role \in Role :
        /\ SignedIn(actor) /\ IsMember(actor) /\ member[target].id # 0
        /\ actor # target => CanManage(actor)
        /\ Begins(q, "edit", actor, target, EditedRow(member[target], actor = target, role), "none")
        /\ UNCHANGED <<member, joins, account, invite, teamOpen>>
  BY DEF ReadsMember
<1> DEFINE row == EditedRow(member[target], actor = target, role)
           asked == [op |-> "edit", actor |-> actor, target |-> target, row |-> row, inv |-> "none", overtaken |-> FALSE]
<1>2. row = IF actor = target THEN member[target] ELSE [member[target] EXCEPT !.role = role]
  BY DEF EditedRow
<1> HIDE DEF row
<1>3. row \in MemberRecord /\ row.id = member[target].id /\ (actor = target => row = member[target])
  <2>1. member[target] \in MemberRecord
    BY Types
  <2>2. QED BY <2>1, <1>2 DEF MemberRecord
<1>4. TypesHold
  BY <1>1, Types DEF TypesHold
<1>5. ReadStands(asked)
  BY <1>1, <1>3 DEF ReadStands, CanManage
<1>6. Begins(q, "edit", actor, target, row, "none")
  BY <1>1 DEF row
<1>7. QED BY <1>1, <1>3, <1>4, <1>5, <1>6, BeginsFair

LEMMA ChecksRemovalStep ==
    ASSUME TeamInv, NEW q \in TeamRequest, ChecksRemoval(q)
    PROVE  TeamInv' /\ \A r \in TeamRequest : RequestIsFair(r)
<1>1. PICK actor \in User, target \in User :
        /\ SignedIn(actor) /\ IsMember(actor) /\ member[target].id # 0
        /\ actor # target => CanManage(actor)
        /\ ~OnlyManager(target)
        /\ Begins(q, "remove", actor, target, member[target], "none")
        /\ UNCHANGED <<member, joins, account, invite, teamOpen>>
  BY DEF ChecksRemoval
<1>2. TypesHold /\ member[target] \in MemberRecord
  BY <1>1, Types DEF TypesHold
<1>3. ASSUME target \in Managers PROVE \E m \in Managers : m # target
  <2>1. SUFFICES ASSUME \A m \in Managers : m = target PROVE FALSE
    OBVIOUS
  <2>2. Managers = {target}
    BY <2>1, <1>3
  <2>3. Cardinality(Managers) = 1
    BY <2>2, FS_Singleton
  <2>4. QED BY <2>3, <1>1, <1>3 DEF OnlyManager, Managers
<1>4. ReadStands([op |-> "remove", actor |-> actor, target |-> target, row |-> member[target], inv |-> "none", overtaken |-> FALSE])
  BY <1>1, <1>3 DEF ReadStands
<1>5. QED BY <1>1, <1>2, <1>4, BeginsFair

LEMMA OtherChecksStep ==
    ASSUME TeamInv, NEW q \in TeamRequest, TypesHold, UNCHANGED member,
           NEW op \in {"invite", "join", "closeTeam", "closeAccount"}, NEW actor \in User, NEW target \in User,
           NEW row \in MemberRecord, NEW inv \in Invite \cup {"none"}, Begins(q, op, actor, target, row, inv)
    PROVE  TeamInv' /\ \A r \in TeamRequest : RequestIsFair(r)
<1>1. ReadStands([op |-> op, actor |-> actor, target |-> target, row |-> row, inv |-> inv, overtaken |-> FALSE])
  BY DEF ReadStands
<1>2. QED BY <1>1, BeginsFair

LEMMA OtherEndsStep ==
    ASSUME TeamInv, NEW q \in TeamRequest, TypesHold, UNCHANGED member, Ends(q, TRUE), teamRequest[q].op \notin {"edit", "remove"}
    PROVE  TeamInv' /\ \A r \in TeamRequest : RequestIsFair(r)
<1>1. RequestIsFair(q)
  BY DEF RequestIsFair
<1>2. QED BY <1>1, EndsFair

LEMMA RowsAsked == /\ MaxJoins \in Nat
                   /\ \A role \in Role : [role |-> role, id |-> 0] \in MemberRecord
<1>1. MaxJoins \in Nat /\ 0 \in 0 .. MaxJoins
  BY TeamAssumption
<1>2. QED BY <1>1 DEF MemberRecord

LEMMA InvitationStep ==
    ASSUME TeamInv, NEW q \in TeamRequest,
           \/ ChecksInvitation(q) \/ ChecksAcceptance(q) \/ SignsUp(q)
           \/ Invites(q) \/ UsesInvitation(q)
    PROVE  TeamInv' /\ \A r \in TeamRequest : RequestIsFair(r)
<1>t. /\ invite \in [Invite -> [state : {"none", "pending", "accepted"}, email : User, role : Role]]
      /\ account \in [User -> {"none", "open", "closed"}]
      /\ teamRequest[q] \in TeamRequestRecord /\ teamRequest[q].target \in User /\ teamRequest[q].row.role \in Role
  BY Types DEF TeamRequestRecord, MemberRecord
<1>1. CASE ChecksInvitation(q)
  <2>1. PICK actor \in User, email \in User, i \in Invite, role \in Role :
          Begins(q, "invite", actor, email, [role |-> role, id |-> 0], i)
    BY <1>1 DEF ChecksInvitation
  <2>2. TypesHold /\ UNCHANGED member
    BY <1>1, Types DEF ChecksInvitation, TypesHold
  <2>3. QED BY <2>1, <2>2, RowsAsked, OtherChecksStep
<1>2. CASE ChecksAcceptance(q)
  <2>1. PICK u \in User, i \in Invite : Begins(q, "join", u, u, [role |-> invite[i].role, id |-> 0], i)
    BY <1>2 DEF ChecksAcceptance
  <2>2. TypesHold /\ UNCHANGED member
    BY <1>2, Types DEF ChecksAcceptance, TypesHold
  <2>3. invite[i].role \in Role
    BY <1>t
  <2>4. QED BY <2>1, <2>2, <2>3, RowsAsked, OtherChecksStep
<1>3. CASE SignsUp(q)
  <2>1. PICK u \in User :
          /\ account' = [account EXCEPT ![u] = "open"]
          /\ \/ \E i \in Invite : Begins(q, "join", u, u, [role |-> invite[i].role, id |-> 0], i)
             \/ UNCHANGED teamRequest
          /\ UNCHANGED <<member, joins, invite, teamOpen>>
    BY <1>3 DEF SignsUp
  <2>2. TypesHold
    BY <2>1, <1>t, Types DEF TypesHold
  <2>3. ASSUME NEW i \in Invite, Begins(q, "join", u, u, [role |-> invite[i].role, id |-> 0], i)
        PROVE  TeamInv' /\ \A r \in TeamRequest : RequestIsFair(r)
    <3>1. invite[i].role \in Role
      BY <1>t
    <3>2. QED BY <2>1, <2>2, <2>3, <3>1, RowsAsked, OtherChecksStep
  <2>4. CASE UNCHANGED teamRequest
    BY <2>1, <2>2, <2>4, Types, TypesGiveInv DEF ReadStands, Managers, RequestIsFair
  <2>5. QED BY <2>1, <2>3, <2>4
<1>4. CASE Invites(q)
  <2> DEFINE inv == teamRequest[q].inv
             row == [state |-> "pending", email |-> teamRequest[q].target, role |-> teamRequest[q].row.role]
  <2>1. /\ invite' = [invite EXCEPT ![inv] = row] /\ Ends(q, TRUE) /\ UNCHANGED <<member, joins, account, teamOpen>>
        /\ teamRequest[q].op = "invite"
    BY <1>4 DEF Invites, Doing
  <2>2. row \in [state : {"none", "pending", "accepted"}, email : User, role : Role]
    BY <1>t
  <2> HIDE DEF inv, row
  <2>3. TypesHold
    BY <2>1, <2>2, <1>t, Types DEF TypesHold
  <2>4. QED BY <2>1, <2>3, OtherEndsStep
<1>5. CASE UsesInvitation(q)
  <2> DEFINE inv == teamRequest[q].inv
             row == [invite[inv] EXCEPT !.state = "accepted", !.role = teamRequest[q].row.role]
  <2>1. /\ invite' = [invite EXCEPT ![inv] = row] /\ Ends(q, TRUE) /\ UNCHANGED <<member, joins, account, teamOpen>>
        /\ teamRequest[q].op = "joined"
    BY <1>5 DEF UsesInvitation, Doing
  <2>2. inv \in Invite => row \in [state : {"none", "pending", "accepted"}, email : User, role : Role]
    BY <1>t
  <2> HIDE DEF inv, row
  <2>3. TypesHold
    BY <2>1, <2>2, <1>t, Types DEF TypesHold
  <2>4. QED BY <2>1, <2>3, OtherEndsStep
<1>6. QED BY <1>1, <1>2, <1>3, <1>4, <1>5

LEMMA ClosingStep ==
    ASSUME TeamInv, NEW q \in TeamRequest, ChecksClosing(q) \/ ClosesTeam(q) \/ ChecksAccount(q) \/ ClosesAccount(q)
    PROVE  TeamInv' /\ \A r \in TeamRequest : RequestIsFair(r)
<1>t. /\ invite \in [Invite -> [state : {"none", "pending", "accepted"}, email : User, role : Role]]
      /\ account \in [User -> {"none", "open", "closed"}] /\ member \in [User -> MemberRecord]
      /\ teamRequest[q].actor \in User
  BY Types DEF TeamRequestRecord
<1>1. CASE ChecksClosing(q) \/ ChecksAccount(q)
  <2>1. PICK u \in User : \/ Begins(q, "closeTeam", u, u, member[u], "none")
                          \/ Begins(q, "closeAccount", u, u, member[u], "none")
    BY <1>1 DEF ChecksClosing, ChecksAccount
  <2>2. TypesHold /\ UNCHANGED member /\ member[u] \in MemberRecord
    BY <1>1, <1>t, Types DEF ChecksClosing, ChecksAccount, TypesHold
  <2>3. QED BY <2>1, <2>2, OtherChecksStep
<1>2. CASE ClosesTeam(q)
  <2>1. /\ teamOpen' = FALSE /\ Ends(q, TRUE) /\ UNCHANGED <<member, joins, account>> /\ teamRequest[q].op = "closeTeam"
        /\ invite' = [i \in Invite |-> IF teamOpen /\ invite[i].state = "pending"
                                       THEN [invite[i] EXCEPT !.state = "accepted"] ELSE invite[i]]
    BY <1>2 DEF ClosesTeam, Doing
  <2>2. \A i \in Invite : [invite[i] EXCEPT !.state = "accepted"] \in [state : {"none", "pending", "accepted"}, email : User, role : Role]
    BY <1>t
  <2>3. TypesHold
    BY <2>1, <2>2, <1>t, Types DEF TypesHold
  <2>4. QED BY <2>1, <2>3, OtherEndsStep
<1>3. CASE ClosesAccount(q)
  <2>1. /\ account' = [account EXCEPT ![teamRequest[q].actor] = "closed"] /\ Ends(q, TRUE)
        /\ UNCHANGED <<member, joins, invite, teamOpen>> /\ teamRequest[q].op = "closeAccount"
    BY <1>3 DEF ClosesAccount, Doing
  <2>2. TypesHold
    BY <2>1, <1>t, Types DEF TypesHold
  <2>3. QED BY <2>1, <2>2, OtherEndsStep
<1>4. QED BY <1>1, <1>2, <1>3

LEMMA TeamStep == TeamInv /\ [TeamNext]_teamVars => TeamInv' /\ \A q \in TeamRequest : RequestIsFair(q)
<1> SUFFICES ASSUME TeamInv, [TeamNext]_teamVars PROVE TeamInv' /\ \A q \in TeamRequest : RequestIsFair(q)
  OBVIOUS
<1>1. CASE CancelsInvitation
  <2>1. PICK i \in Invite : /\ invite' = [invite EXCEPT ![i] = NoInvite]
                            /\ UNCHANGED <<member, joins, account, teamOpen, teamRequest>>
    BY <1>1 DEF CancelsInvitation
  <2>2. NoInvite \in [state : {"none", "pending", "accepted"}, email : User, role : Role]
    BY TeamAssumption DEF NoInvite, Role
  <2>3. TypesHold
    BY <2>1, <2>2, Types DEF TypesHold
  <2>4. QED BY <2>1, <2>3, Types, TypesGiveInv DEF ReadStands, Managers, RequestIsFair
<1>2. CASE UNCHANGED teamVars
  BY <1>2 DEF teamVars, TeamInv, TeamTypeOK, ReadStands, Managers, RequestIsFair
<1>3. QED
  BY <1>1, <1>2, EditStep, RemovalStep, JoinStep, ReadsMemberStep, ChecksRemovalStep, InvitationStep, ClosingStep DEF TeamNext

(* The members, accounts and invitations keep their types.                 *)
THEOREM TeamTypeCorrect == TeamSpec => []TeamTypeOK
<1>1. TeamInv => TeamTypeOK
  BY DEF TeamInv
<1>2. TeamInv /\ [TeamNext]_teamVars => TeamInv'
  BY TeamStep
<1>3. QED BY <1>1, <1>2, TeamInitInv, PTL DEF TeamSpec

(* A team loses its last administrator, or a member's own edit their role,  *)
(* only by a request that another's write overtook, for any people and any *)
(* requests at once.                                                       *)
THEOREM OrphansAreRaces == TeamSpec => OnlyRacesOrphanTeams
<1>1. TeamInv /\ [TeamNext]_teamVars => TeamInv'
  BY TeamStep
<1>2. TeamInv /\ [TeamNext]_teamVars
        => [\A q \in TeamRequest : teamRequest[q].op \in {"edit", "remove"} /\ teamRequest'[q].op = "idle" /\ ~teamRequest[q].overtaken
             => /\ Managers # {} => Managers' # {}
                /\ teamRequest[q].actor = teamRequest[q].target /\ teamRequest[q].op = "edit" => member' = member]_teamVars
  BY TeamStep DEF RequestIsFair
<1>3. QED BY <1>1, <1>2, TeamInitInv, PTL DEF TeamSpec, OnlyRacesOrphanTeams

=============================================================================
