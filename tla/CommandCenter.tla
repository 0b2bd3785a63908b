---------------------------- MODULE CommandCenter ----------------------------
(***************************************************************************)
(* The arrangements of the Command Center's panels, from                   *)
(* apps/dashboard/command_center.py and command_center_views.py and the    *)
(* page's controller in assets/javascript/dashboard/command-center.ts: a   *)
(* member keeps a personal layout, an administrator publishes a team       *)
(* default, and a page sends the revision it knows with everything it      *)
(* changes.  The tabs are those of one administrator.                      *)
(***************************************************************************)
EXTENDS Naturals

CONSTANTS
    Tab,            \* browser tabs
    MaxRevision,    \* bound on revisions of a layout row
    MaxLayoutRows         \* bound on layout rows ever created

ASSUME LayoutAssumption == MaxRevision \in Nat \ {0} /\ MaxLayoutRows \in Nat

VARIABLES
    personal,      \* the personal CommandCenterLayout
    teamDefault,   \* the team's
    impactShown,   \* the business-impact flag and permission of the user
    lastRow,       \* primary keys given so far
    mode,          \* per tab: whether its panels are being edited
    mine, ours,    \* per tab: the rows whose revisions its config holds
    seen,          \* per tab: the personal row its panels were made from
    answer         \* per tab: the response to a command on its way

rowVars == <<personal, teamDefault, lastRow>>
tabVars == <<mode, mine, ours, seen, answer>>
layoutVars == <<rowVars, impactShown, tabVars>>

(* Of the panels, business_impact is the one that requires a feature.      *)
Panel == {"business_impact", "operations_trend"}
Available == IF impactShown THEN Panel ELSE Panel \ {"business_impact"}

(* Where the panels are on the grid is left out, whether they are shown is *)
(* not.                                                                    *)
Layout == [Panel -> {"shown", "hidden"}]
NovenaDefault == [p \in Panel |-> "shown"]

(* A row's key and revision; without a row the revision is 0.              *)
NoStamp == [pk |-> 0, revision |-> 0]
Stamp == [pk : 1 .. MaxLayoutRows, revision : 1 .. MaxRevision] \cup {NoStamp}
NoRow == [stamp |-> NoStamp, layout |-> NovenaDefault]
LayoutRow == [stamp : Stamp, layout : Layout]

NoAnswer == [on |-> FALSE, mine |-> NoStamp, ours |-> NoStamp]
LayoutAnswer == [on : BOOLEAN, mine : Stamp, ours : Stamp]

LayoutTypeOK ==
    /\ personal \in LayoutRow /\ teamDefault \in LayoutRow
    /\ impactShown \in BOOLEAN /\ lastRow \in 0 .. MaxLayoutRows
    /\ mode \in [Tab -> {"viewing", "editing"}]
    /\ mine \in [Tab -> Stamp] /\ ours \in [Tab -> Stamp] /\ seen \in [Tab -> Stamp]
    /\ answer \in [Tab -> LayoutAnswer]

LayoutInit ==
    /\ personal = NoRow /\ teamDefault = NoRow /\ lastRow = 0
    /\ impactShown = FALSE
    /\ mode = [t \in Tab |-> "viewing"]
    /\ mine = [t \in Tab |-> NoStamp] /\ ours = mine /\ seen = mine
    /\ answer = [t \in Tab |-> NoAnswer]

(* resolve_layout: the personal layout, else the team's, else the built-in.*)
Resolved ==
    IF personal # NoRow THEN personal.layout
    ELSE IF teamDefault # NoRow THEN teamDefault.layout ELSE NovenaDefault

ImpactChanges ==
    /\ impactShown' = ~impactShown
    /\ UNCHANGED <<rowVars, tabVars>>

-----------------------------------------------------------------------------
(* The page and its controller.                                            *)
Binds(t) ==
    /\ mine' = [mine EXCEPT ![t] = personal.stamp]
    /\ ours' = [ours EXCEPT ![t] = teamDefault.stamp]
    /\ seen' = [seen EXCEPT ![t] = personal.stamp]

(* A page that is loaded anew forgets what it was doing.                   *)
LoadCommandCenter(t) ==
    /\ Binds(t)
    /\ mode' = [mode EXCEPT ![t] = "viewing"]
    /\ answer' = [answer EXCEPT ![t] = NoAnswer]
    /\ UNCHANGED <<rowVars, impactShown>>

(* A refresh may also fail, and none starts while the user edits.          *)
Refresh(t) ==
    /\ mode[t] = "viewing"
    /\ Binds(t)
    /\ UNCHANGED <<rowVars, impactShown, mode, answer>>

Customize(t) ==
    /\ mode[t] = "viewing"
    /\ mode' = [mode EXCEPT ![t] = "editing"]
    /\ UNCHANGED <<rowVars, impactShown, mine, ours, seen, answer>>

CancelEdit(t) ==
    /\ mode[t] = "editing"
    /\ mode' = [mode EXCEPT ![t] = "viewing"]
    /\ UNCHANGED <<rowVars, impactShown, mine, ours, seen, answer>>

(* The answer to a command changes what the config holds, whether or not   *)
(* an editing began meanwhile.                                             *)
HearAnswer(t) ==
    /\ answer[t] # NoAnswer
    /\ mine' = [mine EXCEPT ![t] = answer[t].mine]
    /\ ours' = [ours EXCEPT ![t] = answer[t].ours]
    /\ answer' = [answer EXCEPT ![t] = NoAnswer]
    /\ UNCHANGED <<rowVars, impactShown, mode, seen>>

-----------------------------------------------------------------------------
(* The endpoints.  validate_layout_payload wants every available panel; a  *)
(* page sends what it has of the others too, and what it does not send     *)
(* stays as it is.                                                         *)
SubmittedPanels == UNION {[panels -> {"shown", "hidden"}] : panels \in {P \in SUBSET Panel : Available \subseteq P}}

Merged(base, submitted) == [p \in Panel |-> IF p \in DOMAIN submitted THEN submitted[p] ELSE base[p]]

AnyRevision(base, row) == TRUE   \* mutated form
SameRevision(base, row) == base.revision = row.stamp.revision

(* Saving a row: the next revision of the one there is, or a new one.      *)
NextStamp(row) ==
    IF row = NoRow THEN [pk |-> lastRow + 1, revision |-> 1] ELSE [row.stamp EXCEPT !.revision = @ + 1]

MayStore(row) == IF row = NoRow THEN lastRow < MaxLayoutRows ELSE row.stamp.revision < MaxRevision

CountsRow(row) == lastRow' = IF row = NoRow THEN lastRow + 1 ELSE lastRow

LayoutAnswers(t) ==
    /\ mode[t] = "viewing" /\ answer[t] = NoAnswer
    /\ answer' = [answer EXCEPT ![t] = [on |-> TRUE, mine |-> personal'.stamp, ours |-> teamDefault'.stamp]]
    /\ UNCHANGED <<impactShown, mode, mine, ours, seen>>

(* A save ends the editing; one that is refused goes on.                   *)
SavePersonal(t) ==
    /\ mode[t] = "editing"
    /\ SameRevision(mine[t], personal) /\ MayStore(personal)
    /\ \E submitted \in SubmittedPanels :
         personal' = [stamp |-> NextStamp(personal), layout |-> Merged(Resolved, submitted)]
    /\ CountsRow(personal)
    /\ mine' = [mine EXCEPT ![t] = personal'.stamp]
    /\ ours' = [ours EXCEPT ![t] = teamDefault.stamp]
    /\ seen' = [seen EXCEPT ![t] = personal'.stamp]
    /\ mode' = [mode EXCEPT ![t] = "viewing"]
    /\ UNCHANGED <<teamDefault, impactShown, answer>>

ResetPersonal(t) ==
    /\ SameRevision(mine[t], personal)
    /\ personal' = NoRow
    /\ UNCHANGED <<teamDefault, lastRow>>
    /\ LayoutAnswers(t)

(* Publishing takes the layout stored for the administrator, whatever the  *)
(* page shows of it.                                                       *)
PublishDefault(t) ==
    /\ SameRevision(ours[t], teamDefault) /\ MayStore(teamDefault)
    /\ teamDefault' = [stamp |-> NextStamp(teamDefault), layout |-> Resolved]
    /\ CountsRow(teamDefault)
    /\ UNCHANGED personal
    /\ LayoutAnswers(t)

RemoveDefault(t) ==
    /\ SameRevision(ours[t], teamDefault)
    /\ teamDefault' = NoRow
    /\ UNCHANGED <<personal, lastRow>>
    /\ LayoutAnswers(t)

LayoutNext ==
    \/ \E t \in Tab :
          \/ LoadCommandCenter(t) \/ Refresh(t) \/ Customize(t) \/ CancelEdit(t) \/ HearAnswer(t)
          \/ SavePersonal(t) \/ ResetPersonal(t) \/ PublishDefault(t) \/ RemoveDefault(t)
    \/ ImpactChanges

LayoutSpec == LayoutInit /\ [][LayoutNext]_layoutVars

-----------------------------------------------------------------------------
(* A row is only replaced by a tab that holds its newest revision          *)
(* (command_center_views.py:104, "This layout changed in another browser   *)
(* tab"): of two tabs that start from one revision, one is refused.        *)
ReplacesWhatItKnows ==
    [][\A t \in Tab : mine'[t] # mine[t] \/ answer'[t] # answer[t] =>
         /\ personal' # personal /\ mine[t].pk = personal.stamp.pk => mine[t] = personal.stamp
         /\ teamDefault' # teamDefault /\ ours[t].pk = teamDefault.stamp.pk => ours[t] = teamDefault.stamp]_layoutVars

(* No personal layout is replaced by a page that did not show it: revision *)
(* numbers start again after a reset, and the answer to a command brings   *)
(* the revision of a layout the page has not loaded.  The code does not    *)
(* keep this: README.md, "Known divergences".                              *)
NothingIsReplacedUnseen ==
    [][\A t \in Tab : personal' # personal /\ seen'[t] = personal'.stamp /\ seen[t] # seen'[t]
          => seen[t] = personal.stamp]_layoutVars
=============================================================================
