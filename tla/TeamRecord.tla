------------------------------ MODULE TeamRecord ------------------------------
(***************************************************************************)
(* The row of a team.  Its control authority, its closing and its paid plan *)
(* are written by transactions that lock the row and name their columns    *)
(* (emergency_disable, activate_control_key, rollback_policy_as_new_epoch, *)
(* close_team), and by requests that save every column of the copy they    *)
(* loaded: before their call to Stripe (provision_subscription, the page of *)
(* the subscription) or before the form (manage_team, the teams API).       *)
(***************************************************************************)
EXTENDS Naturals

CONSTANTS
    TeamPage,      \* requests and webhooks under way at once
    MaxTeamEpoch   \* bound on epochs

VARIABLES
    row,     \* the Team row
    copy     \* per request: what it will do and the row it loaded

rowVars == <<row, copy>>

TeamRow == [active : BOOLEAN, epoch : 1 .. MaxTeamEpoch,
            mode : {"monitoring_only", "controlled", "locked_down"}, plan : {"none", "active", "ended"}, name : {"old", "new"}]

NewTeam == [active |-> TRUE, epoch |-> 1, mode |-> "monitoring_only", plan |-> "none", name |-> "old"]
NoCopy == [does |-> "nothing", row |-> NewTeam]

RowInit == row = NewTeam /\ copy = [p \in TeamPage |-> NoCopy]

RowTypeOK == row \in TeamRow /\ \A p \in TeamPage : copy[p].row \in TeamRow

-----------------------------------------------------------------------------
\* Under the row's lock.
ActivatesControl == row' = [row EXCEPT !.mode = "controlled"] /\ UNCHANGED copy

EmergencyDisables ==
    /\ row.epoch < MaxTeamEpoch
    /\ \E wholeTeam \in BOOLEAN :
         row' = [row EXCEPT !.epoch = @ + 1, !.mode = IF wholeTeam THEN "locked_down" ELSE @]
    /\ UNCHANGED copy

RollsBack ==
    /\ row.epoch < MaxTeamEpoch
    /\ row' = [row EXCEPT !.epoch = @ + 1, !.mode = "monitoring_only"]
    /\ UNCHANGED copy

Closes == row.active /\ row.plan # "active" /\ row' = [row EXCEPT !.active = FALSE] /\ UNCHANGED copy

\* Stripe's record of the subscription is synchronised by its own webhooks.
SubscriptionEnds == row.plan = "active" /\ row' = [row EXCEPT !.plan = "ended"] /\ UNCHANGED copy

-----------------------------------------------------------------------------
Loads(p, does) == copy[p] = NoCopy /\ copy' = [copy EXCEPT ![p] = [does |-> does, row |-> row]] /\ UNCHANGED row

\* The webhooks load any team; pages only one that is open.
LoadsTeam(p) ==
    \/ Loads(p, "provision")
    \/ row.active /\ Loads(p, "rename")
    \/ row.active /\ row.plan = "active" /\ Loads(p, "forget")   \* Stripe no longer knows the subscription

Changed(does, team) ==
    CASE does = "provision" -> [team EXCEPT !.plan = "active"]
      [] does = "rename" -> [team EXCEPT !.name = "new"]
      [] does = "forget" -> [team EXCEPT !.plan = "none"]

SavesTeam(p) ==
    /\ copy[p] # NoCopy
    /\ row' = Changed(copy[p].does, copy[p].row)
    /\ copy' = [copy EXCEPT ![p] = NoCopy]

\* Stripe does not answer, or the form is not valid.
GivesUp(p) == copy[p] # NoCopy /\ copy' = [copy EXCEPT ![p] = NoCopy] /\ UNCHANGED row

RowNext ==
    \/ ActivatesControl \/ EmergencyDisables \/ RollsBack \/ Closes \/ SubscriptionEnds
    \/ \E p \in TeamPage : LoadsTeam(p) \/ SavesTeam(p) \/ GivesUp(p)

RowSpec == RowInit /\ [][RowNext]_rowVars

-----------------------------------------------------------------------------
(* "Monotonic epoch used to invalidate previously issued remote commands." *)
(* (Team.remote_control_epoch): an emergency disable, a rollback or a reset *)
(* is not undone by a request that was under way.                          *)
EpochIsMonotonic == [][row'.epoch >= row.epoch]_rowVars

(* A closed team stays closed.                                             *)
(* The code does not keep this: README.md, "Known divergences".            *)
ClosedStaysClosed == [][~row.active => ~row'.active]_rowVars
=============================================================================
