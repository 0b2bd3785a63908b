# Novena Hub in TLA+

Novena Hub is a Django application that manages industrial and solar sites:
gateways report telemetry over MQTT, customers read and write equipment through
them, Celery workers carry out what the web and the schedule ask for, and
customers set equipment up in guided pages.  This directory holds TLA+ models
of what several of those actors do to the same rows, the TLC runs that check
them, and TLAPS proofs of their main properties for every size.

Paths are relative to the repository root; `apps/` is `src/apps/` in
`PROJECT.json`.  There, "map" gives for every definition that stands for code the
lines it stands for, "hazards" what is hard to test and at which line, "runs" and
"theorems" what is checked and proved.  Operators marked *mutated form* belong to
no specification: each is another definition with a plausible mistake in it, and
the property it is paired with in "mutants" notices.

## 1. The system

| Part | State | Operations | Where |
|---|---|---|---|
| Control authority | a team's `remote_control_epoch` and `remote_control_mode`; scopes and activations per (device, key) | activate, emergency disable, rollback, recovery reset, yearly expiry, suspension after a mismatch | `apps/devices/control_readiness.py`, `control_recovery.py`, `tasks.py` |
| Command dispatch | `RemoteCommand`, approvals, `CommandOutbox`, transport attempts, `RpcCommand` | request, approve, claim, publish, record, retry, dead-letter, cancel, answers | `remote_control.py`, `telemetry/mqtt_consumer.py` |
| Control readiness | assessments, commissioning sessions, policy bundles | assess, commission, stage, acknowledge | `control_readiness.py`, `control_governance.py` |
| Settings delivery | signed revisions and their outbox | queue, dispatch, two answers, supersede, time out | `gateway_config_delivery.py` |
| Activation and release | credential generations, release requests | provision, deliver, acknowledge, expire; quarantine, reset, revoke, archive | `activation.py`, `gateway_release.py` |
| Telemetry | Redis queue, datapoints, status of devices and gateways | attribute, queue, flush, heartbeat | `mqtt_consumer.py`, `mqtt_parser.py`, `telemetry/tasks.py` |
| Alerts, automations | alerts, cooldowns, sustained conditions, proposals | evaluate, raise, acknowledge, resolve, act | `alerts/services.py`, `automations/engine.py` |
| Guided setup | a run, its rows, live tests, scans, drafts | discover, draft, test, confirm, deploy, verify | `onboarding/views.py`, `deployment_setup.py`, `datapoint_maps.py` |
| Templates | public catalog, private families, paid help | submit, review, publish, import, save, deliver | `template_sharing.py`, `team_maps.py`, `template_help.py` |
| Fleet and plan | sites, gateways, equipment; plan limits; reconciliations | claim, create, move, replace, delete; apply a plan | `devices/views.py`, `claiming.py`, `plan_reconciliation.py` |
| Teams | memberships, invitations, the team's row | invite, accept, sign up, edit, leave, close | `apps/teams`, `apps/users`, `apps/subscriptions` |
| Impact | energy, excursions, meters and terms, snapshots, baselines, opportunities, reports | integrate, confirm, value, persist, revise, aggregate, generate, announce, remove | `apps/impact` |
| Services | tickets, tracked mail, layouts, the first-customer journey | | `apps/maintenance`, `apps/events`, `apps/dashboard`, `first_customer_journey.py` |

**How they interact.**  A page or the API changes rows in one or several
transactions and schedules Celery tasks on commit; beat entries scan for what a
lost task left.  Workers claim under a lease in one transaction, publish or call
a provider outside any, and record in another.  The MQTT consumer is a separate
process and handles answers in autocommit.  Many requests read a row, decide, and
save *every* column of it later.

**What makes it hard.**  Workers die between two transactions and are overtaken
when slow; answers are lost, late, repeated and reordered; authority, ownership
and plans change between a check and its use; pages save old copies over new rows.

**What makes each part correct.**  Authority: revocation is final, and only an
explicit activation brings a key back.  Dispatch: bounded, single-use, approved
publishes, nothing stranded, reports never taken back.  Release: credentials go
only after the gateway was reset.  Settings: only the newest takes effect.
Telemetry: what is shown is stored, and belongs to its tenure.  Setup: what is
deployed was tested as it is deployed.  Templates: what is offered is the newest.
Impact: nothing is counted twice or announced half.  Teams: someone administers them.

## 2. Modules

| Module | Models |
|---|---|
| `ControlAuthority` | epoch, mode, scopes, activations |
| `DispatchPermits` | abstract: bounded, single-use permits, revocable by era |
| `RemoteControl` | the command lifecycle; EXTENDS `ControlAuthority`, implements `DispatchPermits` |
| `ControlReadiness` | assessments, sessions, policy bundles beside the authority |
| `SettingsRegister` | abstract: what asking for settings promises those who ask |
| `GatewayConfigDelivery` | revisions of a gateway's settings and their outbox; implements `SettingsRegister` |
| `GatewayActivation`, `GatewayRelease` | credential generations; the release beside them |
| `TelemetryRouting` | whose rows a message of a re-claimed gateway reaches |
| `TelemetryIngest`, `AlertRules` | queue, flush, heartbeat; one rule over what they store |
| `AutomationRules`, `TrackedEmail`, `MaintenanceTickets` | background services |
| `CustomerJourney` | the automated first customer, through broker, queue and cleanup |
| `EnergyMetering`, `ColdChain`, `ImpactFigures`, `ImpactReports` | what meters and sensors counted; how days are kept; reports of them |
| `ImpactValues` | which meters count, what a day's figures are worth, opportunities and their edits |
| `DatapointMap`, `GuidedSetup` | signal maps and their tests; a setup run over them |
| `EquipmentDiscovery`, `EquipmentDrafts` | scans; the rows made from them |
| `PlanReconciliation`, `FleetRegistry` | applying a plan; what creating requests check |
| `TeamMembership`, `TeamRecord` | members and invitations; saves of the team's row |
| `CommandCenter` | layouts edited from two tabs |
| `TemplateReview`, `TeamTemplates`, `TemplateRequests` | public, private and paid templates |
| `MCRemoteControl`, `MCControlReadiness` | instances of one component |
| `MCGateway`, `MCSetup`, `MCPages`, `MCOperations` | parts that share no state, one per initial state (`focus`) |
| `*Proofs` | theorems, section 4 |

One action is one database transaction, or one statement where the code runs in
autocommit.  A request that reads, decides and saves is one action per step, with
what it read in a variable (`request`, `page`, `form`, ...).  A worker's death
needs no action in a safety run unless what it leaves matters: nothing forces a
next step.  Variables that the code does not have are said to be so where they
are declared: `overtaken` in `TeamMembership` and `FleetRegistry` remembers
that two requests overlapped, `excused` in `PlanReconciliation` that two workers did or
that settings were refused, so that a property can say "only then".

`focus` composes parts by initial state because the parts share no column that
their properties read; an interleaved product would check nothing more.

### What the models leave out, by module

* **All.**  Permissions, forms, validation and wording are free refusals, or are
  left out; signing and encryption are steps that may fail.
* **RemoteControl.**  Role, register and clock checks are one free denial; the
  consumer's autocommitted updates are one action except the suspension after a
  mismatch; the three reconciled outcomes are one status.
* **ControlReadiness.**  The twelve evidence gates are one outcome; numeric limits
  are left out.
* **GatewayConfigDelivery.**  `failed` stands for `rolled_back`; freshness and the
  five minutes to apply are free choices; `next_attempt_at` only delays.
* **GatewayActivation.**  `failed` and `retried` are folded into pending and delivered.
* **TelemetryRouting.**  Renames of devices; the consumer's check and its push are one
  step.  **TelemetryIngest.**  The device status "alarm".
* **AutomationRules.**  Only "and" logic, one payload per tick.
* **MaintenanceTickets.**  A link's `expires_at`; preventive schedules.
* **CustomerJourney.**  The rows of a run are one flag (they are made and removed
  together); failures of the read-backs are free.
* **ImpactFigures.**  The 56-row window and the comparison of values are sets of rows.
* **ImpactValues.**  A day's readings, excursions and rolling baselines are any of small
  sets; amounts are integers of the smallest unit; the calculation and what it persists
  are one step; only the edit of an opportunity is read and saved apart.
* **GuidedSetup.**  A slow dispatcher's reopening of a settled revision is left to
  `GatewayConfigDelivery`; one customer acts at a time; the statuses queued to accepted of a
  configuration are one.  **EquipmentDiscovery.**  Complete and error are "over"; the
  three-minute and thirty-second limits are flags; a save and the reload after it are
  one.  **EquipmentDrafts.**  A lookup and its save are one step; TCP hosts are left out.
* **TeamMembership.**  Manager, operator and viewer are "member"; a subscription
  freely refuses closing; a session's invitation is any that exists.
* **CommandCenter.**  Two panels, shown or hidden; geometry and the mobile order are
  left out, and one administrator's tabs are followed.
* **TemplateReview.**  Submitted and reviewing are one status; evidence freely fails;
  one admin form is open at a time; `.first()` after a lock is the least row listed
  when it was read and still listed.  **TeamTemplates.**  AI drafts; delivered maps
  belong to **TemplateRequests**, where a map's signals freely refuse.
* **FleetRegistry.**  One ownership row per serial number; attributes without a rule.

## 3. Runs

| Run | Properties |
|---|---|
| `dispatch_safety` (`RC_Write`) | `NoStrandedCommand`, `RevokedStaysRevoked`, `ReceiptNeverRegresses`, `WriteNeedsLiveKey` |
| `dispatch_refines_permits` (`RC_Approval`) | `ApprovedBeforeSent`, `ImplementsPermits`, `DispatchSettles` |
| `readiness` (`CR_Readiness`) | `ActiveKeysWereCommissioned`, `PolicyListsActivatedKeys`, `NewEpochRevokesAllKeys` |
| `config_delivery` (`CD_Delivery`) | `ImplementsRegister`, `ConfigSettles` |
| `gateway_ownership` (`GW_Ownership`) | `ActivatedCanConnect`, `RevokedOnlyAfterReset`, `SamplesStayInTheirTenure` |
| `monitoring` (`MO_Monitoring`) | `ShownReadingIsStored`, `AlertNeedsSustainedReadings`, `SilentDeviceGoesOffline` |
| `setup` (`GS_Setup`) | `DeployedWasReadLive`, `LateResultsConcludeNothing`, `OnlyOverlapsKeepAnOldLimit`, `RunLeavesDeploying`, `ScansAreSettled`, `ReconciliationEnds` |
| `operations` (`OP_Operations`) | one per part: `SettledMailWasTaken`, `ActsOnReportedConditions`, `ContractorFinishesCompleteJobs`, `PassedRunsLeaveNothing`, `EnergyIsCountedOnce`, `UseIsCountedOnce`, `ExcursionsAreMeasured`, `BaselinesAverageWholeDays`, `AnnouncedReportsAreWhole` |
| `team_pages` (`PG_Pages`) | one per part: `ChecksUseChosenTemplates`, `OnlyRacesOrphanTeams`, `ReplacesWhatItKnows`, `OnlyTheNewestIsOffered`, `OnlyOverlappingSavesForkAFamily`, `WorkIsPaidFor`, `OnlyOverlapsExceedThePlan` |
| `retry_after_ambiguity`, `credentials_survive_release`, `epoch_survives_saves` | violations, see "Known divergences" |

**Bounds.**  Two of whatever can overtake each other (workers, requests, tabs,
pages, reporters), and one item for them to meet on: items do not interact except
through it.  `MaxAttempts` 2 is the least at which a retry, an overtaken lease and an
exhausted outbox all occur; two epochs give one revocation, three an activation in
between; two revisions, generations and tenures give an old and a new one.
`RC_Approval` has one attempt: approval and sending do not depend on retries, and the
fair graph stays small; its liveness also holds with two attempts and no approval.
`CD_Delivery` has one dispatcher because of its liveness, and `GW_Ownership` one
releaser because a second repeats steps that a retry of the first takes as well;
the proofs about settings cover any dispatchers.  Three readings, of which two share a
device, and five events let `ImpactValues` suggest, confirm twice and calculate, or
follow a figure up to a saved edit; six hold as well.
Larger instances were checked once
and hold: two runs of `CustomerJourney` (5.9 million states), `CommandCenter` with a
grid (10 million), `EquipmentDrafts` with two pages (5.5 million), `TeamMembership`
with three joins, `FleetRegistry` with two sites and two gateways, `GuidedSetup` with
two pages and two configurations (7.5 million), `GatewayConfigDelivery` with two
dispatchers.  Properties that another one of a run implies are not run again but were
checked once and are theorems: `AttemptsAccounted` and `ShownOutcomeIsReal`
(`ImplementsPermits`, `ImplementsRegister`), `OnlyNewestTakesEffect`, and the two others
of `ImpactValues`, `ShownValuesAreSupported` and `DecisionsSurviveCalculations`.  Type invariants of modules without a
proof were checked with them.

**Deadlock** is not checked: a system whose commands are settled, whose rows are
used up or whose clock has reached its bound really stops.

**Fairness.**  Only where a schedule runs: `Dispatch` (every five seconds),
`LeaseExpires` and ages (time passes), a worker's next step *or its death*, the
settings' dispatcher (every thirty seconds), the flush task and the heartbeat, the
reconciliation scanner (every minute), a setup page's poll.  People, gateways and
brokers are never fair, and no entry runs `check_rpc_timeouts`, so nothing is said
about an answer that does not come.

## 4. Proofs

Every theorem holds for all values of the constants under the named `ASSUME` of its
module, which says little more than that bounds are naturals.

* **ControlAuthorityProofs.**  `AuthorityTypeCorrect` and `AuthorityAgrees` are
  inductive together.  `NewEpochRevokes` needs that no stamp lies ahead of the epoch.
* **RemoteControlProofs.**  `StepOfAuthority`: every step of the system is a step of
  the authority or leaves it alone, so its results carry over.
  `CommandInv` strengthens `NoStrandedCommand`, `ApprovedBeforeSent` and
  `ReceiptNeverRegresses`: an outbox row exists only for a requested and approved
  command, and transport records only with an outbox row.
  `Approve` is why: it overwrites any status, and only the one-to-one outbox key
  keeps it from overwriting a report.  `LeaseIsGuarded` gives the guards of a claim.
  `DispatchImplementsPermits` is the refinement: requests issue, claims grant,
  publishes spend, failures drop, a new epoch is a new era, all else stutters.
* **ConfigDeliveryProofs.**  `ConfigInvariant`: what a receipt says is the edge's and
  stays so; `RowSafe` states once what a write to one row must satisfy.
  `DeliveryImplementsRegister` is the refinement: a revision is shown as its row says,
  except that one that timed out counts as open while its outbox row is still worked on,
  and a dispatcher with a message in hand is a sender.  It needs `AnswersAreGiven`: a
  receipt under way was given by the edge, so what a receipt shows was decided.  Claims
  start a sender, records stop one (and may open a settled revision again), receipts are
  learnt, leases that end and repeated answers stutter.
* **ControlReadinessProofs.**  `ReadinessInvariant` adds to the authority's invariant
  where bundles and sessions come from: a bundle the gateway retains was created in
  an epoch there has been, and lists what was activated in it.
* **GatewayProofs**, three sections.
  - `CredentialsInvariant` (`GatewayRelease` with its `GatewayActivation`): only the
    newest generation is provisioned, answers are of generations that were issued, a
    success means that the broker has that generation or a release was asked for, and
    revoking comes after a reset.  `ActivatedGatewaysConnect` and
    `RevokingFollowsReset` are two of its consequences.
  - `RoutingInvariant` (`TelemetryRouting`): a sample is queued with the row it arrived
    for, and with an activated row only if it was sent under that claim; equipment and
    what is filed name rows that were claimed, so a row that gets its activation has
    none of them yet.  `SamplesKeepTheirTenure` follows.
  - `ScanInvariant` (`EquipmentDiscovery`): every copy of the run or of a report says of
    a scan what the gateway ended it with; a scan is asked for once and ends once.
    `LateResultsAreHarmless` assumes `NamesScans = TRUE`, that gateways put the scan's id
    into their reports: without it TLC finds the divergence of section 5.
* **SetupProofs.**  `SetupInvariant` strengthens `DeployedWasReadLive`: a map that awaits
  its confirmation was tested, and a confirmed one confirmed, with a checksum of a
  successful test of signals (`WasRead`).  It needs what each overlapping page still
  holds: its rows name commands that were sent, and the map it read belongs to a test of
  signals.  `PageStepKeeps` states once what a page's statement may save;
  `ReadLiveGrows` that answers are never taken back.
  `PlansAreApplied` (`PlanReconciliation`) rests on `PlanInv`: the limit is the number of
  changes queued, and unless `excused` at most one worker is busy and every supported
  gateway has the limit, is still to be visited by that worker, or awaits a
  reconciliation that is queued or whose worker died (`WillBeApplied`).
* **PagesProofs**, one section per page module.  The properties that say "only
  overlaps" are action properties over an invariant that says what each request under
  way knows: a form was checked (`WorkPaidFor`), a page's revision is no newer than
  the row's (`OnlyKnownRowsReplaced`), a check's template is its row's
  (`ChecksAreMeant`), a request that nobody overtook still counts right
  (`PlanIsKeptWithoutOverlaps`, `OrphansAreRaces`), rows of one key have distinct
  numbers (`OffersAreNewest`, `ForksAreOverlaps`).
* **OperationsProofs**, one section per part of `MCOperations` and one for the alerts:
  - `SettledMailTaken`: a task that will save "sent" has the provider's answer.
  - `ActsOnReports`: the cache remembers a condition only from a payload that met it.
  - `ContractorsFinishCompleteJobs`: a contractor's request still holds the complete
    checklist it checked, and saves that one.
  - `PassedRunsAreClean`: a passed run has no rows, so the flush adds nothing to it.
  - `ExcursionsMeasured`: covered time ends with the latest sample; counts times the
    delay by the distributive law.
  - `EnergyCountedOnce`: a segment lies in at most one half of the day and is no
    longer there than in the day; a plausible reading is the register.
  - `UseCountedOnce`: at most one confirmed main meter is in the totals (`OneMain`), and
    of a device's readings the first in a total order is one.  `ShownValuesSupported`:
    no price makes an amount of a day read too little (`AmountsInv`).
    `DecisionsSurvive`: a calculation leaves the status of an opportunity alone.
  - `BaselinesHoldWholeDays`: final figures cover their day, no period has a
    revision twice, and the highest revision exists because revisions are bounded.
  - `AnnouncedReportsStayWhole`: until the month is too old, each revision under way has
    one owner, was not announced, and has what its owner has done so far.
  - `ShownReadingsAreStored`: a reading is in the queue, in one worker's batch, or has
    its row; a worker past storing holds only stored ones (`ReadingsMove`).
  - `AlertsAreSustained`: `SustainedIsThroughout` shows that the window the code accepts
    (first sample, optional earlier one, gaps) is the reference `ExceededThroughout`; the
    least and greatest of a bounded set of instants exist (`Extremes`).

Only model-checked, and why:

* **Liveness** (`DispatchSettles`, `ConfigSettles`, `SilentDeviceGoesOffline`,
  `RunLeavesDeploying`, `ScansAreSettled`, `ReconciliationEnds`): the prover treats
  neither fairness nor `ENABLED`.
* **The three violations**, which are counterexamples.
* **Type invariants** of `GatewayRelease`, `TeamRecord`, `ImpactValues` and the service modules, as far as the inductive invariants above do not contain them.

Every invariant and action property of a passing run is a theorem.

Nothing is proved about what a recursive definition computes: induction over data
needs theorems with an operator parameter.

## 5. Known divergences

Met while modelling; each is what the code does against what a comment, a document or
another line of the code says.  The first three are runs that TLC shows violated, with
"findings" in `PROJECT.json`; a property named in parentheses is defined in its module
with the comment *The code does not keep this*.

1. `retry_after_ambiguity`: `_record_pre_ack_failure` sets an outbox row to RETRY
   whatever another attempt recorded; an ambiguous publish is sent again.
2. `credentials_survive_release`: provisioning under way when the broker identity was
   revoked makes it anew for a released gateway.
3. `epoch_survives_saves`: whole-row saves of a team undo an emergency disable, the
   closing of the team or a plan (`ClosedStaysClosed`).

*Control and commands.*  The yearly expiry also suspends keys that were renewed
(`ExpirySparesRenewedKeys`, `tasks.py:193`).  An approval after a reset requeues a
cancelled command (`LifecycleMonotonic`, `control_readiness.py:254`).  The reset leaves
RETRY rows (`ResetCancelsOutboxWork`, `control_recovery.py:29`).  A read is published to
a released gateway (`ReleasedGatewayGetsNothing`, `remote_control.py:535`).  The time-out
scan overwrites an answer (`TimeoutOnlyWithoutResponse`, `tasks.py:148`), and no schedule
entry runs it.  `_cancel_claim_locked` overwrites a terminal status
(`remote_control.py:630`).  The customer's `DeviceCommand` is created after the request
commits, so an early answer finds none (`services.py:315`).  A rollback needs no
recommissioning, which its document asks for.

*Gateways.*  Credentials are revoked outside quarantine (`RevokedOnlyInQuarantine`,
`services.py:161`); a stale lifecycle save returns an old status
(`mqtt_consumer.py:504`); `expire_gateway_activation` may overwrite an acknowledged
generation (`activation.py:314`); `_retry_release` reopens a completed request.
A gateway with one device attributes any message to it, and without an activation
accepts an old tenure's messages (`SamplesStayWithTheirDevice`); a flush shows a
released row online (`ReleasedRowsStayQuiet`).

*Telemetry, alerts, automations.*  Two ingest workers may both find no recent alert
(`alerts/services.py:116`).  A condition's state ignores what is reported during a
cooldown, so an automation may act on one that did not last
(`ActsOnlyWhenSustained`, `engine.py:28` against `automations/models.py:53`).

*Guided setup.*  A refused or unanswered test leaves its row VALIDATING
(`deployment_setup.py:739`); folding an answer in may replace saved signals by an older
copy (`SavedEditsSurvive`, `datapoint_maps.py:533`); two pages can put a row of a
completed run back.  Scans: a gateway without scan names may conclude a new scan with a
late result (`docs/hardware_replay_runbook_2026-07-09.md:469`); a page may save an older
scan's id over a newer one's, and two pages start two scans; a clock set back lets a late
report replace a newer one; a refused command shows "Results will appear here
automatically" without a time-out; starting a scan saves an old `lifecycle_status`.
Drafts: acting on a key whose row has a device resets that row; concurrent validates make
two devices and may exceed the limit (`PlanLimitHolds`); a retry beside a validate can
leave the row's template different from its device's.

*Teams.*  Two administrators who remove or demote each other leave none.  Editing
one's own phone number restores an older role or a removed membership.  An invitation
remembered by a session still admits at sign-up after it was used or the team closed
(`teams/signals.py:14`); a cancelled one comes back as accepted; two users can use one.
Closed accounts count as owners (`OpenTeamsHaveOpenOwners`, `users/services.py:16`).

*Templates and help.*  Submissions published at once give two current maps of a model
(`OneMapPerModel`); a community revision under the manifest's key blocks later imports
(`ReleasesCanBeImported`); a stale edit overwrites "published"; promoting a map that was
replaced fails, and of a retired one revives it.  Two saves at once leave two current
revisions of a family (`FamiliesListOne`), and a draft whose number is taken fails at every
publish (`DraftsStayPublishable`).  A late reply or save reopens a closed request
(`SettledRequestsStay`), a stale form erases a reply (`RepliesAreKept`) or the delivered
map, which is then delivered twice (`OneMapPerRequest`); two requests for one item may
both be open (`OneOpenRequest`).  Two approvals of one AI draft make two templates.

*Fleet and pages.*  A moved gateway's devices keep the old site (`SiteFollowsGateway`)
and are deleted with it (`MovedGatewaysKeepEquipment`); whole-row updates bring a deleted
device or an old lifecycle back; limits are checked without a lock; deleting a device sends
no settings.  Layouts: a revision number may come back after a reset; an answer may bring
an unseen revision while the user edits; a share link's password cannot be removed.

*Settings and plans.*  A slow dispatcher's record takes a revision whose outcome is shown
back to "published" (`gateway_config_delivery.py:261`).  A worker that generated settings
for the old limit and is overtaken queues them after those for the new one, and both
reconciliations are completed (`OverlapsAreHarmless`, `plan_reconciliation.py:81`, `:92`).

*Impact.*  An edit of an opportunity saves the whole row it read and puts older figures
back (`OpportunityIsCurrent`).  A month may be made of a part-day figure (`MonthIsMadeOfFinalDays`,
`docs/business_impact_roi_operations.md:19`); a recalculated figure is compared with the
first revision only (`NewestFigureIsCurrent`); a late refresh makes a final figure
provisional (`FinalFiguresStay`); a duplicate sample cuts an excursion; a dead worker's
GENERATING row blocks the monthly report; the cleanup deletes rows whose files it did not;
sources that are not cumulative counters are integrated as power.

*Journey.*  A run cleaned up by an operator may still report "preserved"; a cleanup does
not check whose gateway the inventory names now; one device deleted between the flush's
read and its insert loses the whole batch.

## 6. Plan

Done: every module above, the runs, and the proofs of section 4.  Next:

1. The remaining type invariants as theorems; `GuidedSetup` and `PlanReconciliation`
   stated against `SettingsRegister` in place of their own few statuses.
2. A reference for the telemetry path, from a message to the reading shown, that
   `TelemetryRouting` and `TelemetryIngest` together implement.
3. Preventive schedules and numeric control limits.

## 7. Not modelled

OTA signing and cryptography; chat; dashboards, content and support pages; deployment,
backups and the generated client; AI drafting; validation of catalogue rows; MQTT and
PostgreSQL themselves.  `PROJECT.json` "components" lists each with its reason.
