------------------------------ MODULE GuidedSetup ------------------------------
(***************************************************************************)
(* One deployment setup run: its pages fold the answers of live tests, the *)
(* outcome of configurations and first telemetry into the run and its rows *)
(* (deployment_setup.sync_setup_run), without a lock and statement by      *)
(* statement, while the customer edits, tests, confirms and deploys        *)
(* (onboarding/views.py step_3_discover, devices/views.py).                *)
(*                                                                         *)
(* Configurations are queued and settle as GatewayConfigDelivery says; here*)
(* only the status a page can see and the signals sent are kept.           *)
(***************************************************************************)
EXTENDS DatapointMap

CONSTANTS
    Page,          \* requests that can overlap
    MaxConfigs     \* bound on revisions

ASSUME SetupAssumption == MaxConfigs \in Nat

VARIABLES
    run,           \* DeploymentSetupRun.state
    configs,       \* its configurations, oldest first: [status, payload, overdue]
    telemetry,     \* equipment with a last_telemetry_at
    page           \* what each request holds in memory

setupVars == <<mapVars, run, configs, telemetry, page>>

Terminal == {"completed", "completed_attention", "failed"}
InProgress == "in_progress"     \* queued, waiting_for_gateway, published, accepted
Unapplied == {"failed", "timed_out", "superseded"}
ConfigStatus == {InProgress, "active", "rolled_back"} \cup Unapplied
RunState == {"configuring", "deploying", "verifying"} \cup Terminal

Bad == {"needs_attention", "failed", "rolled_back"}

NoConfig == [status |-> "none", overdue |-> FALSE]
Latest == IF configs = << >> THEN NoConfig
          ELSE [status |-> configs[Len(configs)].status, overdue |-> configs[Len(configs)].overdue]

Idle == [at |-> "idle", run |-> "configuring", config |-> NoConfig,
         rows |-> [i \in {} |-> << >>], left |-> {}, test |-> NoSum, taken |-> {}]

\* A row as select_related loads it: with its equipment.
LoadedRow == [row: RowRecord, conn: Connection, telemetry: BOOLEAN]

SetupTypeOK ==
    /\ MapTypeOK
    /\ run \in RunState
    /\ \A k \in DOMAIN configs:
         /\ configs[k].status \in ConfigStatus /\ configs[k].overdue \in BOOLEAN
         /\ DOMAIN configs[k].payload \subseteq Equipment
         /\ \A i \in DOMAIN configs[k].payload: configs[k].payload[i] \in Checksum
    /\ telemetry \subseteq Equipment
    /\ \A p \in Page:
         /\ page[p].at \in {"idle", "restore", "rows", "test", "conclude", "review", "mark"}
         /\ page[p].run \in RunState /\ page[p].left \subseteq DOMAIN page[p].rows
         /\ \A i \in DOMAIN page[p].rows: page[p].rows[i] \in LoadedRow
         /\ page[p].test \in Equipment \cup {NoSum} \/ page[p].test \in [of: Equipment, map: MapRecord]

SetupInit ==
    /\ MapInit
    /\ run = "configuring" /\ configs = << >> /\ telemetry = {}
    /\ page = [p \in Page |-> Idle]

-----------------------------------------------------------------------------
(***************************************************************************)
(* sync_setup_run.                                                         *)
(***************************************************************************)
SyncLoads(p) ==
    /\ page[p].at = "idle"
    /\ page' = [page EXCEPT ![p].at = "restore", ![p].run = IF configs = << >> THEN run ELSE @, ![p].config = Latest]
    /\ UNCHANGED <<mapVars, run, configs, telemetry>>

Restorable == {"queued", "failed", "rolled_back"}
RowsTo(from, to) == [i \in Equipment |-> IF row[i].state \in from THEN [row[i] EXCEPT !.state = to] ELSE row[i]]

\* One update restores rows to retry, then the rows are read.
SyncReadsRows(p) ==
    /\ page[p].at = "restore"
    /\ row' = IF page[p].config.status = "active" THEN RowsTo(Restorable, "applied") ELSE row
    /\ LET due == {i \in Equipment: row'[i].state \in {"validating", "applied"}}
       IN  page' = [page EXCEPT ![p].at = "rows", ![p].left = due,
                       ![p].rows = [i \in due |-> [row |-> row'[i], conn |-> device[i].conn, telemetry |-> i \in telemetry]]]
    /\ UNCHANGED <<device, map, asking, commands, run, configs, telemetry>>

Answered(r) == r.state = "validating" /\ r.command # 0 /\ commands[r.command].answer # "none"
ConnectionOnly(r) == r.mode = "connection" \/ commands[r.command].mode = "connection"

\* The state a row takes from its test's answer.
JudgedByState(r) == r.state

Judged(r) ==
    IF commands[r.command].answer = "failed" THEN "needs_attention"
    ELSE IF ConnectionOnly(r) THEN "template_selected" ELSE "awaiting_confirmation"

\* item.save(): every field as it was loaded, but for the answer.
WholeRow(r) == [r EXCEPT !.state = Judged(r), !.mode = "datapoints", !.reviewed = FALSE]

\* A connection test's answer: one save of the whole row.
SyncFoldsConnection(p, i) ==
    LET r == page[p].rows[i].row
    IN  /\ page[p].at = "rows" /\ i \in page[p].left
        /\ Answered(r) /\ ConnectionOnly(r)
        /\ row' = [row EXCEPT ![i] = WholeRow(r)]
        /\ page' = [page EXCEPT ![p].left = @ \ {i}]
        /\ UNCHANGED <<device, map, asking, commands, run, configs, telemetry>>

\* A signal test's answer: record_device_datapoint_validation reads the map ...
SyncReadsMap(p, i) ==
    LET r == page[p].rows[i].row
    IN  /\ page[p].at = "rows" /\ i \in page[p].left
        /\ Answered(r) /\ ~ConnectionOnly(r)
        /\ page' = [page EXCEPT ![p].at = "test", ![p].test = [of |-> i, map |-> map[i]]]
        /\ UNCHANGED <<mapVars, run, configs, telemetry>>

\* ... and saves all of it, and the whole row after it.
SyncRecords(p) ==
    LET i == page[p].test.of
        r == page[p].rows[i].row
    IN  /\ page[p].at = "test"
        /\ map' = [map EXCEPT ![i] = Recorded(page[p].test.map, page[p].rows[i].conn, commands[r.command])]
        /\ row' = [row EXCEPT ![i] = WholeRow(r)]
        /\ page' = [page EXCEPT ![p].at = "rows", ![p].test = NoSum, ![p].left = @ \ {i}]
        /\ UNCHANGED <<device, asking, commands, run, configs, telemetry>>

\* Telemetry the loaded equipment had confirms a row that was loaded applied.
HasTelemetry(loaded) == loaded.row.state = "applied" /\ loaded.telemetry

SyncConfirms(p, i) ==
    /\ page[p].at = "rows" /\ i \in page[p].left
    /\ HasTelemetry(page[p].rows[i])
    /\ row' = [row EXCEPT ![i].state = "live", ![i].first = TRUE]
    /\ page' = [page EXCEPT ![p].left = @ \ {i}]
    /\ UNCHANGED <<device, map, asking, commands, run, configs, telemetry>>

\* The rows and the run as the configuration the request loaded leaves them.
RowsAfter(config) ==
    CASE config.status = "rolled_back" -> RowsTo({"queued", "applied"}, "rolled_back")
      [] config.status \in Unapplied -> RowsTo({"queued"}, "failed")
      [] config.status = "active" /\ config.overdue ->
           [i \in Equipment |-> IF row[i].state = "applied" /\ ~row[i].first
                                THEN [row[i] EXCEPT !.state = "needs_attention"] ELSE row[i]]
      [] config.status \in {"none", InProgress} \/ (config.status = "active" /\ ~config.overdue) -> row

RunAfterAnswersOnly(config, loaded) ==
    CASE config.status = "active" -> "verifying"
      [] config.status \in {"failed", "rolled_back"} -> "failed"
      [] config.status \in {"none", InProgress, "timed_out", "superseded"} -> "deploying"

RunTakesStatus(config, loaded) == IF config.status = "none" THEN loaded ELSE config.status

RunAfter(config, loaded) ==
    CASE config.status = "none" -> loaded
      [] config.status = InProgress -> "deploying"
      [] config.status = "active" -> "verifying"
      [] config.status \in Unapplied \cup {"rolled_back"} -> "failed"

\* All live completes, some live and some bad completes with attention.
Overall(rows, config, otherwise) ==
    LET states == {rows[i].state: i \in Equipment}
    IN  IF states = {"live"} THEN "completed"
        ELSE IF "live" \in states /\ states \cap Bad # {} THEN "completed_attention"
        ELSE IF config.status # "none" /\ states \subseteq Bad THEN "failed"
        ELSE otherwise

SyncConcludes(p) ==
    LET config == page[p].config
    IN  /\ page[p].at = "rows"
        /\ \A i \in page[p].left: ~Answered(page[p].rows[i].row) /\ ~HasTelemetry(page[p].rows[i])
        /\ row' = RowsAfter(config)
        /\ run' = Overall(row', config, RunAfter(config, page[p].run))
        /\ \E next \in {"review", "idle"}:
             page' = [page EXCEPT ![p] = [Idle EXCEPT !.at = next]]
        /\ UNCHANGED <<device, map, asking, commands, configs, telemetry>>

-----------------------------------------------------------------------------
(***************************************************************************)
(* Step 3, after its sync: _require_customer_confirmation_for_predeployment*)
(* and the deploy action.                                                  *)
(***************************************************************************)
Unreviewed == {i \in Equipment: configs = << >> /\ row[i].state = "validated" /\ ~row[i].reviewed}

Review(p) ==
    /\ page[p].at = "review" /\ Unreviewed # {}
    /\ row' = [i \in Equipment |-> IF i \in Unreviewed THEN [row[i] EXCEPT !.state = "awaiting_confirmation"] ELSE row[i]]
    /\ device' = [i \in Equipment |-> IF i \in Unreviewed THEN [device[i] EXCEPT !.ready = FALSE] ELSE device[i]]
    /\ UNCHANGED <<map, asking, commands, run, configs, telemetry, page>>

LeavesStep3(p) ==
    /\ page[p].at = "review" /\ Unreviewed = {}
    /\ page' = [page EXCEPT ![p] = Idle]
    /\ UNCHANGED <<mapVars, run, configs, telemetry>>

\* generate_connector_config: the equipment marked validated, with a map that
\* is deployable now.
Payload == [i \in {i \in Equipment: device[i].ready /\ Deployable(i)} |-> Current(i)]

\* queue_gateway_config: an older revision that has not settled is superseded.
Queued(payload) ==
    Append([k \in DOMAIN configs |-> IF configs[k].status \in {InProgress, "timed_out"}
                                     THEN [configs[k] EXCEPT !.status = "superseded"] ELSE configs[k]],
           [status |-> InProgress, payload |-> payload, overdue |-> FALSE])

Deploy(p) ==
    LET taken == {i \in Equipment: row[i].state \in {"validated", "live"}}
    IN  /\ page[p].at = "review" /\ Unreviewed = {}
        /\ run \notin Terminal
        /\ Len(configs) < MaxConfigs
        /\ taken # {} /\ DOMAIN Payload # {}
        /\ configs' = Queued(Payload)
        /\ page' = [page EXCEPT ![p].at = "mark", ![p].taken = taken]
        /\ UNCHANGED <<mapVars, run, telemetry>>

Marks(p) ==
    /\ page[p].at = "mark"
    /\ row' = [i \in Equipment |-> IF i \in page[p].taken THEN [row[i] EXCEPT !.state = "queued"] ELSE row[i]]
    /\ run' = "deploying"
    /\ page' = [page EXCEPT ![p] = Idle]
    /\ UNCHANGED <<device, map, asking, commands, configs, telemetry>>

\* retry_gateway_config sends the failed revision's stored signals again.
Retry ==
    /\ configs # << >> /\ Len(configs) < MaxConfigs
    /\ Latest.status \in {"failed", "rolled_back", "timed_out"}
    /\ configs' = Queued(configs[Len(configs)].payload)
    /\ UNCHANGED <<mapVars, run, telemetry, page>>

-----------------------------------------------------------------------------
(***************************************************************************)
(* The Gateway: settles the newest revision, and polls what an active one  *)
(* lists.                                                                  *)
(***************************************************************************)
ConfigSettles ==
    /\ Latest.status = InProgress
    /\ \E outcome \in {"active", "failed", "rolled_back", "timed_out"}:
         configs' = [configs EXCEPT ![Len(configs)].status = outcome]
    /\ UNCHANGED <<mapVars, run, telemetry, page>>

LateAnswer ==
    /\ Latest.status = "timed_out"
    /\ \E outcome \in {"active", "failed", "rolled_back"}:
         configs' = [configs EXCEPT ![Len(configs)].status = outcome]
    /\ UNCHANGED <<mapVars, run, telemetry, page>>

\* GUIDED_SETUP_FIRST_TELEMETRY_TIMEOUT_SECONDS after the acknowledgement.
TelemetryOverdue ==
    /\ Latest.status = "active" /\ ~Latest.overdue
    /\ configs' = [configs EXCEPT ![Len(configs)].overdue = TRUE]
    /\ UNCHANGED <<mapVars, run, telemetry, page>>

Polled == UNION {DOMAIN configs[k].payload: k \in {k \in DOMAIN configs: configs[k].status = "active"}}

TelemetryArrives(i) ==
    /\ i \in Polled \ telemetry
    /\ telemetry' = telemetry \cup {i}
    /\ UNCHANGED <<mapVars, run, configs, page>>

-----------------------------------------------------------------------------
RowStep(p, i) == SyncFoldsConnection(p, i) \/ SyncReadsMap(p, i) \/ SyncConfirms(p, i)

PageStep(p) ==
    \/ SyncLoads(p) \/ SyncReadsRows(p)
    \/ (\E i \in Equipment: RowStep(p, i))
    \/ SyncRecords(p) \/ SyncConcludes(p)
    \/ Review(p) \/ LeavesStep3(p) \/ Deploy(p) \/ Marks(p)

SetupNext ==
    \/ CustomerActs(telemetry) /\ run \notin Terminal /\ UNCHANGED <<run, configs, telemetry, page>>
    \/ (\E k \in DOMAIN commands: GatewayAnswers(k)) /\ UNCHANGED <<run, configs, telemetry, page>>
    \/ \E p \in Page: PageStep(p)
    \/ Retry \/ ConfigSettles \/ LateAnswer \/ TelemetryOverdue
    \/ \E i \in Equipment: TelemetryArrives(i)

(***************************************************************************)
(* The setup page polls while the run is not complete (every two seconds   *)
(* during a test, every four after the deployment), so a page goes on as   *)
(* long as somebody looks at it; a queued revision settles, which is what  *)
(* GatewayConfigDelivery shows of it.                                      *)
(***************************************************************************)
SetupFairness ==
    /\ \A p \in Page: WF_setupVars(PageStep(p))
    /\ WF_setupVars(ConfigSettles)

SetupSpec == SetupInit /\ [][SetupNext]_setupVars /\ SetupFairness

-----------------------------------------------------------------------------
\* What is sent to a Gateway as an equipment's signal map was read live with
\* success, all of it and at that connection, however edits, tests, answers and
\* confirmations overtook each other (effective_register_map, the checksums).
DeployedWasReadLive ==
    \A k \in DOMAIN configs: \A i \in DOMAIN configs[k].payload: configs[k].payload[i] \in ReadLive

\* An answered test is judged: its row does not stay "validating", although rows
\* are saved whole from older copies.
TestsAreJudged == \A i \in Equipment: Answered(row[i]) ~> ~Answered(row[i])

\* A deployment is never stuck: once its revision settles, the run leaves
\* "deploying", although requests conclude from the status they loaded.
RunLeavesDeploying == (run = "deploying") ~> (run # "deploying")

\* The mapping page tells the customer "Signal mapping saved. Run a live
\* validation before confirming it." (devices/views.py): saved signals are
\* replaced only by another save.
\* The code does not keep this: README.md, "Known divergences".
SavedEditsSurvive ==
    [][\A i \in Equipment: map'[i].points # map[i].points => map'[i].status = "draft"]_setupVars
=============================================================================
