-------------------------- MODULE EquipmentDiscovery --------------------------
(***************************************************************************)
(* Equipment scans of Guided Setup: the customer's pages start, follow and *)
(* cancel scans in the run's JSON summary, which each saves whole from the *)
(* copy it loaded (onboarding/views.py step_3_discover, discovery_poll;    *)
(* deployment_setup.sync_setup_run), while the consumer keeps the newest   *)
(* report of the Gateway (mqtt_consumer._process_discovery_report).        *)
(*                                                                         *)
(* The Gateway is external: it runs one scan at a time, its clock may be   *)
(* set back, and its reports may be lost, repeated and reordered.          *)
(***************************************************************************)
EXTENDS Naturals

CONSTANTS
    MaxScans,    \* bound on scans started
    ScanPage,    \* requests that can overlap
    NamesScans   \* does the Gateway put the scan's id into its reports?

ASSUME DiscoveryAssumption == MaxScans \in Nat /\ NamesScans \in BOOLEAN

VARIABLES
    tracked,     \* the run: state, and summary["discovery"] with the scan of its started_at
    report,      \* Gateway.discovery_data, and whether it was received less than 3 minutes ago
    started,     \* scans started so far
    age,         \* of each scan: 0 up to 30 seconds, 1 up to 3 minutes, 2 more
    command,     \* the deployment_discover command of each scan
    clock,       \* scan_ts of each scan
    scanning,    \* the Gateway's scan
    outcome,     \* how the Gateway ended each scan
    scanPage     \* what each request holds in memory

trackVars == <<tracked, started, command, scanPage>>
scannerVars == <<clock, scanning, outcome>>
discoveryVars == <<trackVars, report, age, scannerVars>>

Scan == 1 .. MaxScans
NoScan == 0
Ended == {"over", "cancelled"}   \* "over" is complete or error

NoTrack == [state |-> "configuring", active |-> NoScan, command |-> NoScan, since |-> NoScan,
            concluded |-> NoScan, status |-> "none"]
NoReportYet == [scan |-> NoScan, ts |-> 0, status |-> "none", updated |-> 0, fresh |-> FALSE]
Unseen == [scan |-> NoScan, status |-> "none", fresh |-> FALSE]
Closed == [at |-> "idle", run |-> NoTrack, opened |-> NoScan, seen |-> Unseen]

Tracked == [state: {"configuring", "discovering"}, active: 0 .. MaxScans, command: 0 .. MaxScans,
            since: 0 .. MaxScans, concluded: 0 .. MaxScans, status: Ended \cup {"none"}]
Seen == [scan: 0 .. MaxScans, status: Ended \cup {"none", "running"}, fresh: BOOLEAN]

DiscoveryTypeOK ==
    /\ tracked \in Tracked
    /\ report \in [scan: 0 .. MaxScans, ts: 0 .. MaxScans, status: Ended \cup {"none", "running"},
                   updated: 0 .. 2, fresh: BOOLEAN]
    /\ started \in 0 .. MaxScans /\ age \in [Scan -> 0 .. 2]
    /\ command \in [Scan -> {"none", "waiting", "carried", "failed"}]
    /\ outcome \in [Scan -> Ended \cup {"none"}]
    /\ clock \in [Scan -> Scan] /\ scanning \in 0 .. MaxScans
    /\ scanPage \in [ScanPage -> [at: {"idle", "opened", "synced", "acting", "asking"},
                                  run: Tracked, opened: 0 .. MaxScans, seen: Seen]]

(* The Gateway's clock goes on, or is set back between its scans.           *)
DiscoveryInit ==
    /\ tracked = NoTrack /\ report = NoReportYet
    /\ started = 0 /\ age = [n \in Scan |-> 0]
    /\ command = [n \in Scan |-> "none"]
    /\ clock \in {[n \in Scan |-> n], [n \in Scan |-> MaxScans + 1 - n]}
    /\ scanning = NoScan /\ outcome = [n \in Scan |-> "none"]
    /\ scanPage = [p \in ScanPage |-> Closed]

-----------------------------------------------------------------------------
(* What a page concludes from a copy of the run and a copy of the report.   *)
Running(rep) == rep.status = "running" /\ rep.scan # NoScan /\ rep.fresh

(* _reattach_running_discovery.                                            *)
Detached(run, rep) == Running(rep) /\ run.active # rep.scan
Attached(run, rep) == [run EXCEPT !.state = "discovering", !.active = rep.scan, !.command = NoScan]

(* _has_active_discovery_scan.                                             *)
ActiveUntilEnded(run, rep) ==   \* mutated form of HasActive
    /\ run.active # NoScan
    /\ IF rep.scan = run.active THEN rep.status = "running"
       ELSE ~(run.command # NoScan /\ command[run.command] = "failed")
HasActive(run, rep) ==
    /\ run.active # NoScan
    /\ IF rep.scan = run.active THEN Running(rep)
       ELSE /\ run.since # NoScan => age[run.since] < 2
            /\ IF run.command # NoScan THEN command[run.command] # "failed"
               ELSE run.since # NoScan /\ age[run.since] = 0

(* The report ends the scan that the run follows.                          *)
AnyEnd(run, rep) == run.state = "discovering" /\ rep.status \in Ended   \* mutated form of Ends
Ends(run, rep) ==
    /\ run.state = "discovering" /\ rep.status \in Ended
    /\ run.active # NoScan /\ rep.scan = run.active

(* discovery_scan_state: what the page shows of the scan ("refused" is the  *)
(* failed command's message, or that the Gateway is already scanning).      *)
ShownScan(run, rep) ==
    LET matching == rep.scan = run.active
    IN  IF run.active = NoScan THEN IF run.status = "cancelled" THEN "cancelled" ELSE "idle"
        ELSE IF matching /\ rep.status \in Ended THEN rep.status
        ELSE IF matching /\ rep.status = "running" /\ ~rep.fresh THEN "stopped"
        ELSE IF run.command # NoScan /\ command[run.command] = "failed" THEN "refused"
        ELSE IF ~matching /\ run.since # NoScan /\ age[run.since] = 2 THEN "never started"
        ELSE "scanning"

-----------------------------------------------------------------------------
(* A page: the run, the report, sync_setup_run's copy of both, then one of *)
(* the customer's actions.                                                 *)
At(p, point) == scanPage[p].at = point
Moves(p, point) == scanPage' = [scanPage EXCEPT ![p].at = point]
Leaves(p) == scanPage' = [scanPage EXCEPT ![p] = Closed]

RunningScan == IF Running(report) THEN report.scan ELSE NoScan
Read(rep) == [scan |-> rep.scan, status |-> rep.status, fresh |-> rep.fresh]

Opens(p) ==
    /\ At(p, "idle")
    /\ scanPage' = [scanPage EXCEPT ![p] = [Closed EXCEPT !.at = "opened", !.run = tracked, !.opened = RunningScan]]
    /\ UNCHANGED <<tracked, started, command>>

(* sync_setup_run loads the run again after the first save.                 *)
Reattaches(p) ==
    /\ At(p, "opened")
    /\ tracked' = IF Detached(scanPage[p].run, report) THEN Attached(scanPage[p].run, report) ELSE tracked
    /\ scanPage' = [scanPage EXCEPT ![p].at = "synced", ![p].run = tracked', ![p].seen = Read(report)]
    /\ UNCHANGED <<started, command>>

(* What ended is saved with the summary, else only the state, as loaded.    *)
Synced(p) ==
    LET run == scanPage[p].run
        rep == scanPage[p].seen
    IN  IF Ends(run, rep)
        THEN [run EXCEPT !.state = "configuring", !.concluded = run.active, !.status = rep.status]
        ELSE [tracked EXCEPT !.state = run.state]

SyncSaves(p) ==
    LET run == scanPage[p].run
        rep == scanPage[p].seen
    IN  /\ At(p, "synced")
        /\ tracked' = Synced(p)
        /\ \/ scanPage' = [scanPage EXCEPT ![p].at = "acting", ![p].run = IF Ends(run, rep) THEN tracked' ELSE run]
           \/ Leaves(p)
        /\ UNCHANGED <<started, command>>

(* start_discovery: follow the scan that runs, wait for the one that may    *)
(* still run, or start another under a new id ...                          *)
StartsScan(p) ==
    LET run == scanPage[p].run
        rep == scanPage[p].seen
        n == started + 1
        fresh == [NoTrack EXCEPT !.state = "discovering", !.active = n, !.since = n]
    IN  /\ At(p, "acting")
        /\ \/ /\ Detached(run, rep)
              /\ tracked' = Attached(run, rep)
              /\ Leaves(p) /\ UNCHANGED started
           \/ /\ ~Detached(run, rep) /\ HasActive(run, rep)
              /\ Leaves(p) /\ UNCHANGED <<tracked, started>>
           \/ /\ ~Detached(run, rep) /\ ~HasActive(run, rep)
              /\ n \in Scan
              /\ started' = n
              /\ tracked' = fresh
              /\ scanPage' = [scanPage EXCEPT ![p] = [Closed EXCEPT !.at = "asking", !.run = fresh]]
        /\ UNCHANGED command

(* ... request_remote_command, which may refuse, and its command in the     *)
(* summary as this page left it, unless the page dies in between.           *)
RequestsScan(p) ==
    LET run == scanPage[p].run
        recorded == [run EXCEPT !.command = run.active, !.state = tracked.state]
    IN  /\ At(p, "asking")
        /\ \/ /\ command' = [command EXCEPT ![run.active] = "waiting"]
              /\ tracked' \in {tracked, recorded}
           \/ UNCHANGED <<command, tracked>>
        /\ Leaves(p)
        /\ UNCHANGED started

(* cancel_discovery: without a running report the run is released at once.  *)
CancelsScan(p) ==
    LET run == scanPage[p].run
    IN  /\ At(p, "acting") /\ run.active # NoScan
        /\ tracked' = IF scanPage[p].opened = run.active THEN tracked
                      ELSE [run EXCEPT !.state = "configuring", !.active = NoScan, !.command = NoScan, !.status = "cancelled"]
        /\ Leaves(p)
        /\ UNCHANGED <<started, command>>

PageGoesOn(p) ==
    \/ Opens(p) \/ Reattaches(p) \/ SyncSaves(p)
    \/ StartsScan(p) \/ RequestsScan(p) \/ CancelsScan(p)

-----------------------------------------------------------------------------
(* The Gateway: its reports so far, any of which may still arrive, again or *)
(* not at all.                                                             *)
Message(n, status, updated) ==
    [scan |-> IF NamesScans THEN n ELSE NoScan, ts |-> clock[n], status |-> status, updated |-> updated]

Reports ==
    {Message(n, "running", 1) : n \in {n \in Scan : scanning = n \/ outcome[n] # "none"}}
        \cup {Message(n, outcome[n], 2) : n \in {n \in Scan : outcome[n] # "none"}}

GatewayScans(n) ==
    /\ command[n] = "waiting" /\ scanning = NoScan
    /\ command' = [command EXCEPT ![n] = "carried"]
    /\ scanning' = n
    /\ UNCHANGED <<tracked, started, scanPage, report, age, clock, outcome>>

(* "A discovery scan is already running", or it expired on the way.          *)
CommandFails(n) ==
    /\ command[n] = "waiting"
    /\ command' = [command EXCEPT ![n] = "failed"]
    /\ UNCHANGED <<tracked, started, scanPage, report, age, scannerVars>>

GatewayEnds(status) ==
    /\ scanning # NoScan
    /\ outcome' = [outcome EXCEPT ![scanning] = status]
    /\ scanning' = NoScan
    /\ UNCHANGED <<trackVars, report, age, clock>>

-----------------------------------------------------------------------------
(* _process_discovery_report.                                              *)
ActiveScan == IF tracked.state = "discovering" THEN tracked.active ELSE NoScan
Identified(m) == IF m.scan = NoScan THEN ActiveScan ELSE m.scan
Belongs(m) == ActiveScan # NoScan /\ Identified(m) = ActiveScan

OlderScan(m) == report.ts # 0 /\ m.ts < report.ts /\ ~Belongs(m)
NeverRegresses(m) == FALSE   \* mutated form of Regresses
Regresses(m) ==
    /\ Identified(m) # NoScan /\ Identified(m) = report.scan /\ m.ts = report.ts
    /\ (report.status \in Ended /\ m.status \notin Ended) \/ m.updated < report.updated

ReportArrives(m) ==
    /\ ~OlderScan(m) /\ ~Regresses(m)
    /\ report' = [scan |-> Identified(m), ts |-> m.ts, status |-> m.status, updated |-> m.updated,
                  fresh |-> m.status = "running"]
    /\ UNCHANGED <<trackVars, age, scannerVars>>

-----------------------------------------------------------------------------
ReportGoesStale ==
    /\ report.fresh
    /\ report' = [report EXCEPT !.fresh = FALSE]
    /\ UNCHANGED <<trackVars, age, scannerVars>>

ScanAges(n) ==
    /\ n <= started /\ age[n] < 2
    /\ \A k \in 1 .. n - 1 : age[k] > age[n] \/ age[k] = 2
    /\ age' = [age EXCEPT ![n] = @ + 1]
    /\ UNCHANGED <<trackVars, report, scannerVars>>

Outside ==
    \/ \E n \in Scan : GatewayScans(n) \/ CommandFails(n) \/ ScanAges(n)
    \/ \E status \in Ended : GatewayEnds(status)
    \/ \E m \in Reports : ReportArrives(m)
    \/ ReportGoesStale

DiscoveryNext ==
    \/ \E p \in ScanPage : PageGoesOn(p) /\ UNCHANGED <<report, age, scannerVars>>
    \/ Outside

(* The page polls while somebody looks at it, and time passes.             *)
DiscoveryFairness ==
    /\ \A p \in ScanPage : WF_trackVars(PageGoesOn(p))
    /\ WF_report(ReportGoesStale)
    /\ \A n \in Scan : WF_age(ScanAges(n))

DiscoverySpec == DiscoveryInit /\ [][DiscoveryNext]_discoveryVars /\ DiscoveryFairness

-----------------------------------------------------------------------------
(* "Retry creates a different scan ID, so a late result from the earlier   *)
(* attempt cannot complete the new scan" (docs/hardware_replay_runbook):    *)
(* a scan is concluded, and shown as ended, only as the Gateway ended that  *)
(* scan, whatever was repeated, delayed, retried or saved from an old copy. *)
LateResultsConcludeNothing ==
    /\ tracked.concluded # NoScan =>
           tracked.status \in {outcome[tracked.concluded], "cancelled"} \ {"none"}
    /\ tracked.active # NoScan =>
           ShownScan(tracked, report) \in {outcome[tracked.active], "scanning", "stopped", "refused", "never started"}

(* A result that arrived while its scan was followed is concluded, unless   *)
(* another scan is followed by then or another scan's report replaced it;   *)
(* and no scan keeps the customer from starting another for good: not one   *)
(* whose report or command was lost, refused or overtaken.                  *)
Follows(n) == tracked.active = n /\ tracked.state = "discovering"

ScansAreSettled ==
    /\ \A n \in Scan :
          (Follows(n) /\ report.scan = n /\ report.status \in Ended) ~> (~Follows(n) \/ report.scan # n)
    /\ []<>~HasActive(tracked, report)
=============================================================================
