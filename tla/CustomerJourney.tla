--------------------------- MODULE CustomerJourney ---------------------------
(***************************************************************************)
(* The automated first-customer journey of                                 *)
(* apps/devices/first_customer_journey.py and its management command: a    *)
(* runner that creates an isolated customer, sends samples through the     *)
(* broker (or straight to the ingest service), waits until they are        *)
(* stored, checks what the customer sees and removes what it created.      *)
(* Messages are delivered at least once, the flush task runs between any   *)
(* two steps, runners die, and operators clean up by run or by owner.      *)
(*                                                                         *)
(* The customer, site, template, gateway, inventory and device of a run    *)
(* are created in one transaction and removed in another: one flag.        *)
(***************************************************************************)
EXTENDS Naturals, FiniteSets

CONSTANTS
    Run,           \* identifiers of runs
    Samples        \* how many samples a run sends

VARIABLES
    stage,         \* per run: FirstCustomerJourneyRunner._stage, or how it ended
    ingestion,     \* per run: its ingestion mode
    hierarchy,     \* per run: the rows that carry its ownership marker exist
    retention,     \* per run: expires_at of the marker lies ahead
    online,        \* per run: the gateway was seen and is online
    sent,          \* per run: messages published, the heartbeat first
    wire,          \* messages the broker still delivers
    ingestQueue,   \* telemetry_ingest_queue: how often each sample is queued
    flushing,      \* the batch of the flush task, after it read the gateways
    points,        \* per run and sample: how often it is stored
    readBack       \* per run: what the assertions found stored

journeyVars == <<stage, ingestion, hierarchy, retention, online, sent, wire, ingestQueue, flushing,
                 points, readBack>>

Sample == 1 .. Samples
Message == Run \X (0 .. Samples)       \* 0 is the heartbeat
MaxCopies == 2                         \* bound on copies of a message
Copies == 0 .. MaxCopies

Working == {"preflight", "setup", "ingestion", "persistence", "assertions", "success_cleanup"}
Ended == {"passed", "failed", "preserved", "dead"}

NoSamples == [s \in Sample |-> 0]
EmptyBatch == [r \in Run |-> NoSamples]

JourneyTypeOK ==
    /\ stage \in [Run -> {"new"} \cup Working \cup Ended]
    /\ ingestion \in [Run -> {"mqtt", "service"}]
    /\ hierarchy \in [Run -> BOOLEAN] /\ retention \in [Run -> BOOLEAN]
    /\ online \in [Run -> BOOLEAN]
    /\ sent \in [Run -> 0 .. Samples + 1]
    /\ wire \subseteq Message
    /\ ingestQueue \in [Run -> [Sample -> Copies]]
    /\ flushing \in [Run -> [Sample -> Copies]]
    /\ points \in [Run -> [Sample -> 0 .. 2 * MaxCopies]]
    /\ readBack \in [Run -> [Sample -> 0 .. 2 * MaxCopies]]

JourneyInit ==
    /\ stage = [r \in Run |-> "new"]
    /\ ingestion = [r \in Run |-> "mqtt"]
    /\ hierarchy = [r \in Run |-> FALSE] /\ retention = [r \in Run |-> FALSE]
    /\ online = [r \in Run |-> FALSE]
    /\ sent = [r \in Run |-> 0]
    /\ wire = {}
    /\ ingestQueue = EmptyBatch /\ flushing = EmptyBatch /\ points = EmptyBatch
    /\ readBack = [r \in Run |-> NoSamples]

MoveTo(r, next) == stage' = [stage EXCEPT ![r] = next]

-----------------------------------------------------------------------------
(* What a cleanup of the runs R removes: the marked rows, what hangs on    *)
(* them, and the queued messages of their gateways unless Redis fails.     *)
CleanUp(R) ==
    /\ hierarchy' = [r \in Run |-> hierarchy[r] /\ r \notin R]
    /\ retention' = [r \in Run |-> retention[r] /\ r \notin R]
    /\ points' = [r \in Run |-> IF r \in R THEN NoSamples ELSE points[r]]
    /\ online' = [r \in Run |-> online[r] /\ r \notin R]
    /\ \/ ingestQueue' = [r \in Run |-> IF r \in R THEN NoSamples ELSE ingestQueue[r]]
       \/ UNCHANGED ingestQueue

KeepsRows == UNCHANGED <<hierarchy, retention, points, online, ingestQueue>>

(* The transaction may fail while the flush task has rows of the run under *)
(* way: its foreign keys are checked against those inserted since.         *)
Contended(r) == flushing[r] # NoSamples /\ hierarchy[r]

-----------------------------------------------------------------------------
(* The runner.                                                             *)
StartRun(r) ==
    /\ stage[r] = "new"
    /\ \E mode \in {"mqtt", "service"} : ingestion' = [ingestion EXCEPT ![r] = mode]
    /\ MoveTo(r, "preflight")
    /\ KeepsRows
    /\ UNCHANGED <<sent, wire, flushing, readBack>>

(* Redis and the broker answer, or the run stops with nothing created; the *)
(* service mode asks neither.                                              *)
Preflight(r) ==
    /\ stage[r] = "preflight"
    /\ \/ MoveTo(r, "setup")
       \/ ingestion[r] = "mqtt" /\ MoveTo(r, "failed")
    /\ KeepsRows
    /\ UNCHANGED <<ingestion, sent, wire, flushing, readBack>>

SetUp(r) ==
    /\ stage[r] = "setup"
    /\ \/ /\ hierarchy' = [hierarchy EXCEPT ![r] = TRUE]
          /\ retention' = [retention EXCEPT ![r] = TRUE]
          /\ MoveTo(r, "ingestion")
       \/ /\ MoveTo(r, "failed")
          /\ UNCHANGED <<hierarchy, retention>>
    /\ UNCHANGED <<ingestion, online, sent, wire, ingestQueue, flushing, points, readBack>>

(* The heartbeat, then the samples in order.  The ingest service drops the *)
(* samples of a gateway that is not claimed without a word.                *)
Send(r) ==
    /\ stage[r] = "ingestion"
    /\ sent[r] > 0 \/ hierarchy[r]
    /\ sent' = [sent EXCEPT ![r] = @ + 1]
    /\ IF sent[r] = Samples THEN MoveTo(r, "persistence") ELSE UNCHANGED stage
    /\ IF ingestion[r] = "mqtt"
       THEN wire' = wire \cup {<<r, sent[r]>>} /\ UNCHANGED <<online, points>>
       ELSE /\ online' = [online EXCEPT ![r] = hierarchy[r]]
            /\ points' = IF sent[r] > 0 /\ hierarchy[r] THEN [points EXCEPT ![r][sent[r]] = @ + 1] ELSE points
            /\ UNCHANGED wire
    /\ UNCHANGED <<ingestion, hierarchy, retention, ingestQueue, flushing, readBack>>

(* One poll of _wait_for_persistence that finds every sample.              *)
SamplesPersisted(r) ==
    /\ stage[r] = "persistence"
    /\ hierarchy[r]
    /\ \A s \in Sample : points[r][s] > 0
    /\ online[r]
    /\ MoveTo(r, "assertions")
    /\ KeepsRows
    /\ UNCHANGED <<ingestion, sent, wire, flushing, readBack>>

(* Every timestamp is there, and there are as many points as were sent.    *)
EachStored(found) == \A s \in Sample : found[s] > 0   \* mutated form
AsSent(found) == \A s \in Sample : found[s] = 1

AssertVisible(r) ==
    /\ stage[r] = "assertions"
    /\ hierarchy[r] /\ online[r]
    /\ AsSent(points[r])
    /\ readBack' = [readBack EXCEPT ![r] = points[r]]
    /\ MoveTo(r, "success_cleanup")
    /\ KeepsRows
    /\ UNCHANGED <<ingestion, sent, wire, flushing>>

SucceedAndCleanUp(r) ==
    /\ stage[r] = "success_cleanup"
    /\ CleanUp({r})
    /\ MoveTo(r, "passed")
    /\ UNCHANGED <<ingestion, sent, wire, flushing, readBack>>

(* An exception of a stage: the local publish is refused, the wait times   *)
(* out, a row is gone or an assertion fails.  _mark_failure notes the stage *)
(* on the rows it finds, unless --cleanup-on-failure asks otherwise.       *)
FailStage(r) ==
    /\ stage[r] \in {"ingestion", "persistence", "assertions"}
    /\ \/ CleanUp({r}) /\ MoveTo(r, "failed")
       \/ MoveTo(r, "preserved") /\ KeepsRows
    /\ UNCHANGED <<ingestion, sent, wire, flushing, readBack>>

(* The success cleanup fails: it is tried once more, and an exception of   *)
(* that attempt ends the process.                                          *)
FailCleanup(r) ==
    /\ stage[r] = "success_cleanup"
    /\ Contended(r)
    /\ \/ MoveTo(r, "dead") /\ KeepsRows
       \/ MoveTo(r, "failed") /\ CleanUp({r})
    /\ UNCHANGED <<ingestion, sent, wire, flushing, readBack>>

RunnerDies(r) ==
    /\ stage[r] \in Working
    /\ MoveTo(r, "dead")
    /\ KeepsRows
    /\ UNCHANGED <<ingestion, sent, wire, flushing, readBack>>

-----------------------------------------------------------------------------
(* The pipeline: the consumer shows the gateway of a heartbeat online and  *)
(* queues a sample if its gateway is claimed.                              *)
ConsumeMessage(m) ==
    /\ m \in wire
    /\ \E again \in BOOLEAN : wire' = IF again THEN wire ELSE wire \ {m}
    /\ LET r == m[1] IN
       \/ ~hierarchy[r] /\ UNCHANGED <<online, ingestQueue>>
       \/ hierarchy[r] /\ m[2] = 0 /\ online' = [online EXCEPT ![r] = TRUE] /\ UNCHANGED ingestQueue
       \/ /\ hierarchy[r] /\ m[2] > 0
          /\ ingestQueue[r][m[2]] < MaxCopies
          /\ ingestQueue' = [ingestQueue EXCEPT ![r][m[2]] = @ + 1]
          /\ UNCHANGED online
    /\ UNCHANGED <<stage, ingestion, hierarchy, retention, sent, flushing, points, readBack>>

(* The flush task pops the queue and keeps the samples of claimed gateways.*)
TakeQueue ==
    /\ flushing = EmptyBatch /\ ingestQueue # EmptyBatch
    /\ ingestQueue' = EmptyBatch
    /\ flushing' = [r \in Run |-> IF hierarchy[r] THEN ingestQueue[r] ELSE NoSamples]
    /\ UNCHANGED <<stage, ingestion, hierarchy, retention, online, sent, wire, points, readBack>>

(* One insert for the whole batch: a device that was deleted since makes   *)
(* it fail for every run, and for every customer, of the batch.            *)
StoreQueue ==
    /\ flushing # EmptyBatch
    /\ flushing' = EmptyBatch
    /\ IF \A r \in Run : flushing[r] # NoSamples => hierarchy[r]
       THEN /\ points' = [r \in Run |-> [s \in Sample |->
                            IF points[r][s] + flushing[r][s] > 2 * MaxCopies THEN 2 * MaxCopies
                            ELSE points[r][s] + flushing[r][s]]]
            /\ online' = [r \in Run |-> online[r] \/ flushing[r] # NoSamples]
       ELSE UNCHANGED <<points, online>>
    /\ UNCHANGED <<stage, ingestion, hierarchy, retention, sent, wire, ingestQueue, readBack>>

-----------------------------------------------------------------------------
(* The cleanup command of an operator: one run by its exact identifier, or *)
(* every run of this owner whose markers have all expired.                 *)
CleanOneRun(r) ==
    /\ CleanUp({r})
    /\ UNCHANGED <<stage, ingestion, sent, wire, flushing, readBack>>

OwnedRuns(unexpired) == {r \in Run : hierarchy[r] /\ (unexpired \/ ~retention[r])}

CleanOwnedRuns ==
    \E unexpired \in BOOLEAN :
       /\ OwnedRuns(unexpired) # {}
       /\ CleanUp(OwnedRuns(unexpired))
       /\ UNCHANGED <<stage, ingestion, sent, wire, flushing, readBack>>

RetentionEnds(r) ==
    /\ retention[r]
    /\ retention' = [retention EXCEPT ![r] = FALSE]
    /\ UNCHANGED <<stage, ingestion, hierarchy, online, sent, wire, ingestQueue, flushing, points, readBack>>

JourneyNext ==
    \/ \E r \in Run :
          \/ StartRun(r) \/ Preflight(r) \/ SetUp(r) \/ Send(r) \/ SamplesPersisted(r)
          \/ AssertVisible(r) \/ SucceedAndCleanUp(r) \/ FailStage(r) \/ FailCleanup(r) \/ RunnerDies(r)
          \/ CleanOneRun(r) \/ RetentionEnds(r)
    \/ \E m \in Message : ConsumeMessage(m)
    \/ TakeQueue \/ StoreQueue \/ CleanOwnedRuns

JourneySpec == JourneyInit /\ [][JourneyNext]_journeyVars

-----------------------------------------------------------------------------
(* A run that passed read every sample back exactly once, and no late copy *)
(* of its messages leaves anything of it behind.                           *)
PassedRunsLeaveNothing ==
    \A r \in Run : stage[r] = "passed" =>
        /\ \A s \in Sample : readBack[r][s] = 1
        /\ ~hierarchy[r] /\ points[r] = NoSamples /\ ~online[r]
=============================================================================
