-------------------------- MODULE TelemetryIngest --------------------------
(***************************************************************************)
(* The buffered telemetry path of one device, from                         *)
(* apps/telemetry/tasks.py and the heartbeat task of                       *)
(* apps/devices/tasks.py.  The consumer pushes every reading to a Redis    *)
(* queue; a periodic task empties the queue in one transaction, stores the *)
(* readings, then moves the freshness of the device.  The beat fires every *)
(* two seconds whether or not the flush before has ended, so two workers   *)
(* overlap, and a worker may die between any two of its statements.        *)
(*                                                                         *)
(* A reading is named by the tick it arrived at; time stops at MaxTime.    *)
(***************************************************************************)
EXTENDS Naturals, Sequences, FiniteSets, SequencesExt

CONSTANTS
    Flusher,        \* workers that may run the flush task at once
    MaxTime,        \* last tick of the bounded clock
    OfflineAfter    \* offline threshold of the device, in ticks

ASSUME TimeAssumption == MaxTime \in Nat \ {0} /\ OfflineAfter \in Nat \ {0}

VARIABLES
    now,        \* the clock
    reading,    \* what the gateway sent at each tick
    buffer,     \* telemetry_ingest_queue
    claimed,    \* the gateway row passes the flush task's filter
    at,         \* where each flush task is
    batch,      \* the readings it popped
    stored,     \* how many TelemetryData rows each reading has
    seen,       \* Device.last_telemetry_at, 0 for null
    status,     \* Device.status
    beat        \* the heartbeat task read the device as stale and has not saved yet

ingestVars == <<now, reading, buffer, claimed, at, batch, stored, seen, status, beat>>

Instant == 1 .. MaxTime

FlushPoint == {"idle", "storing", "showing", "checking", "creating", "resolving"}

IngestTypeOK ==
    /\ now \in Instant
    /\ reading \in [Instant -> {"none", "high", "normal"}]
    /\ buffer \in Seq(Instant)
    /\ claimed \in BOOLEAN
    /\ at \in [Flusher -> FlushPoint]
    /\ batch \in [Flusher -> Seq(Instant)]
    /\ stored \in [Instant -> 0 .. 2]
    /\ seen \in 0 .. MaxTime
    /\ status \in {"pending", "online", "offline"}
    /\ beat \in BOOLEAN

IngestInit ==
    /\ now = 1
    /\ reading = [t \in Instant |-> "none"]
    /\ buffer = << >>
    /\ claimed = TRUE
    /\ at = [w \in Flusher |-> "idle"]
    /\ batch = [w \in Flusher |-> << >>]
    /\ stored = [t \in Instant |-> 0]
    /\ seen = 0
    /\ status = "pending"
    /\ beat = FALSE

-----------------------------------------------------------------------------
Tick ==
    /\ now < MaxTime
    /\ now' = now + 1
    /\ UNCHANGED <<reading, buffer, claimed, at, batch, stored, seen, status, beat>>

(* _handle_telemetry: a reading of a claimed gateway joins the queue.      *)
Arrive(value) ==
    /\ claimed
    /\ reading[now] = "none"
    /\ reading' = [reading EXCEPT ![now] = value]
    /\ buffer' = Append(buffer, now)
    /\ UNCHANGED <<now, claimed, at, batch, stored, seen, status, beat>>

(* request_gateway_release: from here on the filter drops the gateway.     *)
ReleaseGateway ==
    /\ claimed
    /\ claimed' = FALSE
    /\ UNCHANGED <<now, reading, buffer, at, batch, stored, seen, status, beat>>

(* The rows are created first, then the device is shown online, then the   *)
(* alert rules see the readings.                                           *)
ShownFirst == <<"showing", "storing", "checking">>   \* mutated form
Pipeline == <<"storing", "showing", "checking">>

StepAfter(point) == Pipeline[1 + CHOOSE i \in 1 .. 2 : Pipeline[i] = point]

(* LRANGE and DEL in one MULTI.                                            *)
LeftQueued == buffer   \* mutated form
AfterPop == << >>

(* The task pops the queue and drops what no claimed gateway sent.         *)
TakeBatch(w) ==
    /\ at[w] = "idle"
    /\ buffer # << >>
    /\ buffer' = AfterPop
    /\ IF claimed
       THEN /\ batch' = [batch EXCEPT ![w] = buffer]
            /\ at' = [at EXCEPT ![w] = Head(Pipeline)]
       ELSE UNCHANGED <<batch, at>>
    /\ UNCHANGED <<now, reading, claimed, stored, seen, status, beat>>

StoreBatch(w) ==
    /\ at[w] = "storing"
    /\ at' = [at EXCEPT ![w] = StepAfter("storing")]
    /\ stored' = [t \in Instant |-> stored[t] + IF t \in Range(batch[w]) THEN 1 ELSE 0]
    /\ UNCHANGED <<now, reading, buffer, claimed, batch, seen, status, beat>>

ShowBatch(w) ==
    /\ at[w] = "showing"
    /\ at' = [at EXCEPT ![w] = StepAfter("showing")]
    /\ seen' = Last(batch[w])
    /\ status' = "online"
    /\ UNCHANGED <<now, reading, buffer, claimed, batch, stored, beat>>

(* The worker ends or dies: what it popped and did not store is lost.      *)
Leaves(w) ==
    /\ at' = [at EXCEPT ![w] = "idle"]
    /\ batch' = [batch EXCEPT ![w] = << >>]

WorkerDies(w) ==
    /\ at[w] # "idle"
    /\ Leaves(w)
    /\ UNCHANGED <<now, reading, buffer, claimed, stored, seen, status, beat>>

-----------------------------------------------------------------------------
(* check_device_heartbeats reads the online devices that are stale, then   *)
(* marks those identifiers offline whatever arrived since.                 *)
StaleOnce == now = seen + OfflineAfter + 1   \* mutated form
Stale == now > seen + OfflineAfter

ReadStale ==
    /\ ~beat
    /\ status = "online" /\ Stale
    /\ beat' = TRUE
    /\ UNCHANGED <<now, reading, buffer, claimed, at, batch, stored, seen, status>>

MarkOffline ==
    /\ beat
    /\ beat' = FALSE
    /\ status' = "offline"
    /\ UNCHANGED <<now, reading, buffer, claimed, at, batch, stored, seen>>

IngestStep ==
    \/ Tick
    \/ \E value \in {"high", "normal"} : Arrive(value)
    \/ ReleaseGateway
    \/ ReadStale
    \/ MarkOffline
    \/ \E w \in Flusher : TakeBatch(w) \/ StoreBatch(w) \/ ShowBatch(w) \/ WorkerDies(w)
=============================================================================
