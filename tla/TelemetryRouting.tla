--------------------------- MODULE TelemetryRouting ---------------------------
(***************************************************************************)
(* To which equipment a sample is attributed, from the consumer's          *)
(* _resolve_inbound_gateway and _handle_telemetry, mqtt_parser.py and the  *)
(* matching of flush_telemetry_buffer_task.  One serial number is claimed, *)
(* released and claimed again: every claim makes a new gateway row, its    *)
(* tenure.  The edge may send what it buffered under an earlier tenure, or *)
(* about equipment that was removed since, at any time: messages need no   *)
(* channel of their own.                                                   *)
(***************************************************************************)
EXTENDS Naturals, FiniteSets

CONSTANTS
    Equipment,     \* device rows, never reused
    DeviceName,    \* names of equipment
    MaxTenure,     \* bound on claims of the serial
    MaxQueued      \* bound on queued samples

ASSUME RoutingAssumption == MaxTenure \in Nat /\ MaxQueued \in Nat /\ DeviceName # {}

VARIABLES
    tenureState,     \* per tenure: the gateway row's state
    current,       \* the row GatewayInventory.gateway points to, 0 for none
    activations,   \* tenures whose gateway has an activation
    device,        \* the device rows
    ingest,        \* telemetry_ingest_queue
    flush,         \* the flush task: its point, its batch and the rows it read
    filed,         \* what a device's page shows: samples stored, or streamed to it
    shown          \* tenures whose gateway row is shown online

routingVars == <<tenureState, current, activations, device, ingest, flush, filed, shown>>

Tenure == 1 .. MaxTenure
NoTenure == 0

(* A sample names its claim if the edge knows it, and the device if its    *)
(* configuration did; "of" and "tenure" are what is true of it.            *)
Packet == [of : Equipment, tenure : Tenure, claim : 0 .. MaxTenure, id : BOOLEAN, name : DeviceName]
Queued == [packet : Packet, gateway : Tenure]
IdleFlush == [at |-> "idle", batch |-> {}, gateways |-> {}, devices |-> {}]
Filed == [of : Equipment, tenure : Tenure, under : Equipment, how : {"stored", "streamed"}]

RoutingTypeOK ==
    /\ tenureState \in [Tenure -> {"none", "claimed", "release_pending", "released"}]
    /\ current \in 0 .. MaxTenure
    /\ activations \subseteq Tenure
    /\ device \in [Equipment -> [gateway : 0 .. MaxTenure, name : DeviceName, state : {"unused", "there", "removed"}]]
    /\ ingest \subseteq Queued
    /\ flush.at \in {"idle", "storing", "showing"} /\ flush.batch \subseteq Queued
    /\ flush.gateways \subseteq Tenure /\ flush.devices \subseteq Equipment
    /\ filed \subseteq Filed
    /\ shown \subseteq Tenure

RoutingInit ==
    /\ tenureState = [t \in Tenure |-> "none"]
    /\ current = NoTenure
    /\ activations = {}
    /\ device = [d \in Equipment |-> [gateway |-> NoTenure, name |-> CHOOSE n \in DeviceName : TRUE, state |-> "unused"]]
    /\ ingest = {} /\ flush = IdleFlush /\ filed = {} /\ shown = {}

Claimed(t) == current = t /\ tenureState[t] = "claimed"
DevicesOf(t) == {d \in Equipment : device[d].gateway = t /\ device[d].state = "there"}

-----------------------------------------------------------------------------
(* claim_gateway_for_team queues an activation; rows an administrator made *)
(* have none.                                                              *)
ClaimSerial(t) ==
    /\ tenureState[t] = "none" /\ current = NoTenure
    /\ \A earlier \in 1 .. t - 1 : tenureState[earlier] = "released"
    /\ tenureState' = [tenureState EXCEPT ![t] = "claimed"]
    /\ current' = t
    /\ activations' \in {activations, activations \cup {t}}
    /\ UNCHANGED <<device, ingest, flush, filed, shown>>

(* A name may be used twice on one gateway.                                *)
AddDevice(d, name) ==
    /\ device[d].state = "unused"
    /\ \E t \in Tenure : Claimed(t) /\ device' = [device EXCEPT ![d] = [gateway |-> t, name |-> name, state |-> "there"]]
    /\ UNCHANGED <<tenureState, current, activations, ingest, flush, filed, shown>>

(* Samples go with their device.                                           *)
RemoveDevice(d) ==
    /\ device[d].state = "there" /\ Claimed(device[d].gateway)
    /\ device' = [device EXCEPT ![d].state = "removed"]
    /\ filed' = {s \in filed : s.under # d}
    /\ UNCHANGED <<tenureState, current, activations, ingest, flush, shown>>

AskRelease(t) ==
    /\ Claimed(t)
    /\ tenureState' = [tenureState EXCEPT ![t] = "release_pending"]
    /\ UNCHANGED <<current, activations, device, ingest, flush, filed, shown>>

FinalizeRelease(t) ==
    /\ tenureState[t] = "release_pending"
    /\ tenureState' = [tenureState EXCEPT ![t] = "released"]
    /\ current' = NoTenure
    /\ device' = [d \in Equipment |-> IF d \in DevicesOf(t) THEN [device[d] EXCEPT !.state = "removed"] ELSE device[d]]
    /\ filed' = {s \in filed : s.under \notin DevicesOf(t)}
    /\ shown' = shown \ {t}
    /\ UNCHANGED <<activations, ingest, flush>>

-----------------------------------------------------------------------------
(* What an edge that was set up under the tenure may send.                 *)
MaySend(p) ==
    /\ device[p.of].state # "unused"
    /\ device[p.of].gateway = p.tenure /\ device[p.of].name = p.name
    /\ p.claim \in {NoTenure, p.tenure}

(* The topic's serial leads to the current row; an activated gateway must  *)
(* name its own claim.                                                     *)
AnyClaim(p) == TRUE   \* mutated form
ClaimMatches(p) == current \in activations => p.claim = current

(* By the identifier among the gateway's devices, then by the exact name,  *)
(* then the only device of the gateway.  Of two devices with one name      *)
(* either may be found.                                                    *)
MatchAmong(own, p) ==
    LET named == {d \in own : device[d].name = p.name} IN
    IF p.id /\ p.of \in own THEN {p.of}
    ELSE IF named # {} THEN named
    ELSE IF Cardinality(own) = 1 THEN own ELSE {}

(* The sample is queued, and streamed to the pages that are open.          *)
Arrive(p) ==
    /\ MaySend(p)
    /\ current # NoTenure /\ Claimed(current)
    /\ ClaimMatches(p)
    /\ Cardinality(ingest) < MaxQueued
    /\ ingest' = ingest \cup {[packet |-> p, gateway |-> current]}
    /\ LET found == MatchAmong(DevicesOf(current), p) IN
       IF found = {} THEN UNCHANGED filed
       ELSE \E d \in found :
              filed' = filed \cup {[of |-> p.of, tenure |-> p.tenure, under |-> d, how |-> "streamed"]}
    /\ UNCHANGED <<tenureState, current, activations, device, flush, shown>>

(* The task pops the queue and reads the gateways and their devices.       *)
ReadRows ==
    /\ flush.at = "idle" /\ ingest # {}
    /\ LET gateways == {q.gateway : q \in {q \in ingest : Claimed(q.gateway)}} IN
       flush' = [at |-> "storing", batch |-> ingest, gateways |-> gateways,
                 devices |-> UNION {DevicesOf(t) : t \in gateways}]
    /\ ingest' = {}
    /\ UNCHANGED <<tenureState, current, activations, device, filed, shown>>

(* The rows the task read, whatever became of them.                        *)
Matches(q) == MatchAmong({d \in flush.devices : device[d].gateway = q.gateway}, q.packet)

Known == {q \in flush.batch : q.gateway \in flush.gateways /\ Matches(q) # {}}

(* One insert: a device deleted since the task read it fails all of it.    *)
StoreSamples ==
    /\ flush.at = "storing"
    /\ \E match \in [Known -> Equipment] :
         /\ \A q \in Known : match[q] \in Matches(q)
         /\ IF \A q \in Known : device[match[q]].state = "there"
            THEN /\ filed' = filed \cup {[of |-> q.packet.of, tenure |-> q.packet.tenure, under |-> match[q], how |-> "stored"] : q \in Known}
                 /\ flush' = [flush EXCEPT !.at = "showing"]
            ELSE flush' = IdleFlush /\ UNCHANGED filed
    /\ UNCHANGED <<tenureState, current, activations, device, ingest, shown>>

ShowGateways ==
    /\ flush.at = "showing"
    /\ shown' = shown \cup {q.gateway : q \in Known}
    /\ flush' = IdleFlush
    /\ UNCHANGED <<tenureState, current, activations, device, ingest, filed>>

FlusherDies ==
    /\ flush.at # "idle"
    /\ flush' = IdleFlush
    /\ UNCHANGED <<tenureState, current, activations, device, ingest, filed, shown>>

RoutingNext ==
    \/ \E t \in Tenure : ClaimSerial(t) \/ AskRelease(t) \/ FinalizeRelease(t)
    \/ \E d \in Equipment : RemoveDevice(d) \/ \E name \in DeviceName : AddDevice(d, name)
    \/ \E d \in Equipment : \E claim \in {NoTenure, device[d].gateway}, id \in BOOLEAN :
          /\ device[d].gateway # NoTenure
          /\ Arrive([of |-> d, tenure |-> device[d].gateway, claim |-> claim, id |-> id, name |-> device[d].name])
    \/ ReadRows \/ StoreSamples \/ ShowGateways \/ FlusherDies

RoutingSpec == RoutingInit /\ [][RoutingNext]_routingVars

-----------------------------------------------------------------------------
(* No customer is shown a sample of the tenure before: what an activated   *)
(* gateway's equipment holds was sent under the same claim.                *)
SamplesStayInTheirTenure ==
    \A s \in filed : device[s.under].gateway \in activations => s.tenure = device[s.under].gateway

(* A sample is filed under the equipment that sent it.  The code does not  *)
(* keep this: README.md, "Known divergences".                              *)
SamplesStayWithTheirDevice ==
    \A s \in filed : device[s.of].name # device[s.under].name => s.of = s.under

(* A released row stays offline.  The code does not keep this: README.md,  *)
(* "Known divergences".                                                    *)
ReleasedRowsStayQuiet == \A t \in shown : tenureState[t] # "released"
=============================================================================
