------------------------ MODULE GatewayConfigDelivery -----------------------
(***************************************************************************)
(* Delivery of signed settings to one gateway, from                        *)
(* apps/devices/gateway_config_delivery.py.  Every change of settings is a *)
(* new revision with an outbox row of its own; a dispatcher claims the row *)
(* under a lease, publishes outside any transaction and records the        *)
(* result; the gateway answers twice, first that it accepted a revision    *)
(* and later what became of it.                                            *)
(*                                                                         *)
(* A dispatcher stands at the revision it claimed until it records or      *)
(* dies, so slow dispatchers overlap.  The gateway is external: it is      *)
(* modelled by what acknowledge_gateway_config lets it say.  failed stands *)
(* for rolled_back too, which every line treats alike.  Operators marked   *)
(* "mutated form" take no part in the specification.                       *)
(***************************************************************************)
EXTENDS Naturals

CONSTANTS
    MaxRevision,  \* bound on the revisions queued: the code has none
    Dispatcher    \* the dispatchers that may be at work at once

ASSUME ConfigAssumption == MaxRevision \in Nat \ {0}

VARIABLES
    latest,     \* the highest revision queued
    status,     \* GatewayConfig.status of each revision
    outbox,     \* GatewayConfigOutbox.status
    leased,     \* lease_expires_at lies ahead
    expired,    \* expires_at has passed
    at,         \* the revision each dispatcher claimed, or Idle
    edge,       \* how far each revision got: delivered, accepted, an outcome
    receipts,   \* the acknowledgements sent; they repeat and reorder
    lifecycle,  \* Gateway.lifecycle_status
    release     \* GatewayReleaseRequest.status

recordVars == <<latest, status, outbox, leased, expired>>
gatewayVars == <<edge, receipts, lifecycle, release>>
vars == <<recordVars, at, gatewayVars>>

Revision == 1..MaxRevision
Idle == 0

Outcome == {"active", "failed"}
Answer == {"accepted"} \cup Outcome

(* TERMINAL_CONFIG_STATUSES: timed_out is not one of them.                 *)
Terminal == Outcome \cup {"superseded"}

(* The statuses queue_gateway_config supersedes.                           *)
Replaceable == {"queued", "waiting_for_gateway", "published", "accepted", "timed_out"}

(* A revision that some part of the system is still to act on.             *)
InProgress == Replaceable \ {"timed_out"}

Status == {"none"} \cup Replaceable \cup Terminal
Unclaimed == {"pending", "retry", "waiting_gateway", "awaiting_ack"}
OutboxStatus == {"none", "claimed", "completed", "dead_letter"} \cup Unclaimed

ConfigTypeOK ==
    /\ latest \in 0..MaxRevision
    /\ status \in [Revision -> Status]
    /\ outbox \in [Revision -> OutboxStatus]
    /\ leased \in [Revision -> BOOLEAN]
    /\ expired \in [Revision -> BOOLEAN]
    /\ at \in [Dispatcher -> {Idle} \cup Revision]
    /\ edge \in [Revision -> {"none", "delivered"} \cup Answer]
    /\ receipts \subseteq Revision \X Answer
    /\ lifecycle \in {"active", "release_pending", "released"}
    /\ release \in {"none", "requested", "completed"}

Init ==
    /\ latest = 0
    /\ status = [r \in Revision |-> "none"]
    /\ outbox = [r \in Revision |-> "none"]
    /\ leased = [r \in Revision |-> FALSE]
    /\ expired = [r \in Revision |-> FALSE]
    /\ at = [d \in Dispatcher |-> Idle]
    /\ edge = [r \in Revision |-> "none"]
    /\ receipts = {}
    /\ lifecycle = "active"
    /\ release = "none"

-----------------------------------------------------------------------------
(* queue_gateway_config, and retry_gateway_config which calls it: the      *)
(* revisions that are not settled are superseded with their outbox rows,   *)
(* and the next revision is queued.                                        *)
Replaced(r) == status[r] \in Replaceable

Queue ==
    /\ lifecycle = "active"
    /\ latest < MaxRevision
    /\ latest' = latest + 1
    /\ status' = [r \in Revision |->
          IF r = latest' THEN "queued" ELSE IF Replaced(r) THEN "superseded" ELSE status[r]]
    /\ outbox' = [r \in Revision |->
          IF r = latest' THEN "pending" ELSE IF Replaced(r) THEN "completed" ELSE outbox[r]]
    /\ UNCHANGED <<leased, expired, at, gatewayVars>>

-----------------------------------------------------------------------------
(* dispatch_gateway_config_outbox.  Its first transaction has five         *)
(* outcomes besides doing nothing, in the order of the code's returns.     *)
(* The task of a queued revision may run at any time, whatever became of   *)
(* the row; the scanner picks the rows that are Due.  Whether the gateway  *)
(* is live, and whether the five minutes to apply an accepted revision are *)
(* over, depends on the clock alone and may come out either way.           *)
Claimable(r) == outbox[r] \in Unclaimed \/ (outbox[r] = "claimed" /\ ~leased[r])

(* The revisions a claim, a wait or a release is decided for.              *)
Pending(r) ==
    /\ status[r] \in Replaceable \ {"accepted"}
    /\ ~expired[r]
    /\ Claimable(r)

SetRow(r, s, o, l) ==
    /\ status' = [status EXCEPT ![r] = s]
    /\ outbox' = [outbox EXCEPT ![r] = o]
    /\ leased' = [leased EXCEPT ![r] = l]

CompleteSettled(r) == status[r] \in Terminal /\ SetRow(r, status[r], "completed", FALSE)

(* _mark_config_timed_out, for an intent that expired or an acceptance     *)
(* whose outcome is overdue.                                               *)
TimeOut(r) ==
    /\ status[r] \in Replaceable
    /\ expired[r] \/ status[r] = "accepted"
    /\ SetRow(r, "timed_out", "dead_letter", FALSE)

DropForRelease(r) ==
    /\ Pending(r)
    /\ lifecycle # "active"
    /\ SetRow(r, "superseded", "completed", leased[r])

WaitForGateway(r) ==
    /\ Pending(r)
    /\ lifecycle = "active"
    /\ SetRow(r, "waiting_for_gateway", "waiting_gateway", FALSE)

Claim(d, r) ==
    /\ Pending(r)
    /\ lifecycle = "active"
    /\ at[d] = Idle
    /\ SetRow(r, status[r], "claimed", TRUE)
    /\ at' = [at EXCEPT ![d] = r]
    /\ UNCHANGED <<latest, expired, gatewayVars>>

Decide(r) ==
    /\ CompleteSettled(r) \/ TimeOut(r) \/ DropForRelease(r) \/ WaitForGateway(r)
    /\ UNCHANGED <<latest, expired, at, gatewayVars>>

Dispatch(r) == Decide(r) \/ \E d \in Dispatcher : Claim(d, r)

(* publish_config_envelope: the broker is given the message, which changes *)
(* nothing when it was given it before.                                    *)
Publish(d) ==
    LET r == at[d]
    IN  /\ r # Idle
        /\ edge[r] = "none"
        /\ edge' = [edge EXCEPT ![r] = "delivered"]
        /\ UNCHANGED <<recordVars, at, receipts, lifecycle, release>>

(* The second transaction, after the publish returned or raised, perhaps   *)
(* with the message at the broker: neither branch looks at the status it   *)
(* finds, and neither finds a row that a release deleted.                  *)
Record(d) ==
    LET r == at[d]
    IN  /\ r # Idle
        /\ at' = [at EXCEPT ![d] = Idle]
        /\ \/ status[r] = "none" /\ UNCHANGED <<status, outbox, leased>>
           \/ status[r] # "none" /\ edge[r] # "none" /\ SetRow(r, "published", "awaiting_ack", FALSE)
           \/ status[r] # "none" /\ SetRow(r, status[r], "retry", FALSE)
        /\ UNCHANGED <<latest, expired, gatewayVars>>

DispatcherDies(d) ==
    /\ at[d] # Idle
    /\ at' = [at EXCEPT ![d] = Idle]
    /\ UNCHANGED <<recordVars, gatewayVars>>

(* Time passes: a lease, and the day an intent is good for.                *)
LeaseExpires(r) ==
    /\ leased[r]
    /\ leased' = [leased EXCEPT ![r] = FALSE]
    /\ UNCHANGED <<latest, status, outbox, expired, at, gatewayVars>>

IntentExpires(r) ==
    /\ status[r] # "none"
    /\ ~expired[r]
    /\ expired' = [expired EXCEPT ![r] = TRUE]
    /\ UNCHANGED <<latest, status, outbox, leased, at, gatewayVars>>

-----------------------------------------------------------------------------
(* The gateway: it accepts or refuses a revision it was delivered, settles *)
(* what it accepted once, and answers a repeated delivery as before.       *)
EdgeAnswers(r, answer) ==
    /\ edge[r] = "delivered" \/ (edge[r] = "accepted" /\ answer # "accepted")
    /\ edge' = [edge EXCEPT ![r] = answer]
    /\ receipts' = receipts \cup {<<r, answer>>}
    /\ UNCHANGED <<recordVars, at, lifecycle, release>>

(* acknowledge_gateway_config: the record is the one whose request id,     *)
(* revision, checksum and idempotency key the answer names.                *)
RecordOf(m) == m[1]

NeverOld(r) == FALSE   \* mutated form
Old(r) == r # latest

(* An acceptance that arrives after the outcome or the time-out.           *)
LateAcceptance(r, answer) == answer = "accepted" /\ status[r] \in Outcome \cup {"timed_out"}

(* The first answer leaves the row to the deadline, the second completes   *)
(* it.                                                                     *)
OutboxTakesAnswer(answer) == answer   \* mutated form
CompletedByAnyAnswer(answer) == "completed"   \* mutated form
OutboxAfter(answer) == IF answer = "accepted" THEN "awaiting_ack" ELSE "completed"

(* The consumer then saves the lifecycle of the gateway that it loaded     *)
(* with the message, active, over whatever it has become.                  *)
Acknowledge(m) ==
    LET r == RecordOf(m)
        answer == m[2]
    IN  /\ status[r] # "none"
        /\ \/ Old(r) /\ SetRow(r, "superseded", outbox[r], leased[r])
           \/ /\ ~Old(r) /\ ~LateAcceptance(r, answer)
              /\ SetRow(r, answer, OutboxAfter(answer), leased[r] /\ answer = "accepted")
        /\ lifecycle' = IF status'[r] = "active" THEN "active" ELSE lifecycle
        /\ UNCHANGED <<latest, expired, at, edge, receipts, release>>

(* request_gateway_release, and _finalize_release which deletes the        *)
(* gateway's configuration history with its outbox rows.                   *)
RequestRelease ==
    /\ release = "none"
    /\ release' = "requested"
    /\ lifecycle' = "release_pending"
    /\ UNCHANGED <<recordVars, at, edge, receipts>>

FinalizeRelease ==
    /\ release = "requested"
    /\ release' = "completed"
    /\ lifecycle' = "released"
    /\ status' = [r \in Revision |-> "none"]
    /\ outbox' = [r \in Revision |-> "none"]
    /\ leased' = [r \in Revision |-> FALSE]
    /\ UNCHANGED <<latest, expired, at, edge, receipts>>

-----------------------------------------------------------------------------
DispatcherStep(d) == Publish(d) \/ Record(d) \/ DispatcherDies(d)

Next ==
    \/ Queue
    \/ \E r \in Revision : Dispatch(r) \/ LeaseExpires(r) \/ IntentExpires(r)
    \/ \E d \in Dispatcher : DispatcherStep(d)
    \/ \E r \in Revision, answer \in Answer : EdgeAnswers(r, answer)
    \/ \E m \in receipts : Acknowledge(m)
    \/ RequestRelease
    \/ FinalizeRelease

Spec == Init /\ [][Next]_vars

(* dispatch_due_gateway_config_outboxes, every thirty seconds: open rows   *)
(* without a running lease.                                                *)
DueWithoutClaimed(r) == outbox[r] \in Unclaimed /\ ~leased[r]   \* mutated form
Due(r) == outbox[r] \in Unclaimed \cup {"claimed"} /\ ~leased[r]

(* The scanner runs, time passes, and a dispatcher goes on or dies.        *)
Fairness ==
    /\ \A r \in Revision : WF_vars(Due(r) /\ Dispatch(r))
    /\ \A r \in Revision : WF_vars(LeaseExpires(r)) /\ WF_vars(IntentExpires(r))
    /\ \A d \in Dispatcher : WF_vars(Record(d) \/ DispatcherDies(d))

FairSpec == Spec /\ Fairness

-----------------------------------------------------------------------------
(* What the cloud shows as the outcome of a revision is what the gateway   *)
(* made of that very revision, whatever receipts came late, twice or out   *)
(* of order and whichever dispatcher recorded last                         *)
(* (gateway_config_delivery.py:301-346).                                   *)
ShownOutcomeIsReal ==
    \A r \in Revision : status[r] \in Outcome => edge[r] = status[r]

(* A revision the customer sees in progress has an outbox row the scanner  *)
(* will come back to: neither a crash, a late record, an answer nor a      *)
(* newer revision leaves one that nobody acts on.                          *)
NoStrandedConfig ==
    \A r \in Revision : status[r] \in InProgress => outbox[r] \in Unclaimed \cup {"claimed"}

(* Only the newest revision takes effect: no receipt makes an older one    *)
(* accepted or gives it an outcome                                         *)
(* (tests/test_managed_gateway_hardening.py:534, "only latest timed out    *)
(* revision can recover from late terminal ack").                          *)
OnlyNewestTakesEffect ==
    [][\A r \in Revision : status'[r] # status[r] /\ status'[r] \in {"accepted"} \cup Outcome =>
          r = latest]_vars

(* Whatever dispatchers, receipts and releases overlap, those who ask for  *)
(* settings see a register: SettingsRegister says what that promises.  A   *)
(* revision that timed out counts as open while its outbox row is still to *)
(* be worked on, which a slow dispatcher may bring about.                  *)
ShownAs(s, o) ==
    CASE s \in {"none", "accepted"} \cup Outcome -> s
      [] s = "superseded" \/ (s = "timed_out" /\ o \notin Unclaimed \cup {"claimed"}) -> "over"
      [] OTHER -> "open"

Register == INSTANCE SettingsRegister WITH
    newest <- latest,
    decided <- [r \in Revision |-> IF edge[r] \in Answer THEN edge[r] ELSE "nothing"],
    shown <- [r \in Revision |-> ShownAs(status[r], outbox[r])],
    sending <- {at[d] : d \in Dispatcher} \ {Idle}

ImplementsRegister == Register!RegisterSpec

(* Every revision is settled at last and stays so: it has an outcome, is   *)
(* superseded or timed out, and no slow dispatcher reopens it for ever.    *)
ConfigSettles ==
    \A r \in Revision : status[r] = "queued" ~> [](status[r] \notin InProgress)
=============================================================================
