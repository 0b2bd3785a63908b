--------------------------- MODULE RemoteControl ----------------------------
(***************************************************************************)
(* The governed command lifecycle of apps/devices/remote_control.py: a     *)
(* command is requested, approved if its policy wants a second person,     *)
(* queued in a transactional outbox, claimed by a dispatch worker under a  *)
(* lease, published to the gateway over MQTT outside any transaction, and  *)
(* recorded.  Gateway answers, the RPC timeout scan, journal               *)
(* reconciliation, the team's control authority, gateway release and the   *)
(* disaster-recovery reset run beside it.                                  *)
(*                                                                         *)
(* One action is one database transaction, or one step of a worker between *)
(* two transactions.  A publish attempt is identified by its command and   *)
(* attempt number; the process that carries it out is worker[c][n], so any *)
(* number of workers may run and any of them may die at any point.         *)
(* Operators marked "mutated form" take no part in the specification: each *)
(* is the next definition with a plausible mistake.                        *)
(***************************************************************************)
EXTENDS ControlAuthority, FiniteSets

CONSTANTS
    Command,         \* RemoteCommand rows
    OpOf,            \* the operation of each command
    KeyOf,           \* the (device, key) a write_device command targets
    NeedsApproval,   \* the commands whose CommandPolicy sets approval_required
    Audited,         \* the commands requested through send_device_command
    MaxAttempts,     \* REMOTE_CONTROL_OUTBOX_MAX_ATTEMPTS
    Responses,       \* the RPC responses the gateway may send
    Readiness,       \* the capability and readiness the gateway may advertise
    TimeoutsChecked  \* whether anyone runs check_rpc_timeouts: no schedule does

Operation == {"read_device", "restart_all", "update_firmware", "write_device"}
StateChangingOp == {"restart_all", "update_firmware", "write_device"}

Stage == {"none", "gateway_received", "diagnostic_completed", "executing",
          "field_protocol_accepted", "field_execution_verified", "ota_initiated",
          "gateway_action_completed", "rejected", "failed"}

Response == [stage : Stage, status : {"received", "processing", "success", "error"},
             mismatch : BOOLEAN]

ASSUME RemoteControlAssumption ==
    /\ MaxAttempts \in Nat \ {0}
    /\ OpOf \in [Command -> Operation]
    /\ KeyOf \in [Command -> Key]
    /\ NeedsApproval \subseteq {c \in Command : OpOf[c] = "write_device"}
    /\ Audited \subseteq {c \in Command : OpOf[c] \in {"read_device", "write_device"}}
    /\ Responses \subseteq Response
    /\ Readiness \subseteq [capable : BOOLEAN, ready : BOOLEAN]
    /\ TimeoutsChecked \in BOOLEAN

VARIABLES
    status,      \* RemoteCommand.status, "none" before the row exists
    cmdEpoch,    \* RemoteCommand.control_epoch
    expired,     \* expires_at has passed
    approval,    \* RemoteCommandApproval.status
    outbox,      \* CommandOutbox.status
    leaseOver,   \* CommandOutbox.lease_expires_at has passed
    attempts,    \* CommandOutbox.attempt_count
    attempt,     \* CommandTransportAttempt.state of each attempt
    worker,      \* where the process carrying out each attempt stands
    sent,        \* the attempts whose message was handed to the broker
    rpc,         \* RpcCommand.status of each attempt's transport record
    scan,        \* the pending rows check_rpc_timeouts read and has not yet saved
    customer,    \* DeviceCommand.status, the customer-facing audit record
    lifecycle,   \* Gateway.lifecycle_status
    gateway      \* readiness the gateway last advertised

commandVars == <<status, cmdEpoch, expired, approval>>
outboxVars == <<outbox, leaseOver, attempts, attempt, worker, sent>>
resultVars == <<rpc, scan, customer>>
gatewayVars == <<lifecycle, gateway>>
vars == <<authorityVars, commandVars, outboxVars, resultVars, gatewayVars>>

Attempt == 1..MaxAttempts

-----------------------------------------------------------------------------
(* STATUS_ORDER and TERMINAL_STATUSES.                                     *)
EarlyStatus == {"awaiting_approval", "queued", "dispatching"}

(* The statuses disaster_recovery_control_reset cancels.                   *)
ResetForgetsDispatching == {"awaiting_approval", "queued"}   \* mutated form
ResetStatus == {"awaiting_approval", "queued", "dispatching"}

TransportStatus == {"outcome_unknown", "broker_acknowledged"}
ProgressStatus == {"gateway_received", "executing", "field_protocol_accepted",
                   "action_initiated"}
SuccessStatus == {"verified", "action_completed"}
ClosedStatus == {"policy_denied", "rejected", "failed", "expired", "cancelled"}

(* The three outcomes of a reconciled journal are never told apart.        *)
ReconciledStatus == {"reconciled"}

Terminal == SuccessStatus \cup ClosedStatus \cup ReconciledStatus
Status == {"none"} \cup EarlyStatus \cup TransportStatus \cup ProgressStatus \cup Terminal

STATUS_ORDER ==
    [none |-> 0, awaiting_approval |-> 1, queued |-> 3, dispatching |-> 4,
     outcome_unknown |-> 5, broker_acknowledged |-> 6, gateway_received |-> 7, executing |-> 8,
     field_protocol_accepted |-> 9, action_initiated |-> 9, verified |-> 11,
     action_completed |-> 11, policy_denied |-> 100, rejected |-> 100, failed |-> 100,
     expired |-> 100, cancelled |-> 100, reconciled |-> 110]

Order(s) == STATUS_ORDER[s]

(* transition_command: a terminal status and a higher one both hold.       *)
Transition(from, to) ==
    IF from \in Terminal \/ Order(to) < Order(from) THEN from ELSE to

(* dispatch_outbox raises a status by comparing orders only.               *)
RaiseAlways(from, to) == to   \* mutated form
Raise(from, to) == IF Order(from) < Order(to) THEN to ELSE from

StateChanging(c) == OpOf[c] \in StateChangingOp
IsWrite(c) == OpOf[c] = "write_device"

(* GATEWAY_STAGE_TO_COMMAND_STATUS                                         *)
StageStatus(stage) ==
    CASE stage = "gateway_received" -> "gateway_received"
      [] stage = "executing" -> "executing"
      [] stage = "field_protocol_accepted" -> "field_protocol_accepted"
      [] stage \in {"diagnostic_completed", "field_execution_verified"} -> "verified"
      [] stage = "ota_initiated" -> "action_initiated"
      [] stage = "gateway_action_completed" -> "action_completed"
      [] stage = "rejected" -> "rejected"
      [] stage = "failed" -> "failed"

(* _handle_rpc_response: stages that need a particular method.             *)
AllowedStage(op, stage) ==
    CASE stage = "none" -> FALSE
      [] stage \in {"field_protocol_accepted", "field_execution_verified"} -> op = "write_device"
      [] stage = "ota_initiated" -> op = "update_firmware"
      [] stage = "gateway_action_completed" -> op \notin {"write_device", "update_firmware"}
      [] OTHER -> TRUE

-----------------------------------------------------------------------------
ApprovalStatus == {"none", "pending", "approved", "invalidated"}
OutboxStatus == {"none", "pending", "claimed", "published", "retry", "dead_letter", "cancelled"}
AttemptState == {"none", "started", "failed_before_ack", "outcome_unknown", "broker_acknowledged"}
WorkerState == {"none", "publishing", "acked", "unknown", "failed", "gone"}
RpcStatus == {"none", "pending", "success", "error", "timeout"}
CustomerStatus == {"none", "pending", "accepted", "executed", "failed", "timed_out"}
Lifecycle == {"active", "release_pending", "released"}
Advert == [capable : BOOLEAN, ready : BOOLEAN, epoch : 0..MaxEpoch]

TypeOK ==
    /\ AuthorityTypeOK
    /\ status \in [Command -> Status]
    /\ cmdEpoch \in [Command -> 0..MaxEpoch]
    /\ expired \in [Command -> BOOLEAN]
    /\ approval \in [Command -> ApprovalStatus]
    /\ outbox \in [Command -> OutboxStatus]
    /\ leaseOver \in [Command -> BOOLEAN]
    /\ attempts \in [Command -> 0..MaxAttempts]
    /\ attempt \in [Command -> [Attempt -> AttemptState]]
    /\ worker \in [Command -> [Attempt -> WorkerState]]
    /\ sent \in [Command -> SUBSET Attempt]
    /\ rpc \in [Command -> [Attempt -> RpcStatus]]
    /\ scan \in SUBSET (Command \X Attempt)
    /\ customer \in [Command -> CustomerStatus]
    /\ lifecycle \in Lifecycle
    /\ gateway \in Advert

Init ==
    /\ AuthorityInit
    /\ status = [c \in Command |-> "none"]
    /\ cmdEpoch = [c \in Command |-> 0]
    /\ expired = [c \in Command |-> FALSE]
    /\ approval = [c \in Command |-> "none"]
    /\ outbox = [c \in Command |-> "none"]
    /\ leaseOver = [c \in Command |-> FALSE]
    /\ attempts = [c \in Command |-> 0]
    /\ attempt = [c \in Command |-> [n \in Attempt |-> "none"]]
    /\ worker = [c \in Command |-> [n \in Attempt |-> "none"]]
    /\ sent = [c \in Command |-> {}]
    /\ rpc = [c \in Command |-> [n \in Attempt |-> "none"]]
    /\ scan = {}
    /\ customer = [c \in Command |-> "none"]
    /\ lifecycle = "active"
    /\ gateway = [capable |-> FALSE, ready |-> FALSE, epoch |-> 0]

-----------------------------------------------------------------------------
(* Requests and approvals *)

(* The denials _request_remote_command_atomic derives from modelled state. *)
MustBeDenied(c) ==
    \/ lifecycle # "active"
    \/ StateChanging(c) /\ (mode # "controlled" \/ ~gateway.capable)
    \/ IsWrite(c) /\ (scopeMode[KeyOf[c]] # "enabled" \/ scopeEpoch[KeyOf[c]] # epoch)

(* The effective envelope's policy asks for a second person.               *)
ApprovalForgotten(c) == FALSE   \* mutated form
ApprovalRequired(c) == c \in NeedsApproval

(* Permission, clock and value checks may deny any request, hence the free *)
(* choice of denied.  A command that must be approved gets an approval row *)
(* and no outbox.                                                          *)
Request(c) ==
    /\ status[c] = "none"
    /\ \E denied \in BOOLEAN :
         /\ MustBeDenied(c) => denied
         /\ LET waits == ~denied /\ ApprovalRequired(c)
                queued == ~denied /\ ~ApprovalRequired(c)
            IN  /\ status' = [status EXCEPT ![c] =
                      IF denied THEN "policy_denied"
                      ELSE IF waits THEN "awaiting_approval" ELSE "queued"]
                /\ approval' = [approval EXCEPT ![c] = IF waits THEN "pending" ELSE @]
                /\ outbox' = [outbox EXCEPT ![c] = IF queued THEN "pending" ELSE @]
    /\ cmdEpoch' = [cmdEpoch EXCEPT ![c] = epoch]
    /\ UNCHANGED <<authorityVars, expired, leaseOver, attempts, attempt, worker, sent,
                   resultVars, gatewayVars>>

(* send_device_command creates the customer's record after the request has *)
(* committed, in a transaction of its own.                                 *)
CreateCustomerRecord(c) ==
    /\ status[c] \notin {"none", "policy_denied"}
    /\ c \in Audited
    /\ customer[c] = "none"
    /\ lifecycle # "released"
    /\ customer' = [customer EXCEPT ![c] = "pending"]
    /\ UNCHANGED <<authorityVars, commandVars, outboxVars, rpc, scan, gatewayVars>>

(* expires_at passes: at most 300 seconds after the request.               *)
Expire(c) ==
    /\ status[c] # "none"
    /\ ~expired[c]
    /\ expired' = [expired EXCEPT ![c] = TRUE]
    /\ UNCHANGED <<authorityVars, status, cmdEpoch, approval, outboxVars, resultVars, gatewayVars>>

(* approve_command by a second, recently authenticated person.  Neither    *)
(* the approval's status nor the command's is looked at; a second outbox   *)
(* row violates its one-to-one key and rolls everything back.  Once the    *)
(* device is deleted the binding checksum no longer matches.               *)
Approve(c) ==
    /\ approval[c] # "none"
    /\ ~expired[c]
    /\ lifecycle # "released"
    /\ outbox[c] = "none"
    /\ approval' = [approval EXCEPT ![c] = "approved"]
    /\ status' = [status EXCEPT ![c] = "queued"]
    /\ outbox' = [outbox EXCEPT ![c] = "pending"]
    /\ UNCHANGED <<authorityVars, cmdEpoch, expired, leaseOver, attempts, attempt, worker, sent,
                   resultVars, gatewayVars>>

-----------------------------------------------------------------------------
(* The dispatch worker: dispatch_outbox *)

(* Committed, retriable or expired-lease rows; next_attempt_at is left to  *)
(* the nondeterminism of when a step is taken.                             *)
ClaimableWithoutRecovery(c) == outbox[c] \in {"pending", "retry"}   \* mutated form
Claimable(c) == outbox[c] \in {"pending", "retry"} \/ (outbox[c] = "claimed" /\ leaseOver[c])

AttemptsLeftOffByOne(c) == attempts[c] <= MaxAttempts   \* mutated form
AttemptsLeft(c) == attempts[c] < MaxAttempts

(* The number of the attempt a claim creates: the count after the          *)
(* increment.                                                              *)
NextAttempt(c) == attempts[c] + 1

(* _dispatch_revalidation_error, on the state the model holds.             *)
ControlRevokedIgnoringEpoch(c) ==   \* mutated form
    StateChanging(c) /\ (mode # "controlled" \/ ~gateway.capable)
ControlRevoked(c) ==
    StateChanging(c) /\ (mode # "controlled" \/ cmdEpoch[c] # epoch \/ ~gateway.capable)

WriteTargetNeverStale(c) == FALSE   \* mutated form
WriteTargetStale(c) ==
    /\ IsWrite(c)
    /\ \/ lifecycle = "released"
       \/ ~gateway.ready
       \/ gateway.epoch # cmdEpoch[c]
       \/ scopeMode[KeyOf[c]] # "enabled"
       \/ scopeEpoch[KeyOf[c]] # cmdEpoch[c]
       \/ activation[KeyOf[c]][cmdEpoch[c]] # "active"

DispatchDenied(c) == expired[c] \/ ControlRevoked(c) \/ WriteTargetStale(c)

(* Transaction 1, attempts exhausted.                                      *)
DeadLetterClaim(c) ==
    /\ Claimable(c)
    /\ ~AttemptsLeft(c)
    /\ outbox' = [outbox EXCEPT ![c] = "dead_letter"]
    /\ leaseOver' = [leaseOver EXCEPT ![c] = FALSE]
    /\ status' = [status EXCEPT ![c] = IF Order(@) <= Order("dispatching") THEN "failed" ELSE @]
    /\ UNCHANGED <<authorityVars, cmdEpoch, expired, approval, attempts, attempt, worker, sent,
                   resultVars, gatewayVars>>

(* Transaction 1, revalidation failed: _cancel_claim_locked overwrites     *)
(* whatever status the command has.  A write may also be denied because    *)
(* its definition, envelope or policy row was revised.                     *)
CancelClaim(c) ==
    /\ Claimable(c)
    /\ AttemptsLeft(c)
    /\ DispatchDenied(c) \/ IsWrite(c)
    /\ outbox' = [outbox EXCEPT ![c] = "cancelled"]
    /\ leaseOver' = [leaseOver EXCEPT ![c] = FALSE]
    /\ status' = [status EXCEPT ![c] = IF expired[c] THEN "expired" ELSE "cancelled"]
    /\ UNCHANGED <<authorityVars, cmdEpoch, expired, approval, attempts, attempt, worker, sent,
                   resultVars, gatewayVars>>

(* Transaction 1, claimed under a fresh lease.                             *)
Claim(c) ==
    /\ Claimable(c)
    /\ AttemptsLeft(c)
    /\ ~DispatchDenied(c)
    /\ attempts' = [attempts EXCEPT ![c] = @ + 1]
    /\ attempt' = [attempt EXCEPT ![c] = [@ EXCEPT ![NextAttempt(c)] = "started"]]
    /\ worker' = [worker EXCEPT ![c] = [@ EXCEPT ![NextAttempt(c)] = "publishing"]]
    /\ outbox' = [outbox EXCEPT ![c] = "claimed"]
    /\ leaseOver' = [leaseOver EXCEPT ![c] = FALSE]
    /\ status' = [status EXCEPT ![c] = Raise(@, "dispatching")]
    /\ UNCHANGED <<authorityVars, cmdEpoch, expired, approval, sent, resultVars, gatewayVars>>

(* publish_rpc_command handed the message to the broker: acknowledged, or  *)
(* no acknowledgement observed within five seconds.                        *)
Publish(c, n) ==
    /\ worker[c][n] = "publishing"
    /\ \E outcome \in {"acked", "unknown"} :
          worker' = [worker EXCEPT ![c] = [@ EXCEPT ![n] = outcome]]
    /\ rpc' = [rpc EXCEPT ![c] = [@ EXCEPT ![n] = "pending"]]
    /\ sent' = [sent EXCEPT ![c] = @ \cup {n}]
    /\ UNCHANGED <<authorityVars, commandVars, outbox, leaseOver, attempts, attempt, scan,
                   customer, gatewayVars>>

(* Signing failed before the transport row was written, or the client      *)
(* refused the message locally.                                            *)
PublishFails(c, n) ==
    /\ worker[c][n] = "publishing"
    /\ worker' = [worker EXCEPT ![c] = [@ EXCEPT ![n] = "failed"]]
    /\ \E r \in {"none", "error"} : rpc' = [rpc EXCEPT ![c] = [@ EXCEPT ![n] = r]]
    /\ UNCHANGED <<authorityVars, commandVars, outbox, leaseOver, attempts, attempt, sent, scan,
                   customer, gatewayVars>>

(* The worker's last transaction sets the attempt row and the outbox.      *)
Record(c, n, before, state, box) ==
    /\ worker[c][n] = before
    /\ worker' = [worker EXCEPT ![c] = [@ EXCEPT ![n] = "gone"]]
    /\ attempt' = [attempt EXCEPT ![c] = [@ EXCEPT ![n] = state]]
    /\ outbox' = [outbox EXCEPT ![c] = box]
    /\ leaseOver' = [leaseOver EXCEPT ![c] = FALSE]
    /\ UNCHANGED <<authorityVars, cmdEpoch, expired, approval, attempts, sent,
                   resultVars, gatewayVars>>

RecordAcked(c, n) ==
    /\ Record(c, n, "acked", "broker_acknowledged", "published")
    /\ status' = [status EXCEPT ![c] = Raise(@, "broker_acknowledged")]

RecordUnknown(c, n) ==
    /\ Record(c, n, "unknown", "outcome_unknown", "published")
    /\ status' = [status EXCEPT ![c] =
          IF Order(@) <= Order("outcome_unknown") THEN "outcome_unknown" ELSE @]

(* _record_pre_ack_failure compares the outbox's count, not its own number.*)
RecordFailed(c, n) ==
    /\ Record(c, n, "failed", "failed_before_ack",
              IF attempts[c] >= MaxAttempts THEN "dead_letter" ELSE "retry")
    /\ status' = [status EXCEPT ![c] =
          IF attempts[c] >= MaxAttempts /\ Order(@) <= Order("dispatching") THEN "failed" ELSE @]

WorkerDies(c, n) ==
    /\ worker[c][n] \in {"publishing", "acked", "unknown", "failed"}
    /\ worker' = [worker EXCEPT ![c] = [@ EXCEPT ![n] = "gone"]]
    /\ UNCHANGED <<authorityVars, commandVars, outbox, leaseOver, attempts, attempt, sent,
                   resultVars, gatewayVars>>

LeaseExpires(c) ==
    /\ outbox[c] = "claimed"
    /\ ~leaseOver[c]
    /\ leaseOver' = [leaseOver EXCEPT ![c] = TRUE]
    /\ UNCHANGED <<authorityVars, commandVars, outbox, attempts, attempt, worker, sent,
                   resultVars, gatewayVars>>

-----------------------------------------------------------------------------
(* What comes back: mqtt_consumer.py, devices/services.py, devices/tasks.py *)

(* sync_device_command_from_rpc, the status it asks for: a stage-less      *)
(* error fails the command, any other stage-less answer changes nothing.   *)
SyncedStatus(s, allowed, r) ==
    IF ~allowed /\ r.status = "error" THEN Transition(s, "failed") ELSE s

(* sync_device_command_from_rpc, the customer's record: it is overwritten  *)
(* whatever it says, and created records only.                             *)
CustomerAfter(s, allowed, r) ==
    IF s = "none" THEN s
    ELSE IF r.status = "error" THEN "failed"
    ELSE IF ~allowed THEN s
    ELSE IF r.stage \in {"field_execution_verified", "gateway_action_completed", "diagnostic_completed"}
         THEN "executed"
    ELSE IF r.stage \in {"field_protocol_accepted", "ota_initiated"} THEN "accepted" ELSE s

(* _handle_rpc_response for the transport record of attempt n.  Answers    *)
(* come late, repeated and in any order; while a release is pending the    *)
(* consumer rejects them.  Only the read-back of a write can mismatch, and *)
(* the consumer may die before it suspends the key for it.                 *)
RpcResponse(c, n, r) ==
    /\ lifecycle = "active"
    /\ n \in sent[c]
    /\ rpc[c][n] # "none"
    /\ r.mismatch => IsWrite(c)
    /\ LET allowed == AllowedStage(OpOf[c], r.stage)
           staged == IF allowed THEN Transition(status[c], StageStatus(r.stage)) ELSE status[c]
       IN  IF r.status \in {"received", "processing"}
           THEN /\ status' = [status EXCEPT ![c] = staged]
                /\ UNCHANGED <<authorityVars, rpc, customer>>
           ELSE /\ status' = [status EXCEPT ![c] = SyncedStatus(staged, allowed, r)]
                /\ rpc' = [rpc EXCEPT ![c] = [@ EXCEPT ![n] = r.status]]
                /\ customer' = [customer EXCEPT ![c] = CustomerAfter(@, allowed, r)]
                /\ \/ r.mismatch /\ SuspendScope(KeyOf[c])
                   \/ UNCHANGED authorityVars
    /\ UNCHANGED <<cmdEpoch, expired, approval, outboxVars, scan, gatewayVars>>

PendingRpcs == {p \in Command \X Attempt : rpc[p[1]][p[2]] = "pending"}

(* check_rpc_timeouts reads the list of overdue pending rows...            *)
TimeoutScan ==
    /\ TimeoutsChecked
    /\ scan = {}
    /\ \E overdue \in SUBSET PendingRpcs : overdue # {} /\ scan' = overdue
    /\ UNCHANGED <<authorityVars, commandVars, outboxVars, rpc, customer, gatewayVars>>

(* ...and saves each from memory, without looking at it again.  Saving a   *)
(* row that a release deleted raises, and the rest of the list is dropped. *)
TimeoutSave(c, n) ==
    /\ <<c, n>> \in scan
    /\ IF rpc[c][n] = "none"
       THEN scan' = {} /\ UNCHANGED <<status, rpc, customer>>
       ELSE /\ scan' = scan \ {<<c, n>>}
            /\ rpc' = [rpc EXCEPT ![c] = [@ EXCEPT ![n] = "timeout"]]
            /\ status' = [status EXCEPT ![c] = Transition(@, "outcome_unknown")]
            /\ customer' = [customer EXCEPT ![c] = IF @ = "none" THEN @ ELSE "timed_out"]
    /\ UNCHANGED <<authorityVars, cmdEpoch, expired, approval, outboxVars, gatewayVars>>

(* The gateway replays its journal in an attribute report.                 *)
Reconcile(c) ==
    /\ lifecycle = "active"
    /\ sent[c] # {}
    /\ status' = [status EXCEPT ![c] = Transition(@, "reconciled")]
    /\ UNCHANGED <<authorityVars, cmdEpoch, expired, approval, outboxVars, resultVars, gatewayVars>>

(* _handle_attributes: the gateway advertises capability, readiness and    *)
(* the epoch of the policy it has loaded.                                  *)
GatewayReports ==
    /\ lifecycle = "active"
    /\ \E r \in Readiness, e \in 0..epoch :
          gateway' = [capable |-> r.capable, ready |-> r.ready, epoch |-> e]
    /\ UNCHANGED <<authorityVars, commandVars, outboxVars, resultVars, lifecycle>>

-----------------------------------------------------------------------------
(* Authority, release and recovery *)

RequestRelease ==
    /\ lifecycle = "active"
    /\ lifecycle' = "release_pending"
    /\ UNCHANGED <<authorityVars, commandVars, outboxVars, resultVars, gateway>>

(* _finalize_release cancels what is not terminal and deletes the          *)
(* gateway's transport records and devices, with the rows that depend on   *)
(* them.  Outbox rows stay as they are.                                    *)
FinalizeRelease ==
    /\ lifecycle = "release_pending"
    /\ lifecycle' = "released"
    /\ status' = [c \in Command |->
          IF status[c] = "none" THEN "none" ELSE Transition(status[c], "cancelled")]
    /\ rpc' = [c \in Command |-> [n \in Attempt |-> "none"]]
    /\ customer' = [c \in Command |-> "none"]
    /\ DeleteKeys
    /\ UNCHANGED <<cmdEpoch, expired, approval, outboxVars, scan, gateway>>

(* disaster_recovery_control_reset                                         *)
DisasterReset ==
    /\ ResetAuthority
    /\ status' = [c \in Command |-> IF status[c] \in ResetStatus THEN "cancelled" ELSE status[c]]
    /\ outbox' = [c \in Command |->
          IF outbox[c] \in {"pending", "claimed"} THEN "cancelled" ELSE outbox[c]]
    /\ approval' = [c \in Command |-> IF approval[c] = "pending" THEN "invalidated" ELSE approval[c]]
    /\ UNCHANGED <<cmdEpoch, expired, leaseOver, attempts, attempt, worker, sent,
                   resultVars, gatewayVars>>

(* The authority's other transactions leave commands alone.                *)
AuthorityStep ==
    /\ \/ \E k \in Key : lifecycle # "released" /\ ActivateKey(k)
       \/ \E K \in SUBSET Key : EmergencyDisable(K)
       \/ RollbackPolicy
       \/ \E k \in Key : SuspendActivations(k) \/ SuspendExpiredScope(k)
       \/ \E k \in Key, e \in Epoch : ExpireActivation(k, e)
    /\ UNCHANGED <<commandVars, outboxVars, resultVars, gatewayVars>>

-----------------------------------------------------------------------------
CommandStep(c) ==
    Request(c) \/ CreateCustomerRecord(c) \/ Expire(c) \/ Approve(c) \/ Reconcile(c)

Dispatch(c) == DeadLetterClaim(c) \/ CancelClaim(c) \/ Claim(c)

WorkerStep(c, n) ==
    \/ Publish(c, n) \/ PublishFails(c, n)
    \/ RecordAcked(c, n) \/ RecordUnknown(c, n) \/ RecordFailed(c, n)
    \/ WorkerDies(c, n)

Next ==
    \/ \E c \in Command : CommandStep(c) \/ Dispatch(c) \/ LeaseExpires(c)
    \/ \E c \in Command, n \in Attempt : WorkerStep(c, n) \/ TimeoutSave(c, n)
    \/ \E c \in Command, n \in Attempt, r \in Responses : RpcResponse(c, n, r)
    \/ TimeoutScan
    \/ GatewayReports
    \/ RequestRelease
    \/ FinalizeRelease
    \/ DisasterReset
    \/ AuthorityStep

Spec == Init /\ [][Next]_vars

(* Celery beat runs the outbox scanner every five seconds and time passes; *)
(* a worker that holds an attempt goes on or dies.  Nothing else is fair:  *)
(* no human and no gateway has to act, and no schedule entry runs          *)
(* check_rpc_timeouts (novena_hub/settings.py:607-666).                    *)
Fairness ==
    /\ \A c \in Command : WF_vars(Dispatch(c)) /\ WF_vars(LeaseExpires(c))
    /\ \A c \in Command, n \in Attempt : WF_vars(WorkerStep(c, n))

FairSpec == Spec /\ Fairness

-----------------------------------------------------------------------------
(* Safety *)

(* A queued or dispatching command always has outbox work left: none is    *)
(* stranded by a crash, an exhausted retry, a stale worker's record, a     *)
(* cancelled claim or a recovery reset (remote_control.py:627-925).        *)
NoStrandedCommand ==
    \A c \in Command : status[c] \in {"queued", "dispatching"} =>
        outbox[c] \in {"pending", "claimed", "retry"}

(* A command whose policy wants a second person reaches the broker only    *)
(* with an approved row, whatever resets and re-approvals came between     *)
(* (control_readiness.py:222-266).                                         *)
ApprovedBeforeSent ==
    \A c \in NeedsApproval : sent[c] # {} => approval[c] = "approved"

(* Crashed workers, stale leases and retries together never hand a command *)
(* to the broker under an attempt number that was not leased, nor under    *)
(* one number twice, nor more often than the configured bound.             *)
AttemptsAccounted ==
    \A c \in Command, n \in Attempt :
        /\ n \in sent[c] => n <= attempts[c]
        /\ (n <= attempts[c]) <=> (worker[c][n] # "none")
        /\ worker[c][n] = "publishing" => n \notin sent[c]

(* No transport work without the request and the approval it comes from:   *)
(* an outbox row belongs to a requested and, where the policy asks for it, *)
(* approved command; only leased attempts have a transport record; and no  *)
(* status that reports transport is reached by a command that was never    *)
(* queued (remote_control.py:492-502, control_readiness.py:222-266).       *)
WorkIsFounded ==
    \A c \in Command :
        /\ status[c] = "none" => cmdEpoch[c] = 0 /\ approval[c] = "none" /\ outbox[c] = "none"
        /\ status[c] # "none" => cmdEpoch[c] # 0
        /\ c \in NeedsApproval /\ outbox[c] # "none" => approval[c] = "approved"
        /\ attempts[c] # 0 => outbox[c] # "none"
        /\ status[c] \in TransportStatus \cup ProgressStatus \cup SuccessStatus => outbox[c] # "none"
        /\ \A n \in Attempt : rpc[c][n] # "none" => n <= attempts[c]

(* A new epoch is final for every state-changing command issued before it: *)
(* no lease, retry, re-approval or recovery starts another publish attempt *)
(* for it (remote_control.py:527-532, teams/models.py:55).                 *)
RevokedStaysRevoked ==
    [][\A c \in Command : StateChanging(c) /\ cmdEpoch[c] \in 1..(epoch - 1) =>
          attempts'[c] = attempts[c]]_vars

(* What the gateway reported is never overwritten by the bookkeeping of    *)
(* the transport: a worker that records late, or a timeout, cannot put a   *)
(* received command back to a sending state                                *)
(* (test_remote_control_p1.py:255).                                        *)
ReceiptNeverRegresses ==
    [][\A c \in Command : status[c] \in ProgressStatus \cup SuccessStatus =>
          status'[c] \notin EarlyStatus \cup TransportStatus]_vars

(* After a gateway is released nothing is ever again claimed for one of    *)
(* its field devices, although outbox rows survive the release.            *)
NoWriteAfterRelease ==
    [][\A c \in Command : IsWrite(c) /\ lifecycle = "released" => attempts'[c] = attempts[c]]_vars

(* A write attempt starts only for a key whose scope and activation both   *)
(* stand in the command's own, current epoch: suspended keys stay silent   *)
(* until they are activated again.                                         *)
WriteNeedsLiveKey ==
    [][\A c \in Command : IsWrite(c) /\ attempts'[c] # attempts[c] =>
          KeyLive(KeyOf[c]) /\ cmdEpoch[c] = epoch]_vars

(* Refinement: leases and workers implement single-use permits.            *)
Permits == INSTANCE DispatchPermits WITH
    Revocable <- {c \in Command : StateChanging(c)},
    MaxPermits <- MaxAttempts,
    era <- epoch,
    born <- cmdEpoch,
    granted <- attempts,
    open <- [c \in Command |-> {n \in Attempt : worker[c][n] = "publishing"}],
    spent <- sent

(* Every message the broker gets spends a permit that was granted in the   *)
(* command's own epoch; the workers that already held a permit when the    *)
(* epoch moved are the only ones that can still publish.                   *)
ImplementsPermits == Permits!PermitSpec

(* The scanner, the lease and the attempt bound together settle every      *)
(* queued command: it is published, dead-lettered, cancelled or expired.   *)
DispatchSettles ==
    \A c \in Command : (status[c] = "queued") ~> (status[c] \notin {"queued", "dispatching"})

-----------------------------------------------------------------------------
(* Statements of the repository that the code does not keep: README.md,    *)
(* "Known divergences".                                                    *)

(* models.py:1548 "no retry is allowed after ambiguity": once an attempt   *)
(* is recorded as outcome_unknown no further attempt starts.               *)
NoRetryAfterAmbiguity ==
    [][\A c \in Command : (\E n \in Attempt : attempt[c][n] = "outcome_unknown") =>
          attempts'[c] = attempts[c]]_vars

(* remote_control.py:209 "monotonic lifecycle": a command's status order   *)
(* never falls.                                                            *)
LifecycleMonotonic ==
    [][\A c \in Command : Order(status'[c]) >= Order(status[c])]_vars

(* docs/governed_remote_control_operations.md:43 "It cancels restored      *)
(* approvals/outbox work": a reset leaves no outbox row to dispatch.       *)
ResetCancelsOutboxWork ==
    [][DisasterReset => \A c \in Command : outbox'[c] \notin {"pending", "claimed", "retry"}]_vars

(* gateway_release.py:1 "fail-closed Gateway release": no publish attempt  *)
(* starts for a gateway that was released.                                 *)
ReleasedGatewayGetsNothing ==
    [][lifecycle = "released" => attempts' = attempts]_vars

(* tasks.py:132 "timed out if no response received": a transport record    *)
(* that has its response is never marked timed out.                        *)
TimeoutOnlyWithoutResponse ==
    [][\A c \in Command, n \in Attempt :
          rpc[c][n] \in {"success", "error"} => rpc'[c][n] # "timeout"]_vars
=============================================================================
