------------------------ MODULE RemoteControlProofs -------------------------
(* The safety of governed dispatch for any set of commands, keys and       *)
(* gateway answers, any bound on attempts and any bound on epochs, and its *)
(* refinement of DispatchPermits.                                          *)
EXTENDS RemoteControl, ControlAuthorityProofs

(* Every step of the system is a step of the authority or leaves it alone. *)
LEMMA StepOfAuthority == [Next]_vars => [AuthorityNext]_authorityVars
<1> SUFFICES ASSUME [Next]_vars PROVE [AuthorityNext]_authorityVars
  OBVIOUS
<1>1. ASSUME NEW c \in Command, CommandStep(c) \/ Dispatch(c) \/ LeaseExpires(c)
      PROVE  UNCHANGED authorityVars
  BY <1>1 DEF CommandStep, Request, CreateCustomerRecord, Expire, Approve, Reconcile, Dispatch,
       DeadLetterClaim, CancelClaim, Claim, LeaseExpires
<1>2. ASSUME NEW c \in Command, NEW n \in Attempt, WorkerStep(c, n) \/ TimeoutSave(c, n)
      PROVE  UNCHANGED authorityVars
  BY <1>2 DEF WorkerStep, Publish, PublishFails, RecordAcked, RecordUnknown, RecordFailed, Record,
       WorkerDies, TimeoutSave
<1>3. ASSUME NEW c \in Command, NEW n \in Attempt, NEW r \in Responses, RpcResponse(c, n, r)
      PROVE  [AuthorityNext]_authorityVars
  <2>1. KeyOf[c] \in Key
    <3>1. KeyOf \in [Command -> Key]
      BY RemoteControlAssumption
    <3>2. QED BY <3>1
  <2>2. SuspendScope(KeyOf[c]) \/ UNCHANGED authorityVars
    BY <1>3 DEF RpcResponse
  <2>3. QED BY <2>1, <2>2 DEF AuthorityNext
<1>4. CASE TimeoutScan \/ GatewayReports \/ RequestRelease \/ UNCHANGED vars
  BY <1>4 DEF TimeoutScan, GatewayReports, RequestRelease, vars
<1>5. CASE FinalizeRelease
  BY <1>5 DEF FinalizeRelease, AuthorityNext
<1>6. CASE DisasterReset
  BY <1>6 DEF DisasterReset, AuthorityNext
<1>7. CASE AuthorityStep
  BY <1>7 DEF AuthorityStep, AuthorityNext
<1>8. QED
  BY <1>1, <1>2, <1>3, <1>4, <1>5, <1>6, <1>7 DEF Next

(* Hence what holds of every authority holds of this one.                  *)
THEOREM RemoteControlAuthority ==
    Spec => [](AuthorityTypeOK /\ AuthorityInv) /\ NewEpochRevokesAllKeys /\ ActivationIsExact
<1>1. Init => AuthorityInit
  BY DEF Init
<1>2. Spec => AuthoritySpec
  BY <1>1, StepOfAuthority, PTL DEF Spec, AuthoritySpec
<1>3. QED
  BY <1>2, AuthorityTypeCorrect, AuthorityAgrees, NewEpochRevokes, ActivationExact, PTL

-----------------------------------------------------------------------------
(* The statuses and the operators that choose among them.                  *)
LEMMA StatusMembers ==
    {"none", "awaiting_approval", "queued", "dispatching", "outcome_unknown",
     "broker_acknowledged", "gateway_received", "executing", "field_protocol_accepted",
     "action_initiated", "verified", "action_completed", "policy_denied", "rejected", "failed",
     "expired", "cancelled", "reconciled"} = Status
  BY DEF Status, EarlyStatus, TransportStatus, ProgressStatus, SuccessStatus, ClosedStatus,
         ReconciledStatus, Terminal

(* Overwriting the record of one attempt.                                  *)
LEMMA AttemptOverwritten ==
    ASSUME NEW S, NEW f \in [Command -> [Attempt -> S]],
           NEW c \in Command, NEW n \in Attempt, NEW v \in S
    PROVE  [f EXCEPT ![c] = [@ EXCEPT ![n] = v]] \in [Command -> [Attempt -> S]]
  OBVIOUS

LEMMA ChosenStatus ==
    ASSUME NEW s \in Status, NEW t \in Status
    PROVE  Transition(s, t) \in Status /\ Raise(s, t) \in Status
  BY DEF Transition, Raise

LEMMA StagedStatus ==
    ASSUME NEW op \in Operation, NEW stage \in Stage, AllowedStage(op, stage)
    PROVE  StageStatus(stage) \in ProgressStatus \cup SuccessStatus \cup {"rejected", "failed"}
  BY DEF AllowedStage, StageStatus, Stage, ProgressStatus, SuccessStatus

(* The attempt a claim creates is a new one and within the bound.          *)
LEMMA NextAttemptFits ==
    ASSUME TypeOK, NEW c \in Command, AttemptsLeft(c)
    PROVE  NextAttempt(c) \in Attempt /\ NextAttempt(c) = attempts[c] + 1
  BY RemoteControlAssumption DEF TypeOK, AttemptsLeft, NextAttempt, Attempt

LEMMA InitTypeOK == Init => TypeOK
<1> SUFFICES ASSUME Init PROVE TypeOK
  OBVIOUS
<1>1. AuthorityTypeOK
  BY AuthorityInitTypeOK DEF Init
<1>2. "none" \in Status
  BY StatusMembers
<1>3. 0 \in 0..MaxEpoch /\ 0 \in 0..MaxAttempts
  BY RemoteControlAssumption, AuthorityAssumption
<1>4. QED
  BY <1>1, <1>2, <1>3 DEF Init, TypeOK, ApprovalStatus, OutboxStatus, AttemptState, WorkerState,
     RpcStatus, CustomerStatus, Lifecycle, Advert

(* What the gateway may answer leaves every record with its type.          *)
LEMMA ResponseTypes ==
    ASSUME TypeOK, NEW c \in Command, NEW n \in Attempt, NEW r \in Responses, RpcResponse(c, n, r)
    PROVE  /\ status' \in [Command -> Status]
           /\ rpc' \in [Command -> [Attempt -> RpcStatus]]
           /\ customer' \in [Command -> CustomerStatus]
<1> DEFINE allowed == AllowedStage(OpOf[c], r.stage)
           staged == IF allowed THEN Transition(status[c], StageStatus(r.stage)) ELSE status[c]
<1>1. r.stage \in Stage /\ r.status \in {"received", "processing", "success", "error"}
  BY RemoteControlAssumption DEF Response
<1>2. OpOf[c] \in Operation
  <2>1. OpOf \in [Command -> Operation]
    BY RemoteControlAssumption
  <2>2. QED BY <2>1
<1>3. status[c] \in Status
  BY DEF TypeOK
<1>4. allowed => StageStatus(r.stage) \in Status
  BY <1>1, <1>2, StagedStatus, StatusMembers DEF ProgressStatus, SuccessStatus
<1>5. staged \in Status
  BY <1>3, <1>4, ChosenStatus
<1> DEFINE synced == SyncedStatus(staged, allowed, r)
           told == CustomerAfter(customer[c], allowed, r)
<1>6. synced \in Status
  BY <1>5, ChosenStatus, StatusMembers DEF SyncedStatus
<1>7. told \in CustomerStatus
  BY DEF CustomerAfter, CustomerStatus, TypeOK
<1>8. \/ status' = [status EXCEPT ![c] = staged] /\ UNCHANGED <<rpc, customer>>
      \/ /\ r.status \notin {"received", "processing"}
         /\ status' = [status EXCEPT ![c] = synced]
         /\ rpc' = [rpc EXCEPT ![c] = [@ EXCEPT ![n] = r.status]]
         /\ customer' = [customer EXCEPT ![c] = told]
  BY DEF RpcResponse
<1> HIDE DEF staged, synced, told
<1>9. status \in [Command -> Status] /\ customer \in [Command -> CustomerStatus]
      /\ rpc \in [Command -> [Attempt -> RpcStatus]]
  BY DEF TypeOK
<1>10. status' \in [Command -> Status] /\ customer' \in [Command -> CustomerStatus]
  BY <1>5, <1>6, <1>7, <1>8, <1>9
<1>11. r.status \notin {"received", "processing"} => r.status \in RpcStatus
  BY <1>1 DEF RpcStatus
<1>12. rpc' \in [Command -> [Attempt -> RpcStatus]]
  <2>1. CASE UNCHANGED rpc
    BY <2>1, <1>9
  <2>2. ASSUME r.status \in RpcStatus, rpc' = [rpc EXCEPT ![c] = [@ EXCEPT ![n] = r.status]]
        PROVE  rpc' \in [Command -> [Attempt -> RpcStatus]]
    <3>1. [rpc EXCEPT ![c] = [@ EXCEPT ![n] = r.status]] \in [Command -> [Attempt -> RpcStatus]]
      BY <2>2, <1>9, AttemptOverwritten
    <3>2. QED BY <3>1, <2>2
  <2>3. QED BY <2>1, <2>2, <1>8, <1>11
<1>13. QED
  BY <1>10, <1>12

(* The release and the reset rewrite every command at once.                *)
LEMMA ReleaseTypes ==
    ASSUME TypeOK, FinalizeRelease
    PROVE  /\ status' \in [Command -> Status]
           /\ rpc' \in [Command -> [Attempt -> RpcStatus]]
           /\ customer' \in [Command -> CustomerStatus]
           /\ lifecycle' \in Lifecycle
<1>1. \A c \in Command : Transition(status[c], "cancelled") \in Status
  BY ChosenStatus, StatusMembers DEF TypeOK
<1>2. "none" \in Status
  BY StatusMembers
<1>3. QED
  BY <1>1, <1>2 DEF FinalizeRelease, RpcStatus, CustomerStatus, Lifecycle

LEMMA ResetTypes ==
    ASSUME TypeOK, DisasterReset
    PROVE  /\ status' \in [Command -> Status]
           /\ outbox' \in [Command -> OutboxStatus]
           /\ approval' \in [Command -> ApprovalStatus]
<1>1. "cancelled" \in Status
  BY StatusMembers
<1>2. QED
  BY <1>1 DEF TypeOK, DisasterReset, OutboxStatus, ApprovalStatus

(* One case per action; the authority's own variables come from            *)
(* ControlAuthorityProofs.                                                 *)
LEMMA StepTypeOK == TypeOK /\ [Next]_vars => TypeOK'
<1> SUFFICES ASSUME TypeOK, [Next]_vars PROVE TypeOK'
  OBVIOUS
<1>authority. AuthorityTypeOK'
  BY StepOfAuthority, AuthorityStepTypeOK DEF TypeOK
<1>rest. SUFFICES ASSUME AuthorityTypeOK' PROVE TypeOK'
  BY <1>authority
<1>epoch. epoch \in 0..MaxEpoch /\ epoch \in Nat
  BY AuthorityAssumption DEF TypeOK, AuthorityTypeOK, Epoch
<1> USE DEF commandVars, outboxVars, resultVars, gatewayVars
<1>1. ASSUME NEW c \in Command, Request(c) PROVE TypeOK'
  BY <1>1, <1>rest, <1>epoch, StatusMembers
     DEF TypeOK, Request, ApprovalStatus, OutboxStatus
<1>2. ASSUME NEW c \in Command, CreateCustomerRecord(c) PROVE TypeOK'
  BY <1>2, <1>rest DEF TypeOK, CreateCustomerRecord, CustomerStatus
<1>3. ASSUME NEW c \in Command, Expire(c) PROVE TypeOK'
  BY <1>3, <1>rest DEF TypeOK, Expire
<1>4. ASSUME NEW c \in Command, Approve(c) PROVE TypeOK'
  BY <1>4, <1>rest, StatusMembers DEF TypeOK, Approve, ApprovalStatus, OutboxStatus
<1>5. ASSUME NEW c \in Command, Reconcile(c) PROVE TypeOK'
  <2>1. Transition(status[c], "reconciled") \in Status
    BY ChosenStatus, StatusMembers DEF TypeOK
  <2>2. QED BY <1>5, <2>1, <1>rest DEF TypeOK, Reconcile
<1>6. ASSUME NEW c \in Command, DeadLetterClaim(c) PROVE TypeOK'
  BY <1>6, <1>rest, StatusMembers DEF TypeOK, DeadLetterClaim, OutboxStatus
<1>7. ASSUME NEW c \in Command, CancelClaim(c) PROVE TypeOK'
  BY <1>7, <1>rest, StatusMembers DEF TypeOK, CancelClaim, OutboxStatus
<1>8. ASSUME NEW c \in Command, Claim(c) PROVE TypeOK'
  <2>1. Raise(status[c], "dispatching") \in Status
    BY ChosenStatus, StatusMembers DEF TypeOK
  <2>2. NextAttempt(c) \in Attempt /\ attempts[c] + 1 \in 0..MaxAttempts
    BY <1>8, NextAttemptFits DEF Claim, Attempt
  <2>3. [attempt EXCEPT ![c] = [@ EXCEPT ![NextAttempt(c)] = "started"]]
          \in [Command -> [Attempt -> AttemptState]]
    BY <2>2, AttemptOverwritten DEF TypeOK, AttemptState
  <2>4. [worker EXCEPT ![c] = [@ EXCEPT ![NextAttempt(c)] = "publishing"]]
          \in [Command -> [Attempt -> WorkerState]]
    BY <2>2, AttemptOverwritten DEF TypeOK, WorkerState
  <2>5. QED
    BY <1>8, <2>1, <2>2, <2>3, <2>4, <1>rest DEF TypeOK, Claim, OutboxStatus
<1>9. ASSUME NEW c \in Command, LeaseExpires(c) PROVE TypeOK'
  BY <1>9, <1>rest DEF TypeOK, LeaseExpires
<1>write. ASSUME NEW c \in Command, NEW n \in Attempt
          PROVE  /\ \A w \in WorkerState :
                      [worker EXCEPT ![c] = [@ EXCEPT ![n] = w]]
                        \in [Command -> [Attempt -> WorkerState]]
                 /\ \A r \in RpcStatus :
                      [rpc EXCEPT ![c] = [@ EXCEPT ![n] = r]] \in [Command -> [Attempt -> RpcStatus]]
                 /\ \A a \in AttemptState :
                      [attempt EXCEPT ![c] = [@ EXCEPT ![n] = a]]
                        \in [Command -> [Attempt -> AttemptState]]
  BY AttemptOverwritten DEF TypeOK
<1>10. ASSUME NEW c \in Command, NEW n \in Attempt, Publish(c, n) PROVE TypeOK'
  <2>1. rpc' \in [Command -> [Attempt -> RpcStatus]]
    BY <1>10, <1>write DEF Publish, RpcStatus
  <2>2. worker' \in [Command -> [Attempt -> WorkerState]]
    BY <1>10, <1>write DEF Publish, WorkerState
  <2>3. QED BY <1>10, <2>1, <2>2, <1>rest DEF TypeOK, Publish
<1>11. ASSUME NEW c \in Command, NEW n \in Attempt, PublishFails(c, n) PROVE TypeOK'
  <2>1. rpc' \in [Command -> [Attempt -> RpcStatus]]
    BY <1>11, <1>write DEF PublishFails, RpcStatus
  <2>2. worker' \in [Command -> [Attempt -> WorkerState]]
    BY <1>11, <1>write DEF PublishFails, WorkerState
  <2>3. QED BY <1>11, <2>1, <2>2, <1>rest DEF TypeOK, PublishFails
<1>record. ASSUME NEW c \in Command, NEW n \in Attempt, NEW before, NEW state \in AttemptState,
                  NEW box \in OutboxStatus, NEW s \in Status, Record(c, n, before, state, box),
                  status' = [status EXCEPT ![c] = s]
           PROVE  TypeOK'
  <2>1. worker' \in [Command -> [Attempt -> WorkerState]]
    BY <1>record, <1>write DEF Record, WorkerState
  <2>2. attempt' \in [Command -> [Attempt -> AttemptState]]
    BY <1>record, <1>write DEF Record
  <2>3. QED BY <1>record, <2>1, <2>2, <1>rest DEF TypeOK, Record
<1>12. ASSUME NEW c \in Command, NEW n \in Attempt, RecordAcked(c, n) PROVE TypeOK'
  <2>1. Raise(status[c], "broker_acknowledged") \in Status
    BY ChosenStatus, StatusMembers DEF TypeOK
  <2>2. QED BY <1>12, <2>1, <1>record DEF RecordAcked, AttemptState, OutboxStatus
<1>13. ASSUME NEW c \in Command, NEW n \in Attempt, RecordUnknown(c, n) PROVE TypeOK'
  <2>1. PICK s \in Status : status' = [status EXCEPT ![c] = s]
    BY <1>13, StatusMembers DEF RecordUnknown, TypeOK
  <2>2. QED BY <1>13, <2>1, <1>record DEF RecordUnknown, AttemptState, OutboxStatus
<1>14. ASSUME NEW c \in Command, NEW n \in Attempt, RecordFailed(c, n) PROVE TypeOK'
  <2>1. PICK s \in Status : status' = [status EXCEPT ![c] = s]
    BY <1>14, StatusMembers DEF RecordFailed, TypeOK
  <2>2. PICK box \in OutboxStatus : Record(c, n, "failed", "failed_before_ack", box)
    BY <1>14 DEF RecordFailed, OutboxStatus
  <2>3. QED BY <2>1, <2>2, <1>record DEF AttemptState
<1>15. ASSUME NEW c \in Command, NEW n \in Attempt, WorkerDies(c, n) PROVE TypeOK'
  <2>1. worker' \in [Command -> [Attempt -> WorkerState]]
    BY <1>15, <1>write DEF WorkerDies, WorkerState
  <2>2. QED BY <1>15, <2>1, <1>rest DEF TypeOK, WorkerDies
<1>16. ASSUME NEW c \in Command, NEW n \in Attempt, NEW r \in Responses, RpcResponse(c, n, r)
       PROVE  TypeOK'
  BY <1>16, <1>rest, ResponseTypes DEF TypeOK, RpcResponse
<1>17. CASE TimeoutScan
  BY <1>17, <1>rest DEF TypeOK, TimeoutScan, PendingRpcs
<1>18. ASSUME NEW c \in Command, NEW n \in Attempt, TimeoutSave(c, n) PROVE TypeOK'
  <2>1. scan' \in SUBSET (Command \X Attempt)
    BY <1>18 DEF TimeoutSave, TypeOK
  <2>2. rpc' \in [Command -> [Attempt -> RpcStatus]]
    <3>1. [rpc EXCEPT ![c] = [@ EXCEPT ![n] = "timeout"]] \in [Command -> [Attempt -> RpcStatus]]
      BY <1>write DEF RpcStatus
    <3>2. QED BY <1>18, <3>1 DEF TimeoutSave, TypeOK
  <2>3. status' \in [Command -> Status]
    <3>1. Transition(status[c], "outcome_unknown") \in Status
      BY ChosenStatus, StatusMembers DEF TypeOK
    <3>2. QED BY <1>18, <3>1 DEF TimeoutSave, TypeOK
  <2>4. customer' \in [Command -> CustomerStatus]
    BY <1>18 DEF TimeoutSave, TypeOK, CustomerStatus
  <2>5. QED BY <1>18, <2>1, <2>2, <2>3, <2>4, <1>rest DEF TypeOK, TimeoutSave
<1>19. CASE GatewayReports
  <2>1. gateway' \in Advert
    <3>1. PICK r \in Readiness, e \in 0..epoch :
             gateway' = [capable |-> r.capable, ready |-> r.ready, epoch |-> e]
      BY <1>19 DEF GatewayReports
    <3>2. r.capable \in BOOLEAN /\ r.ready \in BOOLEAN
      BY RemoteControlAssumption
    <3>3. e \in 0..MaxEpoch
      BY <1>epoch, AuthorityAssumption
    <3>4. QED BY <3>1, <3>2, <3>3 DEF Advert
  <2>2. QED BY <1>19, <2>1, <1>rest DEF TypeOK, GatewayReports
<1>20. CASE RequestRelease
  BY <1>20, <1>rest DEF TypeOK, RequestRelease, Lifecycle
<1>21. CASE FinalizeRelease
  BY <1>21, <1>rest, ReleaseTypes DEF TypeOK, FinalizeRelease
<1>22. CASE DisasterReset
  BY <1>22, <1>rest, ResetTypes DEF TypeOK, DisasterReset
<1>23. CASE AuthorityStep
  BY <1>23, <1>rest DEF TypeOK, AuthorityStep
<1>24. CASE UNCHANGED vars
  BY <1>24, <1>rest DEF TypeOK, vars
<1>25. QED
  BY <1>1, <1>2, <1>3, <1>4, <1>5, <1>6, <1>7, <1>8, <1>9, <1>10, <1>11, <1>12, <1>13, <1>14,
     <1>15, <1>16, <1>17, <1>18, <1>19, <1>20, <1>21, <1>22, <1>23, <1>24
     DEF Next, CommandStep, Dispatch, WorkerStep

(* Every variable of the system keeps its type.                            *)
THEOREM TypeCorrect == Spec => []TypeOK
<1>1. QED BY InitTypeOK, StepTypeOK, PTL DEF Spec

-----------------------------------------------------------------------------
(* What governed dispatch guarantees: the bookkeeping invariants, the      *)
(* action properties that follow from the guards of a claim, and the       *)
(* refinement of DispatchPermits.                                          *)
(* A publish attempt is leased by a claim and by nothing else.             *)
LEMMA OnlyClaimsLease ==
    ASSUME [Next]_vars, attempts' # attempts
    PROVE  \E c \in Command : Claim(c)
  BY ZenonT(60) DEF Next, CommandStep, Request, CreateCustomerRecord, Expire, Approve, Reconcile, Dispatch,
         DeadLetterClaim, CancelClaim, LeaseExpires, WorkerStep, Publish, PublishFails, RecordAcked,
         RecordUnknown, RecordFailed, Record, WorkerDies, TimeoutSave, RpcResponse, TimeoutScan,
         GatewayReports, RequestRelease, FinalizeRelease, DisasterReset, AuthorityStep, vars,
         outboxVars

(* So a command whose count changes was claimable and not denied.          *)
LEMMA LeaseIsGuarded ==
    ASSUME TypeOK, [Next]_vars, NEW c \in Command, attempts'[c] # attempts[c]
    PROVE  Claim(c)
<1>1. PICK d \in Command : Claim(d)
  BY OnlyClaimsLease
<1>2. d = c
  BY <1>1 DEF Claim, TypeOK
<1>3. QED BY <1>1, <1>2

LEMMA EpochIsNat == TypeOK => epoch \in Nat /\ epoch \in Epoch
  BY DEF TypeOK, AuthorityTypeOK, Epoch

(* A new epoch is final: a state-changing command of an earlier epoch is   *)
(* never leased again.                                                     *)
THEOREM RevocationIsFinal == Spec => RevokedStaysRevoked
<1>1. TypeOK /\ [Next]_vars =>
        [\A c \in Command : StateChanging(c) /\ cmdEpoch[c] \in 1..(epoch - 1) =>
            attempts'[c] = attempts[c]]_vars
  <2>1. ASSUME TypeOK, [Next]_vars, NEW c \in Command, StateChanging(c),
               attempts'[c] # attempts[c]
        PROVE  cmdEpoch[c] = epoch
    BY <2>1, LeaseIsGuarded DEF Claim, DispatchDenied, ControlRevoked
  <2>2. TypeOK => epoch \notin 1..(epoch - 1)
    BY EpochIsNat
  <2>3. QED BY <2>1, <2>2
<1>2. QED BY <1>1, TypeCorrect, PTL DEF Spec, RevokedStaysRevoked

(* A released gateway's field devices are never claimed for again.         *)
THEOREM ReleaseSilencesWrites == Spec => NoWriteAfterRelease
<1>1. TypeOK /\ [Next]_vars =>
        [\A c \in Command : IsWrite(c) /\ lifecycle = "released" =>
            attempts'[c] = attempts[c]]_vars
  BY LeaseIsGuarded DEF Claim, DispatchDenied, WriteTargetStale
<1>2. QED BY <1>1, TypeCorrect, PTL DEF Spec, NoWriteAfterRelease

(* A write is leased only while its key is live in the command's epoch.    *)
THEOREM WritesUseLiveKeys == Spec => WriteNeedsLiveKey
<1>1. TypeOK /\ [Next]_vars =>
        [\A c \in Command : IsWrite(c) /\ attempts'[c] # attempts[c] =>
            KeyLive(KeyOf[c]) /\ cmdEpoch[c] = epoch]_vars
  BY LeaseIsGuarded
     DEF Claim, DispatchDenied, WriteTargetStale, ControlRevoked, KeyLive, IsWrite, StateChanging,
         StateChangingOp
<1>2. QED BY <1>1, TypeCorrect, PTL DEF Spec, WriteNeedsLiveKey

-----------------------------------------------------------------------------
(* The attempts that exist are the leased ones, each published at most     *)
(* once; one case per action that touches a worker.                        *)
LEMMA InitAccounted == Init => AttemptsAccounted
  BY DEF Init, AttemptsAccounted, Attempt

LEMMA StepAccounted == TypeOK /\ AttemptsAccounted /\ [Next]_vars => AttemptsAccounted'
<1> SUFFICES ASSUME TypeOK, AttemptsAccounted, [Next]_vars PROVE AttemptsAccounted'
  OBVIOUS
<1>same. ASSUME UNCHANGED <<attempts, worker, sent>> PROVE AttemptsAccounted'
  BY <1>same DEF AttemptsAccounted
<1>1. ASSUME NEW d \in Command, Claim(d) PROVE AttemptsAccounted'
  <2>1. NextAttempt(d) \in Attempt /\ NextAttempt(d) = attempts[d] + 1
    BY <1>1, NextAttemptFits DEF Claim
  <2>2. /\ attempts' = [attempts EXCEPT ![d] = @ + 1]
        /\ worker' = [worker EXCEPT ![d] = [@ EXCEPT ![NextAttempt(d)] = "publishing"]]
        /\ sent' = sent
    BY <1>1 DEF Claim
  <2>3. SUFFICES ASSUME NEW c \in Command, NEW n \in Attempt
                 PROVE  /\ n \in sent'[c] => n <= attempts'[c]
                        /\ (n <= attempts'[c]) <=> (worker'[c][n] # "none")
                        /\ worker'[c][n] = "publishing" => n \notin sent'[c]
    BY DEF AttemptsAccounted
  <2>4. n \in Nat /\ attempts[c] \in Nat
    BY RemoteControlAssumption DEF Attempt, TypeOK
  <2>5. CASE c # d
    BY <2>5, <2>2 DEF AttemptsAccounted, TypeOK
  <2>6. CASE c = d /\ n = NextAttempt(d)
    <3>1. worker'[c][n] = "publishing" /\ attempts'[c] = attempts[c] + 1
      BY <2>6, <2>2 DEF TypeOK
    <3>2. n = attempts[c] + 1
      BY <2>6, <2>1
    <3>3. n \notin sent[c]
      BY <3>2, <2>4 DEF AttemptsAccounted
    <3>4. QED BY <3>1, <3>2, <3>3, <2>2, <2>4
  <2>7. CASE c = d /\ n # NextAttempt(d)
    <3>1. worker'[c][n] = worker[c][n] /\ attempts'[c] = attempts[c] + 1
      BY <2>7, <2>1, <2>2 DEF TypeOK
    <3>2. (n <= attempts[c] + 1) <=> (n <= attempts[c])
      BY <2>7, <2>1, <2>4
    <3>3. QED BY <3>1, <3>2, <2>2 DEF AttemptsAccounted
  <2>8. QED BY <2>5, <2>6, <2>7
<1>2. ASSUME NEW d \in Command, NEW m \in Attempt, NEW w \in WorkerState, w # "none",
             worker[d][m] # "none", attempts' = attempts,
             worker' = [worker EXCEPT ![d] = [@ EXCEPT ![m] = w]],
             w # "publishing",
             sent' = sent \/ sent' = [sent EXCEPT ![d] = @ \cup {m}]
      PROVE  AttemptsAccounted'
  BY <1>2 DEF AttemptsAccounted, TypeOK
<1>3. ASSUME NEW d \in Command, NEW m \in Attempt, WorkerStep(d, m) PROVE AttemptsAccounted'
  <2>1. CASE Publish(d, m)
    BY <2>1, <1>2 DEF Publish, WorkerState
  <2>2. CASE PublishFails(d, m)
    BY <2>2, <1>2 DEF PublishFails, WorkerState
  <2>3. CASE RecordAcked(d, m) \/ RecordUnknown(d, m) \/ RecordFailed(d, m)
    BY <2>3, <1>2 DEF RecordAcked, RecordUnknown, RecordFailed, Record, WorkerState
  <2>4. CASE WorkerDies(d, m)
    BY <2>4, <1>2 DEF WorkerDies, WorkerState
  <2>5. QED BY <1>3, <2>1, <2>2, <2>3, <2>4 DEF WorkerStep
<1>4. ASSUME ~ \E d \in Command : Claim(d),
             ~ \E d \in Command, m \in Attempt : WorkerStep(d, m)
      PROVE  UNCHANGED <<attempts, worker, sent>>
  BY <1>4
     DEF Next, CommandStep, Request, CreateCustomerRecord, Expire, Approve, Reconcile, Dispatch,
         DeadLetterClaim, CancelClaim, LeaseExpires, TimeoutSave, RpcResponse, TimeoutScan,
         GatewayReports, RequestRelease, FinalizeRelease, DisasterReset, AuthorityStep, vars,
         outboxVars
<1>5. QED BY <1>same, <1>1, <1>3, <1>4

(* No number is sent under twice and none that was not leased.             *)
THEOREM AttemptsAreAccounted == Spec => []AttemptsAccounted
<1>1. QED BY InitAccounted, StepAccounted, TypeCorrect, PTL DEF Spec

-----------------------------------------------------------------------------
(* The part of STATUS_ORDER the dispatch worker relies on.                 *)
LEMMA OrderOf ==
    /\ \A s \in Status : Order(s) \in Nat
    /\ Order("queued") = 3
    /\ Order("dispatching") = 4
    /\ Order("outcome_unknown") = 5
    /\ Order("broker_acknowledged") = 6
    /\ \A s \in ProgressStatus \cup SuccessStatus : Order(s) > 6 /\ s \in Status
  BY StatusMembers DEF Order, STATUS_ORDER, ProgressStatus, SuccessStatus

(* What the worker's own records make of a status: none of them leaves a   *)
(* command queued or dispatching, and none lowers a reported one.          *)
LEMMA RecordedStatus ==
    ASSUME NEW s \in Status
    PROVE  LET waiting == {"queued", "dispatching"}
               reported == ProgressStatus \cup SuccessStatus
               unknown == IF Order(s) <= Order("outcome_unknown") THEN "outcome_unknown" ELSE s
               failed == IF Order(s) <= Order("dispatching") THEN "failed" ELSE s
           IN  /\ Raise(s, "broker_acknowledged") \notin waiting
               /\ unknown \notin waiting
               /\ failed \notin waiting
               /\ s \in reported =>
                    /\ Raise(s, "broker_acknowledged") = s
                    /\ Raise(s, "dispatching") = s
                    /\ unknown = s
                    /\ failed = s
                    /\ Transition(s, "outcome_unknown") = s
  BY OrderOf DEF Raise, Transition

-----------------------------------------------------------------------------
(* The three facts about one command that only hold together: it is not    *)
(* stranded, its work is founded, and a report it has is not taken back.   *)
Reported == ProgressStatus \cup SuccessStatus

CommandInv(c) ==
    /\ status[c] \in {"queued", "dispatching"} => outbox[c] \in {"pending", "claimed", "retry"}
    /\ status[c] = "none" => cmdEpoch[c] = 0 /\ approval[c] = "none" /\ outbox[c] = "none"
    /\ status[c] # "none" => cmdEpoch[c] # 0
    /\ c \in NeedsApproval /\ outbox[c] # "none" => approval[c] = "approved"
    /\ attempts[c] # 0 => outbox[c] # "none"
    /\ status[c] \in TransportStatus \cup Reported => outbox[c] # "none"
    /\ \A n \in Attempt : rpc[c][n] # "none" => n <= attempts[c]

ReportKept(c) == status[c] \in Reported => status'[c] \notin EarlyStatus \cup TransportStatus

LEMMA CommandInvIsInv == (\A c \in Command : CommandInv(c)) <=> NoStrandedCommand /\ WorkIsFounded
  BY DEF CommandInv, NoStrandedCommand, WorkIsFounded, Reported

LEMMA InitCommandInv == Init => \A c \in Command : CommandInv(c)
  BY DEF Init, CommandInv, TransportStatus, Reported, ProgressStatus, SuccessStatus

(* An attempt that exists was leased, so its command has an outbox row.    *)
LEMMA LeasedHasOutbox ==
    ASSUME TypeOK, AttemptsAccounted, NEW c \in Command, CommandInv(c), NEW n \in Attempt,
           n \in sent[c] \/ worker[c][n] # "none" \/ rpc[c][n] # "none"
    PROVE  n <= attempts[c] /\ outbox[c] # "none" /\ status[c] # "none"
  BY RemoteControlAssumption DEF TypeOK, AttemptsAccounted, CommandInv, Attempt

(* A command whose row, outbox, approval and transport records stand.      *)
LEMMA Untouched ==
    ASSUME NEW c \in Command, CommandInv(c),
           status'[c] = status[c], cmdEpoch'[c] = cmdEpoch[c], approval'[c] = approval[c],
           outbox'[c] = outbox[c], attempts'[c] = attempts[c], rpc'[c] = rpc[c]
    PROVE  CommandInv(c)' /\ ReportKept(c)
  BY DEF CommandInv, ReportKept, Reported, EarlyStatus, TransportStatus, ProgressStatus,
         SuccessStatus

(* Requests, approvals and the first transaction of the worker.            *)
LEMMA RequestKeeps ==
    ASSUME TypeOK, NEW c \in Command, CommandInv(c), Request(c)
    PROVE  CommandInv(c)' /\ ReportKept(c)
<1>1. epoch # 0
  BY DEF TypeOK, AuthorityTypeOK, Epoch
<1>2. c \in NeedsApproval => ApprovalRequired(c)
  BY DEF ApprovalRequired
<1>3. attempts[c] = 0 /\ \A n \in Attempt : rpc[c][n] = "none"
  BY RemoteControlAssumption DEF Request, CommandInv, TypeOK, Attempt
<1>4. QED
  BY <1>1, <1>2, <1>3
     DEF Request, CommandInv, ReportKept, TypeOK, Reported, TransportStatus, ProgressStatus,
         SuccessStatus, resultVars

LEMMA ApproveKeeps ==
    ASSUME TypeOK, NEW c \in Command, CommandInv(c), Approve(c)
    PROVE  CommandInv(c)' /\ ReportKept(c)
<1>1. status[c] # "none" /\ status[c] \notin Reported
  BY DEF Approve, CommandInv
<1>2. QED
  BY <1>1 DEF Approve, CommandInv, ReportKept, TypeOK, Reported, TransportStatus, ProgressStatus,
     SuccessStatus, resultVars

LEMMA DispatchKeeps ==
    ASSUME TypeOK, NEW c \in Command, CommandInv(c), Dispatch(c)
    PROVE  CommandInv(c)' /\ ReportKept(c)
<1> USE DEF CommandInv, ReportKept, TypeOK, Reported, EarlyStatus, TransportStatus,
            ProgressStatus, SuccessStatus, resultVars
<1>0. outbox[c] # "none" /\ status[c] # "none"
  BY DEF Dispatch, DeadLetterClaim, CancelClaim, Claim, Claimable
<1>1. CASE DeadLetterClaim(c)
  <2>1. status'[c] = IF Order(status[c]) <= Order("dispatching") THEN "failed" ELSE status[c]
    BY <1>1 DEF DeadLetterClaim
  <2>2. status'[c] \notin {"queued", "dispatching"} /\ status'[c] \in {status[c], "failed"}
    BY <2>1, RecordedStatus
  <2>3. QED BY <1>1, <1>0, <2>2 DEF DeadLetterClaim
<1>2. CASE CancelClaim(c)
  BY <1>2, <1>0 DEF CancelClaim
<1>3. CASE Claim(c)
  <2>1. status'[c] = Raise(status[c], "dispatching")
    BY <1>3 DEF Claim
  <2>2. status[c] \in Reported => status'[c] = status[c]
    BY <2>1, RecordedStatus
  <2>3. status'[c] \in {status[c], "dispatching"}
    BY <2>1 DEF Raise
  <2>4. attempts'[c] = attempts[c] + 1 /\ outbox'[c] = "claimed" /\ cmdEpoch' = cmdEpoch
        /\ approval' = approval /\ rpc' = rpc /\ attempts[c] \in Nat
    BY <1>3, RemoteControlAssumption DEF Claim
  <2>5. \A n \in Attempt : n \in Nat
    BY RemoteControlAssumption DEF Attempt
  <2>6. QED BY <1>0, <2>2, <2>3, <2>4, <2>5
<1>4. QED BY <1>1, <1>2, <1>3 DEF Dispatch

(* The worker's publish and its last transaction.                          *)
LEMMA WorkerKeeps ==
    ASSUME TypeOK, AttemptsAccounted, NEW c \in Command, CommandInv(c), NEW n \in Attempt,
           WorkerStep(c, n)
    PROVE  CommandInv(c)' /\ ReportKept(c)
<1> USE DEF CommandInv, ReportKept, TypeOK, Reported, EarlyStatus, TransportStatus,
            ProgressStatus, SuccessStatus, commandVars, resultVars
<1>0. n <= attempts[c] /\ outbox[c] # "none" /\ status[c] # "none"
  <2>1. worker[c][n] # "none"
    BY DEF WorkerStep, Publish, PublishFails, RecordAcked, RecordUnknown, RecordFailed, Record,
           WorkerDies
  <2>2. QED BY <2>1, LeasedHasOutbox
<1>1. CASE Publish(c, n) \/ PublishFails(c, n)
  <2>1. /\ UNCHANGED <<status, cmdEpoch, approval, outbox, attempts>>
        /\ \A m \in Attempt : m # n => rpc'[c][m] = rpc[c][m]
    BY <1>1 DEF Publish, PublishFails
  <2>2. QED BY <1>0, <2>1
<1>2. ASSUME NEW before, NEW state, NEW box \in {"published", "dead_letter", "retry"},
             Record(c, n, before, state, box),
             status'[c] # "none",
             status'[c] \in {"queued", "dispatching"} => box = "retry",
             status[c] \in Reported => status'[c] = status[c]
      PROVE  CommandInv(c)' /\ ReportKept(c)
  <2>1. outbox'[c] = box /\ UNCHANGED <<cmdEpoch, approval, attempts, rpc>>
    BY <1>2 DEF Record
  <2>2. QED BY <1>0, <1>2, <2>1
<1>3. CASE RecordAcked(c, n)
  <2>1. status'[c] = Raise(status[c], "broker_acknowledged")
    BY <1>3 DEF RecordAcked
  <2>2. status'[c] # "none" /\ status'[c] \notin {"queued", "dispatching"}
    BY <1>0, <2>1, RecordedStatus DEF Raise
  <2>3. status[c] \in Reported => status'[c] = status[c]
    BY <2>1, RecordedStatus
  <2>4. QED BY <1>2, <1>3, <2>2, <2>3 DEF RecordAcked
<1>4. CASE RecordUnknown(c, n)
  <2>1. status'[c] =
          IF Order(status[c]) <= Order("outcome_unknown") THEN "outcome_unknown" ELSE status[c]
    BY <1>4 DEF RecordUnknown
  <2>2. status'[c] # "none" /\ status'[c] \notin {"queued", "dispatching"}
    BY <1>0, <2>1, RecordedStatus
  <2>3. status[c] \in Reported => status'[c] = status[c]
    BY <2>1, RecordedStatus
  <2>4. QED BY <1>2, <1>4, <2>2, <2>3 DEF RecordUnknown
<1>5. CASE RecordFailed(c, n)
  <2>1. CASE attempts[c] >= MaxAttempts
    <3>1. /\ Record(c, n, "failed", "failed_before_ack", "dead_letter")
          /\ status'[c] = IF Order(status[c]) <= Order("dispatching") THEN "failed" ELSE status[c]
      BY <1>5, <2>1 DEF RecordFailed
    <3>2. status'[c] # "none" /\ status'[c] \notin {"queued", "dispatching"}
      BY <1>0, <3>1, RecordedStatus
    <3>3. status[c] \in Reported => status'[c] = status[c]
      BY <3>1, RecordedStatus
    <3>4. QED BY <1>2, <3>1, <3>2, <3>3
  <2>2. CASE ~(attempts[c] >= MaxAttempts)
    <3>1. Record(c, n, "failed", "failed_before_ack", "retry") /\ status'[c] = status[c]
      BY <1>5, <2>2 DEF RecordFailed
    <3>2. QED BY <1>0, <1>2, <3>1
  <2>3. QED BY <2>1, <2>2
<1>6. CASE WorkerDies(c, n)
  BY <1>6, Untouched DEF WorkerDies
<1>7. QED BY <1>1, <1>3, <1>4, <1>5, <1>6 DEF WorkerStep

(* What comes back: an answer, a timeout, a replayed journal.  Each can    *)
(* only choose between the old status and one that is neither waiting nor, *)
(* for a reported command, one of transport.                               *)
LEMMA ReturnKeeps ==
    ASSUME TypeOK, NEW c \in Command, CommandInv(c), outbox[c] # "none", status[c] # "none",
           UNCHANGED <<cmdEpoch, approval, outbox, attempts>>,
           \A n \in Attempt : rpc'[c][n] # "none" => n <= attempts[c],
           \/ status'[c] \in {status[c], "rejected", "failed", "reconciled"} \cup Reported
           \/ status'[c] = Transition(status[c], "outcome_unknown")
    PROVE  CommandInv(c)' /\ ReportKept(c)
<1>1. CASE status'[c] \in {status[c], "rejected", "failed", "reconciled"} \cup Reported
  BY <1>1 DEF CommandInv, ReportKept, TypeOK, Reported, EarlyStatus, TransportStatus,
       ProgressStatus, SuccessStatus
<1>2. CASE status'[c] = Transition(status[c], "outcome_unknown")
  <2>1. status[c] \in Reported => status'[c] = status[c]
    BY <1>2, RecordedStatus DEF TypeOK, Reported
  <2>2. status'[c] \in {status[c], "outcome_unknown"}
    BY <1>2 DEF Transition
  <2>3. QED
    BY <2>1, <2>2 DEF CommandInv, ReportKept, TypeOK, Reported, EarlyStatus, TransportStatus,
       ProgressStatus, SuccessStatus
<1>3. QED BY <1>1, <1>2

LEMMA ResponseKeeps ==
    ASSUME TypeOK, AttemptsAccounted, NEW c \in Command, CommandInv(c), NEW n \in Attempt,
           NEW r \in Responses, RpcResponse(c, n, r)
    PROVE  CommandInv(c)' /\ ReportKept(c)
<1> DEFINE allowed == AllowedStage(OpOf[c], r.stage)
           staged == IF allowed THEN Transition(status[c], StageStatus(r.stage)) ELSE status[c]
           synced == SyncedStatus(staged, allowed, r)
<1>1. r.stage \in Stage /\ OpOf[c] \in Operation
  <2>1. OpOf \in [Command -> Operation] /\ Responses \subseteq Response
    BY RemoteControlAssumption
  <2>2. QED BY <2>1 DEF Response
<1>2. staged \in {status[c], "rejected", "failed"} \cup Reported
  BY <1>1, StagedStatus DEF Transition, Reported
<1>3. synced \in {staged, "failed"}
  BY DEF SyncedStatus, Transition
<1>4. status'[c] \in {staged, synced}
  BY DEF RpcResponse, TypeOK
<1> HIDE DEF staged, synced
<1>5. status'[c] \in {status[c], "rejected", "failed"} \cup Reported
  BY <1>2, <1>3, <1>4
<1>6. n <= attempts[c] /\ outbox[c] # "none" /\ status[c] # "none"
  BY LeasedHasOutbox DEF RpcResponse
<1>7. \A m \in Attempt : rpc'[c][m] # "none" => m <= attempts[c]
  <2>1. \A m \in Attempt : m # n => rpc'[c][m] = rpc[c][m]
    BY DEF RpcResponse, TypeOK
  <2>2. QED BY <1>6, <2>1 DEF CommandInv
<1>8. QED BY <1>5, <1>6, <1>7, ReturnKeeps DEF RpcResponse, outboxVars

LEMMA TimeoutKeeps ==
    ASSUME TypeOK, AttemptsAccounted, NEW c \in Command, CommandInv(c), NEW n \in Attempt,
           TimeoutSave(c, n)
    PROVE  CommandInv(c)' /\ ReportKept(c)
<1>1. CASE rpc[c][n] = "none"
  BY <1>1, Untouched DEF TimeoutSave, outboxVars
<1>2. CASE rpc[c][n] # "none"
  <2>1. n <= attempts[c] /\ outbox[c] # "none" /\ status[c] # "none"
    BY <1>2, LeasedHasOutbox
  <2>2. \A m \in Attempt : rpc'[c][m] # "none" => m <= attempts[c]
    <3>1. \A m \in Attempt : m # n => rpc'[c][m] = rpc[c][m]
      BY <1>2 DEF TimeoutSave, TypeOK
    <3>2. QED BY <2>1, <3>1 DEF CommandInv
  <2>3. status'[c] = Transition(status[c], "outcome_unknown")
    BY <1>2 DEF TimeoutSave, TypeOK
  <2>4. QED BY <2>1, <2>2, <2>3, ReturnKeeps DEF TimeoutSave, outboxVars
<1>3. QED BY <1>1, <1>2

LEMMA ReconcileKeeps ==
    ASSUME TypeOK, AttemptsAccounted, NEW c \in Command, CommandInv(c), Reconcile(c)
    PROVE  CommandInv(c)' /\ ReportKept(c)
<1>1. PICK n \in Attempt : n \in sent[c]
  BY DEF Reconcile, TypeOK
<1>2. outbox[c] # "none" /\ status[c] # "none"
  BY <1>1, LeasedHasOutbox
<1>3. status'[c] \in {status[c], "reconciled"}
  BY DEF Reconcile, Transition, TypeOK
<1>4. QED
  BY <1>2, <1>3, ReturnKeeps DEF Reconcile, outboxVars, resultVars, CommandInv

(* The release and the reset, which rewrite every command.                 *)
LEMMA ReleaseKeeps ==
    ASSUME TypeOK, NEW c \in Command, CommandInv(c), FinalizeRelease
    PROVE  CommandInv(c)' /\ ReportKept(c)
<1>1. /\ status'[c] = IF status[c] = "none" THEN "none" ELSE Transition(status[c], "cancelled")
      /\ \A n \in Attempt : rpc'[c][n] = "none"
      /\ UNCHANGED <<cmdEpoch, approval, outbox, attempts>>
  BY DEF FinalizeRelease, outboxVars
<1>2. status'[c] = "none" <=> status[c] = "none"
  BY <1>1 DEF Transition
<1>3. status'[c] \in {status[c], "cancelled"}
  BY <1>1 DEF Transition
<1>4. QED
  BY <1>1, <1>2, <1>3
     DEF CommandInv, ReportKept, Reported, EarlyStatus, TransportStatus, ProgressStatus, SuccessStatus

LEMMA ResetKeeps ==
    ASSUME TypeOK, NEW c \in Command, CommandInv(c), DisasterReset
    PROVE  CommandInv(c)' /\ ReportKept(c)
<1>1. /\ status'[c] = IF status[c] \in ResetStatus THEN "cancelled" ELSE status[c]
      /\ outbox'[c] = IF outbox[c] \in {"pending", "claimed"} THEN "cancelled" ELSE outbox[c]
      /\ approval'[c] = IF approval[c] = "pending" THEN "invalidated" ELSE approval[c]
      /\ UNCHANGED <<cmdEpoch, attempts, rpc>>
  BY DEF DisasterReset, resultVars
<1>2. QED
  BY <1>1 DEF CommandInv, ReportKept, Reported, ResetStatus, EarlyStatus, TransportStatus,
     ProgressStatus, SuccessStatus

(* Every other step concerns another command, or none.                     *)
LEMMA StepCommandInv ==
    ASSUME TypeOK, AttemptsAccounted, [Next]_vars, NEW c \in Command, CommandInv(c)
    PROVE  CommandInv(c)' /\ ReportKept(c)
<1> USE DEF TypeOK, commandVars, outboxVars, resultVars
<1>1. ASSUME NEW d \in Command, d # c, CommandStep(d) \/ Dispatch(d) \/ LeaseExpires(d)
      PROVE  CommandInv(c)' /\ ReportKept(c)
  BY <1>1, Untouched
     DEF CommandStep, Request, CreateCustomerRecord, Expire, Approve, Reconcile, Dispatch,
         DeadLetterClaim, CancelClaim, Claim, LeaseExpires
<1>2. ASSUME NEW d \in Command, d # c, NEW n \in Attempt, WorkerStep(d, n) \/ TimeoutSave(d, n)
      PROVE  CommandInv(c)' /\ ReportKept(c)
  BY <1>2, Untouched
     DEF WorkerStep, Publish, PublishFails, RecordAcked, RecordUnknown, RecordFailed, Record,
         WorkerDies, TimeoutSave
<1>3. ASSUME NEW d \in Command, d # c, NEW n \in Attempt, NEW r \in Responses,
             RpcResponse(d, n, r)
      PROVE  CommandInv(c)' /\ ReportKept(c)
  <2>1. status'[c] = status[c] /\ rpc'[c] = rpc[c]
    BY <1>3 DEF RpcResponse
  <2>2. QED BY <1>3, <2>1, Untouched DEF RpcResponse
<1>4. CASE TimeoutScan \/ GatewayReports \/ RequestRelease \/ AuthorityStep \/ UNCHANGED vars
           \/ CreateCustomerRecord(c) \/ Expire(c) \/ LeaseExpires(c)
  BY <1>4, Untouched
     DEF TimeoutScan, GatewayReports, RequestRelease, AuthorityStep, vars, CreateCustomerRecord,
         Expire, LeaseExpires
<1>5. QED
  BY <1>1, <1>2, <1>3, <1>4, RequestKeeps, ApproveKeeps, DispatchKeeps, WorkerKeeps, ResponseKeeps,
     TimeoutKeeps, ReconcileKeeps, ReleaseKeeps, ResetKeeps
     DEF Next, CommandStep

LEMMA CommandsStayInv ==
    Spec => [](TypeOK /\ AttemptsAccounted /\ \A c \in Command : CommandInv(c))
<1>1. Init => TypeOK /\ AttemptsAccounted /\ \A c \in Command : CommandInv(c)
  BY InitTypeOK, InitAccounted, InitCommandInv
<1>2. TypeOK /\ AttemptsAccounted /\ (\A c \in Command : CommandInv(c)) /\ [Next]_vars
        => (TypeOK /\ AttemptsAccounted /\ \A c \in Command : CommandInv(c))'
  BY StepTypeOK, StepAccounted, StepCommandInv
<1>3. QED BY <1>1, <1>2, PTL DEF Spec

(* No queued or dispatching command is ever without outbox work.           *)
THEOREM NothingStranded == Spec => []NoStrandedCommand
<1>1. QED BY CommandsStayInv, CommandInvIsInv, PTL

(* Transport work always has the request and the approval it comes from.   *)
THEOREM WorkFounded == Spec => []WorkIsFounded
<1>1. QED BY CommandsStayInv, CommandInvIsInv, PTL

(* A command that needs a second person is published only when approved.   *)
THEOREM ApprovalPrecedesSending == Spec => []ApprovedBeforeSent
<1>1. TypeOK /\ AttemptsAccounted /\ (\A c \in Command : CommandInv(c)) => ApprovedBeforeSent
  <2> SUFFICES ASSUME TypeOK, AttemptsAccounted, \A c \in Command : CommandInv(c),
                      NEW c \in NeedsApproval, sent[c] # {}
               PROVE  approval[c] = "approved"
    BY DEF ApprovedBeforeSent
  <2>1. c \in Command
    BY RemoteControlAssumption
  <2>2. PICK n \in Attempt : n \in sent[c]
    BY <2>1 DEF TypeOK
  <2>3. outbox[c] # "none"
    BY <2>1, <2>2, LeasedHasOutbox
  <2>4. QED BY <2>1, <2>3 DEF CommandInv
<1>2. QED BY <1>1, CommandsStayInv, PTL

(* What the gateway reported is not overwritten by transport bookkeeping.  *)
THEOREM ReportsAreKept == Spec => ReceiptNeverRegresses
<1>1. TypeOK /\ AttemptsAccounted /\ (\A c \in Command : CommandInv(c)) /\ [Next]_vars
        => [\A c \in Command : status[c] \in ProgressStatus \cup SuccessStatus =>
               status'[c] \notin EarlyStatus \cup TransportStatus]_vars
  BY StepCommandInv DEF ReportKept, Reported
<1>2. QED BY <1>1, CommandsStayInv, PTL DEF Spec, ReceiptNeverRegresses

-----------------------------------------------------------------------------
(* Governed dispatch implements DispatchPermits: every step of the system  *)
(* is a step of the permits, or leaves them alone.                         *)
Opened == [c \in Command |-> {n \in Attempt : worker[c][n] = "publishing"}]

LEMMA PermitStutter ==
    ASSUME UNCHANGED <<epoch, cmdEpoch, attempts, Opened, sent>>
    PROVE  UNCHANGED Permits!permitVars
  BY DEF Permits!permitVars, Opened

LEMMA PermitInitially == Init => Permits!PermitInit
  BY DEF Init, AuthorityInit, Permits!PermitInit, Attempt

(* The authority moves the epoch by one and touches no command.            *)
LEMMA EpochMovesByOne ==
    ASSUME [AuthorityNext]_authorityVars, epoch' # epoch
    PROVE  epoch' = epoch + 1
  BY DEF AuthorityNext, ActivateKey, SuspendScope, SuspendActivations, ExpireActivation,
         SuspendExpiredScope, EmergencyDisable, RollbackPolicy, ResetAuthority, DeleteKeys,
         NextEpoch, NewEpoch, authorityVars

LEMMA EpochStep ==
    ASSUME [Next]_vars, UNCHANGED <<cmdEpoch, attempts, worker, sent>>
    PROVE  [Permits!PermitNext]_(Permits!permitVars)
<1>1. UNCHANGED <<cmdEpoch, attempts, Opened, sent>>
  BY DEF Opened
<1>2. CASE epoch' = epoch
  BY <1>1, <1>2, PermitStutter
<1>3. CASE epoch' # epoch
  BY <1>1, <1>3, StepOfAuthority, EpochMovesByOne DEF Permits!PermitNext, Permits!NewEra, Opened
<1>4. QED BY <1>2, <1>3

(* A request issues a command in the current era.                          *)
LEMMA RequestIssues ==
    ASSUME TypeOK, NEW c \in Command, CommandInv(c), Request(c)
    PROVE  Permits!Issue(c)
<1>1. cmdEpoch[c] = 0
  BY DEF Request, CommandInv
<1>2. UNCHANGED <<epoch, attempts, worker, sent>> /\ cmdEpoch' = [cmdEpoch EXCEPT ![c] = epoch]
  BY DEF Request, authorityVars
<1>3. QED BY <1>1, <1>2 DEF Permits!Issue

(* A claim grants the next permit: the command was issued, it is of this   *)
(* era if it is revocable, and it has permits left.                        *)
LEMMA ClaimGrants ==
    ASSUME TypeOK, NEW c \in Command, CommandInv(c), Claim(c)
    PROVE  Permits!Grant(c)
<1>1. UNCHANGED <<epoch, cmdEpoch, sent>> /\ attempts' = [attempts EXCEPT ![c] = @ + 1]
  BY DEF Claim, authorityVars
<1>2. attempts[c] < MaxAttempts
  BY DEF Claim, AttemptsLeft
<1>3. cmdEpoch[c] # 0
  BY DEF Claim, Claimable, CommandInv
<1>4. StateChanging(c) => cmdEpoch[c] = epoch
  BY DEF Claim, DispatchDenied, ControlRevoked
<1>5. Opened' = [Opened EXCEPT ![c] = @ \cup {attempts[c] + 1}]
  <2>1. NextAttempt(c) \in Attempt /\ NextAttempt(c) = attempts[c] + 1
    BY NextAttemptFits DEF Claim
  <2>2. worker' = [worker EXCEPT ![c] = [@ EXCEPT ![attempts[c] + 1] = "publishing"]]
    BY <2>1 DEF Claim
  <2>3. attempts[c] + 1 \in Attempt
    BY <2>1
  <2>4. ASSUME NEW d \in Command
        PROVE  Opened'[d] = [Opened EXCEPT ![c] = @ \cup {attempts[c] + 1}][d]
    BY <2>2, <2>3 DEF Opened, TypeOK
  <2>5. QED BY <2>4 DEF Opened
<1>6. QED BY <1>1, <1>2, <1>3, <1>4, <1>5 DEF Permits!Grant, Opened

(* What a worker does with its own permit.                                 *)
LEMMA PermitClosed ==
    ASSUME TypeOK, NEW c \in Command, NEW n \in Attempt, NEW w, w # "publishing",
           worker' = [worker EXCEPT ![c] = [@ EXCEPT ![n] = w]]
    PROVE  /\ Opened' = [Opened EXCEPT ![c] = @ \ {n}]
           /\ worker[c][n] # "publishing" => Opened' = Opened
<1>1. ASSUME NEW d \in Command
      PROVE  /\ Opened'[d] = [Opened EXCEPT ![c] = @ \ {n}][d]
             /\ worker[c][n] # "publishing" => Opened'[d] = Opened[d]
  BY DEF Opened, TypeOK
<1>2. QED BY <1>1 DEF Opened

LEMMA WorkerSpendsOrDrops ==
    ASSUME TypeOK, NEW c \in Command, NEW n \in Attempt, WorkerStep(c, n)
    PROVE  Permits!Spend(c, n) \/ Permits!Drop(c, n) \/ UNCHANGED Permits!permitVars
<1>0. worker[c][n] = "publishing" <=> n \in Opened[c]
  BY DEF Opened
<1>1. CASE Publish(c, n)
  <2>1. Opened' = [Opened EXCEPT ![c] = @ \ {n}]
    BY <1>1, PermitClosed DEF Publish
  <2>2. UNCHANGED <<epoch, cmdEpoch, attempts>> /\ sent' = [sent EXCEPT ![c] = @ \cup {n}]
    BY <1>1 DEF Publish, authorityVars, commandVars
  <2>3. QED BY <1>0, <1>1, <2>1, <2>2 DEF Publish, Permits!Spend, Opened
<1>2. CASE PublishFails(c, n)
  <2>1. Opened' = [Opened EXCEPT ![c] = @ \ {n}]
    BY <1>2, PermitClosed DEF PublishFails
  <2>2. UNCHANGED <<epoch, cmdEpoch, attempts, sent>>
    BY <1>2 DEF PublishFails, authorityVars, commandVars
  <2>3. QED BY <1>0, <1>2, <2>1, <2>2 DEF PublishFails, Permits!Drop, Opened
<1>3. CASE WorkerDies(c, n)
  <2>1. /\ Opened' = [Opened EXCEPT ![c] = @ \ {n}]
        /\ worker[c][n] # "publishing" => Opened' = Opened
    BY <1>3, PermitClosed DEF WorkerDies
  <2>2. UNCHANGED <<epoch, cmdEpoch, attempts, sent>>
    BY <1>3 DEF WorkerDies, authorityVars, commandVars
  <2>3. CASE worker[c][n] = "publishing"
    BY <1>0, <2>1, <2>2, <2>3 DEF Permits!Drop, Opened
  <2>4. CASE worker[c][n] # "publishing"
    BY <2>1, <2>2, <2>4, PermitStutter
  <2>5. QED BY <2>3, <2>4
<1>4. CASE RecordAcked(c, n) \/ RecordUnknown(c, n) \/ RecordFailed(c, n)
  <2>1. /\ worker[c][n] \in {"acked", "unknown", "failed"}
        /\ worker' = [worker EXCEPT ![c] = [@ EXCEPT ![n] = "gone"]]
        /\ UNCHANGED <<epoch, cmdEpoch, attempts, sent>>
    BY <1>4 DEF RecordAcked, RecordUnknown, RecordFailed, Record, authorityVars
  <2>2. Opened' = Opened
    BY <2>1, PermitClosed
  <2>3. QED BY <2>1, <2>2, PermitStutter
<1>5. QED BY <1>1, <1>2, <1>3, <1>4 DEF WorkerStep

(* One case per action that touches what the permits see.                  *)
LEMMA StepOfPermits ==
    ASSUME TypeOK, \A c \in Command : CommandInv(c), [Next]_vars
    PROVE  [Permits!PermitNext]_(Permits!permitVars)
<1>1. ASSUME NEW c \in Command, Request(c) PROVE Permits!PermitNext
  BY <1>1, RequestIssues DEF Permits!PermitNext
<1>2. ASSUME NEW c \in Command, Claim(c) PROVE Permits!PermitNext
  BY <1>2, ClaimGrants DEF Permits!PermitNext
<1>3. ASSUME NEW c \in Command, NEW n \in Attempt, WorkerStep(c, n)
      PROVE  [Permits!PermitNext]_(Permits!permitVars)
  BY <1>3, WorkerSpendsOrDrops DEF Permits!PermitNext, Attempt
<1>4. ASSUME ~ \E c \in Command : Request(c) \/ Claim(c),
             ~ \E c \in Command, n \in Attempt : WorkerStep(c, n)
      PROVE  UNCHANGED <<cmdEpoch, attempts, worker, sent>>
  BY <1>4
     DEF Next, CommandStep, CreateCustomerRecord, Expire, Approve, Reconcile, Dispatch,
         DeadLetterClaim, CancelClaim, LeaseExpires, TimeoutSave, RpcResponse, TimeoutScan,
         GatewayReports, RequestRelease, FinalizeRelease, DisasterReset, AuthorityStep, vars,
         commandVars, outboxVars
<1>5. QED BY <1>1, <1>2, <1>3, <1>4, EpochStep

(* Leases, workers and crashes implement bounded, single-use, revocable    *)
(* permits.                                                                *)
THEOREM DispatchImplementsPermits == Spec => ImplementsPermits
<1>1. QED
  BY PermitInitially, StepOfPermits, CommandsStayInv, PTL
     DEF Spec, ImplementsPermits, Permits!PermitSpec
=============================================================================
