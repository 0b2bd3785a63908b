-------------------------- MODULE ControlAuthority --------------------------
(***************************************************************************)
(* Who may change equipment remotely.  A team holds one control epoch and  *)
(* one remote-control mode (apps/teams/models.py); every (device, key)     *)
(* pair that was commissioned has a RemoteControlScope row and a history   *)
(* of ControlActivation rows (apps/devices/models.py).                     *)
(*                                                                         *)
(* The actions are the transactions of control_readiness.py,               *)
(* control_recovery.py, tasks.py and the MQTT consumer that write those    *)
(* rows.  One action is one transaction; the expiry task and the           *)
(* consumer's automatic suspension are not transactional, so their two     *)
(* updates are two actions.  ControlReadiness adds the evidence, session   *)
(* and policy bundle that must precede an activation; here the activation  *)
(* is left unguarded by them, which allows more behaviours.                *)
(***************************************************************************)
EXTENDS Naturals

CONSTANTS
    Key,       \* the (device, command_key) pairs of the team
    MaxEpoch   \* bound on the number of epochs explored

ASSUME AuthorityAssumption == MaxEpoch \in Nat \ {0}

VARIABLES
    epoch,        \* Team.remote_control_epoch
    mode,         \* Team.remote_control_mode
    scopeMode,    \* RemoteControlScope.mode of the key, "none" before the row exists
    scopeEpoch,   \* RemoteControlScope.control_epoch of the key
    activation,   \* ControlActivation.status of the key's one row in each epoch
    expiring,     \* keys with an expired row whose scope update is outstanding
    suspending    \* keys with a suspended scope whose row update is outstanding

authorityVars == <<epoch, mode, scopeMode, scopeEpoch, activation, expiring, suspending>>

Epoch == 1..MaxEpoch
Mode == {"monitoring_only", "controlled", "locked_down"}
ScopeMode == {"none", "enabled", "suspended"}

(* Suspended and expired rows are never told apart: both are withdrawn.    *)
ActivationStatus == {"none", "active", "withdrawn"}

AuthorityTypeOK ==
    /\ epoch \in Epoch
    /\ mode \in Mode
    /\ scopeMode \in [Key -> ScopeMode]
    /\ scopeEpoch \in [Key -> 0..MaxEpoch]
    /\ activation \in [Key -> [Epoch -> ActivationStatus]]
    /\ expiring \subseteq Key
    /\ suspending \subseteq Key

AuthorityInit ==
    /\ epoch = 1
    /\ mode = "monitoring_only"
    /\ scopeMode = [k \in Key |-> "none"]
    /\ scopeEpoch = [k \in Key |-> 0]
    /\ activation = [k \in Key |-> [e \in Epoch |-> "none"]]
    /\ expiring = {}
    /\ suspending = {}

-----------------------------------------------------------------------------
(* activate_control_key: the scope row is (re)created ENABLED in the       *)
(* current epoch, an ACTIVE row is added and the team becomes CONTROLLED.  *)
(* unique_control_activation_epoch lets a key have one row per epoch,      *)
(* whatever became of it: a second activation rolls back.                  *)
StampAhead == epoch + 1   \* mutated form
Stamp == epoch

EnabledByDevice(k) ==   \* mutated form
    [l \in Key |-> IF scopeMode[l] = "none" /\ l # k THEN "none" ELSE "enabled"]
EnabledExactly(k) == [scopeMode EXCEPT ![k] = "enabled"]

ActivateKey(k) ==
    /\ activation[k][Stamp] = "none"
    /\ scopeMode' = EnabledExactly(k)
    /\ scopeEpoch' = [scopeEpoch EXCEPT ![k] = Stamp]
    /\ activation' = [activation EXCEPT ![k] = [@ EXCEPT ![Stamp] = "active"]]
    /\ mode' = "controlled"
    /\ UNCHANGED <<epoch, expiring, suspending>>

(* The queryset updates that suspend every scope row of K and every ACTIVE *)
(* activation of K; a key without a scope row is not touched.              *)
ScopesSuspended(K) ==
    [k \in Key |-> IF k \in K /\ scopeMode[k] # "none" THEN "suspended" ELSE scopeMode[k]]

ActivationsWithdrawn(K) ==
    [k \in Key |-> [e \in Epoch |->
        IF k \in K /\ activation[k][e] = "active" THEN "withdrawn" ELSE activation[k][e]]]

SuspendKeys(K) ==
    /\ scopeMode' = ScopesSuspended(K)
    /\ activation' = ActivationsWithdrawn(K)
    /\ UNCHANGED <<scopeEpoch, expiring, suspending>>

(* Every revocation moves the team to a new epoch.                         *)
NewEpochBackwards == epoch - 1   \* mutated form
NewEpoch == epoch + 1

NextEpoch ==
    /\ epoch < MaxEpoch
    /\ epoch' = NewEpoch

(* emergency_disable: the epoch moves for the whole team; only a disable   *)
(* that names no site, gateway or device also locks the team down.  K is   *)
(* what the named scope covers, all of the team's keys included.           *)
EmergencyDisable(K) ==
    /\ NextEpoch
    /\ SuspendKeys(K)
    /\ \/ UNCHANGED mode
       \/ K = Key /\ mode' = "locked_down"

(* rollback_policy_as_new_epoch *)
RollbackPolicy ==
    /\ NextEpoch
    /\ SuspendKeys(Key)
    /\ mode' = "monitoring_only"

(* disaster_recovery_control_reset, the part that concerns the authority;  *)
(* RemoteControl adds what it does to commands, outboxes and approvals.    *)
ResetAuthority ==
    /\ NextEpoch
    /\ SuspendKeys(Key)
    /\ mode' = "locked_down"

(* The MQTT consumer's automatic suspension after a read-back mismatch:    *)
(* the scope first, the ACTIVE rows in a second update that never happens  *)
(* if the consumer dies in between.                                        *)
SuspendScope(k) ==
    /\ scopeMode' = ScopesSuspended({k})
    /\ suspending' = suspending \cup {k}
    /\ UNCHANGED <<epoch, mode, scopeEpoch, activation, expiring>>

SuspendActivations(k) ==
    /\ k \in suspending
    /\ activation' = ActivationsWithdrawn({k})
    /\ suspending' = suspending \ {k}
    /\ UNCHANGED <<epoch, mode, scopeMode, scopeEpoch, expiring>>

(* expire_control_activations, for one activation whose year has passed:   *)
(* the row expires; a second update suspends the scope of its key, of      *)
(* whatever epoch, and never happens if the task dies in between.          *)
ExpireActivation(k, e) ==
    /\ activation[k][e] = "active"
    /\ activation' = [activation EXCEPT ![k] = [@ EXCEPT ![e] = "withdrawn"]]
    /\ expiring' = expiring \cup {k}
    /\ UNCHANGED <<epoch, mode, scopeMode, scopeEpoch, suspending>>

SuspendExpiredScope(k) ==
    /\ k \in expiring
    /\ scopeMode' = ScopesSuspended({k})
    /\ expiring' = expiring \ {k}
    /\ UNCHANGED <<epoch, mode, scopeEpoch, activation, suspending>>

(* Deleting the devices of a released gateway deletes the scope and        *)
(* activation rows that reference them (on_delete=CASCADE).                *)
DeleteKeys ==
    /\ scopeMode' = [k \in Key |-> "none"]
    /\ scopeEpoch' = [k \in Key |-> 0]
    /\ activation' = [k \in Key |-> [e \in Epoch |-> "none"]]
    /\ UNCHANGED <<epoch, mode, expiring, suspending>>

AuthorityNext ==
    \/ \E k \in Key : ActivateKey(k) \/ SuspendScope(k) \/ SuspendActivations(k)
    \/ \E k \in Key, e \in Epoch : ExpireActivation(k, e)
    \/ \E k \in Key : SuspendExpiredScope(k)
    \/ \E K \in SUBSET Key : EmergencyDisable(K)
    \/ RollbackPolicy
    \/ ResetAuthority
    \/ DeleteKeys

AuthoritySpec == AuthorityInit /\ [][AuthorityNext]_authorityVars

-----------------------------------------------------------------------------
(* A key a write may use, as _dispatch_revalidation_error sees it.         *)
KeyLive(k) ==
    /\ mode = "controlled"
    /\ scopeMode[k] = "enabled"
    /\ scopeEpoch[k] = epoch
    /\ activation[k][epoch] = "active"

(* No row is stamped with an epoch the team has not reached.               *)
NothingFromTheFuture ==
    \A k \in Key :
        /\ scopeEpoch[k] <= epoch
        /\ \A e \in Epoch : activation[k][e] # "none" => e <= epoch

(* A scope that was ever enabled still has the activation row it came from *)
(* and a scope of the current epoch implies a CONTROLLED team, so no       *)
(* lockdown or rollback leaves a key that only the mode holds back and     *)
(* that the activation of another key would revive.                        *)
ScopeHasActivation ==
    \A k \in Key : scopeMode[k] # "none" =>
        scopeEpoch[k] \in Epoch /\ activation[k][scopeEpoch[k]] # "none"

CurrentScopeMeansControlled ==
    \A k \in Key : scopeMode[k] # "none" /\ scopeEpoch[k] = epoch => mode = "controlled"

AuthorityInv == NothingFromTheFuture /\ ScopeHasActivation /\ CurrentScopeMeansControlled

(* Every new epoch revokes every key of the team, those outside the        *)
(* disabled scope included: a narrow emergency stop is a global revocation *)
(* (control_readiness.py:275-297, control_recovery.py).                    *)
NewEpochRevokesAllKeys == [][epoch' # epoch => \A k \in Key : ~KeyLive(k)']_authorityVars

(* Control of a key comes back only by the activation of that very key in  *)
(* an epoch it was not activated in before: neither activating its         *)
(* neighbour nor any half-finished suspension revives it                   *)
(* (docs/governed_remote_control_operations.md:7, "exact-key activation"). *)
ActivationIsExact ==
    [][\A k \in Key : ~KeyLive(k) /\ KeyLive(k)' => activation[k][epoch] = "none"]_authorityVars

(* The code does not keep this: README.md, "Known divergences".            *)
(* tasks.py:175 "suspend the exact expired keys": the expiry task suspends *)
(* no key that has been activated again.                                   *)
ExpirySparesRenewedKeys ==
    [][\A k \in Key : KeyLive(k) => scopeMode'[k] = "enabled" \/ expiring' = expiring]_authorityVars
=============================================================================
