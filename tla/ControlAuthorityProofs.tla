----------------------- MODULE ControlAuthorityProofs -----------------------
(* The authority's invariants and action properties, for any set of keys   *)
(* and any bound on the epochs.  Every theorem has a step lemma that does  *)
(* not mention time: RemoteControlProofs reuses those for a system of      *)
(* which the authority is one part.                                        *)
EXTENDS ControlAuthority, TLAPS

(* The initial authority is well typed and satisfies the invariant.        *)
LEMMA AuthorityInitTypeOK == AuthorityInit => AuthorityTypeOK
  BY AuthorityAssumption
     DEF AuthorityInit, AuthorityTypeOK, Epoch, Mode, ScopeMode, ActivationStatus

LEMMA AuthorityInitInv == AuthorityInit => AuthorityInv
  BY AuthorityAssumption
     DEF AuthorityInit, AuthorityInv, NothingFromTheFuture, ScopeHasActivation,
         CurrentScopeMeansControlled, Epoch

(* What the suspending updates return has the type of what they are given. *)
LEMMA SuspendedTypes ==
    ASSUME AuthorityTypeOK, NEW K \in SUBSET Key
    PROVE  /\ ScopesSuspended(K) \in [Key -> ScopeMode]
           /\ ActivationsWithdrawn(K) \in [Key -> [Epoch -> ActivationStatus]]
  BY DEF AuthorityTypeOK, ScopesSuspended, ActivationsWithdrawn, ScopeMode, ActivationStatus

(* One case per transaction of the authority.                              *)
LEMMA AuthorityStepTypeOK ==
    AuthorityTypeOK /\ [AuthorityNext]_authorityVars => AuthorityTypeOK'
<1> SUFFICES ASSUME AuthorityTypeOK, [AuthorityNext]_authorityVars
             PROVE  AuthorityTypeOK'
  OBVIOUS
<1>next. NextEpoch => epoch' \in Epoch
  BY AuthorityAssumption DEF AuthorityTypeOK, NextEpoch, NewEpoch, Epoch
<1>suspend. ASSUME NEW K \in SUBSET Key, SuspendKeys(K)
            PROVE  /\ scopeMode' \in [Key -> ScopeMode]
                   /\ activation' \in [Key -> [Epoch -> ActivationStatus]]
                   /\ UNCHANGED <<scopeEpoch, expiring, suspending>>
  BY <1>suspend, SuspendedTypes DEF SuspendKeys
<1>1. ASSUME NEW k \in Key, ActivateKey(k) PROVE AuthorityTypeOK'
  BY <1>1, AuthorityAssumption
     DEF AuthorityTypeOK, ActivateKey, EnabledExactly, Stamp, Epoch, Mode, ScopeMode,
         ActivationStatus
<1>2. ASSUME NEW k \in Key, SuspendScope(k) PROVE AuthorityTypeOK'
  BY <1>2, SuspendedTypes DEF AuthorityTypeOK, SuspendScope
<1>3. ASSUME NEW k \in Key, SuspendActivations(k) PROVE AuthorityTypeOK'
  BY <1>3, SuspendedTypes DEF AuthorityTypeOK, SuspendActivations
<1>4. ASSUME NEW k \in Key, NEW e \in Epoch, ExpireActivation(k, e) PROVE AuthorityTypeOK'
  BY <1>4 DEF AuthorityTypeOK, ExpireActivation, ActivationStatus
<1>5. ASSUME NEW k \in Key, SuspendExpiredScope(k) PROVE AuthorityTypeOK'
  BY <1>5, SuspendedTypes DEF AuthorityTypeOK, SuspendExpiredScope
<1>6. ASSUME NEW K \in SUBSET Key, EmergencyDisable(K) PROVE AuthorityTypeOK'
  BY <1>6, <1>next, <1>suspend DEF AuthorityTypeOK, EmergencyDisable, Mode
<1>7. CASE RollbackPolicy
  BY <1>7, <1>next, <1>suspend DEF AuthorityTypeOK, RollbackPolicy, Mode
<1>8. CASE ResetAuthority
  BY <1>8, <1>next, <1>suspend DEF AuthorityTypeOK, ResetAuthority, Mode
<1>9. CASE DeleteKeys
  BY <1>9, AuthorityAssumption DEF AuthorityTypeOK, DeleteKeys, ScopeMode, ActivationStatus
<1>10. CASE UNCHANGED authorityVars
  BY <1>10 DEF AuthorityTypeOK, authorityVars
<1>11. QED
  BY <1>1, <1>2, <1>3, <1>4, <1>5, <1>6, <1>7, <1>8, <1>9, <1>10 DEF AuthorityNext

(* Whatever the authority does, its state keeps its type.                  *)
THEOREM AuthorityTypeCorrect == AuthoritySpec => []AuthorityTypeOK
<1>1. QED BY AuthorityInitTypeOK, AuthorityStepTypeOK, PTL DEF AuthoritySpec

-----------------------------------------------------------------------------
(* A suspension leaves no scope enabled and no activation active in K, and *)
(* creates none anywhere.                                                  *)
LEMMA SuspensionCreatesNothing ==
    ASSUME AuthorityTypeOK, NEW K \in SUBSET Key, NEW k \in Key
    PROVE  /\ ScopesSuspended(K)[k] # "none" <=> scopeMode[k] # "none"
           /\ ScopesSuspended(K)[k] = "enabled" => scopeMode[k] = "enabled" /\ k \notin K
           /\ \A e \in Epoch :
                /\ ActivationsWithdrawn(K)[k][e] # "none" <=> activation[k][e] # "none"
                /\ ActivationsWithdrawn(K)[k][e] = "active" =>
                      activation[k][e] = "active" /\ k \notin K
  BY DEF AuthorityTypeOK, ScopesSuspended, ActivationsWithdrawn, ScopeMode, ActivationStatus

(* The invariant, one case per transaction.  A new epoch lies above every  *)
(* stamp, so that the mode it sets binds no scope of an earlier one.       *)
LEMMA AuthorityStepInv ==
    AuthorityTypeOK /\ AuthorityInv /\ [AuthorityNext]_authorityVars => AuthorityInv'
<1> SUFFICES ASSUME AuthorityTypeOK, AuthorityInv, [AuthorityNext]_authorityVars
             PROVE  AuthorityInv'
  OBVIOUS
<1> USE DEF AuthorityInv, NothingFromTheFuture, ScopeHasActivation, CurrentScopeMeansControlled
<1>epoch. ASSUME NEW K \in SUBSET Key, NextEpoch, SuspendKeys(K) PROVE AuthorityInv'
  <2>1. epoch \in Nat /\ epoch' = epoch + 1 /\ scopeEpoch' = scopeEpoch
    BY <1>epoch DEF NextEpoch, NewEpoch, SuspendKeys, AuthorityTypeOK, Epoch
  <2>2. \A k \in Key : scopeMode'[k] # "none" <=> scopeMode[k] # "none"
    BY <1>epoch, SuspensionCreatesNothing DEF SuspendKeys
  <2>3. \A k \in Key, e \in Epoch : activation'[k][e] # "none" <=> activation[k][e] # "none"
    BY <1>epoch, SuspensionCreatesNothing DEF SuspendKeys
  <2>4. NothingFromTheFuture'
    BY <2>1, <2>3 DEF AuthorityTypeOK, Epoch
  <2>5. ScopeHasActivation'
    BY <2>1, <2>2, <2>3
  <2>6. CurrentScopeMeansControlled'
    BY <2>1 DEF AuthorityTypeOK
  <2>7. QED BY <2>4, <2>5, <2>6
<1>shrink. ASSUME UNCHANGED <<epoch, mode, scopeEpoch>>,
                  \A k \in Key : scopeMode'[k] # "none" <=> scopeMode[k] # "none",
                  \A k \in Key, e \in Epoch :
                     activation'[k][e] # "none" <=> activation[k][e] # "none"
           PROVE  AuthorityInv'
  BY <1>shrink
<1>1. ASSUME NEW k \in Key, ActivateKey(k) PROVE AuthorityInv'
  <2>1. epoch \in Epoch /\ epoch \in Nat /\ epoch <= epoch
    BY DEF AuthorityTypeOK, Epoch
  <2>2. NothingFromTheFuture'
    BY <1>1, <2>1 DEF ActivateKey, Stamp, AuthorityTypeOK
  <2>3. ScopeHasActivation'
    BY <1>1, <2>1 DEF ActivateKey, Stamp, EnabledExactly, AuthorityTypeOK
  <2>4. CurrentScopeMeansControlled'
    BY <1>1 DEF ActivateKey
  <2>5. QED BY <2>2, <2>3, <2>4
<1>2. ASSUME NEW k \in Key, SuspendScope(k) PROVE AuthorityInv'
  BY <1>2, <1>shrink, SuspensionCreatesNothing DEF SuspendScope
<1>3. ASSUME NEW k \in Key, SuspendActivations(k) PROVE AuthorityInv'
  BY <1>3, <1>shrink, SuspensionCreatesNothing DEF SuspendActivations
<1>4. ASSUME NEW k \in Key, NEW e \in Epoch, ExpireActivation(k, e) PROVE AuthorityInv'
  BY <1>4, <1>shrink DEF ExpireActivation, AuthorityTypeOK
<1>5. ASSUME NEW k \in Key, SuspendExpiredScope(k) PROVE AuthorityInv'
  BY <1>5, <1>shrink, SuspensionCreatesNothing DEF SuspendExpiredScope
<1>6. ASSUME NEW K \in SUBSET Key, EmergencyDisable(K) PROVE AuthorityInv'
  BY <1>6, <1>epoch DEF EmergencyDisable
<1>7. CASE RollbackPolicy
  BY <1>7, <1>epoch DEF RollbackPolicy
<1>8. CASE ResetAuthority
  BY <1>8, <1>epoch DEF ResetAuthority
<1>9. CASE DeleteKeys
  BY <1>9 DEF DeleteKeys, AuthorityTypeOK, Epoch
<1>10. CASE UNCHANGED authorityVars
  BY <1>10 DEF authorityVars
<1>11. QED
  BY <1>1, <1>2, <1>3, <1>4, <1>5, <1>6, <1>7, <1>8, <1>9, <1>10 DEF AuthorityNext

(* The stamps, the activations and the mode agree in every reachable       *)
(* state: no lockdown leaves a scope that only the mode holds back.        *)
THEOREM AuthorityAgrees == AuthoritySpec => []AuthorityInv
<1>1. QED
  BY AuthorityInitTypeOK, AuthorityStepTypeOK, AuthorityInitInv, AuthorityStepInv, PTL
     DEF AuthoritySpec

-----------------------------------------------------------------------------
(* A step that moves the epoch leaves no key live: every stamp is older.   *)
LEMMA EpochStepRevokes ==
    ASSUME AuthorityTypeOK, AuthorityTypeOK', AuthorityInv, [AuthorityNext]_authorityVars,
           epoch' # epoch, NEW k \in Key
    PROVE  ~KeyLive(k)'
<1>1. scopeEpoch'[k] = scopeEpoch[k] /\ epoch' = epoch + 1
  <2>1. ASSUME NextEpoch, NEW K \in SUBSET Key, SuspendKeys(K)
        PROVE  scopeEpoch'[k] = scopeEpoch[k] /\ epoch' = epoch + 1
    BY <2>1 DEF NextEpoch, NewEpoch, SuspendKeys
  <2>2. QED
    BY <2>1 DEF AuthorityNext, ActivateKey, SuspendScope, SuspendActivations, ExpireActivation,
           SuspendExpiredScope, EmergencyDisable, RollbackPolicy, ResetAuthority, DeleteKeys,
           authorityVars
<1>2. scopeEpoch[k] <= epoch /\ epoch \in Nat /\ scopeEpoch[k] \in Nat
  BY DEF AuthorityInv, NothingFromTheFuture, AuthorityTypeOK, Epoch
<1>3. QED BY <1>1, <1>2 DEF KeyLive

(* Every transaction that moves the epoch revokes all keys of the team.    *)
THEOREM NewEpochRevokes == AuthoritySpec => NewEpochRevokesAllKeys
<1>1. AuthorityTypeOK /\ AuthorityTypeOK' /\ AuthorityInv /\ [AuthorityNext]_authorityVars
        => [epoch' # epoch => \A k \in Key : ~KeyLive(k)']_authorityVars
  BY EpochStepRevokes
<1>2. QED
  BY <1>1, AuthorityTypeCorrect, AuthorityAgrees, PTL DEF AuthoritySpec, NewEpochRevokesAllKeys

(* A step that makes a key live is that key's own activation.              *)
LEMMA OnlyActivationRevives ==
    ASSUME AuthorityTypeOK, AuthorityInv, [AuthorityNext]_authorityVars,
           NEW k \in Key, ~KeyLive(k), KeyLive(k)'
    PROVE  ActivateKey(k) /\ activation[k][epoch] = "none"
<1>inv. AuthorityTypeOK' /\ AuthorityInv'
  BY AuthorityStepTypeOK, AuthorityStepInv
<1>same. epoch' = epoch
  BY <1>inv, EpochStepRevokes
<1>dead. scopeMode[k] = "enabled" /\ scopeEpoch[k] = epoch => activation[k][epoch] # "active"
  BY DEF KeyLive, AuthorityInv, CurrentScopeMeansControlled
<1>shrink. ASSUME scopeEpoch' = scopeEpoch,
                  scopeMode'[k] = "enabled" => scopeMode[k] = "enabled",
                  activation'[k][epoch] = "active" => activation[k][epoch] = "active"
           PROVE  FALSE
  BY <1>shrink, <1>same, <1>dead DEF KeyLive
<1>e. epoch \in Epoch
  BY DEF AuthorityTypeOK
<1>1. ASSUME NEW l \in Key, ActivateKey(l) PROVE ActivateKey(k) /\ activation[k][epoch] = "none"
  <2>1. CASE l = k
    BY <2>1, <1>1 DEF ActivateKey, Stamp
  <2>2. CASE l # k
    BY <2>2, <1>1, <1>dead, <1>same DEF ActivateKey, EnabledExactly, KeyLive, AuthorityTypeOK
  <2>3. QED BY <2>1, <2>2
<1>2. ASSUME NEW l \in Key, SuspendScope(l) PROVE FALSE
  BY <1>2, <1>shrink, SuspensionCreatesNothing DEF SuspendScope
<1>3. ASSUME NEW l \in Key, SuspendActivations(l) PROVE FALSE
  BY <1>3, <1>e, <1>shrink, SuspensionCreatesNothing DEF SuspendActivations
<1>4. ASSUME NEW l \in Key, NEW e \in Epoch, ExpireActivation(l, e) PROVE FALSE
  BY <1>4, <1>e, <1>shrink DEF ExpireActivation, AuthorityTypeOK
<1>5. ASSUME NEW l \in Key, SuspendExpiredScope(l) PROVE FALSE
  BY <1>5, <1>shrink, SuspensionCreatesNothing DEF SuspendExpiredScope
<1>6. ~NextEpoch
  BY <1>same DEF NextEpoch, NewEpoch, AuthorityTypeOK, Epoch
<1>7. CASE DeleteKeys
  BY <1>7 DEF DeleteKeys, KeyLive
<1>8. CASE UNCHANGED authorityVars
  BY <1>8 DEF authorityVars, KeyLive
<1>9. QED
  BY <1>1, <1>2, <1>3, <1>4, <1>5, <1>6, <1>7, <1>8
     DEF AuthorityNext, EmergencyDisable, RollbackPolicy, ResetAuthority

(* No transaction other than the activation of the key itself, in an epoch *)
(* in which it had not been activated, makes the key live.                 *)
THEOREM ActivationExact == AuthoritySpec => ActivationIsExact
<1>1. AuthorityTypeOK /\ AuthorityInv /\ [AuthorityNext]_authorityVars
        => [\A k \in Key : ~KeyLive(k) /\ KeyLive(k)' => activation[k][epoch] = "none"]_authorityVars
  BY OnlyActivationRevives
<1>2. QED
  BY <1>1, AuthorityTypeCorrect, AuthorityAgrees, PTL DEF AuthoritySpec, ActivationIsExact
=============================================================================
