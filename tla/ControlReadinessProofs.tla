----------------------- MODULE ControlReadinessProofs -----------------------
(* What precedes an activation, for any keys, assessments, bundles and     *)
(* epochs: a live or once live key was commissioned by name under a policy *)
(* that was acknowledged, and no policy lists a key that was not activated.*)
(* The authority's own invariant comes from ControlAuthorityProofs.        *)
EXTENDS ControlReadiness, ControlAuthorityProofs

(* A bundle the gateway retains, loaded or acknowledged was created, in an *)
(* epoch there has been; the bundles to come list nothing yet.             *)
BundlesWereCreated ==
    /\ retained <= bundles
    /\ \A r \in loaded \cup acknowledged \cup active : r <= bundles
    /\ \A r \in Revision : r <= bundles => bundleEpoch[r] \in Epoch
    /\ \A r \in Revision : bundles < r => controls[r] = {}

(* An assessment that can still be opened has no session: completed ones   *)
(* are never opened anew.                                                  *)
SessionsFollowAssessments ==
    \A a \in Assessment :
        readiness[a] \in {"none", "evidence_collecting", "ready_for_commissioning"} => session[a] = "none"

(* The inductive invariant: besides the two properties, the authority's    *)
(* invariant, of which the scopes' activation rows are needed, and where   *)
(* bundles and sessions come from.                                         *)
ReadinessInv ==
    /\ ControlTypeOK
    /\ AuthorityInv
    /\ BundlesWereCreated
    /\ SessionsFollowAssessments
    /\ ActiveKeysWereCommissioned
    /\ PolicyListsActivatedKeys

LEMMA ReadinessInitInv == Init => ReadinessInv
<1> SUFFICES ASSUME Init PROVE ReadinessInv
  OBVIOUS
<1>1. AuthorityTypeOK /\ AuthorityInv
  BY AuthorityInitTypeOK, AuthorityInitInv DEF Init
<1>2. ReadinessTypeOK
  BY ReadinessAssumption, AuthorityAssumption DEF Init, ReadinessTypeOK, ReadinessState, Revision
<1>3. BundlesWereCreated /\ SessionsFollowAssessments
  BY ReadinessAssumption DEF Init, BundlesWereCreated, SessionsFollowAssessments, Revision
<1>4. ActiveKeysWereCommissioned /\ PolicyListsActivatedKeys
  BY DEF Init, AuthorityInit, ActiveKeysWereCommissioned, PolicyListsActivatedKeys
<1>5. QED BY <1>1, <1>2, <1>3, <1>4 DEF ReadinessInv, ControlTypeOK

-----------------------------------------------------------------------------
(* Every step is a step of the authority or leaves it alone; none deletes  *)
(* a key.                                                                  *)
LEMMA ReadinessStepIsAuthorityStep ==
    [Next]_vars => [AuthorityNext]_authorityVars
  BY DEF Next, vars, AuthorityNext, Withdraw, Assess, CompleteSession, SessionLapses, OpenSession,
         Activate, Expire, RequireRecommissioning, CreateBundle, PublishBundle, AcknowledgeBundle,
         GatewayLoads, authorityVars

(* Withdrawing and expiring neither remove an activation row nor add one.  *)
LEMMA WithdrawalsKeepRows ==
    ASSUME AuthorityTypeOK,
           Withdraw \/ (\E k \in Key, e \in Epoch : ExpireActivation(k, e)) \/ UNCHANGED activation
    PROVE  \A k \in Key, e \in Epoch : activation'[k][e] # "none" <=> activation[k][e] # "none"
<1>1. ASSUME NEW K \in SUBSET Key, activation' = ActivationsWithdrawn(K)
      PROVE  \A k \in Key, e \in Epoch : activation'[k][e] # "none" <=> activation[k][e] # "none"
  BY <1>1, SuspensionCreatesNothing
<1>2. CASE Withdraw
  <2>1. \/ UNCHANGED activation
        \/ \E K \in SUBSET Key : activation' = ActivationsWithdrawn(K)
    BY <1>2 DEF Withdraw, SuspendScope, SuspendActivations, SuspendExpiredScope, EmergencyDisable,
                RollbackPolicy, ResetAuthority, SuspendKeys
  <2>2. QED BY <2>1, <1>1
<1>3. CASE \E k \in Key, e \in Epoch : ExpireActivation(k, e)
  BY <1>3 DEF ExpireActivation, AuthorityTypeOK
<1>4. QED BY <1>2, <1>3

-----------------------------------------------------------------------------
(* The types, one case per action.                                         *)
LEMMA ReadinessStepTypeOK ==
    ControlTypeOK /\ [Next]_vars => ControlTypeOK'
<1> SUFFICES ASSUME ControlTypeOK, [Next]_vars PROVE ControlTypeOK'
  OBVIOUS
<1> USE DEF ReadinessTypeOK, ReadinessState
<1>a. AuthorityTypeOK'
  BY AuthorityStepTypeOK, ReadinessStepIsAuthorityStep DEF ControlTypeOK
<1>t. ReadinessTypeOK /\ AuthorityTypeOK
  BY DEF ControlTypeOK
<1>1. ASSUME NEW a \in Assessment, Assess(a) \/ CompleteSession(a) \/ SessionLapses(a)
      PROVE ReadinessTypeOK'
  BY <1>1, <1>t DEF Assess, CompleteSession, SessionLapses, bundleVars
<1>2. ASSUME NEW a \in Assessment, NEW K \in SUBSET Key, OpenSession(a, K) PROVE ReadinessTypeOK'
  BY <1>2, <1>t DEF OpenSession, bundleVars
<1>3. ASSUME NEW k \in Key, NEW a \in Assessment, NEW b \in Assessment, Activate(k, a, b)
      PROVE ReadinessTypeOK'
  BY <1>3, <1>t DEF Activate, bundleVars, AuthorityTypeOK
<1>4. ASSUME NEW k \in Key, NEW e \in Epoch, Expire(k, e) PROVE ReadinessTypeOK'
  BY <1>4, <1>t DEF Expire, bundleVars
<1>5. ASSUME NEW k \in Key, NEW e \in Epoch, RequireRecommissioning(k, e) PROVE ReadinessTypeOK'
  BY <1>5, <1>t DEF RequireRecommissioning, bundleVars
<1>6. ASSUME CreateBundle PROVE ReadinessTypeOK'
  <2>1. bundles' \in 0..MaxRevision
    BY <1>6, <1>t, ReadinessAssumption DEF CreateBundle
  <2>2. bundleEpoch' \in [Revision -> 0..MaxEpoch]
    <3>1. epoch \in 0..MaxEpoch
      BY <1>t, AuthorityAssumption DEF AuthorityTypeOK, Epoch
    <3>2. bundleEpoch' = [bundleEpoch EXCEPT ![bundles'] = epoch]
      BY <1>6 DEF CreateBundle
    <3>3. QED BY <3>1, <3>2, <1>t
  <2>3. PICK K \in SUBSET EnabledKeys : controls' = [controls EXCEPT ![bundles'] = K]
    BY <1>6 DEF CreateBundle
  <2>4. controls' \in [Revision -> SUBSET Key]
    BY <2>3, <1>t DEF EnabledKeys
  <2>5. QED BY <2>1, <2>2, <2>4, <1>6, <1>t DEF CreateBundle, commissioningVars
<1>7. ASSUME NEW r \in Revision, PublishBundle(r) PROVE ReadinessTypeOK'
  BY <1>7, <1>t, ReadinessAssumption DEF PublishBundle, Revision, commissioningVars
<1>8. ASSUME NEW r \in Revision, AcknowledgeBundle(r) PROVE ReadinessTypeOK'
  BY <1>8, <1>t DEF AcknowledgeBundle, StillActive, commissioningVars
<1>9. ASSUME GatewayLoads PROVE ReadinessTypeOK'
  BY <1>9, <1>t, ReadinessAssumption DEF GatewayLoads, Revision, commissioningVars
<1>10. ASSUME Withdraw PROVE ReadinessTypeOK'
  BY <1>10, <1>t DEF Withdraw, readinessVars, commissioningVars, bundleVars
<1>11. ASSUME UNCHANGED vars PROVE ReadinessTypeOK'
  BY <1>11, <1>t DEF vars, readinessVars, commissioningVars, bundleVars
<1>12. QED
  BY <1>a, <1>1, <1>2, <1>3, <1>4, <1>5, <1>6, <1>7, <1>8, <1>9, <1>10, <1>11 DEF Next, ControlTypeOK

(* Where bundles come from, and what becomes of assessments: each has few  *)
(* actions that touch it.                                                  *)
LEMMA BundleStep ==
    ControlTypeOK /\ BundlesWereCreated /\ [Next]_vars => BundlesWereCreated'
<1> SUFFICES ASSUME ControlTypeOK, BundlesWereCreated, [Next]_vars PROVE BundlesWereCreated'
  OBVIOUS
<1> USE DEF BundlesWereCreated
<1>t. /\ bundles \in 0..MaxRevision /\ retained \in 0..MaxRevision /\ epoch \in Epoch
      /\ bundleEpoch \in [Revision -> 0..MaxEpoch] /\ controls \in [Revision -> SUBSET Key]
      /\ active \subseteq Revision /\ acknowledged \subseteq Revision /\ loaded \subseteq Revision
  BY DEF ControlTypeOK, ReadinessTypeOK, AuthorityTypeOK
<1>1. CASE CreateBundle
  <2>1. /\ bundles' = bundles + 1 /\ bundles \in Nat
        /\ UNCHANGED <<active, acknowledged, retained, loaded>>
        /\ \A r \in Revision : r # bundles' => bundleEpoch'[r] = bundleEpoch[r] /\ controls'[r] = controls[r]
        /\ bundles' \in Revision => bundleEpoch'[bundles'] = epoch
    BY <1>1, <1>t, ReadinessAssumption DEF CreateBundle
  <2>2. QED BY <2>1, <1>t, ReadinessAssumption DEF Revision
<1>2. ASSUME NEW r \in Revision, PublishBundle(r) PROVE BundlesWereCreated'
  BY <1>2 DEF PublishBundle
<1>3. ASSUME NEW r \in Revision, AcknowledgeBundle(r) PROVE BundlesWereCreated'
  BY <1>3 DEF AcknowledgeBundle, StillActive
<1>4. CASE GatewayLoads
  BY <1>4 DEF GatewayLoads
<1>5. CASE UNCHANGED bundleVars
  BY <1>5 DEF bundleVars
<1>6. QED
  BY <1>1, <1>2, <1>3, <1>4, <1>5
     DEF Next, vars, readinessVars, Withdraw, Assess, CompleteSession, SessionLapses, OpenSession,
         Activate, Expire, RequireRecommissioning

LEMMA SessionStep ==
    ControlTypeOK /\ SessionsFollowAssessments /\ [Next]_vars => SessionsFollowAssessments'
<1> SUFFICES ASSUME ControlTypeOK, SessionsFollowAssessments, [Next]_vars
             PROVE  SessionsFollowAssessments'
  OBVIOUS
<1> USE DEF SessionsFollowAssessments
<1>t. /\ readiness \in [Assessment -> ReadinessState]
      /\ session \in [Assessment -> {"none", "open", "lapsed", "completed"}]
  BY DEF ControlTypeOK, ReadinessTypeOK
<1>1. ASSUME NEW a \in Assessment, Assess(a) \/ CompleteSession(a) \/ SessionLapses(a)
      PROVE SessionsFollowAssessments'
  BY <1>1, <1>t DEF Assess, CompleteSession, SessionLapses, ReadinessState
<1>2. ASSUME NEW a \in Assessment, NEW K \in SUBSET Key, OpenSession(a, K)
      PROVE SessionsFollowAssessments'
  BY <1>2, <1>t DEF OpenSession
<1>3. ASSUME NEW k \in Key, NEW a \in Assessment, NEW b \in Assessment, Activate(k, a, b)
      PROVE SessionsFollowAssessments'
  BY <1>3, <1>t DEF Activate
<1>4. ASSUME NEW k \in Key, NEW e \in Epoch, RequireRecommissioning(k, e)
      PROVE SessionsFollowAssessments'
  BY <1>4, <1>t DEF RequireRecommissioning
<1>5. CASE UNCHANGED <<readiness, session>>
  BY <1>5
<1>6. QED
  BY <1>1, <1>2, <1>3, <1>4, <1>5
     DEF Next, vars, readinessVars, commissioningVars, Withdraw, CreateBundle, PublishBundle,
         AcknowledgeBundle, GatewayLoads, Expire

-----------------------------------------------------------------------------
(* A completed session stays completed, with its keys, and what was        *)
(* acknowledged stays acknowledged, in its epoch.                          *)
LEMMA EvidenceStays ==
    ASSUME ControlTypeOK, BundlesWereCreated, SessionsFollowAssessments, [Next]_vars
    PROVE  /\ \A a \in Assessment : session[a] = "completed" =>
                 session'[a] = "completed" /\ commissioned'[a] = commissioned[a]
           /\ \A r \in acknowledged : r \in acknowledged' /\ bundleEpoch'[r] = bundleEpoch[r]
<1>t. /\ readiness \in [Assessment -> ReadinessState]
      /\ session \in [Assessment -> {"none", "open", "lapsed", "completed"}]
      /\ commissioned \in [Assessment -> SUBSET Key]
      /\ bundles \in 0..MaxRevision /\ bundleEpoch \in [Revision -> 0..MaxEpoch]
      /\ acknowledged \subseteq Revision
  BY DEF ControlTypeOK, ReadinessTypeOK
<1> DEFINE Kept ==
      /\ \A a \in Assessment : session[a] = "completed" =>
            session'[a] = "completed" /\ commissioned'[a] = commissioned[a]
      /\ \A r \in acknowledged : r \in acknowledged' /\ bundleEpoch'[r] = bundleEpoch[r]
<1>1. ASSUME NEW a \in Assessment, CompleteSession(a) \/ SessionLapses(a) PROVE Kept
  BY <1>1, <1>t DEF CompleteSession, SessionLapses, bundleVars
<1>2. ASSUME NEW a \in Assessment, NEW K \in SUBSET Key, OpenSession(a, K) PROVE Kept
  BY <1>2, <1>t DEF OpenSession, bundleVars, SessionsFollowAssessments
<1>3. ASSUME CreateBundle PROVE Kept
  <2>1. \A r \in acknowledged : r # bundles'
    BY <1>3, <1>t, ReadinessAssumption DEF CreateBundle, BundlesWereCreated, Revision
  <2>2. QED BY <2>1, <1>3, <1>t DEF CreateBundle, commissioningVars
<1>4. ASSUME NEW r \in Revision, AcknowledgeBundle(r) PROVE Kept
  BY <1>4 DEF AcknowledgeBundle, commissioningVars
<1>5. ASSUME UNCHANGED <<session, commissioned, acknowledged, bundleEpoch>> PROVE Kept
  BY <1>5
<1> HIDE DEF Kept
<1>6. ASSUME \/ \E a \in Assessment : Assess(a)
             \/ \E k \in Key, a, b \in Assessment : Activate(k, a, b)
             \/ \E k \in Key, e \in Epoch : Expire(k, e) \/ RequireRecommissioning(k, e)
             \/ \E r \in Revision : PublishBundle(r)
             \/ GatewayLoads \/ Withdraw \/ UNCHANGED vars
      PROVE Kept
  <2>1. UNCHANGED <<session, commissioned, acknowledged, bundleEpoch>>
    BY <1>6 DEF vars, readinessVars, commissioningVars, bundleVars, Withdraw, PublishBundle,
                GatewayLoads, Expire, Assess, Activate, RequireRecommissioning
  <2>2. QED BY <2>1, <1>5
<1>7. Kept
  <2>1. CASE CreateBundle
    BY <2>1, <1>3
  <2>2. CASE ~CreateBundle
    BY <2>2, <1>1, <1>2, <1>4, <1>6 DEF Next
  <2>3. QED BY <2>1, <2>2
<1>8. QED BY <1>7 DEF Kept

(* An activation row is only ever added by the activation of its key in    *)
(* the current epoch, and none is lost.                                    *)
LEMMA RowsComeFromActivation ==
    ASSUME ControlTypeOK, [Next]_vars, NEW k \in Key, NEW e \in Epoch
    PROVE  /\ activation[k][e] # "none" => activation'[k][e] # "none"
           /\ activation[k][e] = "none" /\ activation'[k][e] # "none" =>
                 e = epoch /\ \E a, b \in Assessment : Activate(k, a, b)
<1>t. AuthorityTypeOK
  BY DEF ControlTypeOK
<1>1. CASE \E l \in Key, a, b \in Assessment : Activate(l, a, b)
  <2>1. PICK l \in Key, a \in Assessment, b \in Assessment : Activate(l, a, b)
    BY <1>1
  <2>2. activation' = [activation EXCEPT ![l] = [activation[l] EXCEPT ![epoch] = "active"]]
    BY <2>1 DEF Activate, ActivateKey, Stamp
  <2>3. activation \in [Key -> [Epoch -> ActivationStatus]] /\ epoch \in Epoch
    BY <1>t DEF AuthorityTypeOK
  <2>4. activation[k][e] = "none" /\ activation'[k][e] # "none" => k = l /\ e = epoch
    BY <2>2, <2>3
  <2>5. activation[k][e] # "none" => activation'[k][e] # "none"
    BY <2>2, <2>3
  <2>6. QED BY <2>1, <2>4, <2>5
<1>2. CASE Withdraw \/ (\E l \in Key, f \in Epoch : ExpireActivation(l, f)) \/ UNCHANGED activation
  BY <1>2, <1>t, WithdrawalsKeepRows
<1>3. QED
  BY <1>1, <1>2
     DEF Next, vars, authorityVars, Assess, CompleteSession, SessionLapses, OpenSession, Expire,
         RequireRecommissioning, CreateBundle, PublishBundle, AcknowledgeBundle, GatewayLoads

-----------------------------------------------------------------------------
(* The step of the first property: what grounds a row that exists stays,   *)
(* and a new row was just grounded.                                        *)
LEMMA CommissionedStep ==
    ReadinessInv /\ [Next]_vars => ActiveKeysWereCommissioned'
<1> SUFFICES ASSUME ReadinessInv, [Next]_vars,
                    NEW k \in Key, NEW e \in Epoch, activation'[k][e] # "none"
             PROVE  /\ \E a \in Assessment : session'[a] = "completed" /\ k \in commissioned'[a]
                    /\ \E r \in acknowledged' : bundleEpoch'[r] = e
  BY DEF ActiveKeysWereCommissioned
<1>1. /\ \E a \in Assessment : session[a] = "completed" /\ k \in commissioned[a]
      /\ \E r \in acknowledged : bundleEpoch[r] = e
  <2>1. CASE activation[k][e] # "none"
    BY <2>1 DEF ReadinessInv, ActiveKeysWereCommissioned
  <2>2. CASE activation[k][e] = "none"
    <3>1. PICK a \in Assessment, b \in Assessment : e = epoch /\ Activate(k, a, b)
      BY <2>2, RowsComeFromActivation DEF ReadinessInv
    <3>2. QED BY <3>1 DEF Activate, CommissionedFor, PolicyAcknowledged
  <2>3. QED BY <2>1, <2>2
<1>2. QED BY <1>1, EvidenceStays DEF ReadinessInv

(* The step of the second: a bundle lists what is enabled when it is made, *)
(* which the authority's invariant says was activated in that epoch.       *)
LEMMA PolicyStep ==
    ReadinessInv /\ [Next]_vars => PolicyListsActivatedKeys'
<1> SUFFICES ASSUME ReadinessInv, [Next]_vars, NEW r \in Revision, NEW k \in controls'[r]
             PROVE  activation'[k][bundleEpoch'[r]] # "none"
  BY DEF PolicyListsActivatedKeys
<1>t. /\ bundles \in 0..MaxRevision /\ epoch \in Epoch
      /\ bundleEpoch \in [Revision -> 0..MaxEpoch] /\ controls \in [Revision -> SUBSET Key]
      /\ controls' \in [Revision -> SUBSET Key]
  BY ReadinessStepTypeOK DEF ReadinessInv, ControlTypeOK, ReadinessTypeOK, AuthorityTypeOK
<1>1. CASE k \in controls[r] /\ bundleEpoch'[r] = bundleEpoch[r]
  <2>1. r <= bundles
    BY <1>1, <1>t DEF ReadinessInv, BundlesWereCreated, Revision
  <2>2. bundleEpoch[r] \in Epoch /\ activation[k][bundleEpoch[r]] # "none" /\ k \in Key
    BY <2>1, <1>1, <1>t DEF ReadinessInv, BundlesWereCreated, PolicyListsActivatedKeys
  <2>3. QED BY <2>2, <1>1, RowsComeFromActivation DEF ReadinessInv
<1>2. CASE CreateBundle /\ r = bundles'
  <2>1. k \in EnabledKeys /\ bundleEpoch'[r] = epoch /\ activation' = activation
    BY <1>2, <1>t DEF CreateBundle, authorityVars
  <2>2. activation[k][epoch] # "none"
    BY <2>1 DEF EnabledKeys, ReadinessInv, AuthorityInv, ScopeHasActivation
  <2>3. QED BY <2>1, <2>2
<1>3. CASE CreateBundle /\ r # bundles'
  BY <1>3, <1>t, <1>1 DEF CreateBundle
<1>4. CASE ~CreateBundle
  <2>1. controls' = controls /\ bundleEpoch' = bundleEpoch
    BY <1>4 DEF Next, vars, readinessVars, bundleVars, Withdraw, Assess, CompleteSession,
                SessionLapses, OpenSession, Activate, Expire, RequireRecommissioning, PublishBundle,
                AcknowledgeBundle, GatewayLoads
  <2>2. QED BY <2>1, <1>1
<1>5. QED BY <1>2, <1>3, <1>4

LEMMA ReadinessStepInv == ReadinessInv /\ [Next]_vars => ReadinessInv'
<1> SUFFICES ASSUME ReadinessInv, [Next]_vars PROVE ReadinessInv'
  OBVIOUS
<1>1. ControlTypeOK'
  BY ReadinessStepTypeOK DEF ReadinessInv
<1>2. AuthorityInv'
  BY AuthorityStepInv, ReadinessStepIsAuthorityStep DEF ReadinessInv, ControlTypeOK
<1>3. BundlesWereCreated' /\ SessionsFollowAssessments'
  BY BundleStep, SessionStep DEF ReadinessInv
<1>4. QED
  BY <1>1, <1>2, <1>3, CommissionedStep, PolicyStep DEF ReadinessInv

(* The inductive invariant holds in every reachable state.                 *)
THEOREM ReadinessInvariant == Spec => []ReadinessInv
<1>1. QED BY ReadinessInitInv, ReadinessStepInv, PTL DEF Spec

(* Every variable of readiness, commissioning and policy keeps its type.   *)
THEOREM ReadinessTypeCorrect == Spec => []ControlTypeOK
<1>1. QED BY ReadinessInvariant, PTL DEF ReadinessInv

(* No key was ever activated without a completed session that names it and *)
(* an acknowledged policy of the same epoch.                               *)
THEOREM ActiveKeysCommissioned == Spec => []ActiveKeysWereCommissioned
<1>1. QED BY ReadinessInvariant, PTL DEF ReadinessInv

(* No policy bundle lists a key that was not activated in its epoch.       *)
THEOREM PolicyListsActivated == Spec => []PolicyListsActivatedKeys
<1>1. QED BY ReadinessInvariant, PTL DEF ReadinessInv

(* With assessments, sessions and bundles around it the authority still    *)
(* revokes every key with each new epoch.                                  *)
THEOREM ReadinessRevokes == Spec => NewEpochRevokesAllKeys
<1>1. ReadinessInv /\ ReadinessInv' /\ [Next]_vars
        => [epoch' # epoch => \A k \in Key : ~KeyLive(k)']_authorityVars
  BY EpochStepRevokes, ReadinessStepIsAuthorityStep DEF ReadinessInv, ControlTypeOK
<1>2. QED BY <1>1, ReadinessInvariant, PTL DEF Spec, NewEpochRevokesAllKeys
=============================================================================
