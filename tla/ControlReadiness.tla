-------------------------- MODULE ControlReadiness --------------------------
(***************************************************************************)
(* What must precede the activation of a control key, beside the authority *)
(* that activation changes: the readiness assessments and commissioning    *)
(* sessions of control_readiness.py and the signed policy bundles of       *)
(* control_governance.py, which the gateway loads and acknowledges through *)
(* the MQTT consumer.  One gateway, whose keys are the team's.             *)
(*                                                                         *)
(* An assessment is commissioned by at most one session, so a session goes *)
(* by the name of its assessment; activation is given one of each, and     *)
(* they need not belong together.  The gateway is external: it loads what  *)
(* is retained and acknowledges it, perhaps late and more than once.       *)
(***************************************************************************)
EXTENDS ControlAuthority

CONSTANTS
    Assessment,   \* the assessments made
    MaxRevision   \* bound on the bundles created

ASSUME ReadinessAssumption == MaxRevision \in Nat \ {0}

VARIABLES
    readiness,     \* ControlReadinessAssessment.state
    session,       \* ControlCommissioningSession.status, lapsed when its two hours are over
    commissioned,  \* the keys in the session's scope
    grounds,       \* <<key, epoch, assessment>>: ControlActivation.readiness_assessment
    lapsing,       \* expired rows whose assessment is still to be updated
    bundles,       \* how many bundles there are: the last revision
    bundleEpoch,   \* control_epoch of each bundle
    controls,      \* the keys each bundle lets the gateway write
    active,        \* the bundles that are is_active
    acknowledged,  \* the bundles with an acknowledged_at
    retained,      \* the revision the broker retains
    loaded         \* the revisions the gateway loaded, and says so

commissioningVars == <<readiness, session, commissioned, grounds, lapsing>>
bundleVars == <<bundles, bundleEpoch, controls, active, acknowledged, retained, loaded>>
readinessVars == <<commissioningVars, bundleVars>>
vars == <<authorityVars, readinessVars>>

Revision == 1..MaxRevision

ReadinessState ==
    {"none", "evidence_collecting", "ready_for_commissioning", "commissioning",
     "ready_for_activation", "active", "recommissioning_required"}

ReadinessTypeOK ==
    /\ readiness \in [Assessment -> ReadinessState]
    /\ session \in [Assessment -> {"none", "open", "lapsed", "completed"}]
    /\ commissioned \in [Assessment -> SUBSET Key]
    /\ grounds \subseteq Key \X Epoch \X Assessment
    /\ lapsing \subseteq Key \X Epoch
    /\ bundles \in 0..MaxRevision
    /\ bundleEpoch \in [Revision -> 0..MaxEpoch]
    /\ controls \in [Revision -> SUBSET Key]
    /\ active \subseteq Revision
    /\ acknowledged \subseteq Revision
    /\ retained \in 0..MaxRevision
    /\ loaded \subseteq Revision

Init ==
    /\ AuthorityInit
    /\ readiness = [a \in Assessment |-> "none"]
    /\ session = [a \in Assessment |-> "none"]
    /\ commissioned = [a \in Assessment |-> {}]
    /\ grounds = {}
    /\ lapsing = {}
    /\ bundles = 0
    /\ bundleEpoch = [r \in Revision |-> 0]
    /\ controls = [r \in Revision |-> {}]
    /\ active = {}
    /\ acknowledged = {}
    /\ retained = 0
    /\ loaded = {}

-----------------------------------------------------------------------------
(* assess_control_readiness.  The evidence either suffices or is waived,   *)
(* or it does not; a gateway that has not loaded a policy of the current   *)
(* epoch blocks it whatever the evidence.                                  *)
PolicyOfThisEpoch == \E r \in loaded : bundleEpoch[r] = epoch

Assess(a) ==
    /\ readiness[a] = "none"
    /\ \E s \in {"evidence_collecting", "ready_for_commissioning"} :
          /\ s = "ready_for_commissioning" => PolicyOfThisEpoch
          /\ readiness' = [readiness EXCEPT ![a] = s]
    /\ UNCHANGED <<authorityVars, session, commissioned, grounds, lapsing, bundleVars>>

(* open_commissioning_session *)
OpenSession(a, K) ==
    /\ readiness[a] = "ready_for_commissioning"
    /\ readiness' = [readiness EXCEPT ![a] = "commissioning"]
    /\ session' = [session EXCEPT ![a] = "open"]
    /\ commissioned' = [commissioned EXCEPT ![a] = K]
    /\ UNCHANGED <<authorityVars, grounds, lapsing, bundleVars>>

(* complete_commissioning_session, with its evidence: every assessment of  *)
(* the gateway that is being commissioned becomes ready.                   *)
CompleteSession(a) ==
    /\ session[a] = "open"
    /\ session' = [session EXCEPT ![a] = "completed"]
    /\ readiness' = [b \in Assessment |->
          IF readiness[b] = "commissioning" THEN "ready_for_activation" ELSE readiness[b]]
    /\ UNCHANGED <<authorityVars, commissioned, grounds, lapsing, bundleVars>>

SessionLapses(a) ==
    /\ session[a] = "open"
    /\ session' = [session EXCEPT ![a] = "lapsed"]
    /\ UNCHANGED <<authorityVars, readiness, commissioned, grounds, lapsing, bundleVars>>

-----------------------------------------------------------------------------
(* activate_control_key: an assessment that is ready, a completed session  *)
(* for this very key, and an acknowledged, active bundle of the current    *)
(* epoch.  Envelope, policy and permission may deny it at any time.        *)
AnySessionWithKey(a, k) == k \in commissioned[a]   \* mutated form
CommissionedFor(a, k) == session[a] = "completed" /\ k \in commissioned[a]

PolicyAcknowledged == \E r \in active \cap acknowledged : bundleEpoch[r] = epoch

Activate(k, a, b) ==
    /\ readiness[a] = "ready_for_activation"
    /\ CommissionedFor(b, k)
    /\ PolicyAcknowledged
    /\ ActivateKey(k)
    /\ readiness' = [readiness EXCEPT ![a] = "active"]
    /\ grounds' = grounds \cup {<<k, epoch, a>>}
    /\ UNCHANGED <<session, commissioned, lapsing, bundleVars>>

-----------------------------------------------------------------------------
(* create_gateway_policy_bundle: the keys whose effective envelope exists, *)
(* that is those enabled in the current epoch; envelopes and roles may     *)
(* leave some of them out.                                                 *)
EverEnabledKeys == {k \in Key : scopeMode[k] # "none"}   \* mutated form
EnabledKeys == {k \in Key : scopeMode[k] = "enabled" /\ scopeEpoch[k] = epoch}

CreateBundle ==
    /\ bundles < MaxRevision
    /\ bundles' = bundles + 1
    /\ bundleEpoch' = [bundleEpoch EXCEPT ![bundles'] = epoch]
    /\ \E K \in SUBSET EnabledKeys : controls' = [controls EXCEPT ![bundles'] = K]
    /\ UNCHANGED <<authorityVars, commissioningVars, active, acknowledged, retained, loaded>>

(* publish_control_policy_bundle, retained; of any bundle, again too.      *)
PublishBundle(r) ==
    /\ r <= bundles
    /\ retained' = r
    /\ UNCHANGED <<authorityVars, commissioningVars, bundles, bundleEpoch, controls, active,
                   acknowledged, loaded>>

GatewayLoads ==
    /\ retained # 0
    /\ loaded' = loaded \cup {retained}
    /\ UNCHANGED <<authorityVars, commissioningVars, bundles, bundleEpoch, controls, active,
                   acknowledged, retained>>

(* The consumer's acknowledgement of revision and epoch: the others stop   *)
(* being active, this one starts.                                          *)
StillActive(r) == active \cap {r}

AcknowledgeBundle(r) ==
    /\ r \in loaded
    /\ active' = StillActive(r) \cup {r}
    /\ acknowledged' = acknowledged \cup {r}
    /\ UNCHANGED <<authorityVars, commissioningVars, bundles, bundleEpoch, controls, retained, loaded>>

-----------------------------------------------------------------------------
(* expire_control_activations asks for a new commissioning with a third    *)
(* update, of whatever state the assessment of the expired row is in.      *)
Expire(k, e) ==
    /\ ExpireActivation(k, e)
    /\ lapsing' = lapsing \cup {<<k, e>>}
    /\ UNCHANGED <<readiness, session, commissioned, grounds, bundleVars>>

RequireRecommissioning(k, e) ==
    /\ <<k, e>> \in lapsing
    /\ k \notin expiring
    /\ lapsing' = lapsing \ {<<k, e>>}
    /\ readiness' = [a \in Assessment |->
          IF <<k, e, a>> \in grounds THEN "recommissioning_required" ELSE readiness[a]]
    /\ UNCHANGED <<authorityVars, session, commissioned, grounds, bundleVars>>

(* The other transactions of ControlAuthority; the deletion of all keys    *)
(* belongs to the release of the gateway, after which none of this occurs. *)
Withdraw ==
    /\ \/ \E k \in Key : SuspendScope(k) \/ SuspendActivations(k) \/ SuspendExpiredScope(k)
       \/ \E K \in SUBSET Key : EmergencyDisable(K)
       \/ RollbackPolicy
       \/ ResetAuthority
    /\ UNCHANGED readinessVars

Next ==
    \/ \E a \in Assessment : Assess(a) \/ CompleteSession(a) \/ SessionLapses(a)
    \/ \E a \in Assessment, K \in SUBSET Key \ {{}} : OpenSession(a, K)
    \/ \E k \in Key, a \in Assessment, b \in Assessment : Activate(k, a, b)
    \/ \E k \in Key, e \in Epoch : Expire(k, e) \/ RequireRecommissioning(k, e)
    \/ CreateBundle
    \/ \E r \in Revision : PublishBundle(r) \/ AcknowledgeBundle(r)
    \/ GatewayLoads
    \/ Withdraw

Spec == Init /\ [][Next]_vars

-----------------------------------------------------------------------------
ControlTypeOK == AuthorityTypeOK /\ ReadinessTypeOK

(* A key that is active, in whatever epoch, was commissioned by name in a  *)
(* completed session, and a policy of that epoch was acknowledged          *)
(* (docs/governed_remote_control_operations.md:9, "an acknowledged signed  *)
(* edge policy, commissioning evidence").                                  *)
ActiveKeysWereCommissioned ==
    \A k \in Key, e \in Epoch : activation[k][e] # "none" =>
        /\ \E a \in Assessment : session[a] = "completed" /\ k \in commissioned[a]
        /\ \E r \in acknowledged : bundleEpoch[r] = e

(* The gateway is never given a policy that lets it write a key which was  *)
(* not activated in the epoch the policy is stamped with, however scopes   *)
(* were suspended, expired and activated again (control_governance.py:214).*)
PolicyListsActivatedKeys ==
    \A r \in Revision : \A k \in controls[r] : activation[k][bundleEpoch[r]] # "none"
=============================================================================
