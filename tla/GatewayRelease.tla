--------------------------- MODULE GatewayRelease ---------------------------
(***************************************************************************)
(* The release of a claimed gateway, from apps/devices/gateway_release.py, *)
(* beside the activation of its credentials.  The gateway is quarantined,  *)
(* told to reset itself, its broker identity is removed once it confirmed, *)
(* and the ownership row is archived.  A dispatcher claims the request     *)
(* under a lease, works outside any transaction and records in another;    *)
(* it decided what to do from the request as it claimed it.                *)
(***************************************************************************)
EXTENDS GatewayActivation

CONSTANT Releaser   \* the dispatchers that may be at work at once

VARIABLES
    release,     \* GatewayReleaseRequest.status; retry stands for needs_attention
    leased,      \* lease_expires_at lies ahead
    resetKnown,  \* edge_reset_at is set
    at,          \* what each dispatcher is doing
    told,        \* the gateway was sent the release command
    wiped        \* the gateway reset itself

releaseVars == <<release, leased, resetKnown, at, told, wiped>>
vars == <<activationVars, releaseVars>>

ReleaseTypeOK ==
    /\ release \in {"none", "queued", "revoking", "retry", "completed"}
    /\ leased \in BOOLEAN
    /\ resetKnown \in BOOLEAN
    /\ at \in [Releaser -> {"idle", "publishing", "revoking", "finalizing"}]
    /\ told \in BOOLEAN
    /\ wiped \in BOOLEAN

Init ==
    /\ ActivationInit
    /\ release = "none"
    /\ leased = FALSE
    /\ resetKnown = FALSE
    /\ at = [w \in Releaser |-> "idle"]
    /\ told = FALSE
    /\ wiped = FALSE

-----------------------------------------------------------------------------
(* request_gateway_release; one request is enough, so a second after the   *)
(* first completed is not modelled.                                        *)
RequestRelease ==
    /\ GatewayUnlocked
    /\ release = "none"
    /\ release' = "queued"
    /\ lifecycle' = "release_pending"
    /\ UNCHANGED <<inventory, recordVars, provisionVars, expiring, edgeVars, consumerVars,
                   leased, resetKnown, at, told, wiped>>

(* The first transaction of dispatch_gateway_release.                      *)
RevokeAtOnce == "revoking"   \* mutated form
WorkFor == IF resetKnown THEN "revoking" ELSE "publishing"

Claimable == release \in {"queued", "retry"} \/ (release = "revoking" /\ ~leased)

Dispatch(w) ==
    /\ Claimable
    /\ at[w] = "idle"
    /\ release' = "revoking"
    /\ leased' = TRUE
    /\ at' = [at EXCEPT ![w] = WorkFor]
    /\ UNCHANGED <<activationVars, resetKnown, told, wiped>>

(* _retry_release, which does not look at the status it overwrites.        *)
Retry(w) ==
    /\ release' = "retry"
    /\ leased' = FALSE
    /\ at' = [at EXCEPT ![w] = "idle"]
    /\ UNCHANGED <<resetKnown, wiped>>

PublishRelease(w) ==
    /\ at[w] = "publishing"
    /\ Retry(w)
    /\ told' \in {told, TRUE}
    /\ UNCHANGED activationVars

(* clear_gateway_retained_policy and deprovision_gateway_mqtt: they may    *)
(* fail before or after the broker has forgotten the identity, which       *)
(* belongs to whoever has the serial number.                               *)
Revoke(w) ==
    /\ at[w] = "revoking"
    /\ broker' \in {broker, Nobody}
    /\ \/ /\ broker' = Nobody
          /\ at' = [at EXCEPT ![w] = "finalizing"]
          /\ UNCHANGED <<release, leased, resetKnown, wiped>>
       \/ Retry(w)
    /\ UNCHANGED <<lifecycle, inventory, recordVars, provisioning, created, expiring, edgeVars, consumerVars, told>>

(* _finalize_release.                                                      *)
Finalize(w) ==
    /\ at[w] = "finalizing"
    /\ GatewayUnlocked
    /\ at' = [at EXCEPT ![w] = "idle"]
    /\ \/ /\ release = "completed"
          /\ UNCHANGED <<lifecycle, inventory, recordVars, release, leased>>
       \/ /\ release # "completed"
          /\ release' = "completed"
          /\ leased' = FALSE
          /\ lifecycle' = "released"
          /\ inventory' = IF inventory = "this" THEN "free" ELSE inventory
          /\ activation' = [g \in Generation |->
                IF activation[g] \in {"none", "acknowledged"} THEN activation[g] ELSE "superseded"]
          /\ escrow' = {}
          /\ UNCHANGED <<generation, overdue>>
    /\ UNCHANGED <<provisionVars, expiring, edgeVars, consumerVars, resetKnown, told, wiped>>

ReleaserDies(w) ==
    /\ at[w] # "idle"
    /\ at' = [at EXCEPT ![w] = "idle"]
    /\ UNCHANGED <<activationVars, release, leased, resetKnown, told, wiped>>

LeaseExpires ==
    /\ leased
    /\ leased' = FALSE
    /\ UNCHANGED <<activationVars, release, resetKnown, at, told, wiped>>

-----------------------------------------------------------------------------
(* The gateway resets itself when told to, and says so again and again.    *)
EdgeResets ==
    /\ told
    /\ ~wiped
    /\ wiped' = TRUE
    /\ UNCHANGED <<activationVars, release, leased, resetKnown, at, told>>

(* acknowledge_gateway_release, with the gateway the consumer loaded.      *)
HearReset ==
    /\ loaded = "release_pending"
    /\ loaded' = "nothing"
    /\ \/ /\ wiped
          /\ release # "completed"
          /\ ~resetKnown
          /\ resetKnown' = TRUE
          /\ release' = "retry"
          /\ leased' = FALSE
       \/ UNCHANGED <<resetKnown, release, leased>>
    /\ UNCHANGED <<lifecycle, inventory, recordVars, provisionVars, expiring, edgeVars, saving,
                   at, told, wiped>>

(* claim_gateway_for_team after the release: the serial number gets a new  *)
(* row, whose activation puts its own password into the broker.            *)
NextClaim ==
    /\ inventory = "free"
    /\ lifecycle = "released"
    /\ inventory' = "next"
    /\ broker' = NextOwner
    /\ UNCHANGED <<lifecycle, recordVars, provisioning, created, expiring, edgeVars, consumerVars, releaseVars>>

ReleaserStep(w) ==
    PublishRelease(w) \/ Revoke(w) \/ Finalize(w) \/ ReleaserDies(w)

Next ==
    \/ ActivationNext /\ UNCHANGED releaseVars
    \/ RequestRelease
    \/ \E w \in Releaser : Dispatch(w) \/ ReleaserStep(w)
    \/ LeaseExpires
    \/ EdgeResets
    \/ HearReset
    \/ NextClaim

Spec == Init /\ [][Next]_vars

-----------------------------------------------------------------------------
GatewayTypeOK == ActivationTypeOK /\ ReleaseTypeOK

(* The rows fit together: besides their types, EscrowIsShort.              *)
GatewayRowsConsistent == GatewayTypeOK /\ EscrowIsShort

(* A gateway whose newest credentials are acknowledged can log in with     *)
(* them: no slow provisioning, older generation or late answer leaves the  *)
(* broker with another password (activation.py:85, "an in-flight retry can *)
(* restore Pending after the CM4 has acknowledged").                       *)
ActivatedCanConnect ==
    activation[generation] = "acknowledged" /\ release = "none" => broker = generation

(* What settled stays settled: no provisioning that was under way, late    *)
(* save or repeated answer puts an acknowledged, expired or superseded     *)
(* generation back to work.                                                *)
SettledNotReopened ==
    [][\A g \in Generation : activation[g] \in {"acknowledged", "expired", "superseded"} =>
          activation'[g] \notin Unresolved]_vars

(* Broker credentials are removed only after the gateway really reset      *)
(* itself, whatever was repeated, lost or overtaken                        *)
(* (gateway_release.py:163, "exact reset receipt can unlock revocation").  *)
RevokedOnlyAfterReset ==
    [][broker # Nobody /\ broker' = Nobody => wiped]_vars

(* gateway_release.py:1, "fail-closed Gateway release and credential       *)
(* revocation": when a release completes, the broker holds no credentials  *)
(* of the released claim.                                                  *)
ReleasedHoldsNoCredential ==
    [][release # "completed" /\ release' = "completed" => broker \notin Generation]_vars

(* The code does not keep this: README.md, "Known divergences".            *)
(* gateway_release.py:163, "Only the active claim's exact reset receipt    *)
(* can unlock revocation": credentials are removed only from a gateway     *)
(* that is being released.                                                 *)
RevokedOnlyInQuarantine ==
    [][broker # Nobody /\ broker' = Nobody => lifecycle = "release_pending"]_vars
=============================================================================
