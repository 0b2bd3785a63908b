----------------------------- MODULE GatewayProofs ----------------------------
(***************************************************************************)
(* Proofs about what belongs to one gateway serial: the credentials of a   *)
(* claim and its release (GatewayActivation, GatewayRelease), the claim    *)
(* that samples are attributed to (TelemetryRouting) and the equipment     *)
(* scans of its setup (EquipmentDiscovery).                                *)
(***************************************************************************)
EXTENDS GatewayRelease, TelemetryRouting, EquipmentDiscovery, TLAPS

-----------------------------------------------------------------------------
(***************************************************************************)
(* Credentials and release.                                                *)
(***************************************************************************)

(* Types of the variables that the arguments below read.                   *)
CredentialTypes ==
    /\ lifecycle \in Lifecycle
    /\ generation \in Generation
    /\ activation \in [Generation -> ActivationStatus]
    /\ escrow \subseteq Generation
    /\ expiring \subseteq Generation
    /\ broker \in 0 .. NextOwner
    /\ provisioning \in 0 .. MaxGeneration
    /\ edge \in 0 .. MaxGeneration
    /\ acks \subseteq Generation \X {"success", "failed"}
    /\ release \in {"none", "queued", "revoking", "retry", "completed"}
    /\ resetKnown \in BOOLEAN /\ told \in BOOLEAN /\ wiped \in BOOLEAN
    /\ at \in [Releaser -> {"idle", "publishing", "revoking", "finalizing"}]

(* The gateway's lock keeps the generation being provisioned the newest    *)
(* one, and unresolved.                                                    *)
ProvisionsNewest ==
    provisioning # Nobody =>
        provisioning = generation /\ activation[generation] \in Unresolved

(* Only issued generations are delivered, answered for or expired.         *)
AnswersOfIssued ==
    /\ edge <= generation
    /\ \A g \in expiring : g <= generation
    /\ \A a \in acks : a[1] <= generation
    /\ \A g \in Generation : generation < g => activation[g] = "none"

(* A success that the gateway reported of the newest generation is true as *)
(* long as no release was asked for, and is all that acknowledges it.      *)
SuccessIsTrue ==
    /\ <<generation, "success">> \in acks /\ release = "none" => broker = generation
    /\ activation[generation] = "acknowledged" => <<generation, "success">> \in acks

(* Whoever works on a release, or saw its quarantine, was asked for one.   *)
ReleaseWasAsked ==
    /\ lifecycle \in Quarantined => release # "none"
    /\ loaded = "release_pending" => release # "none"
    /\ \A w \in Releaser : at[w] # "idle" => release # "none"

(* A dispatcher goes on to the credentials after a reset that was heard,   *)
(* and the gateway reports none it did not make.                           *)
ResetBeforeRevoking ==
    /\ resetKnown => wiped
    /\ \A w \in Releaser : at[w] \in {"revoking", "finalizing"} => wiped

CredentialInvariant ==
    /\ CredentialTypes
    /\ ProvisionsNewest
    /\ AnswersOfIssued
    /\ SuccessIsTrue
    /\ ReleaseWasAsked
    /\ ResetBeforeRevoking
    /\ EscrowIsShort

LEMMA CredentialInit == Init => CredentialInvariant
  <1> SUFFICES ASSUME Init PROVE CredentialInvariant
    OBVIOUS
  <1> USE GenerationAssumption
  <1>1. CredentialTypes
    <2>1. activation \in [Generation -> ActivationStatus]
      BY DEF Init, ActivationInit, ActivationStatus, Unresolved
    <2>2. generation \in Generation /\ escrow \subseteq Generation
      BY DEF Init, ActivationInit, Generation
    <2>3. at \in [Releaser -> {"idle", "publishing", "revoking", "finalizing"}]
      BY DEF Init
    <2>4. broker \in 0 .. NextOwner /\ provisioning \in 0 .. MaxGeneration /\ edge \in 0 .. MaxGeneration
      BY DEF Init, ActivationInit, NextOwner, Nobody
    <2>5. lifecycle \in Lifecycle /\ acks \subseteq Generation \X {"success", "failed"} /\ expiring \subseteq Generation
      BY DEF Init, ActivationInit, Lifecycle
    <2> QED BY <2>1, <2>2, <2>3, <2>4, <2>5 DEF Init, CredentialTypes
  <1>2. ProvisionsNewest /\ AnswersOfIssued /\ SuccessIsTrue
    BY DEF Init, ActivationInit, ProvisionsNewest, AnswersOfIssued, SuccessIsTrue, Generation, Nobody
  <1>3. ReleaseWasAsked /\ ResetBeforeRevoking /\ EscrowIsShort
    BY DEF Init, ActivationInit, ReleaseWasAsked, ResetBeforeRevoking, EscrowIsShort, Generation,
           Unresolved, Quarantined
  <1> QED BY <1>1, <1>2, <1>3 DEF CredentialInvariant

(* A new generation supersedes what was unresolved before it.              *)
LEMMA IssueKeepsInvariant ==
  ASSUME CredentialInvariant, Issue, UNCHANGED releaseVars,
         lifecycle' \in Lifecycle,
         lifecycle' \in Quarantined => lifecycle \in Quarantined
  PROVE  CredentialInvariant'
  <1> USE GenerationAssumption DEF CredentialInvariant
  <1> generation \in Nat /\ generation' = generation + 1 /\ generation' \in Generation
    BY DEF CredentialTypes, Issue, Generation
  <1>1. activation' \in [Generation -> ActivationStatus] /\ escrow' \subseteq Generation
    BY DEF CredentialTypes, Issue, ActivationStatus, Unresolved
  <1>2. CredentialTypes'
    <2>1. UNCHANGED <<expiring, broker, provisioning, edge, acks, release, resetKnown, told, wiped, at>>
      BY DEF Issue, provisionVars, edgeVars, releaseVars
    <2> QED BY <1>1, <2>1 DEF CredentialTypes
  <1>3. ProvisionsNewest'
    BY DEF Issue, GatewayUnlocked, provisionVars, ProvisionsNewest
  <1>4. AnswersOfIssued'
    <2>1. UNCHANGED <<edge, acks, expiring>> /\ edge \in 0 .. MaxGeneration
      BY DEF Issue, edgeVars, CredentialTypes
    <2>2. \A a \in acks : a[1] \in Nat
      BY DEF CredentialTypes, Generation
    <2>5. \A g \in expiring : g \in Nat
      BY DEF CredentialTypes, Generation
    <2>3. \A g \in Generation : generation' < g => activation'[g] = "none"
      BY DEF Issue, AnswersOfIssued, Generation, Unresolved
    <2>4. edge \in Nat
      BY <2>1
    <2> QED BY <2>1, <2>2, <2>3, <2>4, <2>5 DEF AnswersOfIssued
  <1>5. SuccessIsTrue'
    <2>1. <<generation', "success">> \notin acks
      BY DEF AnswersOfIssued
    <2>2. activation'[generation'] = "provisioning"
      BY DEF Issue
    <2> QED BY <2>1, <2>2 DEF SuccessIsTrue, Issue, edgeVars, releaseVars
  <1>6. ReleaseWasAsked' /\ ResetBeforeRevoking'
    BY DEF ReleaseWasAsked, ResetBeforeRevoking, Issue, consumerVars, releaseVars
  <1>7. EscrowIsShort'
    BY DEF EscrowIsShort, Issue, CredentialTypes, Unresolved
  <1> QED BY <1>2, <1>3, <1>4, <1>5, <1>6, <1>7

(* Steps that leave the credentials, their lock and the release alone.     *)
LEMMA RestKeepsInvariant ==
  ASSUME CredentialInvariant,
         UNCHANGED <<generation, activation, escrow, broker, provisioning, edge, acks,
                     release, resetKnown, at, told, wiped>>,
         expiring' \in SUBSET expiring \/ \E g \in Generation : activation[g] \in Unresolved /\ expiring' = expiring \cup {g},
         lifecycle' \in Lifecycle,
         lifecycle' \in Quarantined => lifecycle \in Quarantined,
         loaded' = "release_pending" => loaded = "release_pending" \/ lifecycle \in Quarantined
  PROVE  CredentialInvariant'
  <1> USE GenerationAssumption DEF CredentialInvariant
  <1>1. expiring' \subseteq Generation
    BY DEF CredentialTypes
  <1>2. CredentialTypes'
    BY <1>1 DEF CredentialTypes
  <1>3. \A g \in expiring' : g <= generation
    BY DEF CredentialTypes, AnswersOfIssued, Generation, Unresolved
  <1>4. AnswersOfIssued'
    BY <1>3 DEF AnswersOfIssued
  <1>5. ProvisionsNewest' /\ SuccessIsTrue' /\ EscrowIsShort'
    BY DEF ProvisionsNewest, SuccessIsTrue, EscrowIsShort
  <1>6. ReleaseWasAsked' /\ ResetBeforeRevoking'
    BY DEF ReleaseWasAsked, ResetBeforeRevoking
  <1> QED BY <1>2, <1>4, <1>5, <1>6

(* An expiry saves a generation that nobody has locked.                    *)
LEMMA ExpiryKeepsInvariant ==
  ASSUME CredentialInvariant, NEW g \in Generation, g <= generation, RowUnlocked(g), Expired(g),
         expiring' \subseteq expiring,
         UNCHANGED <<lifecycle, inventory, provisionVars, edgeVars, consumerVars, releaseVars>>
  PROVE  CredentialInvariant'
  <1> USE GenerationAssumption DEF CredentialInvariant
  <1>1. UNCHANGED <<generation, lifecycle, broker, provisioning, edge, acks, loaded,
                    release, resetKnown, at, told, wiped>>
    BY DEF Expired, provisionVars, edgeVars, consumerVars, releaseVars
  <1>2. activation' = [activation EXCEPT ![g] = "expired"] /\ escrow' = escrow \ {g}
    BY DEF Expired, SecretWiped
  <1>3. activation' \in [Generation -> ActivationStatus] /\ expiring' \subseteq Generation
    BY <1>2 DEF CredentialTypes, ActivationStatus
  <1>4. CredentialTypes'
    BY <1>1, <1>2, <1>3 DEF CredentialTypes
  <1>5. ProvisionsNewest'
    BY <1>1, <1>2 DEF ProvisionsNewest, RowUnlocked, CredentialTypes, Nobody
  <1>6. AnswersOfIssued'
    <2>1. \A k \in Generation : generation < k => activation'[k] = "none"
      BY <1>2 DEF AnswersOfIssued, CredentialTypes, Generation
    <2> QED BY <1>1, <2>1 DEF AnswersOfIssued
  <1>7. SuccessIsTrue'
    BY <1>1, <1>2 DEF SuccessIsTrue, CredentialTypes
  <1>8. EscrowIsShort'
    BY <1>1, <1>2 DEF EscrowIsShort, CredentialTypes
  <1>9. ReleaseWasAsked' /\ ResetBeforeRevoking'
    BY <1>1 DEF ReleaseWasAsked, ResetBeforeRevoking
  <1> QED BY <1>4, <1>5, <1>6, <1>7, <1>8, <1>9

(* A provisioning or a delivery saves the newest generation, which stays   *)
(* unresolved.                                                             *)
LEMMA DeliveryKeepsInvariant ==
  ASSUME CredentialInvariant, NEW s \in Unresolved,
         activation[generation] \in Unresolved,
         activation' = [activation EXCEPT ![generation] = s],
         edge' \in {edge, generation}, provisioning' \in {Nobody, provisioning},
         UNCHANGED <<lifecycle, inventory, generation, escrow, broker, expiring, acks, consumerVars, releaseVars>>
  PROVE  CredentialInvariant'
  <1> USE GenerationAssumption DEF CredentialInvariant
  <1>1. UNCHANGED <<loaded, release, resetKnown, at, told, wiped>>
    BY DEF consumerVars, releaseVars
  <1>2. activation' \in [Generation -> ActivationStatus] /\ activation'[generation] = s
    BY DEF CredentialTypes, ActivationStatus
  <1>3. edge' \in 0 .. MaxGeneration /\ provisioning' \in 0 .. MaxGeneration /\ edge' <= generation
    BY DEF CredentialTypes, Generation, Nobody, AnswersOfIssued
  <1>4. CredentialTypes'
    BY <1>1, <1>2, <1>3 DEF CredentialTypes
  <1>5. ProvisionsNewest'
    BY <1>2 DEF ProvisionsNewest
  <1>6. AnswersOfIssued'
    <2>1. \A k \in Generation : generation < k => activation'[k] = "none"
      BY DEF AnswersOfIssued, CredentialTypes, Generation
    <2> QED BY <1>3, <2>1 DEF AnswersOfIssued
  <1>7. SuccessIsTrue'
    BY <1>1, <1>2 DEF SuccessIsTrue, Unresolved
  <1>8. EscrowIsShort'
    BY <1>2 DEF EscrowIsShort, CredentialTypes
  <1>9. ReleaseWasAsked' /\ ResetBeforeRevoking'
    BY <1>1 DEF ReleaseWasAsked, ResetBeforeRevoking
  <1> QED BY <1>4, <1>5, <1>6, <1>7, <1>8, <1>9

LEMMA AcknowledgementKeepsInvariant ==
  ASSUME CredentialInvariant, NEW g \in Generation, NEW answer \in {"success", "failed"},
         Acknowledge(g, answer), UNCHANGED releaseVars
  PROVE  CredentialInvariant'
  <1> USE GenerationAssumption DEF CredentialInvariant
  <1>1. UNCHANGED <<lifecycle, generation, expiring, broker, provisioning, edge, acks,
                    release, resetKnown, at, told, wiped>>
    BY DEF Acknowledge, provisionVars, edgeVars, releaseVars
  <1>2. g = generation /\ provisioning # generation /\ <<generation, answer>> \in acks
    BY DEF Acknowledge, TakesAcknowledgement, RowUnlocked
  <1> PICK s : s = AfterAcknowledgement(generation, answer)
    OBVIOUS
  <1>3. s \in {"acknowledged", "pending"} /\ (s = "acknowledged" => <<generation, "success">> \in acks)
    BY <1>2 DEF AfterAcknowledgement, SuccessIsTrue
  <1>4. activation' = [activation EXCEPT ![generation] = s]
    BY <1>2 DEF Acknowledge
  <1>5. activation' \in [Generation -> ActivationStatus] /\ activation'[generation] = s
    BY <1>3, <1>4 DEF CredentialTypes, ActivationStatus, Unresolved
  <1>6. escrow' = IF s = "acknowledged" THEN escrow \ {generation} ELSE escrow
    BY <1>2, <1>5 DEF Acknowledge
  <1>7. CredentialTypes'
    BY <1>1, <1>5, <1>6 DEF CredentialTypes
  <1>8. ProvisionsNewest'
    BY <1>1, <1>2 DEF ProvisionsNewest
  <1>9. AnswersOfIssued'
    <2>1. \A k \in Generation : generation < k => activation'[k] = "none"
      BY <1>4 DEF AnswersOfIssued, CredentialTypes, Generation
    <2> QED BY <1>1, <2>1 DEF AnswersOfIssued
  <1>10. SuccessIsTrue'
    BY <1>1, <1>3, <1>5 DEF SuccessIsTrue
  <1>11. EscrowIsShort'
    BY <1>3, <1>4, <1>6 DEF EscrowIsShort, CredentialTypes, Unresolved
  <1>12. ReleaseWasAsked' /\ ResetBeforeRevoking'
    <2>1. loaded' \in {loaded, "nothing"}
      BY DEF Acknowledge
    <2> QED BY <1>1, <2>1 DEF ReleaseWasAsked, ResetBeforeRevoking
  <1> QED BY <1>7, <1>8, <1>9, <1>10, <1>11, <1>12

(* Every step of the activation keeps the invariant.                       *)
LEMMA ActivationKeepsInvariant ==
  ASSUME CredentialInvariant, ActivationNext, UNCHANGED releaseVars
  PROVE  CredentialInvariant'
  <1> USE GenerationAssumption
  <1>1. lifecycle \in Lifecycle /\ generation \in Generation /\ expiring \subseteq Generation
    BY DEF CredentialInvariant, CredentialTypes
  <1>2. CASE ClaimAgain
    <2>1. Issue /\ lifecycle' \in Lifecycle /\ lifecycle' \notin Quarantined
      BY <1>2 DEF ClaimAgain, Lifecycle, Quarantined
    <2> QED BY <2>1, IssueKeepsInvariant
  <1>3. CASE \E force \in BOOLEAN : Reissue(force)
    <2>1. Issue /\ lifecycle' = lifecycle
      BY <1>3 DEF Reissue
    <2> QED BY <1>1, <2>1, IssueKeepsInvariant
  <1>4. ASSUME NEW g \in Generation, FoundOverdue(g) PROVE CredentialInvariant'
    <2>1. g = generation /\ Expired(g) /\ provisioning = Nobody
      BY <1>4 DEF FoundOverdue, Deliverable, GatewayUnlocked
    <2>2. UNCHANGED <<lifecycle, inventory, provisionVars, edgeVars, consumerVars>> /\ expiring' = expiring
      BY <1>4 DEF FoundOverdue
    <2>3. g \in Nat /\ RowUnlocked(g)
      BY <2>1 DEF Generation, RowUnlocked, Nobody
    <2> QED BY <2>1, <2>2, <2>3, ExpiryKeepsInvariant
  <1>5. ASSUME NEW g \in Generation, ExpirySaves(g) PROVE CredentialInvariant'
    <2>1. g \in expiring /\ RowUnlocked(g) /\ Expired(g) /\ expiring' \subseteq expiring
      BY <1>5 DEF ExpirySaves
    <2>2. UNCHANGED <<lifecycle, inventory, provisionVars, edgeVars, consumerVars>>
      BY <1>5 DEF ExpirySaves
    <2>3. g <= generation
      BY <2>1 DEF CredentialInvariant, AnswersOfIssued
    <2> QED BY <2>1, <2>2, <2>3, ExpiryKeepsInvariant
  <1>6. ASSUME NEW g \in Generation, ProvisionStarts(g) PROVE CredentialInvariant'
    <2>1. g = generation /\ activation[generation] \in Unresolved /\ provisioning' = generation
      BY <1>6 DEF ProvisionStarts, Deliverable
    <2>2. UNCHANGED <<lifecycle, generation, activation, escrow, broker, expiring, edge, acks, loaded,
                      release, resetKnown, at, told, wiped>>
      BY <1>6 DEF ProvisionStarts, recordVars, edgeVars, consumerVars, releaseVars
    <2>3. CredentialTypes'
      BY <1>1, <2>1, <2>2 DEF CredentialInvariant, CredentialTypes, Generation
    <2>4. ProvisionsNewest' /\ AnswersOfIssued' /\ SuccessIsTrue' /\ EscrowIsShort'
      BY <2>1, <2>2 DEF CredentialInvariant, ProvisionsNewest, AnswersOfIssued, SuccessIsTrue, EscrowIsShort
    <2>5. ReleaseWasAsked' /\ ResetBeforeRevoking'
      BY <2>2 DEF CredentialInvariant, ReleaseWasAsked, ResetBeforeRevoking
    <2> QED BY <2>3, <2>4, <2>5 DEF CredentialInvariant
  <1>7. CASE ProvisionBroker
    <2>1. provisioning # Nobody /\ broker' = provisioning /\ provisioning = generation
      BY <1>7 DEF ProvisionBroker, CredentialInvariant, ProvisionsNewest
    <2>2. UNCHANGED <<lifecycle, generation, activation, escrow, provisioning, expiring, edge, acks, loaded,
                      release, resetKnown, at, told, wiped>>
      BY <1>7 DEF ProvisionBroker, recordVars, edgeVars, consumerVars, releaseVars
    <2>3. CredentialTypes'
      BY <1>1, <2>1, <2>2 DEF CredentialInvariant, CredentialTypes, Generation, NextOwner
    <2>4. ProvisionsNewest' /\ AnswersOfIssued' /\ SuccessIsTrue' /\ EscrowIsShort'
      BY <2>1, <2>2 DEF CredentialInvariant, ProvisionsNewest, AnswersOfIssued, SuccessIsTrue, EscrowIsShort
    <2>5. ReleaseWasAsked' /\ ResetBeforeRevoking'
      BY <2>2 DEF CredentialInvariant, ReleaseWasAsked, ResetBeforeRevoking
    <2> QED BY <2>3, <2>4, <2>5 DEF CredentialInvariant
  <1>8. CASE ProvisionEnds
    <2>1. provisioning = generation /\ activation[generation] \in Unresolved /\ provisioning' = Nobody
      BY <1>8 DEF ProvisionEnds, CredentialInvariant, ProvisionsNewest
    <2>2. activation \in [Generation -> ActivationStatus]
      BY DEF CredentialInvariant, CredentialTypes
    <2>3. activation = [activation EXCEPT ![generation] = activation[generation]]
      BY <2>2
    <2>4. PICK s \in Unresolved : activation' = [activation EXCEPT ![generation] = s]
      BY <1>8, <2>1, <2>3 DEF ProvisionEnds, Unresolved
    <2>5. edge' \in {edge, generation}
      BY <1>8, <2>1 DEF ProvisionEnds
    <2>6. UNCHANGED <<lifecycle, inventory, generation, escrow, broker, expiring, acks, consumerVars>>
      BY <1>8 DEF ProvisionEnds
    <2> QED BY <2>1, <2>4, <2>5, <2>6, DeliveryKeepsInvariant
  <1>9. ASSUME NEW g \in Generation, Deliver(g) PROVE CredentialInvariant'
    <2>1. g = generation /\ activation[generation] \in Unresolved /\ edge' \in {edge, generation}
      BY <1>9 DEF Deliver, Deliverable
    <2>2. PICK s \in Unresolved : activation' = [activation EXCEPT ![generation] = s]
      BY <1>9, <2>1 DEF Deliver, Unresolved
    <2>3. UNCHANGED <<lifecycle, inventory, generation, escrow, broker, provisioning, expiring, acks, consumerVars>>
      BY <1>9 DEF Deliver, provisionVars
    <2> QED BY <2>1, <2>2, <2>3, DeliveryKeepsInvariant
  <1>10. CASE EdgeAnswers
    <2>1. UNCHANGED <<lifecycle, generation, activation, escrow, broker, provisioning, expiring, edge, loaded,
                      release, resetKnown, at, told, wiped>>
      BY <1>10 DEF EdgeAnswers, recordVars, provisionVars, consumerVars, releaseVars
    <2> PICK a : a = IF broker = edge THEN "success" ELSE "failed"
      OBVIOUS
    <2>2. edge \in Generation /\ acks' = acks \cup {<<edge, a>>}
      BY <1>10 DEF EdgeAnswers, CredentialInvariant, CredentialTypes, Generation, Nobody
    <2>3. CredentialTypes'
      BY <2>1, <2>2 DEF CredentialInvariant, CredentialTypes
    <2>4. AnswersOfIssued'
      BY <2>1, <2>2 DEF CredentialInvariant, AnswersOfIssued
    <2>5. SuccessIsTrue'
      BY <2>1, <2>2 DEF CredentialInvariant, SuccessIsTrue
    <2>6. ProvisionsNewest' /\ EscrowIsShort'
      BY <2>1 DEF CredentialInvariant, ProvisionsNewest, EscrowIsShort
    <2>7. ReleaseWasAsked' /\ ResetBeforeRevoking'
      BY <2>1 DEF CredentialInvariant, ReleaseWasAsked, ResetBeforeRevoking
    <2> QED BY <2>3, <2>4, <2>5, <2>6, <2>7 DEF CredentialInvariant
  <1>11. ASSUME NEW g \in Generation, NEW answer \in {"success", "failed"}, Acknowledge(g, answer)
         PROVE CredentialInvariant'
    BY <1>11, AcknowledgementKeepsInvariant
  <1>12. CASE ConsumerLoads \/ OtherMessage \/ ConfigurationAccepted \/ ConsumerSaves
    <2>1. UNCHANGED <<generation, activation, escrow, broker, provisioning, edge, acks, expiring,
                      release, resetKnown, at, told, wiped>>
      BY <1>12 DEF ConsumerLoads, OtherMessage, ConfigurationAccepted, ConsumerSaves,
                   recordVars, provisionVars, edgeVars, releaseVars
    <2>2. lifecycle' \in {lifecycle, "claimed", "online"}
      BY <1>12 DEF ConsumerLoads, OtherMessage, ConfigurationAccepted, ConsumerSaves
    <2>3. loaded' \in {loaded, lifecycle, "nothing"}
      BY <1>12 DEF ConsumerLoads, OtherMessage, ConfigurationAccepted, ConsumerSaves
    <2>4. lifecycle' \in Lifecycle /\ (lifecycle' \in Quarantined => lifecycle \in Quarantined)
      BY <1>1, <2>2 DEF Lifecycle, Quarantined
    <2>5. loaded' = "release_pending" => loaded = "release_pending" \/ lifecycle \in Quarantined
      BY <2>3 DEF Quarantined
    <2> QED BY <2>1, <2>4, <2>5, RestKeepsInvariant
  <1>13. ASSUME NEW g \in Generation, TimeIsUp(g) \/ ExpiryReads(g) PROVE CredentialInvariant'
    <2>1. UNCHANGED <<lifecycle, generation, activation, escrow, broker, provisioning, edge, acks, loaded,
                      release, resetKnown, at, told, wiped>>
      BY <1>13 DEF TimeIsUp, ExpiryReads, recordVars, provisionVars, edgeVars, consumerVars, releaseVars
    <2>2. expiring' = expiring \/ (activation[g] \in Unresolved /\ expiring' = expiring \cup {g})
      BY <1>13 DEF TimeIsUp, ExpiryReads
    <2> QED BY <1>1, <2>1, <2>2, RestKeepsInvariant
  <1> QED BY <1>2, <1>3, <1>4, <1>5, <1>6, <1>7, <1>8, <1>9, <1>10, <1>11, <1>12, <1>13 DEF ActivationNext

(* A dispatcher's step, or another of the release, works on a request that *)
(* was made.                                                               *)
LEMMA ReleaserKeepsInvariant ==
  ASSUME CredentialInvariant, NEW w \in Releaser, Dispatch(w) \/ ReleaserStep(w)
  PROVE  CredentialInvariant'
  <1> USE GenerationAssumption
  <1>1. release # "none" /\ release' # "none"
    BY DEF CredentialInvariant, ReleaseWasAsked, Dispatch, Claimable, ReleaserStep, PublishRelease, Retry,
           Revoke, Finalize, ReleaserDies
  <1>2. release' \in {release, "retry", "revoking", "completed"}
    BY DEF Dispatch, ReleaserStep, PublishRelease, Retry, Revoke, Finalize, ReleaserDies, activationVars
  <1>3. UNCHANGED <<generation, provisioning, expiring, edge, acks, loaded, resetKnown, wiped>>
    BY DEF Dispatch, ReleaserStep, PublishRelease, Retry, Revoke, Finalize, ReleaserDies,
           activationVars, recordVars, provisionVars, edgeVars, consumerVars
  <1>4. lifecycle' \in {lifecycle, "released"} /\ broker' \in {broker, Nobody} /\ told' \in {told, TRUE}
    BY DEF Dispatch, ReleaserStep, PublishRelease, Retry, Revoke, Finalize, ReleaserDies,
           activationVars, provisionVars
  <1>5. \/ UNCHANGED <<activation, escrow>>
        \/ /\ provisioning = Nobody /\ escrow' = {}
           /\ activation' = [g \in Generation |->
                IF activation[g] \in {"none", "acknowledged"} THEN activation[g] ELSE "superseded"]
    BY DEF Dispatch, ReleaserStep, PublishRelease, Retry, Revoke, Finalize, ReleaserDies,
           activationVars, recordVars, GatewayUnlocked
  <1>6. CredentialTypes /\ activation' \in [Generation -> ActivationStatus] /\ escrow' \subseteq Generation
    BY <1>5 DEF CredentialInvariant, CredentialTypes, ActivationStatus
  <1>7. at' \in [Releaser -> {"idle", "publishing", "revoking", "finalizing"}]
    BY <1>6 DEF CredentialTypes, Dispatch, WorkFor, ReleaserStep, PublishRelease, Retry, Revoke, Finalize, ReleaserDies
  <1>8. CredentialTypes'
    <2>1. broker' \in 0 .. NextOwner
      BY <1>4, <1>6 DEF CredentialTypes, Nobody, NextOwner
    <2>2. lifecycle' \in Lifecycle /\ told' \in BOOLEAN
      BY <1>4, <1>6 DEF CredentialTypes, Lifecycle, Quarantined
    <2>3. release' \in {"none", "queued", "revoking", "retry", "completed"}
      BY <1>2, <1>6 DEF CredentialTypes
    <2> QED BY <1>3, <1>6, <1>7, <2>1, <2>2, <2>3 DEF CredentialTypes
  <1>9. ProvisionsNewest'
    BY <1>3, <1>5 DEF CredentialInvariant, ProvisionsNewest
  <1>10. AnswersOfIssued'
    <2>1. \A g \in Generation : generation < g => activation'[g] = "none"
      BY <1>5 DEF CredentialInvariant, AnswersOfIssued
    <2> QED BY <1>3, <2>1 DEF CredentialInvariant, AnswersOfIssued
  <1>11. SuccessIsTrue'
    <2>1. activation'[generation] = "acknowledged" => activation[generation] = "acknowledged"
      BY <1>5, <1>6 DEF CredentialTypes
    <2> QED BY <1>1, <1>3, <2>1 DEF CredentialInvariant, SuccessIsTrue
  <1>12. EscrowIsShort'
    BY <1>5 DEF CredentialInvariant, EscrowIsShort
  <1>13. ReleaseWasAsked'
    BY <1>1 DEF ReleaseWasAsked
  <1>14. ResetBeforeRevoking'
    <2>1. \A x \in Releaser : at'[x] \in {"revoking", "finalizing"} =>
             at[x] \in {"revoking", "finalizing"} \/ resetKnown
      BY <1>6 DEF CredentialTypes, Dispatch, WorkFor, ReleaserStep, PublishRelease, Retry, Revoke, Finalize, ReleaserDies
    <2> QED BY <1>3, <2>1 DEF CredentialInvariant, ResetBeforeRevoking
  <1> QED BY <1>8, <1>9, <1>10, <1>11, <1>12, <1>13, <1>14 DEF CredentialInvariant

LEMMA CredentialStep == CredentialInvariant /\ [Next]_vars => CredentialInvariant'
  <1> SUFFICES ASSUME CredentialInvariant, [Next]_vars PROVE CredentialInvariant'
    OBVIOUS
  <1> USE GenerationAssumption
  <1>1. CASE ActivationNext /\ UNCHANGED releaseVars
    BY <1>1, ActivationKeepsInvariant
  <1>2. ASSUME NEW w \in Releaser, Dispatch(w) \/ ReleaserStep(w) PROVE CredentialInvariant'
    BY <1>2, ReleaserKeepsInvariant
  <1>3. CASE RequestRelease
    <2>1. UNCHANGED <<generation, activation, escrow, broker, provisioning, expiring, edge, acks, loaded,
                      resetKnown, at, told, wiped>>
      BY <1>3 DEF RequestRelease, recordVars, provisionVars, edgeVars, consumerVars
    <2>2. release' = "queued" /\ lifecycle' = "release_pending"
      BY <1>3 DEF RequestRelease
    <2>3. CredentialTypes'
      BY <2>1, <2>2 DEF CredentialInvariant, CredentialTypes, Lifecycle, Quarantined
    <2>4. ProvisionsNewest' /\ AnswersOfIssued' /\ SuccessIsTrue' /\ EscrowIsShort'
      BY <2>1, <2>2 DEF CredentialInvariant, ProvisionsNewest, AnswersOfIssued, SuccessIsTrue, EscrowIsShort
    <2>5. ReleaseWasAsked' /\ ResetBeforeRevoking'
      BY <2>1, <2>2 DEF CredentialInvariant, ReleaseWasAsked, ResetBeforeRevoking
    <2> QED BY <2>3, <2>4, <2>5 DEF CredentialInvariant
  <1>4. CASE LeaseExpires \/ EdgeResets \/ HearReset
    <2>1. UNCHANGED <<lifecycle, generation, activation, escrow, broker, provisioning, expiring, edge, acks, at, told>>
      BY <1>4 DEF LeaseExpires, EdgeResets, HearReset, activationVars, recordVars, provisionVars, edgeVars, consumerVars
    <2>2. wiped' \in {wiped, TRUE} /\ resetKnown' \in {resetKnown, wiped} /\ loaded' \in {loaded, "nothing"}
      BY <1>4 DEF LeaseExpires, EdgeResets, HearReset, activationVars, consumerVars, CredentialInvariant, CredentialTypes
    <2>3. release' = release \/ (release' = "retry" /\ loaded = "release_pending")
      BY <1>4 DEF LeaseExpires, EdgeResets, HearReset
    <2>4. release # "none" => release' # "none"
      BY <2>3
    <2>5. CredentialTypes'
      BY <2>1, <2>2, <2>3 DEF CredentialInvariant, CredentialTypes
    <2>6. ProvisionsNewest' /\ AnswersOfIssued' /\ EscrowIsShort'
      BY <2>1 DEF CredentialInvariant, ProvisionsNewest, AnswersOfIssued, EscrowIsShort
    <2>7. SuccessIsTrue' /\ ReleaseWasAsked'
      BY <2>1, <2>2, <2>3, <2>4 DEF CredentialInvariant, SuccessIsTrue, ReleaseWasAsked
    <2>8. ResetBeforeRevoking'
      <3>1. (resetKnown' => resetKnown \/ wiped) /\ (wiped => wiped')
        <4>1. CASE HearReset
          <5>1. wiped' = wiped
            BY <4>1 DEF HearReset
          <5>2. wiped \/ resetKnown' = resetKnown
            BY <4>1 DEF HearReset
          <5> QED BY <5>1, <5>2
        <4>2. CASE LeaseExpires
          BY <4>2, Zenon DEF LeaseExpires
        <4>3. CASE EdgeResets
          BY <4>3, Zenon DEF EdgeResets
        <4> QED BY <1>4, <4>1, <4>2, <4>3
      <3> QED BY <2>1, <3>1, Zenon DEF CredentialInvariant, ResetBeforeRevoking
    <2> QED BY <2>5, <2>6, <2>7, <2>8 DEF CredentialInvariant
  <1>5. CASE NextClaim
    <2>1. UNCHANGED <<lifecycle, generation, activation, escrow, provisioning, expiring, edge, acks, loaded,
                      release, resetKnown, at, told, wiped>>
      BY <1>5 DEF NextClaim, recordVars, edgeVars, consumerVars, releaseVars
    <2>2. broker' = NextOwner /\ release # "none"
      BY <1>5 DEF NextClaim, CredentialInvariant, ReleaseWasAsked, Quarantined
    <2>3. broker' \in 0 .. NextOwner
      BY <2>2 DEF NextOwner
    <2>4. CredentialTypes'
      BY <2>1, <2>3 DEF CredentialInvariant, CredentialTypes
    <2>5. ProvisionsNewest' /\ AnswersOfIssued' /\ SuccessIsTrue' /\ EscrowIsShort'
      BY <2>1, <2>2 DEF CredentialInvariant, ProvisionsNewest, AnswersOfIssued, SuccessIsTrue, EscrowIsShort
    <2>6. ReleaseWasAsked' /\ ResetBeforeRevoking'
      BY <2>1 DEF CredentialInvariant, ReleaseWasAsked, ResetBeforeRevoking
    <2> QED BY <2>4, <2>5, <2>6 DEF CredentialInvariant
  <1>6. CASE UNCHANGED vars
    <2>1. UNCHANGED <<lifecycle, generation, activation, escrow, broker, provisioning, expiring, edge, acks, loaded,
                      release, resetKnown, at, told, wiped>>
      BY <1>6 DEF vars, activationVars, releaseVars, recordVars, provisionVars, edgeVars, consumerVars
    <2> QED BY <2>1 DEF CredentialInvariant, CredentialTypes, ProvisionsNewest, AnswersOfIssued, SuccessIsTrue,
                  EscrowIsShort, ReleaseWasAsked, ResetBeforeRevoking
  <1> QED BY <1>1, <1>2, <1>3, <1>4, <1>5, <1>6 DEF Next

(* The invariant that the theorems of this section rest on holds of every  *)
(* behaviour of the gateway's credentials.                                 *)
THEOREM CredentialsInvariant == Spec => []CredentialInvariant
  <1> QED BY CredentialInit, CredentialStep, PTL DEF Spec

(* A gateway whose newest credentials are acknowledged, and which nobody   *)
(* asked to release, can log in with them: provisioning under the lock,    *)
(* late answers, expiries and reissues (activation.py) included.           *)
THEOREM ActivatedGatewaysConnect == Spec => []ActivatedCanConnect
  <1>1. CredentialInvariant => ActivatedCanConnect
    BY DEF CredentialInvariant, SuccessIsTrue, ActivatedCanConnect
  <1> QED BY <1>1, CredentialsInvariant, PTL

(* No password stays in escrow of a generation that settled: every expiry, *)
(* supersession, acknowledgement and release (activation.py,               *)
(* gateway_release.py) wipes what it settles.                              *)
THEOREM EscrowStaysShort == Spec => []EscrowIsShort
  <1>1. CredentialInvariant => EscrowIsShort
    BY DEF CredentialInvariant
  <1> QED BY <1>1, CredentialsInvariant, PTL

(* The broker forgets an identity only after the gateway really reset      *)
(* itself, whichever dispatchers and receipts overlapped                   *)
(* (gateway_release.py, dispatch_gateway_release).                         *)
THEOREM RevokingFollowsReset == Spec => RevokedOnlyAfterReset
  <1>1. CredentialInvariant /\ [Next]_vars => [broker # Nobody /\ broker' = Nobody => wiped]_vars
    <2> SUFFICES ASSUME CredentialInvariant, [Next]_vars, broker # Nobody, broker' = Nobody
                 PROVE  wiped
      OBVIOUS
    <2> USE GenerationAssumption
    <2>1. CASE \E w \in Releaser : Revoke(w)
      BY <2>1 DEF Revoke, CredentialInvariant, ResetBeforeRevoking
    <2>2. CASE ActivationNext
      BY <2>2 DEF ActivationNext, ClaimAgain, Reissue, Issue, FoundOverdue, ProvisionStarts, Deliver, TimeIsUp,
                  ExpiryReads, ExpirySaves, ProvisionBroker, ProvisionEnds, EdgeAnswers, ConsumerLoads,
                  Acknowledge, OtherMessage, ConfigurationAccepted, ConsumerSaves, provisionVars
    <2>3. CASE RequestRelease \/ LeaseExpires \/ EdgeResets \/ HearReset \/ UNCHANGED vars
      BY <2>3 DEF RequestRelease, LeaseExpires, EdgeResets, HearReset, vars, activationVars, provisionVars
    <2>4. CASE NextClaim
      BY <2>4 DEF NextClaim, NextOwner, Nobody
    <2>5. CASE \E w \in Releaser : Dispatch(w) \/ PublishRelease(w) \/ Finalize(w) \/ ReleaserDies(w)
      BY <2>5 DEF Dispatch, PublishRelease, Finalize, ReleaserDies, activationVars, provisionVars
    <2> QED BY <2>1, <2>2, <2>3, <2>4, <2>5 DEF Next, ReleaserStep
  <1> QED BY <1>1, CredentialsInvariant, PTL DEF Spec, RevokedOnlyAfterReset

(* What is acknowledged, expired or superseded is not provisioned or       *)
(* delivered again: the lock of provisioning, the late saves of the expiry *)
(* and repeated acknowledgements keep to it.                               *)
THEOREM SettledStaysSettled == Spec => SettledNotReopened
  <1> DEFINE Settled(g) == activation[g] \in {"acknowledged", "expired", "superseded"}
             Kept == \A g \in Generation : Settled(g) => activation'[g] \notin Unresolved
  <1>1. ASSUME CredentialInvariant, [Next]_vars PROVE Kept
    <2>1. activation \in [Generation -> ActivationStatus] /\ generation \in Generation
      BY <1>1 DEF CredentialInvariant, CredentialTypes
    <2> USE GenerationAssumption
    <2>2. ASSUME Issue PROVE Kept
      <3>1. generation' \in Generation /\ generation < generation'
        BY <2>1, <2>2 DEF Issue, Generation
      <3>2. activation[generation'] = "none"
        BY <1>1, <3>1 DEF CredentialInvariant, AnswersOfIssued
      <3>3. activation' = [g \in Generation |->
              IF g = generation' THEN "provisioning"
              ELSE IF activation[g] \in Unresolved THEN "superseded" ELSE activation[g]]
        BY <2>2 DEF Issue
      <3> QED BY <3>2, <3>3 DEF Unresolved
    <2>3. ASSUME NEW g \in Generation, Expired(g) PROVE Kept
      BY <2>1, <2>3 DEF Expired, Unresolved
    <2>4. CASE ProvisionEnds
      <3>1. activation[provisioning] \in Unresolved
        BY <1>1, <2>4 DEF ProvisionEnds, CredentialInvariant, ProvisionsNewest
      <3>2. \A g \in Generation : g # provisioning => activation'[g] = activation[g]
        BY <2>1, <2>4 DEF ProvisionEnds
      <3> QED BY <3>1, <3>2 DEF Unresolved
    <2>5. ASSUME NEW g \in Generation, Deliver(g) PROVE Kept
      <3>1. activation[g] \in Unresolved /\ \A k \in Generation : k # g => activation'[k] = activation[k]
        BY <2>1, <2>5 DEF Deliver, Deliverable
      <3> QED BY <3>1 DEF Unresolved
    <2>6. ASSUME NEW g \in Generation, NEW answer \in {"success", "failed"}, Acknowledge(g, answer) PROVE Kept
      <3>1. activation' = [activation EXCEPT ![g] = AfterAcknowledgement(g, answer)]
        BY <2>6 DEF Acknowledge
      <3>2. Settled(g) => AfterAcknowledgement(g, answer) = "acknowledged"
        BY <2>6 DEF Acknowledge, TakesAcknowledgement, AfterAcknowledgement
      <3> QED BY <2>1, <3>1, <3>2 DEF Unresolved
    <2>7. ASSUME NEW w \in Releaser, Finalize(w) PROVE Kept
      BY <2>7 DEF Finalize, recordVars, Unresolved
    <2>8. ASSUME activation' = activation PROVE Kept
      BY <2>8 DEF Unresolved
    <2>9. CASE ActivationNext
      <3>1. ASSUME NEW g \in Generation, ProvisionStarts(g) \/ TimeIsUp(g) \/ ExpiryReads(g)
            PROVE activation' = activation
        BY <3>1 DEF ProvisionStarts, TimeIsUp, ExpiryReads, recordVars
      <3>2. ASSUME ProvisionBroker \/ EdgeAnswers \/ ConsumerLoads \/ OtherMessage \/ ConfigurationAccepted \/ ConsumerSaves
            PROVE activation' = activation
        BY <3>2 DEF ProvisionBroker, EdgeAnswers, ConsumerLoads, OtherMessage, ConfigurationAccepted, ConsumerSaves, recordVars
      <3>3. ASSUME NEW g \in Generation, FoundOverdue(g) \/ ExpirySaves(g) PROVE Expired(g)
        BY <3>3 DEF FoundOverdue, ExpirySaves
      <3>4. ASSUME ClaimAgain \/ \E force \in BOOLEAN : Reissue(force) PROVE Issue
        BY <3>4 DEF ClaimAgain, Reissue
      <3> HIDE DEF Kept
      <3> QED BY <2>2, <2>3, <2>4, <2>5, <2>6, <2>8, <2>9, <3>1, <3>2, <3>3, <3>4 DEF ActivationNext
    <2>10. CASE RequestRelease \/ LeaseExpires \/ EdgeResets \/ HearReset \/ NextClaim \/ UNCHANGED vars
      <3>1. activation' = activation
        BY <2>10 DEF RequestRelease, LeaseExpires, EdgeResets, HearReset, NextClaim, vars, activationVars, recordVars
      <3> QED BY <2>8, <3>1
    <2>11. ASSUME NEW w \in Releaser, Dispatch(w) \/ PublishRelease(w) \/ Revoke(w) \/ ReleaserDies(w) PROVE Kept
      <3>1. activation' = activation
        BY <2>11 DEF Dispatch, PublishRelease, Revoke, ReleaserDies, activationVars, recordVars
      <3> QED BY <2>8, <3>1
    <2> HIDE DEF Kept
    <2> QED BY <1>1, <2>7, <2>9, <2>10, <2>11 DEF Next, ReleaserStep
  <1>2. CredentialInvariant /\ [Next]_vars => [Kept]_vars
    BY <1>1
  <1>3. Spec => [][Kept]_vars
    <2> HIDE DEF Kept
    <2> QED BY <1>2, CredentialsInvariant, PTL DEF Spec
  <1> QED BY <1>3 DEF SettledNotReopened

-----------------------------------------------------------------------------
(***************************************************************************)
(* The claim that samples are attributed to.                               *)
(***************************************************************************)

(* The rows of the serial and the equipment on them.                       *)
RowTypes ==
    /\ tenureState \in [Tenure -> {"none", "claimed", "release_pending", "released"}]
    /\ current \in 0 .. MaxTenure
    /\ activations \subseteq Tenure
    /\ device \in [Equipment -> [gateway : 0 .. MaxTenure, name : DeviceName, state : {"unused", "there", "removed"}]]
    /\ flush = [at |-> flush.at, batch |-> flush.batch, gateways |-> flush.gateways, devices |-> flush.devices]

(* Equipment, queued samples and filed ones name rows that were claimed:   *)
(* so a row that gets its activation has none of them yet.                 *)
Issued(t) == t \in Tenure /\ tenureState[t] # "none"

RowsWereClaimed ==
    /\ \A t \in activations : Issued(t)
    /\ \A d \in Equipment : device[d].state # "unused" => Issued(device[d].gateway)

(* A sample is queued with the row it arrived for, and with an activated   *)
(* row only if it was sent under that claim.                               *)
ComesUnderItsClaim(q) ==
    /\ Issued(q.gateway)
    /\ q.gateway \in activations => q.packet.tenure = q.gateway

QueuedUnderItsClaim == \A q \in ingest \cup flush.batch : ComesUnderItsClaim(q)

(* What a flush matches against, and what samples are filed under, is      *)
(* equipment that was added.                                               *)
FiledUnderEquipment ==
    /\ \A d \in flush.devices : d \in Equipment /\ device[d].state # "unused"
    /\ \A s \in filed : s.under \in Equipment /\ device[s.under].state # "unused"

RoutingInvariant ==
    /\ RowTypes
    /\ RowsWereClaimed
    /\ QueuedUnderItsClaim
    /\ FiledUnderEquipment
    /\ SamplesStayInTheirTenure

LEMMA MatchedIsOwned ==
  ASSUME NEW own, NEW p PROVE MatchAmong(own, p) \subseteq own
  BY DEF MatchAmong

LEMMA RoutingStarts ==
  ASSUME RoutingInit PROVE RoutingInvariant
  <1> USE RoutingAssumption
  <1>1. (CHOOSE n \in DeviceName : TRUE) \in DeviceName
    OBVIOUS
  <1>2. RowTypes
    BY <1>1 DEF RoutingInit, RowTypes, NoTenure, IdleFlush
  <1>3. RowsWereClaimed /\ QueuedUnderItsClaim /\ FiledUnderEquipment /\ SamplesStayInTheirTenure
    BY DEF RoutingInit, RowsWereClaimed, QueuedUnderItsClaim, FiledUnderEquipment, SamplesStayInTheirTenure, IdleFlush
  <1> QED BY <1>2, <1>3 DEF RoutingInvariant

(* What was claimed stays claimed, and equipment stays on its row.         *)
RowsStay ==
    /\ \A t \in Tenure : tenureState[t] # "none" => tenureState'[t] # "none"
    /\ \A d \in Equipment : device[d].state # "unused" =>
          device'[d].state # "unused" /\ device'[d].gateway = device[d].gateway
    /\ \A t \in activations' \ activations : tenureState[t] = "none"

LEMMA RowsKeepInvariant ==
  ASSUME RoutingInvariant, RowTypes', RowsWereClaimed', RowsStay,
         ingest' = ingest, flush' = flush, filed' \subseteq filed
  PROVE  RoutingInvariant'
  <1>1. \A t : Issued(t) => Issued(t)' /\ (t \in activations' => t \in activations)
    BY DEF Issued, RowsStay
  <1>2. QueuedUnderItsClaim'
    BY <1>1 DEF RoutingInvariant, QueuedUnderItsClaim, ComesUnderItsClaim
  <1>3. FiledUnderEquipment'
    BY DEF RoutingInvariant, FiledUnderEquipment, RowsStay
  <1>4. SamplesStayInTheirTenure'
    <2> SUFFICES ASSUME NEW s \in filed, device'[s.under].gateway \in activations'
                 PROVE  s.tenure = device'[s.under].gateway
      BY DEF SamplesStayInTheirTenure
    <2>1. s.under \in Equipment /\ device[s.under].state # "unused"
      BY DEF RoutingInvariant, FiledUnderEquipment
    <2>2. device'[s.under].gateway = device[s.under].gateway /\ Issued(device[s.under].gateway)
      BY <2>1 DEF RowsStay, RoutingInvariant, RowsWereClaimed
    <2> QED BY <1>1, <2>2 DEF RoutingInvariant, SamplesStayInTheirTenure
  <1> QED BY <1>2, <1>3, <1>4 DEF RoutingInvariant

LEMMA ClaimsKeepInvariant ==
  ASSUME RoutingInvariant, NEW t \in Tenure, ClaimSerial(t) \/ AskRelease(t) \/ FinalizeRelease(t)
  PROVE  RoutingInvariant'
  <1> USE RoutingAssumption
  <1>1. RowTypes /\ RowsWereClaimed /\ t \in 0 .. MaxTenure
    BY DEF RoutingInvariant, Tenure
  <1>2. PICK s \in {"claimed", "release_pending", "released"} : tenureState' = [tenureState EXCEPT ![t] = s]
    BY DEF ClaimSerial, AskRelease, FinalizeRelease
  <1>3. current' \in {current, t, NoTenure} /\ ingest' = ingest /\ flush' = flush /\ filed' \subseteq filed
    BY DEF ClaimSerial, AskRelease, FinalizeRelease
  <1>4. activations' = activations \/ (activations' = activations \cup {t} /\ tenureState[t] = "none")
    BY DEF ClaimSerial, AskRelease, FinalizeRelease
  <1>5. device' \in [Equipment -> [gateway : 0 .. MaxTenure, name : DeviceName, state : {"unused", "there", "removed"}]]
    BY <1>1 DEF RowTypes, ClaimSerial, AskRelease, FinalizeRelease
  <1>6. \A d \in Equipment : device'[d].gateway = device[d].gateway /\ (device'[d].state = "unused" <=> device[d].state = "unused")
    BY <1>1 DEF RowTypes, ClaimSerial, AskRelease, FinalizeRelease, DevicesOf
  <1>7. RowTypes'
    <2>1. tenureState' \in [Tenure -> {"none", "claimed", "release_pending", "released"}]
      BY <1>1, <1>2 DEF RowTypes
    <2>2. current' \in 0 .. MaxTenure
      BY <1>1, <1>3 DEF RowTypes, NoTenure
    <2> QED BY <1>1, <1>3, <1>4, <1>5, <2>1, <2>2 DEF RowTypes
  <1>8. RowsStay
    BY <1>1, <1>2, <1>4, <1>6 DEF RowTypes, RowsStay
  <1>9. RowsWereClaimed'
    BY <1>1, <1>2, <1>4, <1>6 DEF RowTypes, RowsWereClaimed, Issued
  <1> QED BY <1>3, <1>7, <1>8, <1>9, RowsKeepInvariant

LEMMA EquipmentKeepsInvariant ==
  ASSUME RoutingInvariant, NEW d \in Equipment,
         RemoveDevice(d) \/ \E name \in DeviceName : AddDevice(d, name)
  PROVE  RoutingInvariant'
  <1> USE RoutingAssumption
  <1>1. RowTypes /\ RowsWereClaimed
    BY DEF RoutingInvariant
  <1>2. UNCHANGED <<tenureState, current, activations, ingest, flush>> /\ filed' \subseteq filed
    BY DEF RemoveDevice, AddDevice
  <1>3. PICK r \in [gateway : 0 .. MaxTenure, name : DeviceName, state : {"there", "removed"}] :
          /\ device' = [device EXCEPT ![d] = r]
          /\ Issued(r.gateway)
          /\ device[d].state # "unused" => r.gateway = device[d].gateway
    <2>1. CASE RemoveDevice(d)
      <3>1. device' = [device EXCEPT ![d] = [device[d] EXCEPT !.state = "removed"]]
        BY <1>1, <2>1 DEF RowTypes, RemoveDevice
      <3>2. [device[d] EXCEPT !.state = "removed"] \in [gateway : 0 .. MaxTenure, name : DeviceName, state : {"there", "removed"}]
        BY <1>1 DEF RowTypes
      <3>3. [device[d] EXCEPT !.state = "removed"].gateway = device[d].gateway /\ Issued(device[d].gateway)
        BY <1>1, <2>1 DEF RowTypes, RowsWereClaimed, RemoveDevice
      <3> QED BY <3>1, <3>2, <3>3
    <2>2. ASSUME NEW name \in DeviceName, AddDevice(d, name)
          PROVE \E r \in [gateway : 0 .. MaxTenure, name : DeviceName, state : {"there", "removed"}] :
                   /\ device' = [device EXCEPT ![d] = r]
                   /\ Issued(r.gateway)
                   /\ device[d].state # "unused" => r.gateway = device[d].gateway
      <3>1. PICK t \in Tenure : /\ Claimed(t)
                               /\ device' = [device EXCEPT ![d] = [gateway |-> t, name |-> name, state |-> "there"]]
        BY <2>2 DEF AddDevice
      <3>2. [gateway |-> t, name |-> name, state |-> "there"] \in [gateway : 0 .. MaxTenure, name : DeviceName, state : {"there", "removed"}]
        BY DEF Tenure
      <3>3. Issued(t) /\ device[d].state = "unused"
        BY <2>2, <3>1 DEF Claimed, Issued, AddDevice
      <3> QED BY <3>1, <3>2, <3>3
    <2> QED BY <2>1, <2>2
  <1>4. device' \in [Equipment -> [gateway : 0 .. MaxTenure, name : DeviceName, state : {"unused", "there", "removed"}]]
    <2>1. r \in [gateway : 0 .. MaxTenure, name : DeviceName, state : {"unused", "there", "removed"}]
      BY <1>3
    <2> QED BY <1>1, <1>3, <2>1 DEF RowTypes
  <1>5. RowTypes'
    BY <1>1, <1>2, <1>4 DEF RowTypes
  <1>6. \A k \in Equipment : device'[k] = IF k = d THEN r ELSE device[k]
    BY <1>1, <1>3 DEF RowTypes
  <1>7. RowsStay
    BY <1>2, <1>3, <1>6 DEF RowsStay
  <1>8. RowsWereClaimed'
    BY <1>1, <1>2, <1>3, <1>6 DEF RowsWereClaimed, Issued
  <1> QED BY <1>2, <1>5, <1>7, <1>8, RowsKeepInvariant

(* A sample that is let in for an activated row was sent under its claim.  *)
LEMMA ArrivalKeepsInvariant ==
  ASSUME RoutingInvariant, NEW p, Arrive(p)
  PROVE  RoutingInvariant'
  <1> USE RoutingAssumption
  <1>1. UNCHANGED <<tenureState, current, activations, device, flush>>
    BY DEF Arrive
  <1>2. Issued(current) /\ (current \in activations => p.tenure = current)
    BY DEF Arrive, MaySend, Claimed, ClaimMatches, RoutingInvariant, RowTypes, Tenure, Issued, NoTenure
  <1>3. ingest' = ingest \cup {[packet |-> p, gateway |-> current]}
    BY DEF Arrive
  <1>4. ComesUnderItsClaim([packet |-> p, gateway |-> current])
    BY <1>2 DEF ComesUnderItsClaim
  <1>5. filed' = filed \/ \E d \in DevicesOf(current) :
          filed' = filed \cup {[of |-> p.of, tenure |-> p.tenure, under |-> d, how |-> "streamed"]}
    BY MatchedIsOwned DEF Arrive
  <1>6. RowTypes' /\ RowsWereClaimed'
    BY <1>1 DEF RoutingInvariant, RowTypes, RowsWereClaimed, Issued
  <1>7. QueuedUnderItsClaim'
    BY <1>1, <1>3, <1>4 DEF RoutingInvariant, QueuedUnderItsClaim, ComesUnderItsClaim, Issued
  <1>8. FiledUnderEquipment'
    BY <1>1, <1>5 DEF RoutingInvariant, FiledUnderEquipment, DevicesOf
  <1>9. SamplesStayInTheirTenure'
    BY <1>1, <1>2, <1>5 DEF RoutingInvariant, SamplesStayInTheirTenure, DevicesOf
  <1> QED BY <1>6, <1>7, <1>8, <1>9 DEF RoutingInvariant

(* A flush files samples under equipment of the row they were queued with. *)
LEMMA FlushKeepsInvariant ==
  ASSUME RoutingInvariant, ReadRows \/ StoreSamples \/ ShowGateways \/ FlusherDies
  PROVE  RoutingInvariant'
  <1> USE RoutingAssumption
  <1>1. UNCHANGED <<tenureState, current, activations, device>>
    BY DEF ReadRows, StoreSamples, ShowGateways, FlusherDies
  <1>2. RowTypes
    BY DEF RoutingInvariant
  <1>3. flush' = [at |-> flush'.at, batch |-> flush'.batch, gateways |-> flush'.gateways, devices |-> flush'.devices]
    <2>1. CASE ReadRows
      BY <2>1 DEF ReadRows
    <2>2. CASE StoreSamples
      BY <1>2, <2>2 DEF StoreSamples, IdleFlush, RowTypes
    <2>3. CASE ShowGateways \/ FlusherDies
      BY <2>3 DEF ShowGateways, FlusherDies, IdleFlush
    <2> QED BY <2>1, <2>2, <2>3
  <1>4. RowTypes' /\ RowsWereClaimed'
    BY <1>1, <1>3 DEF RoutingInvariant, RowTypes, RowsWereClaimed, Issued
  <1>5. ingest' \cup flush'.batch \subseteq ingest \cup flush.batch
    <2>1. CASE ReadRows
      BY <2>1 DEF ReadRows
    <2>2. CASE StoreSamples
      <3>1. flush' = IdleFlush \/ flush' = [flush EXCEPT !.at = "showing"]
        BY <2>2 DEF StoreSamples
      <3>2. flush'.batch \in {{}, flush.batch} /\ flush'.devices \in {{}, flush.devices}
        BY <1>2, <3>1 DEF RowTypes, IdleFlush
      <3> QED BY <2>2, <3>2 DEF StoreSamples
    <2>3. CASE ShowGateways \/ FlusherDies
      BY <2>3 DEF ShowGateways, FlusherDies, IdleFlush
    <2> QED BY <2>1, <2>2, <2>3
  <1>6. QueuedUnderItsClaim'
    BY <1>1, <1>5 DEF RoutingInvariant, QueuedUnderItsClaim, ComesUnderItsClaim, Issued
  <1>7. \A d \in flush'.devices : d \in Equipment /\ device[d].state # "unused"
    <2>1. CASE ReadRows
      BY <2>1 DEF ReadRows, DevicesOf
    <2>2. CASE StoreSamples
      <3>1. flush' = IdleFlush \/ flush' = [flush EXCEPT !.at = "showing"]
        BY <2>2 DEF StoreSamples
      <3>2. flush'.batch \in {{}, flush.batch} /\ flush'.devices \in {{}, flush.devices}
        BY <1>2, <3>1 DEF RowTypes, IdleFlush
      <3> QED BY <3>2 DEF RoutingInvariant, FiledUnderEquipment
    <2>3. CASE ShowGateways \/ FlusherDies
      BY <2>3 DEF ShowGateways, FlusherDies, IdleFlush
    <2> QED BY <2>1, <2>2, <2>3
  <1>8. \A s \in filed' :
          \/ s \in filed
          \/ /\ s.under \in flush.devices
             /\ \E q \in flush.batch : s.tenure = q.packet.tenure /\ device[s.under].gateway = q.gateway
    <2>1. CASE ReadRows \/ ShowGateways \/ FlusherDies
      BY <2>1 DEF ReadRows, ShowGateways, FlusherDies
    <2>2. CASE StoreSamples
      <3>1. PICK match \in [Known -> Equipment] :
              /\ \A q \in Known : match[q] \in Matches(q)
              /\ \/ filed' = filed
                 \/ filed' = filed \cup {[of |-> q.packet.of, tenure |-> q.packet.tenure, under |-> match[q], how |-> "stored"] : q \in Known}
        BY <2>2 DEF StoreSamples
      <3>2. \A q \in Known : q \in flush.batch /\ match[q] \in flush.devices /\ device[match[q]].gateway = q.gateway
        BY <3>1, MatchedIsOwned DEF Known, Matches
      <3> QED BY <3>1, <3>2
    <2> QED BY <2>1, <2>2
  <1>9. FiledUnderEquipment'
    BY <1>1, <1>7, <1>8 DEF RoutingInvariant, FiledUnderEquipment
  <1>10. SamplesStayInTheirTenure'
    BY <1>1, <1>8 DEF RoutingInvariant, SamplesStayInTheirTenure, QueuedUnderItsClaim, ComesUnderItsClaim
  <1> QED BY <1>4, <1>6, <1>9, <1>10 DEF RoutingInvariant

(* No customer is shown a sample of the tenure before: what the equipment  *)
(* of an activated gateway holds was sent under the same claim, whatever   *)
(* was queued, flushed late or buffered by the edge across a release and   *)
(* another claim (mqtt_consumer._resolve_inbound_gateway,                  *)
(* flush_telemetry_buffer_task).                                           *)
THEOREM SamplesKeepTheirTenure == RoutingSpec => []SamplesStayInTheirTenure
  <1>1. RoutingInit => RoutingInvariant
    BY RoutingStarts
  <1>2. RoutingInvariant /\ [RoutingNext]_routingVars => RoutingInvariant'
    <2> SUFFICES ASSUME RoutingInvariant, [RoutingNext]_routingVars PROVE RoutingInvariant'
      OBVIOUS
    <2>1. CASE UNCHANGED routingVars
      BY <2>1 DEF routingVars, RoutingInvariant, RowTypes, RowsWereClaimed, QueuedUnderItsClaim, ComesUnderItsClaim,
                  FiledUnderEquipment, SamplesStayInTheirTenure, Issued
    <2>2. ASSUME NEW t \in Tenure, ClaimSerial(t) \/ AskRelease(t) \/ FinalizeRelease(t) PROVE RoutingInvariant'
      BY <2>2, ClaimsKeepInvariant
    <2>3. ASSUME NEW d \in Equipment, RemoveDevice(d) \/ \E name \in DeviceName : AddDevice(d, name)
          PROVE RoutingInvariant'
      BY <2>3, EquipmentKeepsInvariant
    <2>4. ASSUME NEW p, Arrive(p) PROVE RoutingInvariant'
      BY <2>4, ArrivalKeepsInvariant
    <2>5. CASE ReadRows \/ StoreSamples \/ ShowGateways \/ FlusherDies
      BY <2>5, FlushKeepsInvariant
    <2> QED BY <2>1, <2>2, <2>3, <2>4, <2>5 DEF RoutingNext
  <1>3. RoutingInvariant => SamplesStayInTheirTenure
    BY DEF RoutingInvariant
  <1> QED BY <1>1, <1>2, <1>3, PTL DEF RoutingSpec

-----------------------------------------------------------------------------
(***************************************************************************)
(* Equipment scans.                                                        *)
(***************************************************************************)
PageRecord == [at: {"idle", "opened", "synced", "acting", "asking"}, run: Tracked, opened: 0 .. MaxScans, seen: Seen]

(* A copy of the run concludes a scan as the Gateway ended it, and a copy  *)
(* of a report says of its scan what became of it.                         *)
ConcludesRightly(r) == r.concluded # NoScan => r.status \in {outcome[r.concluded], "cancelled"} \ {"none"}
ReportsRightly(rep) == rep.status \in Ended => rep.scan \in Scan /\ rep.status = outcome[rep.scan]

CopiesAreRight ==
    /\ ConcludesRightly(tracked)
    /\ ReportsRightly(report)
    /\ \A p \in ScanPage : ConcludesRightly(scanPage[p].run) /\ ReportsRightly(scanPage[p].seen)

(* Every scan is asked for once, by the page that started it, and so the   *)
(* Gateway ends it once.                                                   *)
AskedOnce ==
    /\ \A n \in Scan : n > started => command[n] = "none"
    /\ \A p \in ScanPage : At(p, "asking") =>
          /\ scanPage[p].run.active \in Scan
          /\ scanPage[p].run.active <= started
          /\ command[scanPage[p].run.active] = "none"
    /\ \A p, q \in ScanPage : At(p, "asking") /\ At(q, "asking") /\ scanPage[p].run.active = scanPage[q].run.active => p = q

EndedOnce ==
    \A n \in Scan :
        /\ outcome[n] # "none" => command[n] = "carried"
        /\ scanning = n => command[n] = "carried" /\ outcome[n] = "none"

ScanInvariant == DiscoveryTypeOK /\ CopiesAreRight /\ AskedOnce /\ EndedOnce

LEMMA ScansStart == DiscoveryInit => ScanInvariant
  <1> SUFFICES ASSUME DiscoveryInit PROVE ScanInvariant
    OBVIOUS
  <1> USE DiscoveryAssumption
  <1>1. NoTrack \in Tracked /\ Unseen \in Seen
    BY DEF NoTrack, Unseen, Tracked, Seen, NoScan
  <1>2. Closed \in PageRecord /\ Closed.run = NoTrack /\ Closed.seen = Unseen /\ Closed.at = "idle"
    BY <1>1 DEF Closed, PageRecord, NoScan
  <1>3. clock \in [Scan -> Scan]
    BY DEF DiscoveryInit, Scan
  <1>4. DiscoveryTypeOK
    <2>1. report \in [scan: 0 .. MaxScans, ts: 0 .. MaxScans, status: Ended \cup {"none", "running"}, updated: 0 .. 2, fresh: BOOLEAN]
      BY DEF DiscoveryInit, NoReportYet, NoScan
    <2>2. scanPage \in [ScanPage -> PageRecord]
      BY <1>2 DEF DiscoveryInit
    <2>3. /\ started \in 0 .. MaxScans /\ age \in [Scan -> 0 .. 2] /\ scanning \in 0 .. MaxScans
          /\ command \in [Scan -> {"none", "waiting", "carried", "failed"}]
          /\ outcome \in [Scan -> Ended \cup {"none"}]
      BY DEF DiscoveryInit, NoScan
    <2> QED BY <1>1, <1>3, <2>1, <2>2, <2>3 DEF DiscoveryInit, DiscoveryTypeOK, PageRecord
  <1>5. CopiesAreRight
    BY <1>2 DEF DiscoveryInit, CopiesAreRight, ConcludesRightly, ReportsRightly, NoTrack, Unseen, NoReportYet, Ended, NoScan
  <1>6. AskedOnce /\ EndedOnce
    BY <1>2 DEF DiscoveryInit, AskedOnce, EndedOnce, At, NoScan, Scan
  <1> QED BY <1>4, <1>5, <1>6 DEF ScanInvariant

(* A step of one page, given what it saves and what it keeps in memory.    *)
LEMMA PageKeepsScans ==
  ASSUME ScanInvariant, NEW p \in ScanPage, NEW r \in PageRecord,
         scanPage' = [scanPage EXCEPT ![p] = r],
         tracked' \in Tracked, ConcludesRightly(tracked'),
         ConcludesRightly(r.run), ReportsRightly(r.seen),
         \/ started' = started /\ r.at # "asking"
         \/ started' = started + 1 /\ started' \in Scan /\ r.at = "asking" /\ r.run.active = started',
         \/ command' = command
         \/ At(p, "asking") /\ r.at # "asking" /\ command' = [command EXCEPT ![scanPage[p].run.active] = "waiting"],
         UNCHANGED <<report, age, scannerVars>>
  PROVE  ScanInvariant'
  <1> USE DiscoveryAssumption
  <1>1. UNCHANGED <<report, age, clock, scanning, outcome>>
    BY DEF scannerVars
  <1>2. scanPage \in [ScanPage -> PageRecord] /\ started \in Nat /\ DiscoveryTypeOK
    BY DEF ScanInvariant, DiscoveryTypeOK, PageRecord
  <1>3. \A q \in ScanPage : scanPage'[q] = IF q = p THEN r ELSE scanPage[q]
    BY <1>2
  <1>4. command' \in [Scan -> {"none", "waiting", "carried", "failed"}] /\ started' \in 0 .. MaxScans /\ started' >= started
    <2>1. command' \in [Scan -> {"none", "waiting", "carried", "failed"}]
      BY <1>2 DEF DiscoveryTypeOK
    <2>2. started \in 0 .. MaxScans /\ started' \in {started, started + 1}
      BY <1>2 DEF DiscoveryTypeOK
    <2> QED BY <2>1, <2>2 DEF Scan
  <1>5. DiscoveryTypeOK'
    <2>1. scanPage' \in [ScanPage -> PageRecord]
      BY <1>2
    <2> QED BY <1>1, <1>2, <1>4, <2>1 DEF DiscoveryTypeOK, PageRecord
  <1>6. CopiesAreRight'
    BY <1>1, <1>3 DEF ScanInvariant, CopiesAreRight, ConcludesRightly, ReportsRightly
  <1>7. EndedOnce'
    BY <1>1, <1>2 DEF ScanInvariant, EndedOnce, AskedOnce, DiscoveryTypeOK
  <1>8. AskedOnce'
    <2>1. CASE started' = started /\ r.at # "asking"
      <3>1. \A q \in ScanPage : (scanPage'[q].at = "asking" => q # p /\ scanPage'[q] = scanPage[q])
        BY <1>3, <2>1
      <3>2. \A q \in ScanPage : scanPage'[q].at = "asking" =>
               scanPage[q].run.active \in Scan /\ scanPage[q].run.active <= started
                  /\ command'[scanPage[q].run.active] = "none"
        BY <1>2, <3>1 DEF ScanInvariant, AskedOnce, At, DiscoveryTypeOK
      <3>3. ASSUME NEW n \in Scan, n > started PROVE command'[n] = "none"
        <4>1. command[n] = "none" /\ n \in Nat
          BY <3>3 DEF ScanInvariant, AskedOnce, Scan
        <4>2. CASE command' = command
          BY <4>1, <4>2
        <4>3. CASE At(p, "asking") /\ command' = [command EXCEPT ![scanPage[p].run.active] = "waiting"]
          <5>1. scanPage[p].run.active # n
            BY <1>2, <3>3, <4>1, <4>3 DEF ScanInvariant, AskedOnce, Scan
          <5> QED BY <1>2, <3>3, <4>1, <4>3, <5>1 DEF DiscoveryTypeOK
        <4> QED BY <4>2, <4>3
      <3> QED BY <2>1, <3>1, <3>2, <3>3 DEF ScanInvariant, AskedOnce, At
    <2>2. CASE started' = started + 1 /\ started' \in Scan /\ r.at = "asking" /\ r.run.active = started'
      <3>1. command' = command /\ command[started'] = "none"
        BY <1>2, <2>2 DEF ScanInvariant, AskedOnce
      <3>2. \A q \in ScanPage : q # p /\ scanPage[q].at = "asking" => scanPage[q].run.active < started'
        BY <1>2, <2>2 DEF ScanInvariant, AskedOnce, At, Scan
      <3>3. \A n \in Scan : n > started' => command'[n] = "none"
        BY <1>2, <2>2, <3>1 DEF ScanInvariant, AskedOnce, Scan
      <3>4. started' <= started' /\ \A n \in Scan : n < started' => n <= started'
        BY <1>4 DEF Scan
      <3>5. ASSUME NEW q \in ScanPage, scanPage'[q].at = "asking"
            PROVE  /\ scanPage'[q].run.active \in Scan /\ scanPage'[q].run.active <= started'
                   /\ command'[scanPage'[q].run.active] = "none"
        <4>1. CASE q = p
          BY <1>3, <2>2, <3>1, <3>4, <4>1
        <4>2. CASE q # p
          BY <1>3, <3>1, <3>2, <3>4, <3>5, <4>2 DEF ScanInvariant, AskedOnce, At
        <4> QED BY <4>1, <4>2
      <3>6. ASSUME NEW q \in ScanPage, NEW x \in ScanPage, scanPage'[q].at = "asking", scanPage'[x].at = "asking",
                   scanPage'[q].run.active = scanPage'[x].run.active
            PROVE  q = x
        <4>1. CASE q # p /\ x # p
          BY <1>3, <3>6, <4>1 DEF ScanInvariant, AskedOnce, At
        <4>2. CASE q = p /\ x # p
          BY <1>2, <1>3, <2>2, <3>2, <3>6, <4>2
        <4>3. CASE q # p /\ x = p
          BY <1>2, <1>3, <2>2, <3>2, <3>6, <4>3
        <4> QED BY <4>1, <4>2, <4>3
      <3> QED BY <3>3, <3>5, <3>6 DEF AskedOnce, At
    <2> QED BY <2>1, <2>2
  <1> QED BY <1>5, <1>6, <1>7, <1>8 DEF ScanInvariant

LEMMA ClosedPage == Closed \in PageRecord /\ Closed.run = NoTrack /\ Closed.seen = Unseen /\ Closed.at = "idle"
                      /\ NoTrack \in Tracked /\ Unseen \in Seen
  <1>1. NoTrack \in Tracked /\ Unseen \in Seen
    BY DiscoveryAssumption DEF NoTrack, Unseen, Tracked, Seen, NoScan
  <1>2. QED BY <1>1, DiscoveryAssumption DEF Closed, PageRecord, NoScan

LEMMA NothingIsRight == ConcludesRightly(NoTrack) /\ ReportsRightly(Unseen)
  BY DEF ConcludesRightly, ReportsRightly, NoTrack, Unseen, NoScan, Ended

LEMMA AttachedFields ==
  ASSUME NEW S, NEW N, NEW T, NEW r \in [state: S, active: N, command: N, since: N, concluded: N, status: T],
         NEW s \in S, NEW n \in N, NEW none \in N
  PROVE  /\ [r EXCEPT !.state = s, !.active = n, !.command = none]
                \in [state: S, active: N, command: N, since: N, concluded: N, status: T]
         /\ [r EXCEPT !.state = s, !.active = n, !.command = none].concluded = r.concluded
         /\ [r EXCEPT !.state = s, !.active = n, !.command = none].status = r.status
  OBVIOUS

(* Following a scan leaves what was concluded.                             *)
LEMMA AttachedIsRight ==
  ASSUME NEW r \in Tracked, NEW rep, rep.scan \in 0 .. MaxScans, ConcludesRightly(r)
  PROVE  Attached(r, rep) \in Tracked /\ ConcludesRightly(Attached(r, rep))
  <1>1. "discovering" \in {"configuring", "discovering"} /\ NoScan \in 0 .. MaxScans
    BY DiscoveryAssumption DEF NoScan
  <1>2. /\ Attached(r, rep) \in Tracked
        /\ Attached(r, rep).concluded = r.concluded /\ Attached(r, rep).status = r.status
    BY <1>1, AttachedFields, Zenon DEF Attached, Tracked
  <1> QED BY <1>2 DEF ConcludesRightly

LEMMA PagesKeepInvariant ==
  ASSUME ScanInvariant, NEW p \in ScanPage, PageGoesOn(p), UNCHANGED <<report, age, scannerVars>>
  PROVE  ScanInvariant'
  <1> USE DiscoveryAssumption
  <1>1. /\ tracked \in Tracked /\ started \in 0 .. MaxScans
        /\ scanPage \in [ScanPage -> PageRecord] /\ scanPage[p] \in PageRecord
        /\ scanPage[p].run \in Tracked /\ scanPage[p].seen \in Seen /\ scanPage[p].opened \in 0 .. MaxScans
    BY DEF ScanInvariant, DiscoveryTypeOK, PageRecord
  <1>2. ConcludesRightly(tracked) /\ ConcludesRightly(scanPage[p].run) /\ ReportsRightly(scanPage[p].seen)
    BY DEF ScanInvariant, CopiesAreRight
  <1>3. report \in [scan: 0 .. MaxScans, ts: 0 .. MaxScans, status: Ended \cup {"none", "running"}, updated: 0 .. 2, fresh: BOOLEAN]
        /\ ReportsRightly(report)
    BY DEF ScanInvariant, DiscoveryTypeOK, CopiesAreRight
  <1>4. outcome' = outcome
    BY DEF scannerVars
  <1>5. CASE Opens(p)
    <2>1. PICK r : r = [Closed EXCEPT !.at = "opened", !.run = tracked, !.opened = RunningScan]
      OBVIOUS
    <2>2. RunningScan \in 0 .. MaxScans
      BY <1>3 DEF RunningScan, NoScan
    <2>3. r \in PageRecord /\ r.run = tracked /\ r.seen = Unseen /\ r.at = "opened"
      BY <1>1, <2>1, <2>2, ClosedPage DEF PageRecord
    <2>4. scanPage' = [scanPage EXCEPT ![p] = r] /\ UNCHANGED <<tracked, started, command>>
      BY <1>5, <2>1 DEF Opens
    <2> QED BY <1>1, <1>2, <2>3, <2>4, PageKeepsScans, NothingIsRight
  <1>6. CASE Reattaches(p)
    <2>1. report.scan \in 0 .. MaxScans
      BY <1>3
    <2>2. Attached(scanPage[p].run, report) \in Tracked /\ ConcludesRightly(Attached(scanPage[p].run, report))
      BY <1>1, <1>2, <2>1, AttachedIsRight
    <2>3. tracked' \in Tracked /\ ConcludesRightly(tracked')
      BY <1>1, <1>2, <1>6, <2>2 DEF Reattaches
    <2>4. Read(report) \in Seen /\ ReportsRightly(Read(report))
      BY <1>3 DEF Read, Seen, ReportsRightly
    <2>5. PICK r : r = [scanPage[p] EXCEPT !.at = "synced", !.run = tracked', !.seen = Read(report)]
      OBVIOUS
    <2>6. r \in PageRecord /\ r.run = tracked' /\ r.seen = Read(report) /\ r.at = "synced"
      BY <1>1, <2>3, <2>4, <2>5 DEF PageRecord
    <2>7. scanPage' = [scanPage EXCEPT ![p] = r] /\ UNCHANGED <<started, command>>
      BY <1>1, <1>6, <2>5 DEF Reattaches
    <2> QED BY <2>3, <2>4, <2>6, <2>7, PageKeepsScans
  <1>7. CASE SyncSaves(p)
    <2>1. PICK run, rep : run = scanPage[p].run /\ rep = scanPage[p].seen
      OBVIOUS
    <2>2. Synced(p) \in Tracked /\ ConcludesRightly(Synced(p))
      <3>1. CASE Ends(run, rep)
        <4>1. Synced(p) = [run EXCEPT !.state = "configuring", !.concluded = run.active, !.status = rep.status]
          BY <2>1, <3>1 DEF Synced
        <4>2. rep.status \in Ended /\ rep.scan = run.active /\ rep.status = outcome[run.active]
          BY <1>2, <2>1, <3>1 DEF Ends, ReportsRightly
        <4>3. Synced(p) \in Tracked /\ Synced(p).concluded = run.active /\ Synced(p).status = rep.status
          BY <1>1, <2>1, <4>1, <4>2 DEF Tracked
        <4> QED BY <4>2, <4>3 DEF ConcludesRightly, Ended
      <3>2. CASE ~Ends(run, rep)
        <4>1. Synced(p) = [tracked EXCEPT !.state = run.state]
          BY <2>1, <3>2 DEF Synced
        <4> QED BY <1>1, <1>2, <2>1, <4>1 DEF Tracked, ConcludesRightly
      <3> QED BY <3>1, <3>2
    <2>3. tracked' \in Tracked /\ ConcludesRightly(tracked')
      BY <1>7, <2>2 DEF SyncSaves
    <2>4. PICK r : /\ scanPage' = [scanPage EXCEPT ![p] = r]
                   /\ \/ r = [scanPage[p] EXCEPT !.at = "acting", !.run = IF Ends(run, rep) THEN tracked' ELSE run]
                      \/ r = Closed
      <3>1. CASE Leaves(p)
        BY <3>1 DEF Leaves
      <3>2. CASE ~Leaves(p)
        BY <1>1, <1>7, <2>1, <3>2 DEF SyncSaves
      <3> QED BY <3>1, <3>2
    <2>5. r \in PageRecord /\ ConcludesRightly(r.run) /\ ReportsRightly(r.seen) /\ r.at # "asking"
      <3>1. CASE r = Closed
        BY <3>1, ClosedPage, NothingIsRight
      <3>2. CASE r = [scanPage[p] EXCEPT !.at = "acting", !.run = IF Ends(run, rep) THEN tracked' ELSE run]
        <4>1. r \in PageRecord /\ r.run \in {tracked', run} /\ r.seen = scanPage[p].seen /\ r.at = "acting"
          BY <1>1, <2>1, <2>3, <3>2 DEF PageRecord
        <4> QED BY <1>2, <2>1, <2>3, <4>1
      <3> QED BY <2>4, <3>1, <3>2
    <2>6. UNCHANGED <<started, command>>
      BY <1>7 DEF SyncSaves
    <2> QED BY <2>3, <2>4, <2>5, <2>6, PageKeepsScans
  <1>8. CASE StartsScan(p)
    <2>1. PICK run, rep : run = scanPage[p].run /\ rep = scanPage[p].seen
      OBVIOUS
    <2>2. PICK fresh : fresh = [NoTrack EXCEPT !.state = "discovering", !.active = started + 1, !.since = started + 1]
      OBVIOUS
    <2>3. CASE Detached(run, rep)
      <3>1. tracked' = Attached(run, rep) /\ Leaves(p) /\ UNCHANGED <<started, command>>
        BY <1>8, <2>1, <2>3 DEF StartsScan
      <3>2. Attached(run, rep) \in Tracked /\ ConcludesRightly(Attached(run, rep))
        <4>1. rep.scan \in 0 .. MaxScans
          BY <1>1, <2>1 DEF Seen
        <4> QED BY <1>1, <1>2, <2>1, <4>1, AttachedIsRight
      <3> QED BY <3>1, <3>2, PageKeepsScans, ClosedPage, NothingIsRight DEF Leaves
    <2>4. CASE ~Detached(run, rep) /\ HasActive(run, rep)
      <3>1. Leaves(p) /\ UNCHANGED <<tracked, started, command>>
        BY <1>8, <2>1, <2>4 DEF StartsScan
      <3> QED BY <1>1, <1>2, <3>1, PageKeepsScans, ClosedPage, NothingIsRight DEF Leaves
    <2>5. CASE ~Detached(run, rep) /\ ~HasActive(run, rep)
      <3>1. /\ started' = started + 1 /\ started + 1 \in Scan /\ tracked' = fresh /\ command' = command
            /\ scanPage' = [scanPage EXCEPT ![p] = [Closed EXCEPT !.at = "asking", !.run = fresh]]
        BY <1>8, <2>1, <2>2, <2>5 DEF StartsScan
      <3>2. fresh \in Tracked /\ fresh.active = started + 1 /\ fresh.concluded = NoScan
        <4>1. fresh = [state |-> "discovering", active |-> started + 1, command |-> NoScan, since |-> started + 1,
                       concluded |-> NoScan, status |-> "none"]
          BY <2>2 DEF NoTrack
        <4>2. started + 1 \in 0 .. MaxScans
          BY <3>1 DEF Scan
        <4> QED BY <4>1, <4>2 DEF Tracked, NoScan
      <3>3. PICK r : r = [Closed EXCEPT !.at = "asking", !.run = fresh]
        OBVIOUS
      <3>4. r \in PageRecord /\ r.run = fresh /\ r.seen = Unseen /\ r.at = "asking"
        BY <3>2, <3>3, ClosedPage DEF PageRecord
      <3>5. ConcludesRightly(fresh)
        BY <3>2 DEF ConcludesRightly
      <3> QED BY <3>1, <3>2, <3>3, <3>4, <3>5, PageKeepsScans, NothingIsRight
    <2> QED BY <2>3, <2>4, <2>5
  <1>9. CASE RequestsScan(p)
    <2>1. PICK run : run = scanPage[p].run
      OBVIOUS
    <2>2. PICK recorded : recorded = [run EXCEPT !.command = run.active, !.state = tracked.state]
      OBVIOUS
    <2>3. recorded \in Tracked /\ ConcludesRightly(recorded)
      BY <1>1, <1>2, <2>1, <2>2 DEF Tracked, ConcludesRightly
    <2>4. tracked' \in {tracked, recorded} /\ Leaves(p) /\ started' = started /\ At(p, "asking")
      BY <1>9, <2>1, <2>2 DEF RequestsScan
    <2>5. command' = command \/ command' = [command EXCEPT ![scanPage[p].run.active] = "waiting"]
      BY <1>9 DEF RequestsScan
    <2> QED BY <1>1, <1>2, <2>3, <2>4, <2>5, PageKeepsScans, ClosedPage, NothingIsRight DEF Leaves
  <1>10. CASE CancelsScan(p)
    <2>1. PICK run : run = scanPage[p].run
      OBVIOUS
    <2>2. PICK cancelled : cancelled = [run EXCEPT !.state = "configuring", !.active = NoScan, !.command = NoScan, !.status = "cancelled"]
      OBVIOUS
    <2>3. cancelled \in Tracked /\ ConcludesRightly(cancelled)
      <3>1. cancelled = [state |-> "configuring", active |-> NoScan, command |-> NoScan, since |-> run.since,
                         concluded |-> run.concluded, status |-> "cancelled"]
        BY <1>1, <2>1, <2>2 DEF Tracked
      <3>2. cancelled \in Tracked
        BY <1>1, <2>1, <3>1 DEF Tracked, NoScan, Ended
      <3>3. ConcludesRightly(cancelled)
        BY <3>1 DEF ConcludesRightly
      <3> QED BY <3>2, <3>3
    <2>4. tracked' \in {tracked, cancelled} /\ Leaves(p) /\ UNCHANGED <<started, command>>
      BY <1>10, <2>1, <2>2 DEF CancelsScan
    <2> QED BY <1>1, <1>2, <2>3, <2>4, PageKeepsScans, ClosedPage, NothingIsRight DEF Leaves
  <1> QED BY <1>5, <1>6, <1>7, <1>8, <1>9, <1>10 DEF PageGoesOn

(* The Gateway ends a scan it was asked for, once; its reports say how.    *)
LEMMA OutsideKeepsScans ==
  ASSUME ScanInvariant, NamesScans = TRUE, Outside
  PROVE  ScanInvariant'
  <1> USE DiscoveryAssumption
  <1>1. DiscoveryTypeOK /\ CopiesAreRight /\ AskedOnce /\ EndedOnce
    BY DEF ScanInvariant
  <1>2. UNCHANGED <<tracked, started, scanPage, clock>>
    BY DEF Outside, GatewayScans, CommandFails, ScanAges, GatewayEnds, ReportArrives, ReportGoesStale, trackVars, scannerVars
  <1>3. ASSUME NEW n \in Scan, GatewayScans(n) \/ CommandFails(n) PROVE ScanInvariant'
    <2>1. PICK c \in {"carried", "failed"} :
            /\ command[n] = "waiting" /\ command' = [command EXCEPT ![n] = c]
            /\ scanning' = scanning \/ (scanning' = n /\ c = "carried")
      BY <1>3 DEF GatewayScans, CommandFails, scannerVars
    <2>2. UNCHANGED <<report, age, outcome>>
      BY <1>3 DEF GatewayScans, CommandFails, scannerVars
    <2>3. command' \in [Scan -> {"none", "waiting", "carried", "failed"}] /\ scanning' \in 0 .. MaxScans
      BY <1>1, <2>1 DEF DiscoveryTypeOK, Scan
    <2>4. \A k \in Scan : command'[k] = IF k = n THEN c ELSE command[k]
      BY <1>1, <2>1 DEF DiscoveryTypeOK
    <2>5. DiscoveryTypeOK'
      BY <1>1, <1>2, <2>2, <2>3 DEF DiscoveryTypeOK
    <2>6. CopiesAreRight'
      BY <1>1, <1>2, <2>2 DEF CopiesAreRight, ConcludesRightly, ReportsRightly
    <2>7. AskedOnce'
      BY <1>1, <1>2, <2>1, <2>4 DEF AskedOnce, At
    <2>8. EndedOnce'
      BY <1>1, <2>1, <2>2, <2>4 DEF EndedOnce
    <2> QED BY <2>5, <2>6, <2>7, <2>8 DEF ScanInvariant
  <1>4. ASSUME NEW s \in Ended, GatewayEnds(s) PROVE ScanInvariant'
    <2>1. scanning \in Scan /\ scanning' = NoScan /\ outcome' = [outcome EXCEPT ![scanning] = s]
      BY <1>1, <1>4 DEF GatewayEnds, DiscoveryTypeOK, Scan, NoScan
    <2>2. UNCHANGED <<report, age, command>>
      BY <1>4 DEF GatewayEnds, trackVars
    <2>3. outcome[scanning] = "none" /\ command[scanning] = "carried"
      BY <1>1, <2>1 DEF EndedOnce
    <2>4. \A k \in Scan : outcome'[k] = IF k = scanning THEN s ELSE outcome[k]
      BY <1>1, <2>1 DEF DiscoveryTypeOK
    <2>5. DiscoveryTypeOK'
      <3>1. outcome' \in [Scan -> Ended \cup {"none"}] /\ scanning' \in 0 .. MaxScans
        BY <1>1, <2>1 DEF DiscoveryTypeOK, NoScan
      <3> QED BY <1>1, <1>2, <2>2, <3>1 DEF DiscoveryTypeOK
    <2>6. ASSUME NEW r \in Tracked, ConcludesRightly(r)
          PROVE  r.concluded # NoScan => r.status \in {outcome'[r.concluded], "cancelled"} \ {"none"}
      <3>1. r.concluded # NoScan => r.concluded \in Scan
        BY DEF Tracked, Scan, NoScan
      <3> QED BY <2>3, <2>4, <2>6, <3>1 DEF ConcludesRightly
    <2>7. ASSUME NEW rep, ReportsRightly(rep)
          PROVE  rep.status \in Ended => rep.scan \in Scan /\ rep.status = outcome'[rep.scan]
      BY <2>3, <2>4, <2>7 DEF ReportsRightly, Ended
    <2>8. CopiesAreRight'
      <3>1. tracked \in Tracked /\ \A p \in ScanPage : scanPage[p].run \in Tracked
        BY <1>1 DEF DiscoveryTypeOK
      <3> QED BY <1>1, <1>2, <2>2, <2>6, <2>7, <3>1 DEF CopiesAreRight, ConcludesRightly, ReportsRightly
    <2>9. AskedOnce'
      BY <1>1, <1>2, <2>2 DEF AskedOnce, At
    <2>10. EndedOnce'
      BY <1>1, <2>1, <2>2, <2>3, <2>4 DEF EndedOnce, NoScan, Scan
    <2> QED BY <2>5, <2>8, <2>9, <2>10 DEF ScanInvariant
  <1>5. ASSUME NEW m \in Reports, ReportArrives(m) PROVE ScanInvariant'
    <2>1. UNCHANGED <<age, command, scanning, outcome>>
      BY <1>5 DEF ReportArrives, trackVars, scannerVars
    <2>2. /\ m.scan \in Scan /\ m.ts \in Scan /\ m.updated \in 0 .. 2
          /\ m.status \in Ended \cup {"none", "running"}
          /\ m.status \in Ended => m.status = outcome[m.scan]
      <3>1. \A n \in Scan : outcome[n] \in Ended \cup {"none"} /\ clock[n] \in Scan
        BY <1>1 DEF DiscoveryTypeOK
      <3>2. PICK n \in Scan : \E s \in {"running", outcome[n]}, u \in {1, 2} : m = Message(n, s, u)
        BY DEF Reports
      <3> PICK s \in {"running", outcome[n]}, u \in {1, 2} : m = Message(n, s, u)
        BY <3>2
      <3>3. m.scan = n /\ m.ts = clock[n] /\ m.status = s /\ m.updated = u
        BY DEF Message
      <3> QED BY <3>1, <3>2, <3>3 DEF Ended
    <2>3. m.scan # NoScan /\ m.scan \in 0 .. MaxScans /\ m.ts \in 0 .. MaxScans
      BY <2>2 DEF Scan, NoScan
    <2>4. report' = [scan |-> m.scan, ts |-> m.ts, status |-> m.status, updated |-> m.updated, fresh |-> m.status = "running"]
      BY <1>5, <2>3 DEF ReportArrives, Identified
    <2>5. report' \in [scan: 0 .. MaxScans, ts: 0 .. MaxScans, status: Ended \cup {"none", "running"}, updated: 0 .. 2, fresh: BOOLEAN]
      BY <2>2, <2>3, <2>4
    <2>6. DiscoveryTypeOK'
      BY <1>1, <1>2, <2>1, <2>5 DEF DiscoveryTypeOK
    <2>7. report'.scan = m.scan /\ report'.status = m.status
      BY <2>4
    <2>8. CopiesAreRight'
      BY <1>1, <1>2, <2>1, <2>2, <2>7 DEF CopiesAreRight, ConcludesRightly, ReportsRightly
    <2>9. AskedOnce' /\ EndedOnce'
      BY <1>1, <1>2, <2>1 DEF AskedOnce, EndedOnce, At
    <2> QED BY <2>6, <2>8, <2>9 DEF ScanInvariant
  <1>6. ASSUME ReportGoesStale \/ \E n \in Scan : ScanAges(n) PROVE ScanInvariant'
    <2>1. UNCHANGED <<command, scanning, outcome>>
      BY <1>6 DEF ReportGoesStale, ScanAges, trackVars, scannerVars
    <2>2. report' \in [scan: 0 .. MaxScans, ts: 0 .. MaxScans, status: Ended \cup {"none", "running"}, updated: 0 .. 2, fresh: BOOLEAN]
          /\ report'.scan = report.scan /\ report'.status = report.status
      BY <1>1, <1>6 DEF ReportGoesStale, ScanAges, DiscoveryTypeOK
    <2>3. age' \in [Scan -> 0 .. 2]
      BY <1>1, <1>6 DEF ReportGoesStale, ScanAges, DiscoveryTypeOK
    <2>4. DiscoveryTypeOK'
      BY <1>1, <1>2, <2>1, <2>2, <2>3 DEF DiscoveryTypeOK
    <2>5. CopiesAreRight'
      BY <1>1, <1>2, <2>1, <2>2 DEF CopiesAreRight, ConcludesRightly, ReportsRightly
    <2>6. AskedOnce' /\ EndedOnce'
      BY <1>1, <1>2, <2>1 DEF AskedOnce, EndedOnce, At
    <2> QED BY <2>4, <2>5, <2>6 DEF ScanInvariant
  <1> QED BY <1>3, <1>4, <1>5, <1>6 DEF Outside

(* A scan is concluded, and shown as ended, only as the Gateway ended that *)
(* scan, however many pages saved the run from old copies and whichever    *)
(* reports were lost, repeated or overtaken                                *)
(* (deployment_setup.sync_setup_run, discovery_scan_state) - provided the  *)
(* Gateway puts the scan's id into its reports, without which a late       *)
(* report counts as one of the scan that is followed.                      *)
THEOREM LateResultsAreHarmless ==
  ASSUME NamesScans = TRUE PROVE DiscoverySpec => []LateResultsConcludeNothing
  <1>1. ScanInvariant /\ [DiscoveryNext]_discoveryVars => ScanInvariant'
    <2> SUFFICES ASSUME ScanInvariant, [DiscoveryNext]_discoveryVars PROVE ScanInvariant'
      OBVIOUS
    <2>1. ASSUME NEW p \in ScanPage, PageGoesOn(p), UNCHANGED <<report, age, scannerVars>> PROVE ScanInvariant'
      BY <2>1, PagesKeepInvariant
    <2>2. CASE Outside
      BY <2>2, OutsideKeepsScans
    <2>3. CASE UNCHANGED discoveryVars
      BY <2>3 DEF discoveryVars, trackVars, scannerVars, ScanInvariant, DiscoveryTypeOK, CopiesAreRight, ConcludesRightly,
                  ReportsRightly, AskedOnce, EndedOnce, At
    <2> QED BY <2>1, <2>2, <2>3 DEF DiscoveryNext
  <1>2. ScanInvariant => LateResultsConcludeNothing
    <2> SUFFICES ASSUME ScanInvariant PROVE LateResultsConcludeNothing
      OBVIOUS
    <2>1. tracked.concluded # NoScan => tracked.status \in {outcome[tracked.concluded], "cancelled"} \ {"none"}
      BY DEF ScanInvariant, CopiesAreRight, ConcludesRightly
    <2>2. ASSUME tracked.active # NoScan
          PROVE  ShownScan(tracked, report) \in {outcome[tracked.active], "scanning", "stopped", "refused", "never started"}
      BY <2>2 DEF ScanInvariant, CopiesAreRight, ReportsRightly, ShownScan
    <2> QED BY <2>1, <2>2 DEF LateResultsConcludeNothing
  <1> QED BY <1>1, <1>2, ScansStart, PTL DEF DiscoverySpec

=============================================================================
