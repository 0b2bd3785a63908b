-------------------------- MODULE GatewayActivation -------------------------
(***************************************************************************)
(* Credentials of one claimed gateway, from apps/devices/activation.py,    *)
(* apps/devices/mqtt_provisioning.py and the consumer's attribute and      *)
(* bootstrap handlers.  Every claim or reissue escrows a password under a  *)
(* new generation; the password is put into the broker, delivered to the   *)
(* gateway and wiped when the gateway acknowledges it.                     *)
(*                                                                         *)
(* Provisioning talks to the broker inside a transaction that holds the    *)
(* gateway's row, so it is three steps with a lock between them; the       *)
(* expiry of the maintenance loop and the consumer hold no lock, so what   *)
(* they read and what they save are steps apart.  The gateway and the      *)
(* broker are external.  Operators marked "mutated form" take no part in   *)
(* the specification.                                                      *)
(***************************************************************************)
EXTENDS Naturals

CONSTANT MaxGeneration   \* bound on the generations issued: the code has none

ASSUME GenerationAssumption == MaxGeneration \in Nat \ {0}

VARIABLES
    lifecycle,    \* Gateway.lifecycle_status
    inventory,    \* whose GatewayInventory row it is: this claim, free, or the next claim
    generation,   \* the latest generation
    activation,   \* GatewayActivation.status of each generation
    overdue,      \* the generations whose expires_at has passed
    escrow,       \* the generations whose encrypted password is stored
    broker,       \* the generation whose password the broker accepts, or Nobody
    provisioning, \* the generation being provisioned under the gateway's lock
    created,      \* that provisioning has put the password into the broker
    expiring,     \* generations the expiry has read and not yet saved
    edge,         \* the generation the gateway was delivered last
    acks,         \* the acknowledgements the gateway sent; they repeat
    loaded,       \* the lifecycle in the gateway object the consumer works with
    saving        \* the consumer is about to save online

recordVars == <<generation, activation, overdue, escrow>>
provisionVars == <<broker, provisioning, created>>
edgeVars == <<edge, acks>>
consumerVars == <<loaded, saving>>
activationVars ==
    <<lifecycle, inventory, recordVars, provisionVars, expiring, edgeVars, consumerVars>>

Generation == 1..MaxGeneration
Nobody == 0

(* The credentials of the claim that follows a release of this one.        *)
NextOwner == MaxGeneration + 1

(* claimed stands for bootstrap_seen and activating, online for            *)
(* commissioning and active: no line here tells them apart.                *)
Quarantined == {"release_pending", "released"}
Lifecycle == {"claimed", "online"} \cup Quarantined

(* delivered stands for retried and pending for failed.                    *)
Unresolved == {"provisioning", "retry", "pending", "delivered"}
ActivationStatus == {"none"} \cup Unresolved \cup {"acknowledged", "expired", "superseded"}

ActivationTypeOK ==
    /\ lifecycle \in Lifecycle
    /\ inventory \in {"this", "free", "next"}
    /\ generation \in Generation
    /\ activation \in [Generation -> ActivationStatus]
    /\ overdue \subseteq Generation
    /\ escrow \subseteq Generation
    /\ broker \in 0..NextOwner
    /\ provisioning \in 0..MaxGeneration
    /\ created \in BOOLEAN
    /\ expiring \subseteq Generation
    /\ edge \in 0..MaxGeneration
    /\ acks \subseteq Generation \X {"success", "failed"}
    /\ loaded \in {"nothing"} \cup Lifecycle
    /\ saving \in BOOLEAN

(* The gateway has just been claimed, which queued the first generation.   *)
ActivationInit ==
    /\ lifecycle = "claimed"
    /\ inventory = "this"
    /\ generation = 1
    /\ activation = [g \in Generation |-> IF g = 1 THEN "provisioning" ELSE "none"]
    /\ overdue = {}
    /\ escrow = {1}
    /\ broker = Nobody
    /\ provisioning = Nobody
    /\ created = FALSE
    /\ expiring = {}
    /\ edge = Nobody
    /\ acks = {}
    /\ loaded = "nothing"
    /\ saving = FALSE

(* What provisioning locks: the gateway's row, and that of the generation. *)
NeverLocked(g) == TRUE   \* mutated form
GatewayUnlocked == provisioning = Nobody
RowUnlocked(g) == provisioning # g

-----------------------------------------------------------------------------
(* queue_gateway_activation.                                               *)
Issue ==
    /\ GatewayUnlocked
    /\ generation < MaxGeneration
    /\ generation' = generation + 1
    /\ activation' = [g \in Generation |->
          IF g = generation' THEN "provisioning"
          ELSE IF activation[g] \in Unresolved THEN "superseded" ELSE activation[g]]
    /\ escrow' = {g \in escrow : activation[g] \notin Unresolved} \cup {generation'}
    /\ UNCHANGED <<overdue, provisionVars, expiring, edgeVars, consumerVars>>

(* claim_gateway_for_team, for a serial number whose gateway row is not    *)
(* released; it looks at no release request.                               *)
ClaimAgain ==
    /\ Issue
    /\ lifecycle # "released"
    /\ lifecycle' = IF lifecycle = "online" THEN "online" ELSE "claimed"
    /\ inventory' = "this"

Live(g) == activation[g] \in Unresolved /\ g \notin overdue

(* reissue_activation_for_gateway: forced by a person, or asked for by the *)
(* gateway when no live activation is left.  With one left it schedules    *)
(* Provision, which may always run.                                        *)
Reissue(force) ==
    /\ inventory = "this"
    /\ lifecycle \notin Quarantined
    /\ force \/ ~Live(generation)
    /\ Issue
    /\ UNCHANGED <<lifecycle, inventory>>

-----------------------------------------------------------------------------
(* What provision_gateway_activation and deliver_gateway_activation ask    *)
(* under the locks; a missing secret raises.                               *)
Deliverable(g) ==
    /\ GatewayUnlocked
    /\ g = generation
    /\ activation[g] \in Unresolved

(* What expire_gateway_activation saves.                                   *)
SecretKept(g) == escrow   \* mutated form
SecretWiped(g) == escrow \ {g}

Expired(g) ==
    /\ activation' = [activation EXCEPT ![g] = "expired"]
    /\ escrow' = SecretWiped(g)
    /\ UNCHANGED <<generation, overdue>>

FoundOverdue(g) ==
    /\ Deliverable(g)
    /\ g \in overdue
    /\ Expired(g)
    /\ UNCHANGED <<lifecycle, inventory, provisionVars, expiring, edgeVars, consumerVars>>

(* provision_gateway_activation takes its locks,                           *)
ProvisionStarts(g) ==
    /\ Deliverable(g)
    /\ g \in escrow \ overdue
    /\ provisioning' = g
    /\ UNCHANGED <<lifecycle, inventory, recordVars, broker, created, expiring, edgeVars, consumerVars>>

(* runs provision_gateway_mqtt, which creates the client or gives it the   *)
(* new password,                                                           *)
ProvisionBroker ==
    /\ provisioning # Nobody
    /\ broker' = provisioning
    /\ created' = TRUE
    /\ UNCHANGED <<lifecycle, inventory, recordVars, provisioning, expiring, edgeVars, consumerVars>>

(* and commits: pending with a new expiry, and delivered if the gateway    *)
(* was seen; retry if the broker failed or did not answer; nothing if the  *)
(* worker died.                                                            *)
ProvisionEnds ==
    LET g == provisioning
    IN  /\ g # Nobody
        /\ provisioning' = Nobody
        /\ created' = FALSE
        /\ \/ /\ created
              /\ \E s \in {"pending", "delivered"} :
                    /\ activation' = [activation EXCEPT ![g] = s]
                    /\ edge' = IF s = "delivered" THEN g ELSE edge
              /\ overdue' = overdue \ {g}
           \/ /\ activation' = [activation EXCEPT ![g] = "retry"]
              /\ UNCHANGED <<overdue, edge>>
           \/ UNCHANGED <<activation, overdue, edge>>
        /\ UNCHANGED <<lifecycle, inventory, generation, escrow, broker, expiring, acks, consumerVars>>

(* deliver_gateway_activation, from the maintenance loop: its list is      *)
(* older than the row, but only a generation once provisioned is on it.    *)
Deliver(g) ==
    /\ Deliverable(g)
    /\ activation[g] # "provisioning"
    /\ g \in escrow \ overdue
    /\ \E s \in {"pending", "delivered"} : activation' = [activation EXCEPT ![g] = s]
    /\ edge' \in {edge, g}
    /\ activation'[g] = "delivered" => edge' = g
    /\ UNCHANGED <<lifecycle, inventory, generation, overdue, escrow, provisionVars, expiring, acks, consumerVars>>

-----------------------------------------------------------------------------
TimeIsUp(g) ==
    /\ Live(g)
    /\ overdue' = overdue \cup {g}
    /\ UNCHANGED <<lifecycle, inventory, generation, activation, escrow, provisionVars, expiring, edgeVars, consumerVars>>

(* expire_and_retry_gateway_activations lists what is overdue, and         *)
(* expire_gateway_activation saves it: without a lock, but not while       *)
(* another transaction holds the row.                                      *)
ExpiryReads(g) ==
    /\ activation[g] \in Unresolved
    /\ g \in overdue
    /\ expiring' = expiring \cup {g}
    /\ UNCHANGED <<lifecycle, inventory, recordVars, provisionVars, edgeVars, consumerVars>>

ExpirySaves(g) ==
    /\ g \in expiring
    /\ RowUnlocked(g)
    /\ Expired(g)
    /\ expiring' = expiring \ {g}
    /\ UNCHANGED <<lifecycle, inventory, provisionVars, edgeVars, consumerVars>>

-----------------------------------------------------------------------------
(* The gateway tries what it was delivered last and answers as it went.    *)
EdgeAnswers ==
    /\ edge # Nobody
    /\ acks' = acks \cup {<<edge, IF broker = edge THEN "success" ELSE "failed">>}
    /\ UNCHANGED <<lifecycle, inventory, recordVars, provisionVars, expiring, edge, consumerVars>>

(* _resolve_inbound_gateway: the consumer loads the gateway with the       *)
(* message.  One that is being released is heard for its reset only.       *)
ConsumerLoads ==
    /\ loaded = "nothing"
    /\ inventory = "this"
    /\ lifecycle # "released"
    /\ loaded' = lifecycle
    /\ UNCHANGED <<lifecycle, inventory, recordVars, provisionVars, expiring, edgeVars, saving>>

Working == loaded \in {"claimed", "online"} /\ ~saving

(* acknowledge_gateway_activation.                                         *)
TakesAcknowledgement(g) ==
    /\ g = generation
    /\ activation[g] \notin {"expired", "superseded"}
    /\ RowUnlocked(g)

StatusIsAnswer(g, answer) == answer   \* mutated form
AnswersAlike(g, answer) == "acknowledged"   \* mutated form
AfterAcknowledgement(g, answer) ==
    IF answer = "success" \/ activation[g] = "acknowledged" THEN "acknowledged" ELSE "pending"

Acknowledge(g, answer) ==
    /\ Working
    /\ <<g, answer>> \in acks
    /\ TakesAcknowledgement(g)
    /\ activation' = [activation EXCEPT ![g] = AfterAcknowledgement(g, answer)]
    /\ escrow' = IF activation'[g] = "acknowledged" THEN escrow \ {g} ELSE escrow
    /\ saving' = (answer = "success")
    /\ loaded' = IF answer = "success" THEN loaded ELSE "nothing"
    /\ UNCHANGED <<lifecycle, inventory, generation, overdue, provisionVars, expiring, edgeVars>>

(* The other messages: a heartbeat saves online over claimed, a bootstrap  *)
(* hello saves bootstrap_seen over claimed, an accepted configuration is   *)
(* followed by a save of active, the rest save no lifecycle.  A            *)
(* configuration is accepted until a release has deleted it.               *)
OtherMessage ==
    /\ Working
    /\ \/ /\ loaded = "claimed"
          /\ lifecycle' \in {"claimed", "online"}
          /\ UNCHANGED inventory
       \/ UNCHANGED <<lifecycle, inventory>>
    /\ loaded' = "nothing"
    /\ UNCHANGED <<recordVars, provisionVars, expiring, edgeVars, saving>>

ConfigurationAccepted ==
    /\ Working
    /\ lifecycle # "released"
    /\ saving' = TRUE
    /\ UNCHANGED <<lifecycle, inventory, recordVars, provisionVars, expiring, edgeVars, loaded>>

ConsumerSaves ==
    /\ saving
    /\ lifecycle' = "online"
    /\ saving' = FALSE
    /\ loaded' = "nothing"
    /\ UNCHANGED <<inventory, recordVars, provisionVars, expiring, edgeVars>>

ActivationNext ==
    \/ ClaimAgain
    \/ \E force \in BOOLEAN : Reissue(force)
    \/ \E g \in Generation :
          \/ FoundOverdue(g) \/ ProvisionStarts(g) \/ Deliver(g)
          \/ TimeIsUp(g) \/ ExpiryReads(g) \/ ExpirySaves(g)
    \/ ProvisionBroker
    \/ ProvisionEnds
    \/ EdgeAnswers
    \/ ConsumerLoads
    \/ \E g \in Generation, answer \in {"success", "failed"} : Acknowledge(g, answer)
    \/ OtherMessage
    \/ ConfigurationAccepted
    \/ ConsumerSaves

-----------------------------------------------------------------------------
(* A password stays in escrow only while it may still have to be           *)
(* delivered: no expiry, late save, supersession or acknowledgement leaves *)
(* one behind (models.GatewayActivation, "durable activation attempt").    *)
EscrowIsShort == \A g \in escrow : activation[g] \in Unresolved
=============================================================================
