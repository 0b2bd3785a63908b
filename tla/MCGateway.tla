------------------------------ MODULE MCGateway ------------------------------
(***************************************************************************)
(* What belongs to one gateway serial: its credentials and its release,    *)
(* and the attribution of what it sends.  The two share no variable that   *)
(* either could disturb, so a behaviour explores the one its initial state *)
(* chose.                                                                  *)
(***************************************************************************)
EXTENDS GatewayRelease, TelemetryRouting

VARIABLE focus

ownershipVars == <<activationVars, releaseVars>>
gatewayVars == <<focus, ownershipVars, routingVars>>

GatewayInit ==
    /\ focus \in {"ownership", "routing"}
    /\ Init
    /\ RoutingInit

GatewayNext ==
    /\ UNCHANGED focus
    /\ \/ focus = "ownership" /\ Next /\ UNCHANGED routingVars
       \/ focus = "routing" /\ RoutingNext /\ UNCHANGED ownershipVars

GatewaySpec == GatewayInit /\ [][GatewayNext]_gatewayVars
=============================================================================
