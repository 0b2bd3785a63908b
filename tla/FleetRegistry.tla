---------------------------- MODULE FleetRegistry ----------------------------
(***************************************************************************)
(* A team's sites, gateways and equipment (devices/views, claim_gateway_   *)
(* for_team) under the limits of its plan.  A request checks first and     *)
(* writes later; a gateway's row is locked by quick add, a claim locks the *)
(* inventory row of its serial number.  One ownership of each gateway is   *)
(* followed.                                                               *)
(***************************************************************************)
EXTENDS Naturals, FiniteSets

CONSTANTS
    Place,          \* sites
    Box,            \* gateways, by serial number
    FleetRequest,   \* requests under way at once
    FleetLimits,    \* what a plan may allow: records of boxes and machines
    MaxMachines     \* bound on equipment ever created

ASSUME FleetAssumption == MaxMachines \in Nat /\ FleetLimits \subseteq [boxes : Nat, machines : Nat]

VARIABLES
    place,       \* the sites there are
    box,         \* Gateway: where it is, its lifecycle, whether a release was asked for
    machine,     \* Device rows: where, behind which gateway, on its discovered port or not
    born,        \* devices created so far
    limit,       \* what the plan allows
    fleetRequest,\* what each request does, and what it read
    overtaken    \* the requests whose reading is followed by another's writing

fleetVars == <<place, box, machine, born, limit, fleetRequest, overtaken>>

NoBox == [at |-> "nowhere"]
NoMachine == [place |-> "nowhere"]
Quiet == [op |-> "quiet"]
Machines == {d \in 1 .. MaxMachines : machine[d] # NoMachine}
Boxes == {g \in Box : box[g] # NoBox}
Counted == {g \in Boxes : box[g].phase # "released"}
MachinesOf(g) == {d \in Machines : machine[d].box = g}

FleetTypeOK ==
    /\ place \subseteq Place /\ limit \in FleetLimits /\ born \in 0 .. MaxMachines
    /\ \A g \in Boxes : box[g] \in [at : Place, phase : {"live", "leaving", "released"}, asked : BOOLEAN]
    /\ \A d \in Machines : d <= born /\ machine[d] \in [place : Place, box : Box \cup {"none"}, port : BOOLEAN]
    /\ overtaken \subseteq FleetRequest

FleetInit ==
    /\ place = Place /\ box = [g \in Box |-> NoBox]
    /\ machine = [d \in 1 .. MaxMachines |-> NoMachine] /\ born = 0
    /\ limit \in FleetLimits
    /\ fleetRequest = [q \in FleetRequest |-> Quiet] /\ overtaken = {}

-----------------------------------------------------------------------------
(* What a request reads is overtaken by whatever is written before it ends. *)
Pending == {q \in FleetRequest : fleetRequest[q] # Quiet}
Asks(q, r) ==
    /\ fleetRequest[q] = Quiet
    /\ fleetRequest' = [fleetRequest EXCEPT ![q] = r]
    /\ UNCHANGED <<place, box, machine, born, limit, overtaken>>
FleetAnswers(q) ==
    /\ fleetRequest' = [fleetRequest EXCEPT ![q] = Quiet]
    /\ overtaken' = Pending \ {q}
Overtakes == overtaken' = Pending /\ UNCHANGED fleetRequest

Busy(q, op) == fleetRequest[q].op = op
Held(g) == \E q \in FleetRequest : Busy(q, "quick") /\ fleetRequest[q].box = g
Claiming(g) == \E q \in FleetRequest : Busy(q, "claim") /\ fleetRequest[q].box = g

MachineAllowed == Cardinality(Machines) < limit.machines
BoxAllowed == Cardinality(Counted) < limit.boxes
New(row) == born < MaxMachines /\ born' = born + 1 /\ machine' = [machine EXCEPT ![born + 1] = row]

(* claim_gateway_for_team: the plan is asked while the serial number's      *)
(* inventory row is locked, which says nothing of other serial numbers; the *)
(* team's own gateway is claimed again without asking.                     *)
AsksToClaim(q, g, s) ==
    /\ s \in place /\ box[g] = NoBox /\ ~Claiming(g) /\ BoxAllowed
    /\ Asks(q, [op |-> "claim", box |-> g, place |-> s])

Claims(q) ==
    LET r == fleetRequest[q] IN
    /\ Busy(q, "claim")
    /\ box' = IF r.place \in place
                 THEN [box EXCEPT ![r.box] = [at |-> r.place, phase |-> "live", asked |-> FALSE]] ELSE box
    /\ FleetAnswers(q)
    /\ UNCHANGED <<place, machine, born, limit>>

ClaimsAgain(g, s) ==
    /\ s \in place /\ g \in Counted /\ ~Held(g)
    /\ box' = [box EXCEPT ![g].at = s, ![g].phase = "live"]
    /\ Overtakes
    /\ UNCHANGED <<place, machine, born, limit>>

(* GatewayUpdateView saves the whole row it loaded, its lifecycle included. *)
OpensBoxForm(q, g) == g \in Boxes /\ Asks(q, [op |-> "box", box |-> g, copy |-> box[g]])
SavesBoxForm(q, s) ==
    LET r == fleetRequest[q] IN
    /\ Busy(q, "box") /\ ~Held(r.box) /\ s \in place
    /\ box' = [box EXCEPT ![r.box] = [at |-> s, phase |-> r.copy.phase, asked |-> box[r.box] # NoBox /\ box[r.box].asked]]
    /\ FleetAnswers(q)
    /\ UNCHANGED <<place, machine, born, limit>>

(* A release ends with the gateway's equipment; its row stays.              *)
AsksForRelease(g) ==
    /\ g \in Counted /\ ~Held(g) /\ ~box[g].asked
    /\ box' = [box EXCEPT ![g].phase = "leaving", ![g].asked = TRUE]
    /\ Overtakes
    /\ UNCHANGED <<place, machine, born, limit>>

Released(g) ==
    /\ g \in Boxes /\ ~Held(g) /\ box[g].asked
    /\ box[g].phase # "released"
    /\ box' = [box EXCEPT ![g].phase = "released"]
    /\ machine' = [d \in DOMAIN machine |-> IF d \in MachinesOf(g) THEN NoMachine ELSE machine[d]]
    /\ Overtakes
    /\ UNCHANGED <<place, born, limit>>

-----------------------------------------------------------------------------
(* DeviceCreateView: the plan is asked before the form is read, and the     *)
(* gateway must be at the chosen site; nothing is locked.                  *)
AsksToAdd(q, s, g) ==
    /\ MachineAllowed /\ s \in place
    /\ g # "none" => g \in Boxes /\ box[g].at = s
    /\ Asks(q, [op |-> "add", place |-> s, box |-> g])

AddsMachine(q) ==
    LET r == fleetRequest[q] IN
    /\ Busy(q, "add")
    /\ IF r.place \in place /\ (r.box = "none" \/ box[r.box] # NoBox)
          THEN New([place |-> r.place, box |-> r.box, port |-> FALSE])
          ELSE UNCHANGED <<machine, born>>
    /\ FleetAnswers(q)
    /\ UNCHANGED <<place, box, limit>>

(* htmx_device_create: under the gateway's lock, the equipment on the port  *)
(* of the gateway's site is replaced, or else the plan is asked.           *)
Replaced(g) == {d \in MachinesOf(g) : machine[d].port /\ machine[d].place = box[g].at}
SpareOrResolving(resolve, on) == resolve \/ MachineAllowed   \* mutated form of Spare
Spare(resolve, on) == (resolve /\ on # {}) \/ MachineAllowed
AsksToQuickAdd(q, g, resolve) ==
    /\ g \in Boxes /\ ~Held(g)
    /\ Spare(resolve, Replaced(g))
    /\ \E on \in IF resolve /\ Replaced(g) # {} THEN {{d} : d \in Replaced(g)} ELSE {{}} :
         Asks(q, [op |-> "quick", box |-> g, place |-> box[g].at, on |-> on])

QuickAdds(q) ==
    LET r == fleetRequest[q] IN
    /\ Busy(q, "quick")
    /\ IF r.place \in place
          THEN /\ born < MaxMachines /\ born' = born + 1
               /\ machine' = [d \in DOMAIN machine |->
                                IF d = born + 1 THEN [place |-> r.place, box |-> r.box, port |-> TRUE]
                                ELSE IF d \in r.on THEN NoMachine ELSE machine[d]]
          ELSE UNCHANGED <<machine, born>>
    /\ FleetAnswers(q)
    /\ UNCHANGED <<place, box, limit>>

(* DeviceUpdateView saves the whole row under its key: equipment deleted    *)
(* meanwhile comes back, as long as its site and gateway are there.        *)
OpensName(q, d) == d \in Machines /\ Asks(q, [op |-> "name", machine |-> d, copy |-> machine[d]])
SavesName(q) ==
    LET r == fleetRequest[q] IN
    /\ Busy(q, "name")
    /\ machine' = IF r.copy.place \in place /\ (r.copy.box = "none" \/ box[r.copy.box] # NoBox)
                     THEN [machine EXCEPT ![r.machine] = r.copy] ELSE machine
    /\ FleetAnswers(q)
    /\ UNCHANGED <<place, box, born, limit>>

DeletesMachine(d) ==
    /\ d \in Machines
    /\ machine' = [machine EXCEPT ![d] = NoMachine]
    /\ Overtakes
    /\ UNCHANGED <<place, box, born, limit>>

(* SiteDeleteView: a site with gateway records stays; with the others goes  *)
(* all that points at them, unless a release's record protects a gateway.   *)
AsksToClose(q, s) == s \in place /\ (\A g \in Boxes : box[g].at # s) /\ Asks(q, [op |-> "close", place |-> s])
Closes(q) ==
    LET s == fleetRequest[q].place
        lost == {g \in Boxes : box[g].at = s}
    IN  /\ Busy(q, "close")
        /\ IF \E g \in lost : box[g].asked \/ Held(g) THEN UNCHANGED <<place, box, machine>>
           ELSE /\ place' = place \ {s}
                /\ box' = [g \in Box |-> IF g \in lost THEN NoBox ELSE box[g]]
                /\ machine' = [d \in DOMAIN machine |->
                                 IF d \in Machines /\ (machine[d].place = s \/ machine[d].box \in lost) THEN NoMachine ELSE machine[d]]
        /\ FleetAnswers(q)
        /\ UNCHANGED <<born, limit>>

\* A subscription is bought, changed or ends.
PlanChanges ==
    /\ limit' \in FleetLimits \ {limit}
    /\ Overtakes
    /\ UNCHANGED <<place, box, machine, born>>

FleetRequestStep(q) ==
    \/ \E g \in Box, s \in Place : AsksToClaim(q, g, s)
    \/ \E g \in Box : OpensBoxForm(q, g) \/ (\E resolve \in BOOLEAN : AsksToQuickAdd(q, g, resolve))
    \/ \E s \in Place : AsksToClose(q, s) \/ SavesBoxForm(q, s) \/ (\E g \in Box \cup {"none"} : AsksToAdd(q, s, g))
    \/ \E d \in 1 .. MaxMachines : OpensName(q, d)
    \/ Claims(q) \/ AddsMachine(q) \/ QuickAdds(q) \/ SavesName(q) \/ Closes(q)

FleetNext ==
    \/ \E q \in FleetRequest : FleetRequestStep(q)
    \/ \E g \in Box : AsksForRelease(g) \/ Released(g) \/ (\E s \in Place : ClaimsAgain(g, s))
    \/ \E d \in 1 .. MaxMachines : DeletesMachine(d)
    \/ PlanChanges

FleetSpec == FleetInit /\ [][FleetNext]_fleetVars

-----------------------------------------------------------------------------
Ending == {q \in Pending : fleetRequest'[q] = Quiet}
Grows(old, new, most) == Cardinality(new) > Cardinality(old) /\ Cardinality(new) > most

(* The plan's limits are exceeded only by a request that something else     *)
(* overtook between its check and its write: never by one request alone,    *)
(* whichever page it came from (enforcement.py:57-79, views.py:895, 1415).  *)
OnlyOverlapsExceedThePlan ==
    [][(Grows(Machines, Machines', limit.machines) \/ Grows(Counted, Counted', limit.boxes))
          => \E q \in Ending : q \in overtaken]_fleetVars

(* Equipment is at the site of its gateway, as the form that adds it        *)
(* demands (views.py:915).  The code does not keep this: README.md, "Known  *)
(* divergences".                                                            *)
SiteFollowsGateway == \A d \in Machines : machine[d].box # "none" => machine[d].place = box[machine[d].box].at

(* A gateway that was moved to another site keeps its equipment when the    *)
(* old site is deleted, as the page that refuses the deletion suggests      *)
(* (views.py:277).  The code does not keep this: README.md, "Known          *)
(* divergences".                                                            *)
MovedGatewaysKeepEquipment ==
    [][\A q \in FleetRequest : Busy(q, "close") /\ fleetRequest'[q] = Quiet
          => \A d \in Machines : machine[d].box \in Counted /\ box[machine[d].box].at # fleetRequest[q].place
                => d \in Machines']_fleetVars
=============================================================================
