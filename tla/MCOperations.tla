---------------------------- MODULE MCOperations ----------------------------
(***************************************************************************)
(* The parts of the Hub that share no state with each other and promise    *)
(* only safety: the background services, the impact accounting and the     *)
(* first-customer journey.  A behaviour explores the part its initial      *)
(* state chose; the others stand still.                                    *)
(***************************************************************************)
EXTENDS TrackedEmail, AutomationRules, MaintenanceTickets, CustomerJourney,
        EnergyMetering, ColdChain, ImpactFigures, ImpactReports, ImpactValues

VARIABLE focus

serviceVars == <<mailVars, autoVars, ticketVars, journeyVars>>
impactVars == <<meterVars, coldVars, figuresVars, reportVars, valuesVars>>
vars == <<focus, serviceVars, impactVars>>

(* Only the chosen part has more than one initial state.                    *)
Init ==
    /\ focus \in {"mail", "automation", "ticket", "journey", "meter", "cold", "figures", "reports", "values"}
    /\ MailInit /\ AutoInit /\ TicketInit /\ JourneyInit
    /\ MeterInit /\ ColdInit /\ FiguresInit /\ ReportsInit /\ ValuesInit
    /\ focus # "meter" => meter.kind = "power" /\ meter.rollover /\ sample = [at |-> 0, value |-> 0]
    /\ focus # "cold" => probe = [at |-> 0, value |-> ColdMax]
    /\ focus # "figures" => inputs.now = CHOOSE i \in Inputs : TRUE
    /\ focus # "values" => vertical = "energy" /\ terms = CHOOSE t \in Terms : TRUE

ServiceStep ==
    \/ focus = "mail" /\ MailNext /\ UNCHANGED <<autoVars, ticketVars, journeyVars>>
    \/ focus = "automation" /\ AutoNext /\ UNCHANGED <<mailVars, ticketVars, journeyVars>>
    \/ focus = "ticket" /\ TicketNext /\ UNCHANGED <<mailVars, autoVars, journeyVars>>
    \/ focus = "journey" /\ JourneyNext /\ UNCHANGED <<mailVars, autoVars, ticketVars>>

ImpactStep ==
    \/ focus = "meter" /\ MeterNext /\ UNCHANGED <<coldVars, figuresVars, reportVars, valuesVars>>
    \/ focus = "cold" /\ ColdNext /\ UNCHANGED <<meterVars, figuresVars, reportVars, valuesVars>>
    \/ focus = "figures" /\ FiguresNext /\ UNCHANGED <<meterVars, coldVars, reportVars, valuesVars>>
    \/ focus = "reports" /\ ReportsNext /\ UNCHANGED <<meterVars, coldVars, figuresVars, valuesVars>>
    \/ focus = "values" /\ ValuesNext /\ UNCHANGED <<meterVars, coldVars, figuresVars, reportVars>>

Next ==
    /\ UNCHANGED focus
    /\ \/ ServiceStep /\ UNCHANGED impactVars
       \/ ImpactStep /\ UNCHANGED serviceVars

Spec == Init /\ [][Next]_vars

-----------------------------------------------------------------------------
(* A day read well and one read badly; terms with and without a tariff.      *)
Meters == {"main", "line", "power"}
TwoOnOne == [main |-> "supply", line |-> "machine", power |-> "machine"]
InOrder == [main |-> 1, power |-> 2, line |-> 3]
OneCounter == {"line"}
MainSupply == {"main"}
Days == {[energy |-> 3, after |-> 1, idle |-> 1, covered |-> 90], [energy |-> 1, after |-> 0, idle |-> 1, covered |-> 60]}
OneTicket == {[downtime |-> 1, labor |-> 1]}
Rooms == {[sensors |-> FALSE, covered |-> 0, risk |-> NoValue, unresolved |-> 0],
          [sensors |-> TRUE, covered |-> 85, risk |-> 4, unresolved |-> 1]}
Entered == [energy |-> 2, downtime |-> NoValue, labor |-> 1]
Nowhere == [k \in Usage |-> NoValue]
Offers == {[currency |-> "SGD", price |-> Entered, base |-> 0, supplied |-> Nowhere, recurring |-> 1, oneTime |-> 3, months |-> 2],
           [currency |-> "USD", price |-> Nowhere, base |-> NoValue, supplied |-> Entered, recurring |-> 0, oneTime |-> 0, months |-> 1]}
Found == {[k \in Usage |-> 3]}
=============================================================================
