------------------------------- MODULE MCSetup -------------------------------
(***************************************************************************)
(* Guided Setup's tests and deployment, its scans, and the application of  *)
(* a plan change to the gateways.  They share no column of any row, so a   *)
(* behaviour explores the part its initial state chose.                    *)
(***************************************************************************)
EXTENDS GuidedSetup, EquipmentDiscovery, PlanReconciliation

VARIABLE focus

vars == <<focus, setupVars, discoveryVars, planVars>>

Init ==
    /\ focus \in {"run", "discovery", "plan"}
    /\ SetupInit /\ DiscoveryInit /\ PlanInit
    /\ focus # "discovery" => clock = [n \in Scan |-> n]
    /\ focus # "run" => \A i \in Equipment : device[i].conn = CHOOSE n \in Connection : TRUE

Next ==
    /\ UNCHANGED focus
    /\ \/ focus = "run" /\ SetupNext /\ UNCHANGED <<discoveryVars, planVars>>
       \/ focus = "discovery" /\ DiscoveryNext /\ UNCHANGED <<setupVars, planVars>>
       \/ focus = "plan" /\ PlanNext /\ UNCHANGED <<setupVars, discoveryVars>>

(* The fairness of each part, for the behaviours that explore it.           *)
Fairness ==
    /\ \A p \in Page : WF_setupVars(focus = "run" /\ PageStep(p))
    /\ WF_setupVars(focus = "run" /\ ConfigSettles)
    /\ \A p \in ScanPage : WF_trackVars(focus = "discovery" /\ PageGoesOn(p))
    /\ WF_report(focus = "discovery" /\ ReportGoesStale)
    /\ \A n \in Scan : WF_age(focus = "discovery" /\ ScanAges(n))
    /\ \A e \in PlanEvent : WF_planVars(focus = "plan" /\ \E x \in Runner : Begin(x, e))
    /\ \A e \in PlanEvent : WF_planVars(focus = "plan" /\ FiveMinutesPass(e))
    /\ \A x \in Runner : WF_planVars(focus = "plan" /\ Proceed(x))

Spec == Init /\ [][Next]_vars /\ Fairness
=============================================================================
