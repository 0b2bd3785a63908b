------------------------------- MODULE MCPages -------------------------------
(***************************************************************************)
(* What people do on the team's and the staff's pages, with requests that  *)
(* overlap: equipment drafts, members, the command centre's layouts, the   *)
(* review of shared maps, private templates, requests for a template, and  *)
(* the register of sites, gateways and equipment.  The parts share no      *)
(* column of any row that their properties read, so a behaviour explores   *)
(* the part its initial state chose.                                       *)
(***************************************************************************)
EXTENDS EquipmentDrafts, TeamMembership, CommandCenter, TemplateReview, TeamTemplates,
        TemplateRequests, FleetRegistry

VARIABLE focus

setupPages == <<draftVars, fleetVars>>
teamPages == <<teamVars, layoutVars>>
templatePages == <<reviewVars, templateVars, helpVars>>
vars == <<focus, setupPages, teamPages, templatePages>>

\* A plan for one gateway and one piece of equipment, and one for two of each.
Plans == {[boxes |-> 1, machines |-> 1], [boxes |-> 2, machines |-> 2]}

(* Only the chosen part has more than one initial state.                    *)
Init ==
    /\ focus \in {"drafts", "fleet", "team", "layouts", "review", "templates", "requests"}
    /\ DraftInit /\ FleetInit
    /\ TeamInit /\ LayoutInit
    /\ ReviewInit /\ TemplatesInit /\ HelpInit
    /\ focus # "fleet" => limit.boxes = 1
    /\ focus # "review" => catalog = << >>

SetupPageStep ==
    \/ focus = "drafts" /\ DraftNext /\ UNCHANGED fleetVars
    \/ focus = "fleet" /\ FleetNext /\ UNCHANGED draftVars

TeamPageStep ==
    \/ focus = "team" /\ TeamNext /\ UNCHANGED layoutVars
    \/ focus = "layouts" /\ LayoutNext /\ UNCHANGED teamVars

TemplatePageStep ==
    \/ focus = "review" /\ ReviewNext /\ UNCHANGED <<templateVars, helpVars>>
    \/ focus = "templates" /\ TemplatesNext /\ UNCHANGED <<reviewVars, helpVars>>
    \/ focus = "requests" /\ HelpNext /\ UNCHANGED <<reviewVars, templateVars>>

Next ==
    /\ UNCHANGED focus
    /\ \/ SetupPageStep /\ UNCHANGED <<teamPages, templatePages>>
       \/ TeamPageStep /\ UNCHANGED <<setupPages, templatePages>>
       \/ TemplatePageStep /\ UNCHANGED <<setupPages, teamPages>>

Spec == Init /\ [][Next]_vars
=============================================================================
