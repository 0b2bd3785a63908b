--------------------------- MODULE TemplateRequests ---------------------------
(***************************************************************************)
(* Paid help with a template (devices/template_help, template_help_views,  *)
(* admin): the customer asks and answers, staff quote, work and deliver a   *)
(* private map.  Only the delivery locks the request; the admin's form     *)
(* saves the whole row, with the values its page was opened with.           *)
(***************************************************************************)
EXTENDS Naturals, FiniteSets

CONSTANTS
    HelpRequest,    \* requests, about one piece of equipment in setup
    Visitor,        \* customers' requests under way
    MaxMaps         \* bound on deliveries of one request

ASSUME HelpAssumption == MaxMaps \in Nat \ {0}

VARIABLES
    help,       \* EquipmentTemplateRequest
    delivered,  \* the maps made for each request
    validated,  \* the equipment's setup row is validated
    desk,       \* the admin's change form
    visit       \* what each customer does, and what they read

helpVars == <<help, delivered, validated, desk, visit>>

Settled == {"completed", "closed"}
HelpStatus == {"submitted", "more_info", "quoted", "in_progress", "ready_to_test"} \cup Settled
NoRequest == [status |-> "none", paid |-> FALSE, linked |-> FALSE, replied |-> FALSE, map |-> FALSE]
Nothing == [op |-> "nothing", on |-> CHOOSE h \in HelpRequest : TRUE, row |-> NoRequest]

HelpTypeOK ==
    /\ help \in [HelpRequest -> [status : HelpStatus \cup {"none"}, paid : BOOLEAN, linked : BOOLEAN, replied : BOOLEAN, map : BOOLEAN]]
    /\ delivered \in [HelpRequest -> 0 .. MaxMaps] /\ validated \in BOOLEAN
    /\ desk.op \in {"nothing", "open", "posted"}
    /\ \A v \in Visitor : visit[v].op \in {"nothing", "ask", "reply"}

HelpInit ==
    /\ help = [h \in HelpRequest |-> NoRequest]
    /\ delivered = [h \in HelpRequest |-> 0]
    /\ validated = FALSE
    /\ desk = Nothing
    /\ visit = [v \in Visitor |-> Nothing]

-----------------------------------------------------------------------------
Visits(v, op, h, row) ==
    /\ visit[v].op = "nothing"
    /\ visit' = [visit EXCEPT ![v] = [op |-> op, on |-> h, row |-> row]]
Leaves(v) == visit' = [visit EXCEPT ![v] = Nothing]
Open(h) == help[h].status \notin Settled \cup {"none"}

(* create_help_request: an open request of the same equipment, or the same  *)
(* words within five minutes, is returned instead of a second one.          *)
LooksForRequest(v) ==
    /\ \E linked \in BOOLEAN :
         /\ linked => ~\E h \in HelpRequest : Open(h) /\ help[h].linked
         /\ Visits(v, "ask", Nothing.on, [NoRequest EXCEPT !.status = "submitted", !.linked = linked])
    /\ UNCHANGED <<help, delivered, validated, desk>>

CreatesRequest(v) ==
    /\ visit[v].op = "ask"
    /\ \E h \in HelpRequest : help[h].status = "none" /\ help' = [help EXCEPT ![h] = visit[v].row]
    /\ Leaves(v)
    /\ UNCHANGED <<delivered, validated, desk>>

(* template_help_detail: asked for more information, the customer replies.  *)
ReadsQuestion(v, h) ==
    /\ help[h].status = "more_info"
    /\ Visits(v, "reply", h, NoRequest)
    /\ UNCHANGED <<help, delivered, validated, desk>>
Replies(v) ==
    /\ visit[v].op = "reply"
    /\ help' = [help EXCEPT ![visit[v].on].status = "submitted", ![visit[v].on].replied = TRUE]
    /\ Leaves(v)
    /\ UNCHANGED <<delivered, validated, desk>>

(* The delivered map is put to use (onboarding/views.py): the request learns *)
(* its equipment, whose readings are tested, confirmed and tested again.    *)
LinksEquipment(h) ==
    /\ help[h].status = "ready_to_test" /\ help[h].map /\ ~help[h].linked
    /\ help' = [help EXCEPT ![h].linked = TRUE]
    /\ UNCHANGED <<delivered, validated, desk, visit>>
ReadingsConfirmed ==
    /\ validated' = ~validated
    /\ UNCHANGED <<help, delivered, desk, visit>>

-----------------------------------------------------------------------------
(* EquipmentTemplateRequest.clean.                                          *)
Follows(status) ==
    CASE status = "submitted"     -> {"more_info", "quoted", "closed"}
      [] status = "more_info"     -> {"submitted", "quoted", "closed"}
      [] status = "quoted"        -> {"in_progress", "closed"}
      [] status = "in_progress"   -> {"ready_to_test", "closed"}
      [] status = "ready_to_test" -> {"in_progress", "completed", "closed"}
      [] status \in Settled       -> {}

CleanForgetsPayment(previous, row) ==                 \* mutated form
    /\ row.status \in {previous} \cup Follows(previous)
    /\ row.status \in {"ready_to_test", "completed"} => row.map
    /\ row.status = "completed" => row.linked /\ validated
Clean(previous, row) ==
    /\ row.status \in {previous} \cup Follows(previous)
    /\ row.status \in {"in_progress", "ready_to_test", "completed"} => row.paid
    /\ row.status \in {"ready_to_test", "completed"} => row.map
    /\ row.status = "completed" => row.linked /\ validated

\* The page is opened, ...
OpensForm(h) ==
    /\ desk.op = "nothing" /\ help[h].status # "none"
    /\ desk' = [op |-> "open", on |-> h, row |-> help[h]]
    /\ UNCHANGED <<help, delivered, validated, visit>>

(* ... posted, when the row is read for what the form does not carry and   *)
(* checked against the status it has now, ...                              *)
PostsForm ==
    LET h == desk.on IN
    /\ desk.op = "open"
    /\ \E status \in HelpStatus, paid \in BOOLEAN, linked \in {desk.row.linked, TRUE} :
         LET row == [desk.row EXCEPT !.status = status, !.paid = paid, !.linked = linked, !.map = help[h].map]
         IN  Clean(help[h].status, row) /\ desk' = [op |-> "posted", on |-> h, row |-> row]
    /\ UNCHANGED <<help, delivered, validated, visit>>

\* ... and the row saved.
SavesForm ==
    /\ desk.op = "posted"
    /\ help' = [help EXCEPT ![desk.on] = desk.row]
    /\ desk' = Nothing
    /\ UNCHANGED <<delivered, validated, visit>>

LeavesForm ==
    /\ desk.op = "open"
    /\ desk' = Nothing
    /\ UNCHANGED <<help, delivered, validated, visit>>

(* deliver_help_map, with the row locked.                                   *)
Delivers(h) ==
    /\ help[h].status = "in_progress" /\ help[h].paid /\ ~help[h].map
    /\ delivered[h] < MaxMaps
    /\ delivered' = [delivered EXCEPT ![h] = @ + 1]
    /\ help' = [help EXCEPT ![h].map = TRUE, ![h].status = "ready_to_test"]
    /\ UNCHANGED <<validated, desk, visit>>

HelpNext ==
    \/ PostsForm \/ SavesForm \/ LeavesForm \/ ReadingsConfirmed
    \/ \E h \in HelpRequest : OpensForm(h) \/ Delivers(h) \/ LinksEquipment(h)
    \/ \E v \in Visitor : \/ LooksForRequest(v) \/ CreatesRequest(v) \/ Replies(v)
                          \/ \E h \in HelpRequest : ReadsQuestion(v, h)

HelpSpec == HelpInit /\ [][HelpNext]_helpVars

-----------------------------------------------------------------------------
(* However forms, replies and deliveries overlap, Novena works only on what *)
(* is paid for or waived, and tells the customer that a map is ready, or    *)
(* the request complete, only while it names a delivered map.              *)
WorkIsPaidFor ==
    \A h \in HelpRequest :
        /\ help[h].status \in {"in_progress", "ready_to_test", "completed"} => help[h].paid
        /\ help[h].status \in {"ready_to_test", "completed"} => help[h].map /\ delivered[h] > 0

(* A closed or completed request stays so.  The code does not keep this:    *)
(* README.md, "Known divergences".                                         *)
SettledRequestsStay ==
    [][\A h \in HelpRequest : help[h].status \in Settled => help'[h].status = help[h].status]_helpVars

(* A request gets one map.  The code does not keep this: README.md, "Known  *)
(* divergences".                                                           *)
OneMapPerRequest == \A h \in HelpRequest : delivered[h] < 2

(* What the customer replied is kept.  The code does not keep this:         *)
(* README.md, "Known divergences".                                         *)
RepliesAreKept == [][\A h \in HelpRequest : help[h].replied => help'[h].replied]_helpVars

(* A piece of equipment has one open request.  The code does not keep this: *)
(* README.md, "Known divergences".                                         *)
OneOpenRequest == Cardinality({h \in HelpRequest : Open(h) /\ help[h].linked}) < 2
=============================================================================
