-------------------------- MODULE MaintenanceTickets ------------------------
(***************************************************************************)
(* One maintenance ticket, worked on by the team, through WhatsApp and by  *)
(* a contractor with a shared link, from apps/maintenance.  Every request  *)
(* reads the whole row and saves the whole row, so requests overwrite each *)
(* other; the contractor may close the job only with the required tasks    *)
(* done, and the link revokes itself then.                                 *)
(***************************************************************************)
EXTENDS Naturals, FiniteSets

CONSTANTS
    Item,        \* tasks of the checklist
    Required,    \* those that must be done before a contractor closes the job
    Request      \* requests in progress at once

ASSUME ItemAssumption == Required \subseteq Item

VARIABLES
    ticket,     \* the MaintenanceTicket row
    link,       \* the SharedTicketLink row
    request     \* per request, what it does and the row it has read

ticketVars == <<ticket, link, request>>

TicketStatus == {"open", "in_progress", "waiting", "resolved", "closed"}
Finished == {"resolved", "closed"}

Row == [status : TicketStatus, done : SUBSET Item, closedAt : BOOLEAN]

Operation ==
    [name : {"toggle", "done"}, item : Item] \union [name : {"status", "guestStatus"}, status : TicketStatus]
      \union [name : {"none", "view", "autoRevoke"}]

NoRequest == [op |-> [name |-> "none"], row |-> [status |-> "open", done |-> {}, closedAt |-> FALSE]]

TicketTypeOK ==
    /\ ticket \in Row
    /\ link \in {"none", "active", "revoked"}
    /\ request \in [Request -> [op : Operation, row : Row]]

(* auto_create_ticket and create_pm_ticket: an open ticket with a copy of  *)
(* the template's checklist, nothing done.                                 *)
TicketInit ==
    /\ ticket = NoRequest.row
    /\ link = "none"
    /\ request = [q \in Request |-> NoRequest]

-----------------------------------------------------------------------------
GenerateLink ==
    /\ link = "none"
    /\ link' = "active"
    /\ UNCHANGED <<ticket, request>>

RevokeLink ==
    /\ link = "active"
    /\ link' = "revoked"
    /\ UNCHANGED <<ticket, request>>

ReadTicket(q, op) ==
    /\ request[q].op.name = "none"
    /\ request' = [request EXCEPT ![q] = [op |-> op, row |-> ticket]]
    /\ UNCHANGED <<ticket, link>>

(* update_ticket_status, toggle_checklist_item and the WhatsApp commands   *)
(* STATUS and DONE; a contractor toggles with the link.                    *)
TeamReads(q) ==
    \/ \E s \in TicketStatus : ReadTicket(q, [name |-> "status", status |-> s])
    \/ \E i \in Item, name \in {"toggle", "done"} : ReadTicket(q, [name |-> name, item |-> i])

(* public_update_status refuses to finish a job with required tasks open.  *)
MayFinish(s) == s \in Finished => Required \subseteq ticket.done

GuestReads(q) ==
    /\ link = "active"
    /\ \/ ReadTicket(q, [name |-> "view"])
       \/ \E i \in Item : ReadTicket(q, [name |-> "toggle", item |-> i])
       \/ \E s \in TicketStatus : MayFinish(s) /\ ReadTicket(q, [name |-> "guestStatus", status |-> s])

(* MaintenanceTicket.save stamps the closing and writes every column.      *)
StatusColumns(row, op) ==   \* mutated form
    IF op.name = "guestStatus" THEN [ticket EXCEPT !.status = row.status] ELSE row
Saved(row, op) == [row EXCEPT !.closedAt = @ \/ row.status \in Finished]

Toggled(done, i) == IF i \in done THEN done \ {i} ELSE done \union {i}

AfterOp(row, op) ==
    IF op.name = "toggle" THEN [row EXCEPT !.done = Toggled(@, op.item)]
    ELSE IF op.name = "done" THEN [row EXCEPT !.done = @ \union {op.item}]
    ELSE [row EXCEPT !.status = op.status]

EndRequest(q) == request' = [request EXCEPT ![q] = NoRequest]

SaveTicket(q) ==
    LET op == request[q].op IN
    /\ op.name \in {"toggle", "done", "status", "guestStatus"}
    /\ ticket' = Saved(AfterOp(request[q].row, op), op)
    /\ IF op.name = "guestStatus" /\ op.status \in Finished
       THEN request' = [request EXCEPT ![q] = [NoRequest EXCEPT !.op = [name |-> "autoRevoke"]]]
       ELSE EndRequest(q)
    /\ UNCHANGED link

(* auto_revoke_on_resolve, after the ticket, the comment and the mail.     *)
AutoRevoke(q) ==
    /\ request[q].op.name = "autoRevoke"
    /\ link' = "revoked"
    /\ EndRequest(q)
    /\ UNCHANGED ticket

(* public_ticket_view counts the visit in two columns of the link it read. *)
SaveView(q) ==
    /\ request[q].op.name = "view"
    /\ EndRequest(q)
    /\ UNCHANGED <<ticket, link>>

TicketNext ==
    \/ GenerateLink
    \/ RevokeLink
    \/ \E q \in Request : TeamReads(q) \/ GuestReads(q) \/ SaveTicket(q) \/ AutoRevoke(q) \/ SaveView(q)

TicketSpec == TicketInit /\ [][TicketNext]_ticketVars

-----------------------------------------------------------------------------
(* A contractor never leaves a job finished with a required task open,     *)
(* although the team edits the checklist between the check and the save.   *)
ContractorFinishesCompleteJobs ==
    [][\A q \in Request :
          /\ request[q].op.name = "guestStatus"
          /\ request'[q] # request[q]
          /\ ticket'.status \in Finished
          => Required \subseteq ticket'.done]_ticketVars
=============================================================================
