-------------------------- MODULE OperationsProofs --------------------------
(***************************************************************************)
(* What the background services, the impact accounting and the customer's  *)
(* journey keep for any number of workers, samples and rows: one section   *)
(* for each of the parts that MCOperations composes, each about that       *)
(* part's own specification.                                               *)
(***************************************************************************)
EXTENDS TrackedEmail, AutomationRules, MaintenanceTickets, CustomerJourney,
        AlertRules, EnergyMetering, ColdChain, ImpactFigures, ImpactReports, ImpactValues,
        FiniteSetTheorems, SequenceTheorems, WellFoundedInduction, TLAPS

-----------------------------------------------------------------------------
(* Sets of numbers: a least element, and with a bound a greatest.           *)
LEMMA LeastNumber ==
    ASSUME NEW S \in SUBSET Nat, S # {}
    PROVE  \E m \in S : \A n \in S : m <= n
<1>1. PICK m \in S : \A n \in S : ~(<<n, m>> \in OpToRel(<, Nat))
  BY NatLessThanWellFounded, WFMin, Zenon
<1>2. \A n \in S : ~(n < m)
  BY <1>1 DEF OpToRel
<1>3. QED BY <1>2

LEMMA GreatestNumber ==
    ASSUME NEW S \in SUBSET Nat, S # {}, NEW bound \in Nat, \A n \in S : n <= bound
    PROVE  \E m \in S : \A n \in S : n <= m
<1> DEFINE Above == {b \in Nat : \A n \in S : n <= b}
<1>1. PICK m \in Above : \A b \in Above : m <= b
  <2>1. bound \in Above
    OBVIOUS
  <2>2. Above \in SUBSET Nat /\ Above # {}
    BY <2>1
  <2> HIDE DEF Above
  <2>3. QED BY <2>2, LeastNumber
<1>2. m \in S
  <2>1. SUFFICES ASSUME m \notin S PROVE FALSE
    OBVIOUS
  <2>2. \A n \in S : n < m
    BY <2>1, <1>1
  <2>3. m # 0
    <3>1. PICK n \in S : n < m
      BY <2>2
    <3>2. n \in Nat /\ m \in Nat
      OBVIOUS
    <3>3. QED BY <3>1, <3>2
  <2>4. m - 1 \in Above
    BY <2>2, <2>3, <1>1
  <2>5. QED BY <2>4, <1>1
<1>3. \A n \in S : m >= n
  BY <1>1
<1>4. QED BY <1>2, <1>3

-----------------------------------------------------------------------------
(* Tracked mail (TrackedEmail): a task that saves "sent" had the provider's *)
(* answer, and events come only of mail that was taken.                    *)
MailInv == MailTypeOK /\ SettledMailWasTaken /\ \A t \in MailTask : mailAt[t] = "answered" => mailed

LEMMA MailStep == MailInv /\ [MailNext]_mailVars => MailInv'
<1> SUFFICES ASSUME MailInv, [MailNext]_mailVars PROVE MailInv'
  OBVIOUS
<1> USE DEF MailInv, MailTypeOK, SettledMailWasTaken, EventStatus, DELIVERY_FINAL_STATUSES, Go
<1>1. CASE TrackingEvent
  BY <1>1 DEF TrackingEvent
<1>2. ASSUME NEW t \in MailTask, QueueMail(t) \/ OpenDelivery(t) PROVE MailInv'
  BY <1>2 DEF QueueMail, OpenDelivery
<1>3. ASSUME NEW t \in MailTask, StartAttempt(t) PROVE MailInv'
  BY <1>3 DEF StartAttempt, RecordedAttempt
<1>4. ASSUME NEW t \in MailTask, CallProvider(t) PROVE MailInv'
  BY <1>4 DEF CallProvider
<1>5. ASSUME NEW t \in MailTask, SaveSent(t) PROVE MailInv'
  BY <1>5 DEF SaveSent
<1>6. ASSUME NEW t \in MailTask, SaveFailed(t) PROVE MailInv'
  <2>1. mailTries' \in [MailTask -> 0 .. MaxRetries]
    <3>1. CASE mailTries[t] < MaxRetries
      <4>1. mailTries[t] + 1 \in 0 .. MaxRetries
        BY <3>1, MailAssumption
      <4>2. mailTries' = [mailTries EXCEPT ![t] = mailTries[t] + 1]
        BY <1>6, <3>1 DEF SaveFailed
      <4>3. QED BY <4>1, <4>2
    <3>2. CASE ~(mailTries[t] < MaxRetries)
      BY <1>6, <3>2 DEF SaveFailed
    <3>3. QED BY <3>1, <3>2
  <2>2. \E point \in {"queued", "ended"} : mailAt' = [mailAt EXCEPT ![t] = point]
    BY <1>6 DEF SaveFailed
  <2>3. mailStatus' = "failed" /\ UNCHANGED mailed
    BY <1>6 DEF SaveFailed
  <2>4. QED BY <2>1, <2>2, <2>3
<1>7. ASSUME NEW t \in MailTask, MailWorkerDies(t) PROVE MailInv'
  BY <1>7 DEF MailWorkerDies
<1>8. CASE UNCHANGED mailVars
  BY <1>8 DEF mailVars
<1>9. QED BY <1>1, <1>2, <1>3, <1>4, <1>5, <1>6, <1>7, <1>8 DEF MailNext

(* A delivery shown as settled was taken by the provider, for any number of *)
(* tasks with the one notification and any retries of them.                *)
THEOREM SettledMailTaken == MailSpec => []SettledMailWasTaken
<1>1. ASSUME MailInit PROVE MailInv
  <2>1. mailTries \in [MailTask -> 0 .. MaxRetries]
    <3>1. 0 \in 0 .. MaxRetries
      BY MailAssumption
    <3>2. mailTries = [t \in MailTask |-> 0]
      BY <1>1 DEF MailInit
    <3>3. QED BY <3>1, <3>2
  <2>2. mailAt = [t \in MailTask |-> "new"] /\ mailStatus = "none" /\ mailed = FALSE
    BY <1>1 DEF MailInit
  <2>3. QED BY <2>1, <2>2 DEF MailInv, MailTypeOK, SettledMailWasTaken, DELIVERY_FINAL_STATUSES
<1>2. MailInv => SettledMailWasTaken
  BY DEF MailInv
<1>3. QED BY <1>1, <1>2, MailStep, PTL DEF MailSpec

-----------------------------------------------------------------------------
(* Automations (AutomationRules): a condition's state in the cache goes     *)
(* back to a payload that met it.                                          *)
AutoInv ==
    /\ AutoTypeOK
    /\ \A c \in Condition : metSince[c] # 0 => \E t \in 1 .. tick : heard[t][c] = "met"

ReportedWhenActing ==
    \A w \in AutoWorker : Goes(w) =>
        \A c \in Condition : /\ heard'[tick][c] # "unmet"
                             /\ \E t \in 1 .. tick : heard'[t][c] = "met"

LEMMA AutoStep == AutoInv /\ [AutoNext]_autoVars => AutoInv' /\ ReportedWhenActing
<1> SUFFICES ASSUME AutoInv, [AutoNext]_autoVars PROVE AutoInv' /\ ReportedWhenActing
  OBVIOUS
<1>t. /\ tick \in 1 .. LastTick /\ LastTick \in Nat /\ Sustain \in Nat
      /\ heard \in [1 .. LastTick -> [Condition -> Verdict]]
      /\ metSince \in [Condition -> 0 .. LastTick] /\ firedAt \in 0 .. LastTick /\ executing \subseteq AutoWorker
      /\ \A c \in Condition : metSince[c] # 0 => \E t \in 1 .. tick : heard[t][c] = "met"
  BY AutoAssumption DEF AutoInv, AutoTypeOK
<1>1. CASE AutoTick
  <2>1. tick' = tick + 1 /\ tick < LastTick /\ UNCHANGED <<heard, metSince, firedAt, executing>>
    BY <1>1 DEF AutoTick
  <2>2. tick' \in 1 .. LastTick /\ \A t \in 1 .. tick : t \in 1 .. tick'
    BY <2>1, <1>t
  <2>3. AutoInv'
    BY <2>1, <2>2, <1>t DEF AutoInv, AutoTypeOK
  <2>4. QED BY <2>1, <2>3 DEF ReportedWhenActing, Goes
<1>2. ASSUME NEW w \in AutoWorker, ExecuteAutomation(w) PROVE AutoInv' /\ ReportedWhenActing
  <2>1. firedAt' = tick /\ executing' = executing \ {w} /\ UNCHANGED <<tick, heard, metSince>>
    BY <1>2 DEF ExecuteAutomation
  <2>2. AutoInv'
    BY <2>1, <1>t DEF AutoInv, AutoTypeOK
  <2>3. QED BY <2>1, <2>2 DEF ReportedWhenActing, Goes
<1>3. ASSUME NEW w \in AutoWorker, EvaluatePayload(w) PROVE AutoInv' /\ ReportedWhenActing
  <2>1. PICK payload \in [Condition -> Verdict] :
          /\ heard' = [heard EXCEPT ![tick] = payload]
          /\ IF CoolingDown
             THEN UNCHANGED <<metSince, executing>>
             ELSE /\ metSince' = [c \in Condition |-> StateAfter(c, payload[c])]
                  /\ executing' = IF \A c \in Condition : Satisfied(metSince'[c])
                                  THEN executing \union {w} ELSE executing
    BY <1>3 DEF EvaluatePayload
  <2>2. heard[tick] = Nothing /\ UNCHANGED <<tick, firedAt>>
    BY <1>3 DEF EvaluatePayload
  <2>3. heard' \in [1 .. LastTick -> [Condition -> Verdict]] /\ heard'[tick] = payload
    BY <2>1, <1>t
  <2>4. \A c \in Condition, t \in 1 .. tick : heard[t][c] = "met" => heard'[t][c] = "met"
    BY <2>1, <2>2, <1>t DEF Nothing
  <2>5. CASE CoolingDown
    <3>1. AutoInv'
      BY <2>1, <2>2, <2>3, <2>4, <2>5, <1>t DEF AutoInv, AutoTypeOK
    <3>2. QED BY <3>1, <2>1, <2>5 DEF ReportedWhenActing, Goes
  <2>6. CASE ~CoolingDown
    <3>1. ASSUME NEW c \in Condition
          PROVE  /\ metSince'[c] \in 0 .. LastTick
                 /\ metSince'[c] # 0 => payload[c] # "unmet" /\ \E t \in 1 .. tick : heard'[t][c] = "met"
      <4>1. metSince'[c] = StateAfter(c, payload[c])
        BY <2>1, <2>6
      <4>2. CASE payload[c] = "met"
        <5>1. metSince'[c] \in {metSince[c], tick}
          BY <4>1, <4>2 DEF StateAfter
        <5>2. tick \in 1 .. tick /\ tick \in 0 .. LastTick
          BY <1>t
        <5>3. QED BY <5>1, <5>2, <4>2, <2>3, <1>t
      <4>3. CASE payload[c] = "unmet"
        BY <4>1, <4>3, <1>t DEF StateAfter
      <4>4. CASE payload[c] = "absent"
        <5>1. metSince'[c] = metSince[c]
          BY <4>1, <4>4 DEF StateAfter
        <5>2. QED BY <5>1, <4>4, <2>4, <1>t
      <4>5. QED BY <4>2, <4>3, <4>4 DEF Verdict
    <3>2. metSince' \in [Condition -> 0 .. LastTick] /\ executing' \subseteq AutoWorker
      <4>1. metSince' = [c \in Condition |-> metSince'[c]]
        BY <2>1, <2>6
      <4>2. QED BY <4>1, <3>1, <2>1, <2>6, <1>t
    <3>3. AutoInv'
      BY <3>1, <3>2, <2>2, <2>3, <1>t DEF AutoInv, AutoTypeOK
    <3>4. ASSUME NEW v \in AutoWorker, Goes(v), NEW c \in Condition
          PROVE  heard'[tick][c] # "unmet" /\ \E t \in 1 .. tick : heard'[t][c] = "met"
      <4>1. metSince'[c] # 0
        BY <3>4, <2>1, <2>6 DEF Goes, Satisfied
      <4>2. QED BY <4>1, <3>1, <2>3
    <3>5. QED BY <3>3, <3>4 DEF ReportedWhenActing
  <2>7. QED BY <2>5, <2>6
<1>4. CASE UNCHANGED autoVars
  BY <1>4, <1>t DEF autoVars, AutoInv, AutoTypeOK, ReportedWhenActing, Goes
<1>5. QED BY <1>1, <1>2, <1>3, <1>4 DEF AutoNext

(* An automation acts only on conditions that a payload met and the latest *)
(* payload does not break, for any conditions, workers and times.          *)
THEOREM ActsOnReports == AutoSpec => ActsOnReportedConditions
<1>1. AutoInit => AutoInv
  BY AutoAssumption DEF AutoInit, AutoInv, AutoTypeOK, Nothing, Verdict
<1>2. AutoInv /\ [AutoNext]_autoVars => AutoInv'
  BY AutoStep
<1>3. AutoInv /\ [AutoNext]_autoVars
        => [\A w \in AutoWorker : Goes(w) =>
              \A c \in Condition : /\ heard'[tick][c] # "unmet"
                                   /\ \E t \in 1 .. tick : heard'[t][c] = "met"]_autoVars
  BY AutoStep DEF ReportedWhenActing
<1>4. QED BY <1>1, <1>2, <1>3, PTL DEF AutoSpec, ActsOnReportedConditions

-----------------------------------------------------------------------------
(* Maintenance tickets (MaintenanceTickets): a contractor's request to      *)
(* finish the job still holds the complete checklist that it checked.      *)
GuestChecked(q) == request[q].op.name = "guestStatus" /\ request[q].op.status \in Finished
                     => Required \subseteq request[q].row.done
TicketInv == TicketTypeOK /\ \A q \in Request : GuestChecked(q)

FinishesComplete ==
    \A q \in Request : /\ request[q].op.name = "guestStatus"
                       /\ request'[q] # request[q]
                       /\ ticket'.status \in Finished
                       => Required \subseteq ticket'.done

LEMMA RowSaved == ASSUME NEW row \in Row, NEW op \in Operation,
                         op.name \in {"toggle", "done", "status", "guestStatus"}
                  PROVE  /\ Saved(AfterOp(row, op), op) \in Row
                         /\ op.name = "guestStatus" => /\ Saved(AfterOp(row, op), op).status = op.status
                                                       /\ Saved(AfterOp(row, op), op).done = row.done
<1> DEFINE new == AfterOp(row, op)
<1>1. CASE op.name \in {"toggle", "done"}
  <2>1. op.item \in Item
    BY <1>1 DEF Operation
  <2>2. \E done \in SUBSET Item : new = [row EXCEPT !.done = done]
    <3>1. row.done \in SUBSET Item
      BY DEF Row
    <3>2. CASE op.name = "toggle"
      <4>1. Toggled(row.done, op.item) \in SUBSET Item
        BY <2>1, <3>1 DEF Toggled
      <4>2. QED BY <4>1, <3>2 DEF AfterOp
    <3>3. CASE op.name = "done"
      <4>1. row.done \union {op.item} \in SUBSET Item
        BY <2>1, <3>1
      <4>2. QED BY <4>1, <3>3 DEF AfterOp
    <3>4. QED BY <1>1, <3>2, <3>3
  <2>3. new \in Row
    BY <2>2 DEF Row
  <2> HIDE DEF new
  <2>4. Saved(new, op) \in Row
    BY <2>3 DEF Saved, Row, Finished
  <2>5. QED BY <2>4, <1>1 DEF new
<1>2. CASE op.name \in {"status", "guestStatus"}
  <2>1. op.status \in TicketStatus
    BY <1>2 DEF Operation
  <2>2. new = [row EXCEPT !.status = op.status]
    BY <1>2 DEF AfterOp
  <2>3. new \in Row /\ new.status = op.status /\ new.done = row.done
    BY <2>1, <2>2 DEF Row
  <2> HIDE DEF new
  <2>4. Saved(new, op) \in Row /\ Saved(new, op).status = new.status /\ Saved(new, op).done = new.done
    BY <2>3 DEF Saved, Row, Finished
  <2>5. QED BY <2>3, <2>4 DEF new
<1>3. QED BY <1>1, <1>2

LEMMA TicketStep == TicketInv /\ [TicketNext]_ticketVars => TicketInv' /\ FinishesComplete
<1> SUFFICES ASSUME TicketInv, [TicketNext]_ticketVars PROVE TicketInv' /\ FinishesComplete
  OBVIOUS
<1>t. /\ ticket \in Row /\ link \in {"none", "active", "revoked"}
      /\ request \in [Request -> [op : Operation, row : Row]]
  BY DEF TicketInv, TicketTypeOK
<1>n. NoRequest \in [op : Operation, row : Row] /\ NoRequest.op.name = "none"
  BY DEF NoRequest, Operation, Row, TicketStatus
<1>0. ASSUME NEW q \in Request, NEW next \in [op : Operation, row : Row],
             request' = [request EXCEPT ![q] = next], ticket' \in Row, link' \in {"none", "active", "revoked"},
             next.op.name = "guestStatus" /\ next.op.status \in Finished => Required \subseteq next.row.done
      PROVE  TicketInv'
  <2>1. request' \in [Request -> [op : Operation, row : Row]] /\ request'[q] = next
    BY <1>0, <1>t
  <2>2. \A other \in Request \ {q} : request'[other] = request[other]
    BY <1>0, <1>t
  <2>3. QED BY <1>0, <2>1, <2>2 DEF TicketInv, TicketTypeOK, GuestChecked
<1>1. CASE UNCHANGED request /\ UNCHANGED ticket /\ link' \in {"none", "active", "revoked"}
  BY <1>1 DEF TicketInv, TicketTypeOK, GuestChecked, FinishesComplete
<1>2. ASSUME NEW q \in Request, NEW op \in Operation, ReadTicket(q, op),
             op.name = "guestStatus" => (op.status \in Finished => Required \subseteq ticket.done)
      PROVE  TicketInv' /\ FinishesComplete
  <2> DEFINE asked == [op |-> op, row |-> ticket]
  <2>1. request' = [request EXCEPT ![q] = asked] /\ request[q].op.name = "none" /\ UNCHANGED <<ticket, link>>
    BY <1>2 DEF ReadTicket
  <2>2. asked.op = op /\ asked.row = ticket /\ asked \in [op : Operation, row : Row]
    BY <1>t
  <2> HIDE DEF asked
  <2>3. TicketInv'
    BY <1>0, <2>1, <2>2, <1>2, <1>t
  <2>4. FinishesComplete
    BY <2>1, <1>t DEF FinishesComplete
  <2>5. QED BY <2>3, <2>4
<1>3. ASSUME NEW q \in Request, TeamReads(q) PROVE TicketInv' /\ FinishesComplete
  <2>1. CASE \E s \in TicketStatus : ReadTicket(q, [name |-> "status", status |-> s])
    BY <1>2, <2>1 DEF Operation
  <2>2. CASE \E i \in Item, name \in {"toggle", "done"} : ReadTicket(q, [name |-> name, item |-> i])
    BY <1>2, <2>2 DEF Operation
  <2>3. QED BY <1>3, <2>1, <2>2 DEF TeamReads
<1>4. ASSUME NEW q \in Request, GuestReads(q) PROVE TicketInv' /\ FinishesComplete
  <2>1. CASE ReadTicket(q, [name |-> "view"])
    BY <1>2, <2>1 DEF Operation
  <2>2. CASE \E i \in Item : ReadTicket(q, [name |-> "toggle", item |-> i])
    BY <1>2, <2>2 DEF Operation
  <2>3. CASE \E s \in TicketStatus : MayFinish(s) /\ ReadTicket(q, [name |-> "guestStatus", status |-> s])
    BY <1>2, <2>3 DEF Operation, MayFinish
  <2>4. QED BY <1>4, <2>1, <2>2, <2>3 DEF GuestReads
<1>5. ASSUME NEW q \in Request, AutoRevoke(q) \/ SaveView(q) PROVE TicketInv' /\ FinishesComplete
  <2>1. /\ request' = [request EXCEPT ![q] = NoRequest] /\ UNCHANGED ticket
        /\ link' \in {"none", "active", "revoked"} /\ request[q].op.name # "guestStatus"
    BY <1>5, <1>t DEF AutoRevoke, SaveView, EndRequest
  <2>2. TicketInv'
    BY <1>0, <2>1, <1>n, <1>t
  <2>3. FinishesComplete
    BY <2>1, <1>t DEF FinishesComplete
  <2>4. QED BY <2>2, <2>3
<1>6. ASSUME NEW q \in Request, SaveTicket(q) PROVE TicketInv' /\ FinishesComplete
  <2> DEFINE op == request[q].op
             row == request[q].row
  <2>1. /\ ticket' = Saved(AfterOp(row, op), op) /\ UNCHANGED link
        /\ op.name \in {"toggle", "done", "status", "guestStatus"}
    BY <1>6 DEF SaveTicket
  <2>2. PICK next \in [op : Operation, row : Row] :
          request' = [request EXCEPT ![q] = next] /\ next.op.name \in {"none", "autoRevoke"}
    <3>1. [NoRequest EXCEPT !.op = [name |-> "autoRevoke"]] \in [op : Operation, row : Row]
      BY DEF NoRequest, Operation, Row, TicketStatus
    <3>2. [NoRequest EXCEPT !.op = [name |-> "autoRevoke"]].op.name = "autoRevoke"
      BY DEF NoRequest
    <3>3. QED BY <1>6, <1>n, <3>1, <3>2 DEF SaveTicket, EndRequest
  <2>3. row \in Row /\ op \in Operation /\ GuestChecked(q)
    BY <1>t DEF TicketInv
  <2>4. ticket' \in Row /\ (op.name = "guestStatus" => ticket'.status = op.status /\ ticket'.done = row.done)
    BY <2>1, <2>3, RowSaved
  <2>5. TicketInv'
    BY <1>0, <2>1, <2>2, <2>4, <1>t
  <2>6. \A other \in Request \ {q} : request'[other] = request[other]
    BY <2>2, <1>t
  <2>7. FinishesComplete
    BY <2>3, <2>4, <2>6 DEF FinishesComplete, GuestChecked
  <2>8. QED BY <2>5, <2>7
<1>7. QED BY <1>t, <1>1, <1>3, <1>4, <1>5, <1>6 DEF TicketNext, GenerateLink, RevokeLink, ticketVars

(* A contractor never leaves a job finished with a required task open, for *)
(* any checklist and any requests of the team and of contractors at once.  *)
THEOREM ContractorsFinishCompleteJobs == TicketSpec => ContractorFinishesCompleteJobs
<1>1. TicketInit => TicketInv
  BY DEF TicketInit, TicketInv, TicketTypeOK, GuestChecked, NoRequest, Operation, Row, TicketStatus
<1>2. TicketInv /\ [TicketNext]_ticketVars => TicketInv'
  BY TicketStep
<1>3. TicketInv /\ [TicketNext]_ticketVars
        => [\A q \in Request : /\ request[q].op.name = "guestStatus"
                               /\ request'[q] # request[q]
                               /\ ticket'.status \in Finished
                               => Required \subseteq ticket'.done]_ticketVars
  BY TicketStep DEF FinishesComplete
<1>4. QED BY <1>1, <1>2, <1>3, PTL DEF TicketSpec, ContractorFinishesCompleteJobs

-----------------------------------------------------------------------------
(* The customer's journey (CustomerJourney): a run that passed keeps no     *)
(* rows, so the pipeline adds nothing to it, and what it found stored was   *)
(* compared with what it sent before its cleanup.                          *)
JourneyInv ==
    /\ stage \in [Run -> {"new"} \cup Working \cup Ended]
    /\ DOMAIN hierarchy = Run /\ DOMAIN online = Run /\ DOMAIN points = Run /\ DOMAIN readBack = Run
    /\ \A r \in Run : stage[r] = "success_cleanup" => AsSent(readBack[r])
    /\ PassedRunsLeaveNothing

KeepsReadBack == \A r \in Run : readBack'[r] = readBack[r]
MovesOnly(p) == \A r \in Run \ {p} : stage'[r] = stage[r]

LEMMA CleanedUp == ASSUME JourneyInv, NEW R \in SUBSET Run, CleanUp(R)
                   PROVE  /\ DOMAIN hierarchy' = Run /\ DOMAIN online' = Run /\ DOMAIN points' = Run
                          /\ \A r \in R : ~hierarchy'[r] /\ points'[r] = NoSamples /\ ~online'[r]
                          /\ \A r \in Run : stage[r] = "passed" =>
                                ~hierarchy'[r] /\ points'[r] = NoSamples /\ ~online'[r]
  BY DEF CleanUp, JourneyInv, PassedRunsLeaveNothing

(* A step of the runner p, which is neither passed nor about to clean up    *)
(* unless it has compared what it found.                                   *)
LEMMA RunnerMoved == ASSUME JourneyInv, NEW p \in Run, NEW next \in {"new"} \cup Working \cup Ended,
                            stage' = [stage EXCEPT ![p] = next],
                            DOMAIN hierarchy' = Run, DOMAIN online' = Run, DOMAIN points' = Run, DOMAIN readBack' = Run,
                            \A r \in Run \ {p} : readBack'[r] = readBack[r],
                            \A r \in Run \ {p} : stage[r] = "passed" =>
                                ~hierarchy'[r] /\ points'[r] = NoSamples /\ ~online'[r],
                            next \in {"success_cleanup", "passed"} => AsSent(readBack'[p]),
                            next = "passed" => ~hierarchy'[p] /\ points'[p] = NoSamples /\ ~online'[p]
                     PROVE  JourneyInv'
<1>1. stage' \in [Run -> {"new"} \cup Working \cup Ended] /\ stage'[p] = next
  BY DEF JourneyInv
<1>2. \A r \in Run \ {p} : stage'[r] = stage[r]
  BY DEF JourneyInv
<1>3. \A r \in Run : stage'[r] = "success_cleanup" => AsSent(readBack'[r])
  BY <1>1, <1>2 DEF JourneyInv
<1>4. PassedRunsLeaveNothing'
  BY <1>1, <1>2 DEF JourneyInv, PassedRunsLeaveNothing, AsSent
<1>5. QED BY <1>1, <1>3, <1>4 DEF JourneyInv

(* A step of the pipeline or of an operator.                               *)
LEMMA RunsStayed == ASSUME JourneyInv, UNCHANGED <<stage, readBack>>,
                           DOMAIN hierarchy' = Run, DOMAIN online' = Run, DOMAIN points' = Run,
                           \A r \in Run : stage[r] = "passed" =>
                                ~hierarchy'[r] /\ points'[r] = NoSamples /\ ~online'[r]
                    PROVE  JourneyInv'
  BY DEF JourneyInv, PassedRunsLeaveNothing, AsSent

LEMMA JourneyStep == JourneyInv /\ [JourneyNext]_journeyVars => JourneyInv'
<1> SUFFICES ASSUME JourneyInv, [JourneyNext]_journeyVars PROVE JourneyInv'
  OBVIOUS
<1>t. /\ stage \in [Run -> {"new"} \cup Working \cup Ended]
      /\ DOMAIN hierarchy = Run /\ DOMAIN online = Run /\ DOMAIN points = Run /\ DOMAIN readBack = Run
      /\ \A r \in Run : stage[r] = "passed" => ~hierarchy[r] /\ points[r] = NoSamples /\ ~online[r]
      /\ \A r \in Run : stage[r] = "success_cleanup" => AsSent(readBack[r])
  BY DEF JourneyInv, PassedRunsLeaveNothing
<1>1. ASSUME NEW p \in Run, StartRun(p) \/ Preflight(p) \/ SamplesPersisted(p) \/ RunnerDies(p) PROVE JourneyInv'
  <2>1. /\ \E next \in {"preflight", "setup", "failed", "assertions", "dead"} : stage' = [stage EXCEPT ![p] = next]
        /\ UNCHANGED <<hierarchy, points, online, readBack>>
    BY <1>1 DEF StartRun, Preflight, SamplesPersisted, RunnerDies, MoveTo, KeepsRows
  <2>2. QED BY <2>1, <1>t, RunnerMoved DEF Working, Ended
<1>2. ASSUME NEW p \in Run, SetUp(p) PROVE JourneyInv'
  <2>1. /\ \E next \in {"ingestion", "failed"} : stage' = [stage EXCEPT ![p] = next]
        /\ hierarchy' = [hierarchy EXCEPT ![p] = TRUE] \/ UNCHANGED hierarchy
        /\ UNCHANGED <<points, online, readBack>>
    BY <1>2 DEF SetUp, MoveTo
  <2>2. DOMAIN hierarchy' = Run /\ \A r \in Run \ {p} : hierarchy'[r] = hierarchy[r]
    BY <2>1, <1>t
  <2>3. QED BY <2>1, <2>2, <1>t, RunnerMoved DEF Working, Ended
<1>3. ASSUME NEW p \in Run, Send(p) PROVE JourneyInv'
  <2>1. /\ stage[p] = "ingestion" /\ UNCHANGED <<hierarchy, readBack>>
        /\ \E next \in {"ingestion", "persistence"} : stage' = [stage EXCEPT ![p] = next]
        /\ \E shown : online' = [online EXCEPT ![p] = shown] \/ UNCHANGED online
        /\ \E kept : points' = [points EXCEPT ![p] = kept] \/ UNCHANGED points
    <3>1. stage' = [stage EXCEPT ![p] = "ingestion"] \/ stage' = [stage EXCEPT ![p] = "persistence"]
      BY <1>3, <1>t DEF Send, MoveTo
    <3>2. (\E shown : online' = [online EXCEPT ![p] = shown]) \/ UNCHANGED online
      BY <1>3 DEF Send
    <3>3. (\E kept : points' = [points EXCEPT ![p] = kept]) \/ UNCHANGED points
      BY <1>3 DEF Send
    <3>4. QED BY <1>3, <3>1, <3>2, <3>3 DEF Send
  <2>2. DOMAIN online' = Run /\ DOMAIN points' = Run
    BY <2>1, <1>t
  <2>3. \A r \in Run \ {p} : online'[r] = online[r] /\ points'[r] = points[r]
    BY <2>1, <1>t
  <2>4. QED BY ZenonT(60), <2>1, <2>2, <2>3, <1>t, RunnerMoved DEF Working, Ended
<1>4. ASSUME NEW p \in Run, AssertVisible(p) PROVE JourneyInv'
  <2>1. /\ stage' = [stage EXCEPT ![p] = "success_cleanup"] /\ UNCHANGED <<hierarchy, points, online>>
        /\ readBack' = [readBack EXCEPT ![p] = points[p]] /\ AsSent(points[p])
    BY <1>4 DEF AssertVisible, MoveTo, KeepsRows
  <2>2. /\ DOMAIN readBack' = Run /\ AsSent(readBack'[p])
        /\ \A r \in Run \ {p} : readBack'[r] = readBack[r]
    BY <2>1, <1>t
  <2>3. QED BY <2>1, <2>2, <1>t, RunnerMoved DEF Working, Ended
<1>5. ASSUME NEW p \in Run, SucceedAndCleanUp(p) PROVE JourneyInv'
  <2>1. /\ stage' = [stage EXCEPT ![p] = "passed"] /\ CleanUp({p}) /\ UNCHANGED readBack
        /\ AsSent(readBack[p])
    BY <1>5, <1>t DEF SucceedAndCleanUp, MoveTo
  <2>2. QED BY <2>1, <1>t, CleanedUp, RunnerMoved DEF Working, Ended
<1>6. ASSUME NEW p \in Run, FailStage(p) \/ FailCleanup(p) PROVE JourneyInv'
  <2>1. /\ \E next \in {"failed", "preserved", "dead"} : stage' = [stage EXCEPT ![p] = next]
        /\ UNCHANGED readBack
        /\ CleanUp({p}) \/ UNCHANGED <<hierarchy, points, online>>
    BY <1>6 DEF FailStage, FailCleanup, MoveTo, KeepsRows
  <2>2. CASE CleanUp({p})
    BY <2>1, <2>2, <1>t, CleanedUp, RunnerMoved DEF Working, Ended
  <2>3. CASE UNCHANGED <<hierarchy, points, online>>
    BY <2>1, <2>3, <1>t, RunnerMoved DEF Working, Ended
  <2>4. QED BY <2>1, <2>2, <2>3
<1>7. ASSUME NEW p \in Run, CleanOneRun(p) PROVE JourneyInv'
  BY <1>7, CleanedUp, RunsStayed DEF CleanOneRun
<1>8. CASE CleanOwnedRuns
  <2>1. PICK unexpired \in BOOLEAN : CleanUp(OwnedRuns(unexpired)) /\ UNCHANGED <<stage, readBack>>
    BY <1>8 DEF CleanOwnedRuns
  <2>2. OwnedRuns(unexpired) \in SUBSET Run
    BY DEF OwnedRuns
  <2>3. QED BY <2>1, <2>2, CleanedUp, RunsStayed
<1>9. ASSUME NEW p \in Run, RetentionEnds(p) PROVE JourneyInv'
  BY <1>9, <1>t, RunsStayed DEF RetentionEnds
<1>10. ASSUME NEW m \in Message, ConsumeMessage(m) PROVE JourneyInv'
  <2>1. /\ UNCHANGED <<stage, readBack, hierarchy, points>>
        /\ UNCHANGED online \/ (hierarchy[m[1]] /\ online' = [online EXCEPT ![m[1]] = TRUE])
    BY <1>10 DEF ConsumeMessage
  <2>2. DOMAIN online' = Run /\ \A r \in Run : stage[r] = "passed" => ~online'[r]
    BY <2>1, <1>t
  <2>3. QED BY <2>1, <2>2, <1>t, RunsStayed
<1>11. CASE TakeQueue
  BY <1>11, <1>t, RunsStayed DEF TakeQueue
<1>12. CASE StoreQueue
  <2>1. UNCHANGED <<stage, readBack, hierarchy>>
    BY <1>12 DEF StoreQueue
  <2>2. CASE \A r \in Run : flushing[r] # NoSamples => hierarchy[r]
    <3>1. /\ points' = [r \in Run |-> [s \in Sample |->
                            IF points[r][s] + flushing[r][s] > 2 * MaxCopies THEN 2 * MaxCopies
                            ELSE points[r][s] + flushing[r][s]]]
          /\ online' = [r \in Run |-> online[r] \/ flushing[r] # NoSamples]
      BY <1>12, <2>2 DEF StoreQueue
    <3>2. ASSUME NEW r \in Run, stage[r] = "passed" PROVE points'[r] = NoSamples /\ ~online'[r]
      <4>1. points[r] = NoSamples /\ flushing[r] = NoSamples /\ ~online[r]
        BY <2>2, <3>2, <1>t
      <4>2. \A s \in Sample : points[r][s] + flushing[r][s] = 0
        BY <4>1 DEF NoSamples
      <4>3. points'[r] = [s \in Sample |-> 0]
        BY <3>1, <4>2 DEF MaxCopies
      <4>4. QED BY <3>1, <4>1, <4>3 DEF NoSamples
    <3>3. DOMAIN points' = Run /\ DOMAIN online' = Run
      BY <3>1
    <3>4. QED BY <2>1, <3>2, <3>3, <1>t, RunsStayed
  <2>3. CASE ~(\A r \in Run : flushing[r] # NoSamples => hierarchy[r])
    BY <1>12, <2>3, <1>t, RunsStayed DEF StoreQueue
  <2>4. QED BY <2>2, <2>3
<1>13. CASE UNCHANGED journeyVars
  BY <1>13, <1>t, RunsStayed DEF journeyVars
<1>14. CASE \E p \in Run : \/ StartRun(p) \/ Preflight(p) \/ SetUp(p) \/ Send(p) \/ SamplesPersisted(p)
                           \/ AssertVisible(p) \/ SucceedAndCleanUp(p) \/ FailStage(p) \/ FailCleanup(p)
                           \/ RunnerDies(p) \/ CleanOneRun(p) \/ RetentionEnds(p)
  BY <1>14, <1>1, <1>2, <1>3, <1>4, <1>5, <1>6, <1>7, <1>9
<1>15. QED BY <1>8, <1>10, <1>11, <1>12, <1>13, <1>14 DEF JourneyNext

(* A run that passed read back each sample once and nothing of it is left   *)
(* behind, for any number of runs, samples and copies of their messages.   *)
THEOREM PassedRunsAreClean == JourneySpec => []PassedRunsLeaveNothing
<1>1. JourneyInit => JourneyInv
  BY DEF JourneyInit, JourneyInv, PassedRunsLeaveNothing, EmptyBatch
<1>2. JourneyInv => PassedRunsLeaveNothing
  BY DEF JourneyInv
<1>3. QED BY <1>1, <1>2, JourneyStep, PTL DEF JourneySpec

-----------------------------------------------------------------------------
(* Excursions (ColdChain): what is covered ends with the latest sample.     *)
ColdInv == ColdTypeOK /\ cold.covered <= probe.at /\ ExcursionsAreMeasured

LEMMA OneMore == ASSUME NEW a \in Int, NEW b \in Int PROVE a * b \in Int /\ (a + 1) * b = a * b + b
  OBVIOUS

LEMMA OverFields == ASSUME NEW x \in Counters
                    PROVE  /\ Over(x) \in Counters /\ Over(x).covered = x.covered /\ Over(x).inRange = x.inRange
                           /\ Over(x).lasts = 0 /\ Over(x).count = x.count /\ Over(x).seconds = x.seconds
                           /\ Over(x).unresolved = x.unresolved /\ Over(x).avoided = x.avoided
  BY DEF Over, Counters

LEMMA CountedFields ==
    ASSUME cold \in Counters
    PROVE  LET x == CountedExcursion IN
           /\ x \in Counters /\ x.covered = cold.covered /\ x.inRange = cold.inRange
           /\ x.unresolved = cold.unresolved /\ x.avoided = cold.avoided
           /\ Lasted => x.count = cold.count + 1 /\ x.seconds = cold.seconds + cold.lasts
           /\ ~Lasted => x.count = cold.count /\ x.seconds = cold.seconds
<1>1. cold.count + 1 \in Nat /\ cold.seconds + cold.lasts \in Nat
  BY DEF Counters
<1>2. CASE Lasted
  BY <1>1, <1>2 DEF CountedExcursion, Counters
<1>3. CASE ~Lasted
  BY <1>3 DEF CountedExcursion
<1>4. QED BY <1>2, <1>3

LEMMA UnresolvedFields ==
    ASSUME cold \in Counters
    PROVE  LET x == Unresolved IN
           /\ x \in Counters /\ x.covered = cold.covered /\ x.inRange = cold.inRange /\ x.avoided = cold.avoided
           /\ Lasted => /\ x.count = cold.count + 1 /\ x.seconds = cold.seconds + cold.lasts
                        /\ x.unresolved = cold.unresolved + 1
           /\ ~Lasted => /\ x.count = cold.count /\ x.seconds = cold.seconds
                         /\ x.unresolved = cold.unresolved
<1> DEFINE counted == CountedExcursion
           more == IF Lasted THEN cold.unresolved + 1 ELSE cold.unresolved
<1>1. counted \in Counters /\ counted.unresolved = cold.unresolved
  BY CountedFields
<1>2. more \in Nat
  BY DEF Counters
<1>3. Unresolved = [counted EXCEPT !.unresolved = more]
  BY <1>1 DEF Unresolved
<1> HIDE DEF counted, more
<1>4. /\ Unresolved \in Counters /\ Unresolved.unresolved = more
      /\ Unresolved.covered = counted.covered /\ Unresolved.inRange = counted.inRange
      /\ Unresolved.avoided = counted.avoided /\ Unresolved.count = counted.count
      /\ Unresolved.seconds = counted.seconds
  BY <1>1, <1>2, <1>3 DEF Counters
<1>5. QED BY <1>4, CountedFields DEF counted, more

(* What a resolved excursion spared is at most the time to spoilage.        *)
LEMMA ResolvedFields ==
    ASSUME cold \in Counters
    PROVE  LET x == Resolved IN
           /\ x \in Counters /\ x.covered = cold.covered /\ x.inRange = cold.inRange
           /\ x.unresolved = cold.unresolved
           /\ Lasted => /\ x.count = cold.count + 1 /\ x.seconds = cold.seconds + cold.lasts
                        /\ x.avoided <= cold.avoided + Critical
           /\ ~Lasted => x.count = cold.count /\ x.seconds = cold.seconds /\ x.avoided = cold.avoided
<1> DEFINE counted == CountedExcursion
           spared == IF Lasted /\ cold.lasts < Critical THEN cold.avoided + (Critical - cold.lasts) ELSE cold.avoided
<1>1. counted \in Counters /\ counted.avoided = cold.avoided
  BY CountedFields
<1>2. spared \in Nat /\ spared <= cold.avoided + Critical /\ (~Lasted => spared = cold.avoided)
  BY ColdAssumption DEF Counters
<1>3. Resolved = [counted EXCEPT !.avoided = spared]
  BY <1>1 DEF Resolved
<1> HIDE DEF counted, spared
<1>4. /\ Resolved \in Counters /\ Resolved.avoided = spared
      /\ Resolved.covered = counted.covered /\ Resolved.inRange = counted.inRange
      /\ Resolved.unresolved = counted.unresolved /\ Resolved.count = counted.count
      /\ Resolved.seconds = counted.seconds
  BY <1>1, <1>2, <1>3 DEF Counters
<1>5. QED BY <1>2, <1>4, CountedFields DEF counted

LEMMA ExcursionOver ==
    ASSUME ColdInv
    PROVE  LET c == Over(Unresolved) IN
           /\ c \in Counters /\ c.covered = cold.covered
           /\ c.inRange + c.seconds + c.lasts <= c.covered
           /\ c.count * Delay <= c.seconds
           /\ c.unresolved <= c.count
           /\ c.avoided <= (c.count - c.unresolved) * Critical
<1> DEFINE c == Over(Unresolved)
<1>1. cold \in Counters
  BY DEF ColdInv, ColdTypeOK
<1>2. CASE Lasted
  <2>1. /\ c \in Counters /\ c.covered = cold.covered /\ c.inRange = cold.inRange /\ c.lasts = 0
        /\ c.count = cold.count + 1 /\ c.seconds = cold.seconds + cold.lasts
        /\ c.unresolved = cold.unresolved + 1 /\ c.avoided = cold.avoided
    BY <1>1, <1>2, UnresolvedFields, OverFields
  <2> HIDE DEF c
  <2>2. (cold.count + 1) * Delay = cold.count * Delay + Delay /\ cold.count * Delay \in Int
    BY <1>1, OneMore, ColdAssumption DEF Counters
  <2>3. Delay \in Nat /\ cold.lasts >= Delay /\ (cold.count + 1) - (cold.unresolved + 1) = cold.count - cold.unresolved
    BY <1>1, <1>2, ColdAssumption DEF Lasted, Counters
  <2>4. c.inRange + c.seconds + c.lasts <= c.covered /\ c.unresolved <= c.count
    BY <1>1, <2>1 DEF ColdInv, ExcursionsAreMeasured, Counters
  <2>5. c.count * Delay <= c.seconds
    BY <1>1, <2>1, <2>2, <2>3 DEF ColdInv, ExcursionsAreMeasured, Counters
  <2>6. c.avoided <= (c.count - c.unresolved) * Critical
    BY <1>1, <2>1, <2>3 DEF ColdInv, ExcursionsAreMeasured
  <2>7. QED BY <2>1, <2>4, <2>5, <2>6 DEF c
<1>3. CASE ~Lasted
  <2>1. /\ c \in Counters /\ c.covered = cold.covered /\ c.inRange = cold.inRange /\ c.lasts = 0
        /\ c.count = cold.count /\ c.seconds = cold.seconds
        /\ c.unresolved = cold.unresolved /\ c.avoided = cold.avoided
    BY <1>1, <1>3, UnresolvedFields, OverFields
  <2> HIDE DEF c
  <2>2. c.inRange + c.seconds + c.lasts <= c.covered
    BY <1>1, <2>1 DEF ColdInv, ExcursionsAreMeasured, Counters
  <2>3. QED BY <2>1, <2>2 DEF c, ColdInv, ExcursionsAreMeasured
<1>4. QED BY <1>2, <1>3

LEMMA ExcursionResolved ==
    ASSUME ColdInv, NEW n \in Nat
    PROVE  LET c == [Over(Resolved) EXCEPT !.covered = @ + n, !.inRange = @ + n] IN
           /\ c \in Counters /\ c.covered = cold.covered + n
           /\ c.inRange + c.seconds + c.lasts <= c.covered
           /\ c.count * Delay <= c.seconds
           /\ c.unresolved <= c.count
           /\ c.avoided <= (c.count - c.unresolved) * Critical
<1> DEFINE c == [Over(Resolved) EXCEPT !.covered = @ + n, !.inRange = @ + n]
<1>1. cold \in Counters /\ Critical \in Nat
  BY ColdAssumption DEF ColdInv, ColdTypeOK
<1>2. CASE Lasted
  <2>1. /\ c \in Counters /\ c.covered = cold.covered + n /\ c.inRange = cold.inRange + n /\ c.lasts = 0
        /\ c.count = cold.count + 1 /\ c.seconds = cold.seconds + cold.lasts
        /\ c.unresolved = cold.unresolved
        /\ c.avoided <= cold.avoided + Critical
    <3> DEFINE over == Over(Resolved)
    <3>1. /\ over \in Counters /\ over.covered = cold.covered /\ over.inRange = cold.inRange /\ over.lasts = 0
          /\ over.count = cold.count + 1 /\ over.seconds = cold.seconds + cold.lasts
          /\ over.unresolved = cold.unresolved /\ over.avoided <= cold.avoided + Critical
      BY <1>1, <1>2, ResolvedFields, OverFields
    <3>2. over.covered + n \in Nat /\ over.inRange + n \in Nat
      BY <3>1 DEF Counters
    <3> HIDE DEF over
    <3>3. [over EXCEPT !.covered = @ + n, !.inRange = @ + n]
            = [over EXCEPT !.covered = over.covered + n, !.inRange = over.inRange + n]
      BY <3>1 DEF Counters
    <3>4. c = [over EXCEPT !.covered = over.covered + n, !.inRange = over.inRange + n]
      BY <3>3 DEF over
    <3> HIDE DEF c
    <3>5. QED BY <3>1, <3>2, <3>4 DEF Counters
  <2> HIDE DEF c
  <2>2. /\ (cold.count + 1) * Delay = cold.count * Delay + Delay /\ cold.count * Delay \in Int
        /\ (cold.count - cold.unresolved + 1) * Critical = (cold.count - cold.unresolved) * Critical + Critical
        /\ (cold.count - cold.unresolved) * Critical \in Int
    BY <1>1, OneMore, ColdAssumption DEF Counters
  <2>3. /\ Delay \in Nat /\ cold.lasts >= Delay
        /\ (cold.count + 1) - cold.unresolved = cold.count - cold.unresolved + 1
    BY <1>1, <1>2, ColdAssumption DEF Lasted, Counters
  <2>4. c.inRange + c.seconds + c.lasts <= c.covered /\ c.unresolved <= c.count
    BY <1>1, <2>1 DEF ColdInv, ExcursionsAreMeasured, Counters
  <2>5. c.count * Delay <= c.seconds
    BY <1>1, <2>1, <2>2, <2>3 DEF ColdInv, ExcursionsAreMeasured, Counters
  <2>6. c.avoided <= (c.count - c.unresolved) * Critical
    <3>1. (c.count - c.unresolved) * Critical = (cold.count - cold.unresolved) * Critical + Critical
      BY <2>1, <2>2, <2>3
    <3>2. cold.avoided <= (cold.count - cold.unresolved) * Critical
      BY DEF ColdInv, ExcursionsAreMeasured
    <3>3. cold.avoided \in Nat /\ c.avoided \in Nat
      BY <1>1, <2>1 DEF Counters
    <3>4. QED BY <3>1, <3>2, <3>3, <2>1, <2>2, <1>1
  <2>7. QED BY <2>1, <2>4, <2>5, <2>6 DEF c
<1>3. CASE ~Lasted
  <2>1. /\ c \in Counters /\ c.covered = cold.covered + n /\ c.inRange = cold.inRange + n /\ c.lasts = 0
        /\ c.count = cold.count /\ c.seconds = cold.seconds
        /\ c.unresolved = cold.unresolved /\ c.avoided = cold.avoided
    <3> DEFINE over == Over(Resolved)
    <3>1. /\ over \in Counters /\ over.covered = cold.covered /\ over.inRange = cold.inRange /\ over.lasts = 0
          /\ over.count = cold.count /\ over.seconds = cold.seconds
          /\ over.unresolved = cold.unresolved /\ over.avoided = cold.avoided
      BY <1>1, <1>3, ResolvedFields, OverFields
    <3>2. over.covered + n \in Nat /\ over.inRange + n \in Nat
      BY <3>1 DEF Counters
    <3> HIDE DEF over
    <3>3. c = [over EXCEPT !.covered = over.covered + n, !.inRange = over.inRange + n]
      BY <3>1 DEF Counters, over
    <3> HIDE DEF c
    <3>4. QED BY <3>1, <3>2, <3>3 DEF Counters
  <2> HIDE DEF c
  <2>2. c.inRange + c.seconds + c.lasts <= c.covered
    BY <1>1, <2>1 DEF ColdInv, ExcursionsAreMeasured, Counters
  <2>3. QED BY <2>1, <2>2 DEF c, ColdInv, ExcursionsAreMeasured
<1>4. QED BY <1>2, <1>3

LEMMA ColdStep == ColdInv /\ [ColdNext]_coldVars => ColdInv'
<1> SUFFICES ASSUME ColdInv, [ColdNext]_coldVars PROVE ColdInv'
  OBVIOUS
<1>t. /\ cold \in Counters /\ probe \in [at: 0 .. ColdEnd, value: Degrees] /\ ended \in BOOLEAN
      /\ cold.covered <= probe.at /\ ColdEnd \in Nat
  BY ColdAssumption DEF ColdInv, ColdTypeOK
<1>1. ASSUME NEW t \in 0 .. ColdEnd, NEW v \in Degrees, ColdSample([at |-> t, value |-> v]) PROVE ColdInv'
  <2> DEFINE s == [at |-> t, value |-> v]
             seconds == t - probe.at
  <2>1. /\ probe' = s /\ UNCHANGED ended /\ t >= probe.at
    BY <1>1 DEF ColdSample
  <2>2. seconds \in Nat /\ probe.at + seconds = t /\ probe'.at = t /\ probe' \in [at: 0 .. ColdEnd, value: Degrees]
    BY <2>1, <1>t
  <2>3. \/ cold' = Over(Unresolved)
        \/ cold' = cold
        \/ cold' = [Over(Resolved) EXCEPT !.covered = @ + seconds, !.inRange = @ + seconds]
        \/ cold' = [[cold EXCEPT !.covered = @ + seconds] EXCEPT !.out = TRUE, !.lasts = @ + seconds]
    BY <1>1 DEF ColdSample
  <2> HIDE DEF s, seconds
  <2>4. CASE cold' = Over(Unresolved)
    <3>1. cold' \in Counters /\ cold'.covered <= probe'.at /\ cold'.covered <= ColdEnd
      BY <2>2, <2>4, <1>t, ExcursionOver DEF Counters
    <3>2. QED BY <3>1, <2>1, <2>2, <2>4, <1>t, ExcursionOver DEF ColdInv, ColdTypeOK, ExcursionsAreMeasured
  <2>5. CASE cold' = cold
    <3>1. cold'.covered <= probe'.at
      BY <2>2, <2>5, <1>t DEF Counters
    <3>2. QED BY <3>1, <2>1, <2>2, <2>5, <1>t DEF ColdInv, ColdTypeOK, ExcursionsAreMeasured
  <2>6. CASE cold' = [Over(Resolved) EXCEPT !.covered = @ + seconds, !.inRange = @ + seconds]
    <3>1. cold' \in Counters /\ cold'.covered = cold.covered + seconds
      BY <2>2, <2>6, ExcursionResolved
    <3>2. cold'.covered <= probe'.at /\ cold'.covered <= ColdEnd
      BY <3>1, <2>2, <1>t DEF Counters
    <3>3. QED BY <3>1, <3>2, <2>1, <2>2, <2>6, <1>t, ExcursionResolved DEF ColdInv, ColdTypeOK, ExcursionsAreMeasured
  <2>7. CASE cold' = [[cold EXCEPT !.covered = @ + seconds] EXCEPT !.out = TRUE, !.lasts = @ + seconds]
    <3>1. /\ cold' \in Counters /\ cold'.covered = cold.covered + seconds /\ cold'.lasts = cold.lasts + seconds
          /\ cold'.inRange = cold.inRange /\ cold'.seconds = cold.seconds /\ cold'.count = cold.count
          /\ cold'.unresolved = cold.unresolved /\ cold'.avoided = cold.avoided
      <4>1. cold.covered + seconds \in Nat /\ cold.lasts + seconds \in Nat
        BY <2>2, <1>t DEF Counters
      <4>2. cold' = [cold EXCEPT !.covered = cold.covered + seconds, !.out = TRUE, !.lasts = cold.lasts + seconds]
        BY <2>7, <1>t DEF Counters
      <4>3. QED BY <4>1, <4>2, <1>t DEF Counters
    <3>2. cold'.covered <= probe'.at /\ cold'.covered <= ColdEnd
      BY <3>1, <2>2, <1>t DEF Counters
    <3>3. cold'.inRange + cold'.seconds + cold'.lasts <= cold'.covered
      BY <3>1, <2>2, <1>t DEF ColdInv, ExcursionsAreMeasured, Counters
    <3>4. QED BY <3>1, <3>2, <3>3, <2>1, <2>2, <1>t DEF ColdInv, ColdTypeOK, ExcursionsAreMeasured
  <2>8. QED BY <2>3, <2>4, <2>5, <2>6, <2>7
<1>2. CASE ColdEnds
  <2>1. cold' = Over(Unresolved) /\ UNCHANGED probe /\ ended' \in BOOLEAN
    BY <1>2 DEF ColdEnds
  <2>2. cold' \in Counters /\ cold'.covered <= probe'.at /\ cold'.covered <= ColdEnd
    BY <2>1, <1>t, ExcursionOver DEF Counters
  <2>3. QED BY <2>1, <2>2, <1>t, ExcursionOver DEF ColdInv, ColdTypeOK, ExcursionsAreMeasured
<1>3. CASE UNCHANGED coldVars
  BY <1>3 DEF coldVars, ColdInv, ColdTypeOK, ExcursionsAreMeasured
<1>4. QED BY <1>1, <1>2, <1>3 DEF ColdNext

(* The report's time in range and excursions are what was measured, for any *)
(* samples, range, delay and plausibility.                                 *)
THEOREM ExcursionsMeasured == ColdSpec => []ExcursionsAreMeasured
<1>1. ASSUME ColdInit PROVE ColdInv
  <2>1. 0 * Delay = 0 /\ (0 - 0) * Critical = 0 /\ ColdEnd \in Nat
    BY ColdAssumption
  <2>2. /\ cold \in Counters /\ cold.covered = 0 /\ cold.inRange = 0 /\ cold.lasts = 0 /\ cold.count = 0
        /\ cold.unresolved = 0 /\ cold.seconds = 0 /\ cold.avoided = 0
    BY <1>1 DEF ColdInit, Counters
  <2>3. probe \in [at: 0 .. ColdEnd, value: Degrees] /\ probe.at >= 0 /\ ended \in BOOLEAN
    <3>1. PICK start \in 0 .. ColdEnd, value \in Degrees : probe = [at |-> start, value |-> value]
      BY <1>1 DEF ColdInit
    <3>2. start >= 0
      BY <2>1
    <3>3. QED BY <1>1, <3>1, <3>2 DEF ColdInit
  <2>4. QED BY <2>1, <2>2, <2>3 DEF ColdInv, ColdTypeOK, ExcursionsAreMeasured
<1>2. ColdInv => ExcursionsAreMeasured
  BY DEF ColdInv
<1>3. QED BY <1>1, <1>2, ColdStep, PTL DEF ColdSpec

-----------------------------------------------------------------------------
(* Energy (EnergyMetering): a plausible reading of a counter is its         *)
(* register, which a replacement changes once.                             *)
MeterInv ==
    /\ MeterTypeOK /\ replaced \in {0, 1}
    /\ meter.kind = "counter" /\ IsPlausible(sample) => sample.value = register
    /\ PartsNeverExceedDay /\ CountedWasConsumed

Reading == [at: Nat, value: Nat]

LEMMA LongerIsMore == ASSUME NEW a \in Nat, NEW b \in Nat, NEW c \in Nat, b <= c PROVE a * b <= a * c /\ a * b \in Nat
<1>1. PICK d \in Nat : c = b + d
  <2>1. c - b \in Nat /\ c = b + (c - b)
    OBVIOUS
  <2>2. QED BY <2>1
<1>2. a * c = a * b + a * d
  BY <1>1
<1>3. a * d \in Nat /\ a * b \in Nat
  OBVIOUS
<1>4. QED BY <1>2, <1>3

(* A segment lies in at most one of the halves, and there it is no longer   *)
(* than in the day, which then uses it too.                                *)
LEMMA Segments ==
    ASSUME NEW l \in Reading, NEW r \in Reading
    PROVE  /\ \A p \in Period : Usable(p, l, r) => Seconds(p, l, r) \in Nat
           /\ \A p \in {"first", "second"} : Usable(p, l, r) =>
                 Usable("day", l, r) /\ Seconds(p, l, r) <= Seconds("day", l, r)
           /\ ~(Usable("first", l, r) /\ Usable("second", l, r))
<1>1. /\ l.at \in Nat /\ r.at \in Nat /\ Start \in Nat /\ Split \in Nat /\ End \in Nat /\ Lead \in Nat
      /\ Start < Split /\ Split < End
  BY MeteringAssumption DEF Reading
<1>2. ASSUME NEW p \in Period, Usable(p, l, r) PROVE Seconds(p, l, r) \in Nat
  BY <1>1, <1>2 DEF Usable, Seconds, Period, PeriodStart, PeriodEnd, Sooner, Later
<1>3. ASSUME Usable("first", l, r) PROVE Usable("day", l, r) /\ Seconds("first", l, r) <= Seconds("day", l, r)
  BY <1>1, <1>3 DEF Usable, Read, Seconds, PeriodStart, PeriodEnd, Sooner, Later
<1>4. ASSUME Usable("second", l, r) PROVE Usable("day", l, r) /\ Seconds("second", l, r) <= Seconds("day", l, r)
  BY <1>1, <1>4 DEF Usable, Read, Seconds, PeriodStart, PeriodEnd, Sooner, Later
<1>5. ASSUME Usable("first", l, r), Usable("second", l, r) PROVE FALSE
  BY <1>1, <1>5 DEF Usable, Read, Seconds, PeriodStart, PeriodEnd, Sooner, Later
<1>6. QED BY <1>2, <1>3, <1>4, <1>5

LEMMA SegmentEnergy ==
    ASSUME NEW l \in Reading, NEW r \in Reading
    PROVE  /\ \A p \in Period : Usable(p, l, r) => Energy(p, l, r) \in Nat
           /\ \A p \in {"first", "second"} : Usable(p, l, r) => Energy(p, l, r) <= Energy("day", l, r)
<1>1. l.value \in Nat /\ r.value \in Nat /\ l.value + r.value \in Nat /\ Capacity \in Nat
  BY MeteringAssumption DEF Reading
<1>2. CASE meter.kind = "power"
  <2>1. ASSUME NEW p \in Period, Usable(p, l, r) PROVE Energy(p, l, r) \in Nat
    <3>1. Seconds(p, l, r) \in Nat
      BY <2>1, Segments
    <3>2. QED BY <1>1, <1>2, <3>1, LongerIsMore DEF Energy
  <2>2. ASSUME NEW p \in {"first", "second"}, Usable(p, l, r) PROVE Energy(p, l, r) <= Energy("day", l, r)
    <3>1. /\ Seconds(p, l, r) \in Nat /\ Seconds("day", l, r) \in Nat
          /\ Seconds(p, l, r) <= Seconds("day", l, r)
      BY <2>2, Segments DEF Period
    <3>2. (l.value + r.value) * Seconds(p, l, r) <= (l.value + r.value) * Seconds("day", l, r)
      BY <1>1, <3>1, LongerIsMore
    <3>3. QED BY <3>2, <1>2 DEF Energy
  <2>3. QED BY <2>1, <2>2
<1>3. CASE meter.kind # "power"
  <2>1. ASSUME NEW p \in Period, Usable(p, l, r) PROVE Delta(l, r) \in Nat
    BY <1>1, <2>1 DEF Usable, IsPlausible, Delta
  <2>2. \A p \in Period : Energy(p, l, r) = Delta(l, r)
    BY <1>3 DEF Energy
  <2>3. QED BY <2>1, <2>2, <1>1 DEF Period, Delta
<1>4. QED BY <1>2, <1>3

(* What one turn of the loop adds to a period.                              *)
Gain(p, l, r) == IF Usable(p, l, r) /\ ~IsReset(l, r) THEN Energy(p, l, r) ELSE 0
Lasting(p, l, r) == IF Usable(p, l, r) /\ ~IsReset(l, r) THEN Seconds(p, l, r) ELSE 0

LEMMA AddedFields ==
    ASSUME tally \in [Period -> Tally], NEW l \in Reading, NEW r \in Reading, NEW p \in Period
    PROVE  /\ Added(p, l, r) \in Tally
           /\ Added(p, l, r).energy = tally[p].energy + Gain(p, l, r)
           /\ Added(p, l, r).covered = tally[p].covered + Lasting(p, l, r)
           /\ Gain(p, l, r) \in Nat /\ Lasting(p, l, r) \in Nat
<1> DEFINE before == tally[p]
<1>1. before \in Tally
  OBVIOUS
<1>2. Gain(p, l, r) \in Nat /\ Lasting(p, l, r) \in Nat
  BY Segments, SegmentEnergy DEF Gain, Lasting
<1>3. CASE ~Usable(p, l, r)
  <2>1. Added(p, l, r) = before /\ Gain(p, l, r) = 0 /\ Lasting(p, l, r) = 0
    BY <1>3 DEF Added, Gain, Lasting
  <2>2. QED BY <2>1, <1>1 DEF Tally
<1>4. CASE Usable(p, l, r) /\ IsReset(l, r)
  <2>1. Added(p, l, r) = [before EXCEPT !.resets = before.resets + 1] /\ Gain(p, l, r) = 0 /\ Lasting(p, l, r) = 0
    BY <1>4, <1>1 DEF Added, Gain, Lasting
  <2> HIDE DEF before
  <2>2. Added(p, l, r) \in Tally /\ Added(p, l, r).energy = before.energy /\ Added(p, l, r).covered = before.covered
    BY <2>1, <1>1 DEF Tally
  <2>3. before.energy \in Nat /\ before.covered \in Nat
    BY <1>1 DEF Tally
  <2>4. QED BY <2>1, <2>2, <2>3 DEF before
<1>5. CASE Usable(p, l, r) /\ ~IsReset(l, r)
  <2> DEFINE e == Energy(p, l, r)
             n == Seconds(p, l, r)
             late == IF IsOperatingTime(Middle(p, l, r)) THEN before.after ELSE before.after + e
  <2>1. e \in Nat /\ n \in Nat
    BY <1>5, Segments, SegmentEnergy
  <2>2. late \in Nat /\ before.energy + e \in Nat /\ before.covered + n \in Nat
    BY <2>1, <1>1 DEF Tally
  <2>3. Added(p, l, r) = [before EXCEPT !.energy = before.energy + e, !.covered = before.covered + n, !.after = late]
    <3>1. Added(p, l, r) = [before EXCEPT !.energy = @ + e, !.covered = @ + n,
                             !.after = IF IsOperatingTime(Middle(p, l, r)) THEN @ ELSE @ + e]
      BY <1>5 DEF Added
    <3> HIDE DEF e, n
    <3>2. QED BY <3>1, <1>1 DEF Tally
  <2>4. Gain(p, l, r) = e /\ Lasting(p, l, r) = n
    BY <1>5 DEF Gain, Lasting
  <2> HIDE DEF e, n, late, before
  <2>5. /\ Added(p, l, r) \in Tally /\ Added(p, l, r).energy = before.energy + e
        /\ Added(p, l, r).covered = before.covered + n
    BY <2>2, <2>3, <1>1 DEF Tally
  <2>6. QED BY <2>4, <2>5, <1>2 DEF before
<1>6. QED BY <1>3, <1>4, <1>5

(* A turn of the loop keeps the invariant if the counter's part of it does. *)
LEMMA Taken ==
    ASSUME MeterInv, NEW s \in Reading, Take(s),
           register' \in 0 .. Capacity - 1, used' \in Nat, replaced' \in {0, 1},
           meter.kind = "counter" /\ IsPlausible(s) => s.value = register',
           meter.kind = "counter" => \A p \in Period :
               5 * Gain(p, sample, s) + 5 * used + Capacity * replaced <= 5 * used' + Capacity * replaced'
    PROVE  MeterInv'
<1>t. /\ meter \in [kind: {"power", "counter"}, rollover: BOOLEAN] /\ tally \in [Period -> Tally]
      /\ sample \in Reading /\ used \in Nat /\ replaced \in {0, 1} /\ Capacity \in Nat
  BY MeteringAssumption DEF MeterInv, MeterTypeOK, Reading
<1>1. sample' = s /\ UNCHANGED meter /\ tally' = [p \in Period |-> Added(p, sample, s)]
  BY DEF Take
<1>2. \A p \in Period : /\ tally'[p] \in Tally
                        /\ tally'[p].energy = tally[p].energy + Gain(p, sample, s)
                        /\ tally'[p].covered = tally[p].covered + Lasting(p, sample, s)
                        /\ tally[p].energy \in Nat /\ tally[p].covered \in Nat
                        /\ Gain(p, sample, s) \in Nat /\ Lasting(p, sample, s) \in Nat
  BY ZenonT(60), <1>1, <1>t, AddedFields DEF Tally
<1>3. MeterTypeOK'
  <2>1. tally' \in [Period -> Tally]
    BY <1>1, <1>2
  <2>2. QED BY <2>1, <1>1, <1>t DEF MeterTypeOK, Reading
<1>4. /\ Gain("first", sample, s) + Gain("second", sample, s) <= Gain("day", sample, s)
      /\ Lasting("first", sample, s) + Lasting("second", sample, s) <= Lasting("day", sample, s)
  <2>1. \A p \in {"first", "second"} :
          /\ Gain(p, sample, s) <= Gain("day", sample, s)
          /\ Lasting(p, sample, s) <= Lasting("day", sample, s)
    <3>1. SUFFICES ASSUME NEW p \in {"first", "second"}
                   PROVE  /\ Gain(p, sample, s) <= Gain("day", sample, s)
                          /\ Lasting(p, sample, s) <= Lasting("day", sample, s)
      OBVIOUS
    <3>2. CASE Usable(p, sample, s) /\ ~IsReset(sample, s)
      <4>1. Usable("day", sample, s)
        BY <3>2, <1>t, Segments
      <4>2. QED BY <4>1, <3>2, <1>t, Segments, SegmentEnergy DEF Gain, Lasting
    <3>3. CASE ~(Usable(p, sample, s) /\ ~IsReset(sample, s))
      <4>1. Gain(p, sample, s) = 0 /\ Lasting(p, sample, s) = 0
        BY <3>3 DEF Gain, Lasting
      <4>2. QED BY <4>1, <1>2 DEF Period
    <3>4. QED BY <3>2, <3>3
  <2>2. \/ Gain("first", sample, s) = 0 /\ Lasting("first", sample, s) = 0
        \/ Gain("second", sample, s) = 0 /\ Lasting("second", sample, s) = 0
    BY <1>t, Segments DEF Gain, Lasting
  <2>3. QED BY <2>1, <2>2, <1>2 DEF Period
<1>5. PartsNeverExceedDay'
  <2>1. /\ tally["first"].energy + tally["second"].energy <= tally["day"].energy
        /\ tally["first"].covered + tally["second"].covered <= tally["day"].covered
    BY DEF MeterInv, PartsNeverExceedDay
  <2>2. "first" \in Period /\ "second" \in Period /\ "day" \in Period
    BY DEF Period
  <2>3. QED BY <1>2, <1>4, <2>1, <2>2 DEF PartsNeverExceedDay
<1>6. CountedWasConsumed'
  <2>1. SUFFICES ASSUME meter.kind = "counter", NEW p \in Period
                 PROVE  5 * tally'[p].energy <= 5 * used' + Capacity * replaced'
    BY <1>1 DEF CountedWasConsumed
  <2>2. 5 * tally[p].energy <= 5 * used + Capacity * replaced
    BY <2>1 DEF MeterInv, CountedWasConsumed
  <2>3. Capacity * replaced \in Nat /\ Capacity * replaced' \in Nat
    <3>1. Capacity * 0 = 0 /\ Capacity * 1 = Capacity
      BY <1>t
    <3>2. replaced \in {0, 1} /\ replaced' \in {0, 1}
      BY <1>t
    <3>3. \A n \in {0, 1} : Capacity * n \in Nat
      BY <3>1, <1>t
    <3>4. QED BY <3>2, <3>3, Zenon
  <2>4. 5 * Gain(p, sample, s) + 5 * used + Capacity * replaced <= 5 * used' + Capacity * replaced'
    BY <2>1
  <2>5. tally'[p].energy = tally[p].energy + Gain(p, sample, s) /\ tally[p].energy \in Nat /\ Gain(p, sample, s) \in Nat
    BY <1>2
  <2> DEFINE cost == Capacity * replaced
             cost2 == Capacity * replaced'
  <2>6. cost \in Nat /\ cost2 \in Nat /\ 5 * tally[p].energy <= 5 * used + cost
        /\ 5 * Gain(p, sample, s) + 5 * used + cost <= 5 * used' + cost2
    BY <2>2, <2>3, <2>4
  <2> HIDE DEF cost, cost2
  <2>7. 5 * tally'[p].energy <= 5 * used' + cost2
    BY <2>5, <2>6, <1>t
  <2>8. QED BY <2>7 DEF cost2
<1>7. QED BY <1>1, <1>3, <1>5, <1>6 DEF MeterInv, IsPlausible

LEMMA MeterStep == MeterInv /\ [MeterNext]_meterVars => MeterInv'
<1> SUFFICES ASSUME MeterInv, [MeterNext]_meterVars PROVE MeterInv'
  OBVIOUS
<1>t. /\ meter \in [kind: {"power", "counter"}, rollover: BOOLEAN] /\ tally \in [Period -> Tally]
      /\ sample \in Reading /\ used \in Nat /\ replaced \in {0, 1} /\ register \in 0 .. Capacity - 1
      /\ Capacity \in Nat \ {0} /\ MaxUse \in 0 .. Capacity /\ LastSample \in Nat
      /\ meter.kind = "counter" /\ IsPlausible(sample) => sample.value = register
  BY MeteringAssumption DEF MeterInv, MeterTypeOK, Reading
<1>r. sample.value \in Nat
  BY <1>t DEF Reading
<1>1. ASSUME NEW t \in 0 .. LastSample, NEW u \in 0 .. MaxUse, Counts(t, u) PROVE MeterInv'
  <2> DEFINE s == [at |-> t, value |-> register']
  <2>1. /\ register' = Wrapped(register + u) /\ used' = used + u /\ Take(s) /\ UNCHANGED replaced
    BY <1>1 DEF Counts
  <2>2. register' \in 0 .. Capacity - 1 /\ register' \in Nat /\ u \in Nat /\ used' \in Nat
    BY <2>1, <1>t DEF Wrapped
  <2>3. s \in Reading /\ s.value = register'
    BY <2>2, <1>t DEF Reading
  <2> HIDE DEF s
  <2>4. ASSUME meter.kind = "counter", NEW p \in Period PROVE Gain(p, sample, s) <= u /\ Gain(p, sample, s) \in Nat
    <3>1. CASE Usable(p, sample, s) /\ ~IsReset(sample, s)
      <4>1. sample.value = register
        BY <3>1, <2>4, <1>t DEF Usable
      <4>2. Gain(p, sample, s) = Delta(sample, s)
        BY <3>1, <2>4 DEF Gain, Energy
      <4>3. Delta(sample, s) <= u /\ Delta(sample, s) \in Nat
        BY <4>1, <2>1, <2>2, <2>3, <1>t DEF Delta, Wrapped
      <4>4. QED BY <4>2, <4>3
    <3>2. CASE ~(Usable(p, sample, s) /\ ~IsReset(sample, s))
      BY <3>2, <2>2 DEF Gain
    <3>3. QED BY <3>1, <3>2
  <2>5. Capacity * replaced \in Nat
    BY <1>t
  <2>6. meter.kind = "counter" => \A p \in Period :
               5 * Gain(p, sample, s) + 5 * used + Capacity * replaced <= 5 * used' + Capacity * replaced'
    BY <2>1, <2>2, <2>4, <2>5, <1>t
  <2>7. QED BY <2>1, <2>2, <2>3, <2>6, <1>t, Taken
<1>2. ASSUME NEW t \in 0 .. LastSample, NEW n \in 0 .. Capacity - 1, ShowsPower(t, n) PROVE MeterInv'
  <2> DEFINE s == [at |-> t, value |-> n]
  <2>1. meter.kind = "power" /\ Take(s) /\ UNCHANGED <<register, used, replaced>>
    BY <1>2 DEF ShowsPower
  <2>2. s \in Reading
    BY <1>t DEF Reading
  <2> HIDE DEF s
  <2>3. QED BY <2>1, <2>2, <1>t, Taken
<1>3. ASSUME NEW t \in 0 .. LastSample, Glitches(t) PROVE MeterInv'
  <2> DEFINE s == [at |-> t, value |-> Capacity]
  <2>1. Take(s) /\ UNCHANGED <<register, used, replaced>>
    BY <1>3 DEF Glitches
  <2>2. s \in Reading /\ ~IsPlausible(s)
    BY <1>t DEF Reading, IsPlausible
  <2> HIDE DEF s
  <2>3. \A p \in Period : Gain(p, sample, s) = 0
    BY <2>2 DEF Gain, Usable
  <2>4. Capacity * replaced \in Nat
    BY <1>t
  <2>5. \A p \in Period : 5 * Gain(p, sample, s) + 5 * used + Capacity * replaced <= 5 * used' + Capacity * replaced'
    BY <2>1, <2>3, <2>4, <1>t
  <2>6. QED BY <2>1, <2>2, <2>5, <1>t, Taken
<1>4. ASSUME NEW t \in 0 .. LastSample, NEW u \in 0 .. MaxUse, NEW n \in 0 .. MaxUse, IsReplaced(t, u, n) PROVE MeterInv'
  <2> DEFINE s == [at |-> t, value |-> register']
  <2>1. /\ register' = Wrapped(n) /\ used' = used + u /\ n <= u /\ replaced = 0 /\ replaced' = 1 /\ Take(s)
    BY <1>4 DEF IsReplaced
  <2>2. register' \in 0 .. Capacity - 1 /\ register' \in Nat /\ u \in Nat /\ used' \in Nat /\ register' <= u
    BY <2>1, <1>t DEF Wrapped
  <2>3. s \in Reading /\ s.value = register'
    BY <2>2, <1>t DEF Reading
  <2> HIDE DEF s
  <2>4. ASSUME meter.kind = "counter", NEW p \in Period
        PROVE  5 * Gain(p, sample, s) <= 5 * u + Capacity /\ Gain(p, sample, s) \in Nat
    <3>1. CASE Usable(p, sample, s) /\ ~IsReset(sample, s)
      <4>1. sample.value = register /\ (s.value < sample.value => RolledOver(sample, s))
        BY <3>1, <2>4, <1>t DEF Usable, IsReset
      <4>2. Gain(p, sample, s) = Delta(sample, s)
        BY <3>1, <2>4 DEF Gain, Energy
      <4>3. 5 * Delta(sample, s) <= 5 * u + Capacity /\ Delta(sample, s) \in Nat
        BY <4>1, <2>1, <2>2, <2>3, <1>t DEF Delta, RolledOver
      <4>4. QED BY <4>2, <4>3
    <3>2. CASE ~(Usable(p, sample, s) /\ ~IsReset(sample, s))
      BY <3>2, <2>2, <1>t DEF Gain
    <3>3. QED BY <3>1, <3>2
  <2>5. Capacity * replaced = 0 /\ Capacity * replaced' = Capacity
    BY <2>1, <1>t
  <2>6. meter.kind = "counter" => \A p \in Period :
               5 * Gain(p, sample, s) + 5 * used + Capacity * replaced <= 5 * used' + Capacity * replaced'
    BY <2>1, <2>2, <2>4, <2>5, <1>t
  <2>7. QED BY <2>1, <2>2, <2>3, <2>6, <1>t, Taken
<1>5. CASE UNCHANGED meterVars
  BY <1>5 DEF meterVars, MeterInv, MeterTypeOK, PartsNeverExceedDay, CountedWasConsumed, IsPlausible
<1>6. QED BY <1>1, <1>2, <1>3, <1>4, <1>5 DEF MeterNext

(* Energy is counted once and only what was consumed, for any day, gaps,    *)
(* register size and samples.                                              *)
THEOREM EnergyCountedOnce == MeterSpec => []EnergyIsCountedOnce
<1>1. ASSUME MeterInit PROVE MeterInv
  <2>1. /\ \A p \in Period : tally[p] = Zero
        /\ tally \in [Period -> Tally]
    BY <1>1 DEF MeterInit, Zero, Tally
  <2>2. PICK t \in 0 .. LastSample : sample = [at |-> t, value |-> register]
    BY <1>1 DEF MeterInit
  <2>3. sample \in [at: Nat, value: Nat] /\ sample.value = register
    BY <1>1, <2>2, MeteringAssumption DEF MeterInit
  <2>4. used = 0 /\ replaced = 0 /\ Capacity * 0 = 0
    BY <1>1, MeteringAssumption DEF MeterInit
  <2>5. MeterTypeOK
    BY <1>1, <2>1, <2>3, <2>4 DEF MeterInit, MeterTypeOK
  <2>6. \A p \in Period : tally[p].energy = 0 /\ tally[p].covered = 0
    BY <2>1 DEF Zero
  <2>7. QED BY <2>3, <2>4, <2>5, <2>6 DEF MeterInv, PartsNeverExceedDay, CountedWasConsumed, Period
<1>2. MeterInv => EnergyIsCountedOnce
  BY DEF MeterInv, EnergyIsCountedOnce
<1>3. QED BY <1>1, <1>2, MeterStep, PTL DEF MeterSpec

-----------------------------------------------------------------------------
(* Figures (ImpactFigures): a final figure covers its day, and no period    *)
(* has a revision twice.                                                   *)
FigureRow == [day: Nat, whole: BOOLEAN, revision: Nat \ {0}, inputs: Inputs, finalized: BOOLEAN]
JobRow == [at: {"idle", "calculate", "baselines", "aggregate"}, kind: {"refresh", "finalize", "backfill"},
           day: Nat, left: Seq(Nat)]

RowsInv(S) ==
    /\ S \subseteq FigureRow
    /\ \E bound \in Nat : \A r \in S : r.revision <= bound
    /\ \A r \in S : r.finalized => r.whole
    /\ \A r, q \in S : r.day = q.day /\ r.whole = q.whole /\ r.revision = q.revision => r = q

FiguresInv ==
    /\ clock \in Nat /\ inputs.now \in Inputs
    /\ RowsInv(rows)
    /\ job \in [ImpactJob -> JobRow]
    /\ baselines \in Seq(SUBSET FigureRow)
    /\ BaselinesAverageWholeDays

LEMMA PersistedRows ==
    ASSUME RowsInv(rows), NEW r \in FigureRow, r.revision = 1, r.finalized => r.whole
    PROVE  RowsInv(Persisted(r))
<1>1. /\ rows \subseteq FigureRow
      /\ \A x \in rows : x.finalized => x.whole
      /\ \A x, y \in rows : x.day = y.day /\ x.whole = y.whole /\ x.revision = y.revision => x = y
  BY DEF RowsInv
<1>2. PICK bound \in Nat : \A x \in rows : x.revision <= bound
  BY DEF RowsInv
<1>3. CASE \E q \in FirstRevision(r) : q.finalized /\ r.finalized
  <2> DEFINE H == Highest(SamePeriod(r))
             next == [r EXCEPT !.revision = H + 1]
  <2>1. H \in Nat /\ \A q \in SamePeriod(r) : q.revision <= H
    <3> DEFINE N == {q.revision : q \in SamePeriod(r)}
    <3>1. N \subseteq Nat /\ N # {}
      BY <1>1, <1>3 DEF SamePeriod, FirstRevision, FigureRow
    <3>2. \A n \in N : n <= bound
      BY <1>2 DEF SamePeriod
    <3>3. PICK m \in N : \A n \in N : n <= m
      BY <3>1, <3>2, GreatestNumber
    <3>4. \E n \in N : \A q \in SamePeriod(r) : q.revision <= n
      BY <3>3
    <3>5. H \in N /\ \A q \in SamePeriod(r) : q.revision <= H
      BY <3>4 DEF Highest
    <3>6. QED BY <3>1, <3>5
  <2>2. H + 1 \in Nat \ {0}
    BY <2>1
  <2> HIDE DEF H
  <2>3. /\ next \in FigureRow /\ next.revision = H + 1 /\ next.day = r.day /\ next.whole = r.whole
        /\ next.finalized = r.finalized
    BY <2>2 DEF FigureRow
  <2> HIDE DEF next
  <2>4. RowsInv(rows \cup {next})
    <3>1. \E top \in Nat : \A x \in rows \cup {next} : x.revision <= top
      <4>1. CASE bound >= H + 1
        BY <1>2, <2>3, <4>1, <2>1
      <4>2. CASE bound < H + 1
        <5>1. \A x \in rows : x.revision \in Nat /\ x.revision <= H + 1
          BY <1>1, <1>2, <4>2, <2>1 DEF FigureRow
        <5>2. QED BY <5>1, <2>2, <2>3
      <4>3. QED BY <4>1, <4>2, <2>1
    <3>2. \A x \in rows : x.day = next.day /\ x.whole = next.whole => x.revision # next.revision
      <4>1. SUFFICES ASSUME NEW x \in rows, x.day = r.day, x.whole = r.whole PROVE x.revision # H + 1
        BY <2>3
      <4>2. x.revision <= H /\ x.revision \in Nat
        BY <4>1, <2>1, <1>1 DEF SamePeriod, FigureRow
      <4>3. QED BY <4>2, <2>1
    <3>3. QED BY <1>1, <2>3, <3>1, <3>2 DEF RowsInv
  <2>5. Persisted(r) = rows \/ Persisted(r) = rows \cup {next}
    BY <1>3 DEF Persisted, next, H
  <2>6. QED BY <2>4, <2>5
<1>4. CASE ~(\E q \in FirstRevision(r) : q.finalized /\ r.finalized)
  <2>1. Persisted(r) = (rows \ FirstRevision(r)) \cup {r}
    BY <1>4 DEF Persisted
  <2>2. \E top \in Nat : \A x \in (rows \ FirstRevision(r)) \cup {r} : x.revision <= top
    <3>1. \A x \in rows : x.revision \in Nat /\ x.revision <= bound + 1
      BY <1>1, <1>2 DEF FigureRow
    <3>2. bound + 1 \in Nat /\ r.revision <= bound + 1
      OBVIOUS
    <3>3. QED BY <3>1, <3>2
  <2>3. \A x \in rows \ FirstRevision(r) : x.day = r.day /\ x.whole = r.whole => x.revision # 1
    BY DEF FirstRevision, SamePeriod
  <2>4. QED BY <1>1, <2>1, <2>2, <2>3 DEF RowsInv
<1>5. QED BY <1>3, <1>4

LEMMA FiguresStep == FiguresInv /\ [FiguresNext]_figuresVars => FiguresInv'
<1> SUFFICES ASSUME FiguresInv, [FiguresNext]_figuresVars PROVE FiguresInv'
  OBVIOUS
<1>t. /\ clock \in Nat /\ inputs.now \in Inputs /\ RowsInv(rows) /\ job \in [ImpactJob -> JobRow]
      /\ baselines \in Seq(SUBSET FigureRow) /\ LastDay \in Nat /\ BaselinesAverageWholeDays
  BY FiguresAssumption DEF FiguresInv
<1>0. ASSUME UNCHANGED <<rows, baselines>>, clock' \in Nat, inputs'.now \in Inputs, job' \in [ImpactJob -> JobRow]
      PROVE  FiguresInv'
  BY <1>0, <1>t DEF FiguresInv, BaselinesAverageWholeDays, RowsInv
<1>1. ASSUME NEW j \in ImpactJob, NEW kind \in {"refresh", "finalize", "backfill"}, NEW d \in Nat,
             NEW rest \in Seq(Nat), StartJob(j, kind, d, rest)
      PROVE  FiguresInv'
  <2> DEFINE new == [at |-> "calculate", kind |-> kind, day |-> d, left |-> rest]
  <2>1. job' = [job EXCEPT ![j] = new] /\ UNCHANGED <<clock, inputs, rows, baselines>>
    BY <1>1 DEF StartJob
  <2>2. new \in JobRow
    BY DEF JobRow
  <2> HIDE DEF new
  <2>3. QED BY <1>0, <2>1, <2>2, <1>t
<1>e. << >> \in Seq(Nat)
  BY EmptySeq
<1>d. Today \in Nat
  BY <1>t DEF Today
<1>2. ASSUME NEW j \in ImpactJob, StartRefresh(j) PROVE FiguresInv'
  BY <1>1, <1>2, <1>d, <1>e DEF StartRefresh
<1>3. ASSUME NEW j \in ImpactJob, StartFinalization(j) PROVE FiguresInv'
  <2>1. Today - 1 \in Nat
    BY <1>3, <1>d DEF StartFinalization
  <2>2. QED BY <1>1, <1>3, <2>1, <1>e DEF StartFinalization
<1>4. ASSUME NEW j \in ImpactJob, StartBackfill(j) PROVE FiguresInv'
  <2>1. Past \in Seq(Nat)
    <3> DEFINE k == IF MonthOver THEN LastDay ELSE Today - 1
    <3>1. k \in Int
      BY <1>d, <1>t
    <3>2. Past # << >> => k \in Nat
      <4>1. CASE k < 1
        <5>1. Past = [n \in 1 .. 0 |-> n]
          <6>1. 1 .. k = 1 .. 0
            BY <3>1, <4>1
          <6> HIDE DEF k
          <6>2. QED BY <6>1 DEF Past, k
        <5>2. QED BY <5>1
      <4>2. QED BY <3>1, <4>1
    <3>3. k \in Nat
      BY <1>4, <3>2 DEF StartBackfill
    <3>4. Past = [n \in 1 .. k |-> n]
      BY DEF Past
    <3> HIDE DEF k
    <3>5. QED BY <3>3, <3>4
  <2>2. Head(Past) \in Nat /\ Tail(Past) \in Seq(Nat)
    BY <1>4, <2>1, HeadTailProperties DEF StartBackfill
  <2>3. QED BY <1>1, <1>4, <2>2 DEF StartBackfill
<1>5. ASSUME NEW j \in ImpactJob, Calculate(j) PROVE FiguresInv'
  <2> DEFINE d == job[j].day
             final == job[j].kind # "refresh"
             whole == final \/ clock >= 2 * d + 2
             r == Figure(d, whole, final)
             point == IF final THEN "baselines" ELSE "aggregate"
  <2>1. d \in Nat /\ final \in BOOLEAN /\ whole \in BOOLEAN /\ (final => whole) /\ job[j] \in JobRow
    BY <1>t DEF JobRow
  <2>2. /\ rows' = IF clock = 2 * d THEN rows ELSE Persisted(r)
        /\ job' = [job EXCEPT ![j] = [job[j] EXCEPT !.at = point]] /\ UNCHANGED <<clock, inputs, baselines>>
    BY <1>5, <1>t DEF Calculate
  <2>3. r \in FigureRow /\ r.revision = 1 /\ (r.finalized => r.whole)
    <3> HIDE DEF d, final, whole
    <3>1. QED BY <2>1, <1>t DEF Figure, FigureRow
  <2>4. RowsInv(rows')
    <3> HIDE DEF r
    <3>1. RowsInv(Persisted(r))
      BY <2>3, <1>t, PersistedRows
    <3>2. QED BY <3>1, <2>2, <1>t
  <2>5. job' \in [ImpactJob -> JobRow]
    <3>1. point \in {"baselines", "aggregate"}
      OBVIOUS
    <3> HIDE DEF point
    <3>2. [job[j] EXCEPT !.at = point] \in JobRow
      BY <2>1, <3>1 DEF JobRow
    <3>3. QED BY <2>2, <3>2, <1>t
  <2>6. QED BY <2>2, <2>4, <2>5, <1>t DEF FiguresInv, BaselinesAverageWholeDays
<1>6. ASSUME NEW j \in ImpactJob, RefreshBaselines(j) PROVE FiguresInv'
  <2> DEFINE averaged == NewestOf(Comparable)
             rest == job[j].left
             next == IF rest = << >> THEN [job[j] EXCEPT !.at = "aggregate"]
                     ELSE [job[j] EXCEPT !.at = "calculate", !.day = Head(rest), !.left = Tail(rest)]
  <2>1. /\ baselines' = baselines \/ baselines' = Append(baselines, averaged)
        /\ job' = [job EXCEPT ![j] = next] /\ UNCHANGED <<clock, inputs, rows>>
    BY <1>6, <1>t DEF RefreshBaselines
  <2>2. next \in JobRow
    <3>1. job[j] \in JobRow /\ rest \in Seq(Nat)
      BY <1>t DEF JobRow
    <3>2. CASE rest = << >>
      BY <3>1, <3>2 DEF JobRow
    <3>3. CASE rest # << >>
      <4>1. Head(rest) \in Nat /\ Tail(rest) \in Seq(Nat)
        BY <3>1, <3>3, HeadTailProperties
      <4> DEFINE h == Head(rest)
                 u == Tail(rest)
      <4>2. next = [job[j] EXCEPT !.at = "calculate", !.day = h, !.left = u]
        BY <3>3
      <4> HIDE DEF h, u
      <4>3. [job[j] EXCEPT !.at = "calculate", !.day = h, !.left = u] \in JobRow
        BY <3>1, <4>1 DEF JobRow, h, u
      <4>4. QED BY <4>2, <4>3
    <3>4. QED BY <3>2, <3>3
  <2>3. job' \in [ImpactJob -> JobRow]
    <3> HIDE DEF next
    <3>1. QED BY <2>1, <2>2, <1>t
  <2>4. averaged \in SUBSET FigureRow /\ \A r \in averaged : r.whole
    BY <1>t DEF NewestOf, Comparable, RowsInv
  <2>5. \A r, q \in averaged : r.day = q.day => r = q
    <3>1. SUFFICES ASSUME NEW r \in averaged, NEW q \in averaged, r.day = q.day PROVE r = q
      OBVIOUS
    <3>2. r \in rows /\ q \in rows /\ r.finalized /\ q.finalized /\ q.revision <= r.revision /\ r.revision <= q.revision
      BY <3>1 DEF NewestOf, Comparable
    <3>3. r.revision = q.revision
      BY <3>2, <1>t DEF RowsInv, FigureRow
    <3>4. r.whole = q.whole
      BY <3>2, <1>t DEF RowsInv, FigureRow
    <3>5. QED BY <3>1, <3>2, <3>3, <3>4, <1>t DEF RowsInv
  <2> HIDE DEF averaged
  <2>6. baselines' \in Seq(SUBSET FigureRow) /\ BaselinesAverageWholeDays'
    <3>1. CASE baselines' = baselines
      BY <3>1, <1>t DEF BaselinesAverageWholeDays
    <3>2. CASE baselines' = Append(baselines, averaged)
      <4>1. /\ baselines' \in Seq(SUBSET FigureRow)
            /\ Len(baselines') = Len(baselines) + 1
            /\ \A k \in 1 .. Len(baselines) : baselines'[k] = baselines[k]
            /\ baselines'[Len(baselines) + 1] = averaged
        BY <3>2, <2>4, <1>t, AppendProperties
      <4>2. DOMAIN baselines = 1 .. Len(baselines) /\ DOMAIN baselines' = 1 .. (Len(baselines) + 1) /\ Len(baselines) \in Nat
        BY <4>1, <1>t, LenProperties
      <4>3. ASSUME NEW k \in DOMAIN baselines'
            PROVE  (\A r \in baselines'[k] : r.whole) /\ \A r, q \in baselines'[k] : r.day = q.day => r = q
        <5>1. CASE k = Len(baselines) + 1
          BY <5>1, <4>1, <2>4, <2>5
        <5>2. CASE k \in 1 .. Len(baselines)
          BY <5>2, <4>1, <4>2, <1>t DEF BaselinesAverageWholeDays
        <5>3. QED BY <5>1, <5>2, <4>2
      <4>4. QED BY <4>1, <4>3 DEF BaselinesAverageWholeDays
    <3>3. QED BY <2>1, <3>1, <3>2
  <2>7. QED BY <2>1, <2>3, <2>6, <1>t DEF FiguresInv
<1>7. ASSUME NEW j \in ImpactJob, Aggregate(j) \/ JobDies(j) PROVE FiguresInv'
  <2>1. job' = [job EXCEPT ![j] = NoJob] /\ UNCHANGED <<clock, inputs, rows, baselines>>
    BY <1>7 DEF Aggregate, JobDies
  <2>2. NoJob \in JobRow
    BY EmptySeq DEF NoJob, JobRow
  <2>3. QED BY <1>0, <2>1, <2>2, <1>t
<1>8. CASE ChangeInputs
  <2>1. inputs'.now \in Inputs /\ UNCHANGED <<clock, rows, baselines, job>>
    BY <1>8 DEF ChangeInputs
  <2>2. QED BY <1>0, <2>1, <1>t
<1>9. CASE TimePasses
  BY <1>0, <1>9, <1>t DEF TimePasses
<1>10. CASE UNCHANGED figuresVars
  BY <1>0, <1>10, <1>t DEF figuresVars
<1>11. QED BY <1>2, <1>3, <1>4, <1>5, <1>6, <1>7, <1>8, <1>9, <1>10 DEF FiguresNext

(* Baselines average whole days, each once, for any month, number of jobs   *)
(* and changes of the inputs.                                              *)
THEOREM BaselinesHoldWholeDays == FiguresSpec => []BaselinesAverageWholeDays
<1>1. ASSUME FiguresInit PROVE FiguresInv
  <2>1. job = [j \in ImpactJob |-> NoJob] /\ NoJob \in JobRow
    BY <1>1, EmptySeq DEF FiguresInit, NoJob, JobRow
  <2>2. baselines = << >> /\ rows = {} /\ clock = 2 /\ inputs.now \in Inputs
    BY <1>1 DEF FiguresInit
  <2>3. RowsInv(rows)
    <3>1. 0 \in Nat
      OBVIOUS
    <3>2. QED BY <2>2, <3>1 DEF RowsInv
  <2>4. BaselinesAverageWholeDays /\ baselines \in Seq(SUBSET FigureRow)
    BY <2>2, EmptySeq DEF BaselinesAverageWholeDays
  <2>5. QED BY <2>1, <2>2, <2>3, <2>4 DEF FiguresInv
<1>2. FiguresInv => BaselinesAverageWholeDays
  BY DEF FiguresInv
<1>3. QED BY <1>1, <1>2, FiguresStep, PTL DEF FiguresSpec

-----------------------------------------------------------------------------
(* Reports (ImpactReports), until the month is too old: each revision under *)
(* way has one owner and was not announced, and what an owner has done so   *)
(* far is there.                                                           *)
ReportRow == [status: ReportStatus, filled: BOOLEAN, named: BOOLEAN]
ReporterRow == [at: ReporterStep, revision: Nat, retries: Nat, monthly: BOOLEAN]
Owning == {"fill", "render", "ready", "failing"}

ReporterOK(w) ==
    /\ reporter[w].at \in Owning =>
          /\ reporter[w].revision \in Revisions
          /\ reports[reporter[w].revision].status = "generating"
          /\ reporter[w].revision \notin notified
    /\ reporter[w].at \in {"render", "ready"} => reports[reporter[w].revision].filled
    /\ reporter[w].at = "ready" => reporter[w].revision \in files
    /\ reporter[w].at = "mail" => reporter[w].revision \in Ready
    /\ reporter[w].at # "removing"

SoleOwners ==
    \A v, w \in Reporter :
        v # w /\ reporter[v].at \in Owning /\ reporter[w].at \in Owning => reporter[v].revision # reporter[w].revision

RevisionOK(n) ==
    reports[n].status = "ready" \/ n \in notified => reports[n].status = "ready" /\ reports[n].filled /\ n \in files

ReportsWhole ==
    /\ reports \in Seq(ReportRow) /\ reporter \in [Reporter -> ReporterRow] /\ notified \subseteq Revisions
    /\ \A w \in Reporter : ReporterOK(w)
    /\ SoleOwners
    /\ \A n \in Revisions : RevisionOK(n)

ReportsInv == ~old => ReportsWhole

(* An owner's step on its own revision.                                    *)
LEMMA OwnerMoved ==
    ASSUME ReportsWhole, NEW w \in Reporter, reporter[w].at \in Owning, NEW n, n = reporter[w].revision,
           reports' \in Seq(ReportRow), DOMAIN reports' = DOMAIN reports,
           \A m \in Revisions \ {n} : reports'[m] = reports[m],
           \A m \in Revisions \ {n} : m \in files => m \in files',
           UNCHANGED notified,
           NEW new \in ReporterRow, reporter' = [reporter EXCEPT ![w] = new],
           new.at \in Owning => new.revision = n,
           ReporterOK(w)', RevisionOK(n)'
    PROVE  ReportsWhole'
<1> USE DEF Revisions
<1>1. reporter' \in [Reporter -> ReporterRow] /\ reporter'[w] = new /\ \A v \in Reporter \ {w} : reporter'[v] = reporter[v]
  BY DEF ReportsWhole
<1>2. n \in Revisions /\ reports[n].status = "generating" /\ n \notin notified
  BY DEF ReportsWhole, ReporterOK
<1>3. ASSUME NEW v \in Reporter PROVE ReporterOK(v)'
  <2>1. CASE v = w
    BY <2>1
  <2>2. CASE v # w
    <3>1. reporter'[v] = reporter[v] /\ ReporterOK(v)
      BY <2>2, <1>1 DEF ReportsWhole
    <3>2. CASE reporter[v].at \in Owning
      <4>1. reporter[v].revision \in Revisions \ {n}
        BY <2>2, <3>1, <3>2 DEF ReportsWhole, SoleOwners, ReporterOK
      <4>2. QED BY <3>1, <3>2, <4>1 DEF ReporterOK, Owning
    <3>3. CASE reporter[v].at = "mail"
      <4>1. reporter[v].revision \in Revisions \ {n} /\ reports[reporter[v].revision].status = "ready"
        BY <1>2, <3>1, <3>3 DEF ReporterOK, Ready
      <4>2. QED BY <3>1, <3>3, <4>1 DEF ReporterOK, Ready, Owning
    <3>4. CASE reporter[v].at \notin Owning \cup {"mail"}
      BY <3>1, <3>4 DEF ReporterOK, Owning
    <3>5. QED BY <3>2, <3>3, <3>4
  <2>3. QED BY <2>1, <2>2
<1>4. SoleOwners'
  BY <1>1 DEF ReportsWhole, SoleOwners
<1>5. ASSUME NEW m \in Revisions PROVE RevisionOK(m)'
  <2>1. CASE m = n
    BY <2>1
  <2>2. CASE m # n
    BY <2>2 DEF ReportsWhole, RevisionOK
  <2>3. QED BY <2>1, <2>2
<1>6. QED BY <1>1, <1>3, <1>4, <1>5 DEF ReportsWhole

(* A step that leaves the rows alone and after which w owns nothing.        *)
LEMMA OthersMoved ==
    ASSUME ReportsWhole, NEW w \in Reporter, UNCHANGED <<reports, files>>,
           NEW sent2 \in SUBSET Ready, notified' = notified \cup sent2,
           NEW new \in ReporterRow, reporter' = [reporter EXCEPT ![w] = new],
           new.at \in {"idle", "queued", "mail"}, new.at = "mail" => new.revision \in Ready
    PROVE  ReportsWhole'
<1> USE DEF Revisions
<1>1. reporter' \in [Reporter -> ReporterRow] /\ reporter'[w] = new /\ \A v \in Reporter \ {w} : reporter'[v] = reporter[v]
  BY DEF ReportsWhole
<1>2. ASSUME NEW v \in Reporter PROVE ReporterOK(v)'
  <2>1. CASE v = w
    BY <2>1, <1>1 DEF ReporterOK, Owning, Ready
  <2>2. CASE v # w
    <3>1. reporter'[v] = reporter[v] /\ ReporterOK(v)
      BY <2>2, <1>1 DEF ReportsWhole
    <3>2. QED BY <3>1 DEF ReporterOK, Ready
  <2>3. QED BY <2>1, <2>2
<1>3. SoleOwners'
  BY <1>1 DEF ReportsWhole, SoleOwners, Owning
<1>4. ASSUME NEW m \in Revisions PROVE RevisionOK(m)'
  BY DEF ReportsWhole, RevisionOK, Ready
<1>5. notified' \subseteq Revisions
  BY DEF ReportsWhole, Ready
<1>6. QED BY <1>1, <1>2, <1>3, <1>4, <1>5 DEF ReportsWhole

LEMMA ReportsStep == ReportsInv /\ [ReportsNext]_reportVars => ReportsInv'
<1> USE DEF Revisions
<1> SUFFICES ASSUME ReportsInv, [ReportsNext]_reportVars, ~old' PROVE ReportsWhole'
  BY DEF ReportsInv
<1>1. CASE UNCHANGED reportVars
  BY <1>1 DEF reportVars, ReportsInv, ReportsWhole, ReporterOK, SoleOwners, RevisionOK, Ready
<1>2. CASE MonthGrowsOld
  BY <1>2 DEF MonthGrowsOld
<1> SUFFICES ASSUME NEW w \in Reporter,
                    \/ DispatchMonth(w) \/ AskForReport(w) \/ Begin(w) \/ Fill(w) \/ StorePdf(w) \/ MarkReady(w)
                    \/ RecordFailure(w) \/ Announce(w) \/ ReporterDies(w) \/ RemoveFiles(w) \/ RemoveRows(w)
             PROVE  ReportsWhole'
  BY <1>1, <1>2 DEF ReportsNext
<1>3. UNCHANGED old /\ ReportsWhole
  <2>1. UNCHANGED old
    BY DEF DispatchMonth, AskForReport, Begin, Fill, StorePdf, MarkReady, RecordFailure, Announce, ReporterDies,
           RemoveFiles, RemoveRows
  <2>2. QED BY <2>1 DEF ReportsInv
<1> PICK n : n = reporter[w].revision
  OBVIOUS
<1> DEFINE me == reporter[w]
<1>t. /\ reports \in Seq(ReportRow) /\ reporter \in [Reporter -> ReporterRow] /\ me \in ReporterRow
      /\ notified \subseteq Revisions
      /\ ReporterOK(w) /\ \A m \in Revisions : RevisionOK(m)
      /\ Revisions = 1 .. Len(reports) /\ Len(reports) \in Nat
      /\ \A m \in Revisions : reports[m] \in ReportRow
  BY <1>3, LenProperties, ElementOfSeq DEF ReportsWhole
<1>a. \A point \in ReporterStep : [me EXCEPT !.at = point] \in ReporterRow /\ [me EXCEPT !.at = point].at = point
                                /\ [me EXCEPT !.at = point].revision = n
  BY <1>t DEF ReporterRow
<1>b. ASSUME NEW point \in ReporterStep, GoTo(w, point)
      PROVE  reporter' = [reporter EXCEPT ![w] = [me EXCEPT !.at = point]] /\ reporter'[w] = [me EXCEPT !.at = point]
  BY <1>b, <1>t DEF GoTo
<1>c. ASSUME NEW row \in ReportRow, SaveReport(n, row), me.at \in Owning
      PROVE  /\ reports' \in Seq(ReportRow) /\ DOMAIN reports' = DOMAIN reports /\ reports'[n] = row
             /\ \A m \in Revisions \ {n} : reports'[m] = reports[m]
  <2>1. n \in Revisions /\ reports[n].status = "generating"
    BY <1>c, <1>t DEF ReporterOK
  <2>2. reports' = [reports EXCEPT ![n] = row]
    BY <1>c, <2>1 DEF SaveReport
  <2>3. QED BY <2>1, <2>2, <1>t, ExceptSeq
<1>f. ASSUME me.at \in Owning, GoTo(w, "failing"), UNCHANGED <<reports, files, notified>> PROVE ReportsWhole'
  <2>1. "failing" \in ReporterStep
    BY DEF ReporterStep
  <2>2. n \in Revisions
    BY <1>f, <1>t DEF ReporterOK
  <2>3. ReporterOK(w)'
    BY ZenonT(60), <1>f, <1>a, <1>b, <2>1, <1>t DEF ReporterOK, Owning
  <2>4. RevisionOK(n)'
    BY <1>f, <1>t, <2>2 DEF RevisionOK
  <2>5. QED BY <1>f, <1>a, <1>b, <1>3, <1>t, <2>1, <2>3, <2>4, OwnerMoved
<1>4. ASSUME DispatchMonth(w) \/ AskForReport(w) \/ ReporterDies(w) PROVE ReportsWhole'
  <2>1. PICK new \in ReporterRow : reporter' = [reporter EXCEPT ![w] = new] /\ new.at \in {"idle", "queued"}
    <3>1. NoReport \in ReporterRow /\ NoReport.at = "idle"
      BY DEF NoReport, ReporterRow, ReporterStep
    <3>2. /\ [NoReport EXCEPT !.at = "queued"] \in ReporterRow
          /\ [NoReport EXCEPT !.at = "queued"].at = "queued"
          /\ [NoReport EXCEPT !.at = "queued", !.monthly = TRUE] \in ReporterRow
          /\ [NoReport EXCEPT !.at = "queued", !.monthly = TRUE].at = "queued"
      BY DEF NoReport, ReporterRow, ReporterStep
    <3>3. QED BY <1>4, <3>1, <3>2 DEF DispatchMonth, AskForReport, ReporterDies
  <2>2. UNCHANGED <<reports, files, notified>>
    BY <1>4 DEF DispatchMonth, AskForReport, ReporterDies
  <2>3. notified' = notified \cup {} /\ {} \in SUBSET Ready
    BY <2>2
  <2>4. QED BY <2>1, <2>2, <2>3, <1>3, OthersMoved
<1>5. ASSUME Begin(w) PROVE ReportsWhole'
  <2>1. CASE reporter[w].monthly /\ Ready # {}
    <3> DEFINE top == LatestOf(Ready)
               new == [me EXCEPT !.at = "mail", !.revision = top]
    <3>1. top \in Ready /\ top \in Nat
      <4>1. Ready \in SUBSET Nat /\ \A m \in Ready : m <= Len(reports)
        BY <1>t DEF Ready
      <4>2. PICK m \in Ready : \A k \in Ready : k <= m
        BY <2>1, <4>1, <1>t, GreatestNumber
      <4>3. top \in Ready
        BY <4>2 DEF LatestOf
      <4>4. QED BY <4>1, <4>3
    <3>2. UNCHANGED <<reports, files, notified>> /\ reporter' = [reporter EXCEPT ![w] = new]
      <4>1. UNCHANGED <<reports, files, notified>>
            /\ reporter' = [reporter EXCEPT ![w].at = "mail", ![w].revision = LatestOf(Ready)]
        BY <1>5, <2>1 DEF Begin
      <4> HIDE DEF top
      <4>2. [reporter EXCEPT ![w].at = "mail", ![w].revision = top] = [reporter EXCEPT ![w] = new]
        BY <1>t DEF ReporterRow
      <4>3. QED BY <4>1, <4>2 DEF top
    <3> HIDE DEF top
    <3>3. new \in ReporterRow /\ new.at = "mail" /\ new.revision = top
      BY <3>1, <1>t DEF ReporterRow, ReporterStep
    <3> HIDE DEF new
    <3>4. notified' = notified \cup {} /\ {} \in SUBSET Ready
      BY <3>2
    <3>5. QED BY <3>1, <3>2, <3>3, <3>4, <1>3, OthersMoved
  <2>2. CASE ~(reporter[w].monthly /\ Ready # {})
    <3> DEFINE row == [status |-> "generating", filled |-> FALSE, named |-> FALSE]
               next == Len(reports) + 1
               new == [me EXCEPT !.at = "fill", !.revision = next]
    <3>1. /\ reports' = Append(reports, row) /\ UNCHANGED <<files, notified>>
          /\ reporter' = [reporter EXCEPT ![w].at = "fill", ![w].revision = Len(reports')]
      BY <1>5, <2>2 DEF Begin
    <3>2. row \in ReportRow /\ row.status = "generating"
      BY DEF ReportRow, ReportStatus
    <3> HIDE DEF row
    <3>3. /\ reports' \in Seq(ReportRow) /\ Len(reports') = next /\ reports'[next] = row
          /\ \A m \in Revisions : reports'[m] = reports[m]
      BY <3>1, <3>2, <1>t, AppendProperties
    <3>4. /\ DOMAIN reports' = 1 .. next /\ next \in Nat /\ next \notin Revisions
          /\ Revisions \subseteq 1 .. next /\ \A m \in 1 .. next : m \in Revisions \/ m = next
      BY <3>3, <1>t, LenProperties
    <3> HIDE DEF next
    <3>5. reporter' = [reporter EXCEPT ![w] = new]
      <4>1. [reporter EXCEPT ![w].at = "fill", ![w].revision = next] = [reporter EXCEPT ![w] = new]
        BY <1>t DEF ReporterRow
      <4>2. QED BY <4>1, <3>1, <3>3
    <3>6. new \in ReporterRow /\ new.at = "fill" /\ new.revision = next
      BY <3>4, <1>t DEF ReporterRow, ReporterStep
    <3> HIDE DEF new
    <3>7. reporter' \in [Reporter -> ReporterRow] /\ reporter'[w] = new /\ \A v \in Reporter \ {w} : reporter'[v] = reporter[v]
      BY <3>5, <3>6, <1>t
    <3>8. ASSUME NEW v \in Reporter PROVE ReporterOK(v)'
      <4>1. CASE v = w
        BY <4>1, <3>1, <3>2, <3>3, <3>4, <3>6, <3>7, <1>t DEF ReporterOK, Owning
      <4>2. CASE v # w
        <5>1. reporter'[v] = reporter[v] /\ ReporterOK(v)
          BY <4>2, <3>7, <1>3 DEF ReportsWhole
        <5>2. reporter[v].at \in Owning \cup {"mail"} => reporter[v].revision \in Revisions
          BY <5>1 DEF ReporterOK, Ready
        <5>3. QED BY <5>1, <5>2, <3>1, <3>3, <3>4 DEF ReporterOK, Owning, Ready
      <4>3. QED BY <4>1, <4>2
    <3>9. SoleOwners'
      <4>1. \A v \in Reporter : reporter[v].at \in Owning => reporter[v].revision \in Revisions
        BY <1>3 DEF ReportsWhole, ReporterOK
      <4>2. QED BY <4>1, <3>4, <3>6, <3>7, <1>3 DEF ReportsWhole, SoleOwners
    <3>10. ASSUME NEW m \in DOMAIN reports' PROVE RevisionOK(m)'
      <4>1. CASE m = next
        BY <4>1, <3>1, <3>2, <3>3, <3>4, <1>t DEF RevisionOK
      <4>2. CASE m \in Revisions
        BY <4>2, <3>1, <3>3, <1>t DEF RevisionOK
      <4>3. QED BY <4>1, <4>2, <3>4
    <3>11. notified' \subseteq DOMAIN reports'
      BY <3>1, <3>4, <1>t
    <3>12. QED BY <3>3, <3>7, <3>8, <3>9, <3>10, <3>11 DEF ReportsWhole
  <2>3. QED BY <2>1, <2>2
<1>6. ASSUME Fill(w) PROVE ReportsWhole'
  <2>1. CASE GoTo(w, "failing") /\ UNCHANGED reports
    BY <1>6, <2>1, <1>f DEF Fill, Owning
  <2>2. CASE SaveReport(n, [reports[n] EXCEPT !.filled = TRUE]) /\ GoTo(w, "render")
    <3> DEFINE row == [reports[n] EXCEPT !.filled = TRUE]
    <3>1. me.at = "fill" /\ me.at \in Owning /\ UNCHANGED <<files, notified>> /\ "render" \in ReporterStep
      BY <1>6 DEF Fill, Owning, ReporterStep
    <3>2. n \in Revisions /\ reports[n].status = "generating" /\ n \notin notified
      BY <3>1, <1>t DEF ReporterOK
    <3>3. row \in ReportRow /\ row.status = "generating" /\ row.filled
      BY <3>2, <1>t DEF ReportRow
    <3> HIDE DEF row
    <3>4. /\ reports' \in Seq(ReportRow) /\ DOMAIN reports' = DOMAIN reports /\ reports'[n] = row
          /\ \A m \in Revisions \ {n} : reports'[m] = reports[m]
      BY <2>2, <3>1, <3>3, <1>c DEF row
    <3>5. ReporterOK(w)' /\ RevisionOK(n)'
      BY <2>2, <3>1, <3>2, <3>3, <3>4, <1>a, <1>b DEF ReporterOK, RevisionOK, Owning
    <3>6. QED BY <2>2, <3>1, <3>4, <3>5, <1>a, <1>b, <1>3, OwnerMoved
  <2>3. QED BY <1>6, <2>1, <2>2 DEF Fill
<1>7. ASSUME StorePdf(w) PROVE ReportsWhole'
  <2>1. CASE GoTo(w, "failing") /\ UNCHANGED files
    BY <1>7, <2>1, <1>f DEF StorePdf, Owning
  <2>2. CASE files' = files \cup {n} /\ GoTo(w, "ready")
    <3>1. me.at = "render" /\ me.at \in Owning /\ UNCHANGED <<reports, notified>> /\ "ready" \in ReporterStep
      BY <1>7 DEF StorePdf, Owning, ReporterStep
    <3>2. n \in Revisions /\ reports[n].status = "generating" /\ n \notin notified /\ reports[n].filled
      BY <3>1, <1>t DEF ReporterOK
    <3>3. ReporterOK(w)' /\ RevisionOK(n)'
      BY <2>2, <3>1, <3>2, <1>a, <1>b DEF ReporterOK, RevisionOK, Owning
    <3>4. QED BY <2>2, <3>1, <3>3, <1>a, <1>b, <1>t, <1>3, OwnerMoved
  <2>3. QED BY <1>7, <2>1, <2>2 DEF StorePdf
<1>8. ASSUME MarkReady(w) PROVE ReportsWhole'
  <2>1. CASE GoTo(w, "failing") /\ UNCHANGED reports
    BY <1>8, <2>1, <1>f DEF MarkReady, Owning
  <2>2. CASE /\ SaveReport(n, [reports[n] EXCEPT !.status = "ready", !.named = TRUE])
             /\ GoTo(w, IF reporter[w].monthly THEN "mail" ELSE "idle")
    <3> DEFINE row == [reports[n] EXCEPT !.status = "ready", !.named = TRUE]
               point == IF reporter[w].monthly THEN "mail" ELSE "idle"
    <3>1. me.at = "ready" /\ me.at \in Owning /\ UNCHANGED <<files, notified>>
      BY <1>8 DEF MarkReady, Owning
    <3>2. /\ n \in Revisions /\ reports[n].status = "generating" /\ n \notin notified /\ reports[n].filled
          /\ n \in files
      BY <3>1, <1>t DEF ReporterOK
    <3>3. row \in ReportRow /\ row.status = "ready" /\ row.filled
      BY <3>2, <1>t DEF ReportRow, ReportStatus
    <3>4. point \in ReporterStep /\ point \in {"mail", "idle"}
      BY DEF ReporterStep
    <3>5. SaveReport(n, row) /\ GoTo(w, point)
      BY <2>2
    <3> HIDE DEF row, point
    <3>6. /\ reports' \in Seq(ReportRow) /\ DOMAIN reports' = DOMAIN reports /\ reports'[n] = row
          /\ \A m \in Revisions \ {n} : reports'[m] = reports[m]
      BY <3>1, <3>3, <3>5, <1>c
    <3>7. ReporterOK(w)'
      BY <3>1, <3>2, <3>3, <3>4, <3>5, <3>6, <1>a, <1>b DEF ReporterOK, Owning, Ready
    <3>8. RevisionOK(n)'
      BY <3>1, <3>2, <3>3, <3>6 DEF RevisionOK
    <3>9. QED BY <3>1, <3>4, <3>5, <3>6, <3>7, <3>8, <1>a, <1>b, <1>3, OwnerMoved
  <2>3. QED BY <1>8, <2>1, <2>2 DEF MarkReady
<1>9. ASSUME RecordFailure(w) PROVE ReportsWhole'
  <2> DEFINE row == [reports[n] EXCEPT !.status = "failed", !.named = FALSE]
             new == IF reporter[w].monthly /\ reporter[w].retries < ReportRetries
                    THEN [NoReport EXCEPT !.at = "queued", !.monthly = TRUE, !.retries = reporter[w].retries + 1]
                    ELSE NoReport
  <2>1. /\ me.at = "failing" /\ me.at \in Owning /\ UNCHANGED notified /\ files' = files \ {n}
        /\ SaveReport(n, row) /\ reporter' = [reporter EXCEPT ![w] = new]
    BY <1>9 DEF RecordFailure, FilesWithout, TryAgain, Owning
  <2>2. n \in Revisions /\ n \notin notified
    BY <2>1, <1>t DEF ReporterOK
  <2>3. row \in ReportRow /\ row.status = "failed"
    BY <2>2, <1>t DEF ReportRow, ReportStatus
  <2>4. new \in ReporterRow /\ new.at \in {"idle", "queued"}
    <3>1. reporter[w].retries + 1 \in Nat
      BY <1>t DEF ReporterRow
    <3>2. QED BY <3>1 DEF NoReport, ReporterRow, ReporterStep
  <2> HIDE DEF row, new
  <2>5. /\ reports' \in Seq(ReportRow) /\ DOMAIN reports' = DOMAIN reports /\ reports'[n] = row
        /\ \A m \in Revisions \ {n} : reports'[m] = reports[m]
    BY <2>1, <2>3, <1>c
  <2>6. reporter'[w] = new
    BY <2>1, <1>t
  <2>7. ReporterOK(w)' /\ RevisionOK(n)'
    BY <2>1, <2>2, <2>3, <2>4, <2>5, <2>6 DEF ReporterOK, RevisionOK, Owning
  <2>8. QED BY <2>1, <2>4, <2>5, <2>7, <1>3, <1>t, OwnerMoved DEF Owning
<1>10. ASSUME Announce(w) PROVE ReportsWhole'
  <2>1. n \in Ready /\ UNCHANGED <<reports, files>> /\ me.at = "mail"
    BY <1>10, <1>t DEF Announce, ReporterOK
  <2>2. PICK sent2 \in SUBSET Ready : notified' = notified \cup sent2
    <3>1. notified' = notified \cup {} \/ notified' = notified \cup {n}
      BY <1>10 DEF Announce
    <3>2. QED BY <2>1, <3>1
  <2>3. PICK new \in ReporterRow : reporter' = [reporter EXCEPT ![w] = new] /\ new.at \in {"idle", "queued"}
    <3>1. CASE GoTo(w, "idle")
      BY <3>1, <1>a, <1>b DEF ReporterStep
    <3>2. CASE TryAgain(w)
      <4>1. reporter[w].retries + 1 \in Nat
        BY <1>t DEF ReporterRow
      <4>2. /\ [NoReport EXCEPT !.at = "queued", !.monthly = TRUE, !.retries = reporter[w].retries + 1] \in ReporterRow
            /\ [NoReport EXCEPT !.at = "queued", !.monthly = TRUE, !.retries = reporter[w].retries + 1].at = "queued"
            /\ NoReport \in ReporterRow /\ NoReport.at = "idle"
        BY <4>1 DEF NoReport, ReporterRow, ReporterStep
      <4>3. QED BY <4>2, <3>2 DEF TryAgain
    <3>3. QED BY <1>10, <3>1, <3>2 DEF Announce
  <2>4. QED BY <2>1, <2>2, <2>3, <1>3, OthersMoved
<1>11. ASSUME RemoveFiles(w) \/ RemoveRows(w) PROVE ReportsWhole'
  BY <1>11, <1>3, <1>t DEF RemoveFiles, RemoveRows, ReporterOK
<1>12. QED BY <1>4, <1>5, <1>6, <1>7, <1>8, <1>9, <1>10, <1>11

(* A report offered or announced is whole until its month is too old, for   *)
(* any workers, retries and revisions.                                     *)
THEOREM AnnouncedReportsStayWhole == ReportsSpec => []AnnouncedReportsAreWhole
<1> USE DEF Revisions
<1>1. ASSUME ReportsInit PROVE ReportsInv
  <2>1. reports = << >> /\ notified = {} /\ reporter = [w \in Reporter |-> NoReport]
    BY <1>1 DEF ReportsInit
  <2>2. reports \in Seq(ReportRow) /\ DOMAIN reports = {}
    BY <2>1, EmptySeq
  <2>3. NoReport \in ReporterRow /\ NoReport.at = "idle"
    BY DEF NoReport, ReporterRow, ReporterStep
  <2>4. \A w \in Reporter : reporter[w].at = "idle"
    BY <2>1, <2>3
  <2>5. QED BY <2>1, <2>2, <2>3, <2>4 DEF ReportsInv, ReportsWhole, ReporterOK, SoleOwners, RevisionOK, Owning
<1>2. ReportsInv => AnnouncedReportsAreWhole
  BY DEF ReportsInv, ReportsWhole, RevisionOK, AnnouncedReportsAreWhole
<1>3. QED BY <1>1, <1>2, ReportsStep, PTL DEF ReportsSpec

-----------------------------------------------------------------------------
(* Alerts (AlertRules over TelemetryIngest): a reading is in the queue, in *)
(* the batch of one worker that has not stored it yet, or has its row.     *)
Flushed == {"showing", "checking", "creating", "resolving"}

ReadingsMove ==
    /\ \A w \in Flusher : batch[w] = << >> <=> at[w] = "idle"
    /\ \A t \in Range(buffer) : reading[t] # "none" /\ stored[t] = 0 /\ \A w \in Flusher : t \notin Range(batch[w])
    /\ \A w \in Flusher : \A t \in Range(batch[w]) :
          /\ reading[t] # "none"
          /\ at[w] = "storing" => stored[t] = 0
          /\ at[w] \in Flushed => stored[t] = 1
          /\ \A v \in Flusher \ {w} : t \notin Range(batch[v])
    /\ \A t \in Instant : reading[t] = "none" => stored[t] = 0

IngestInv == IngestTypeOK /\ ReadingsMove /\ (seen # 0 => stored[seen] = 1)
AlertsInv ==
    /\ alerts \in Seq(Alert)
    /\ toResolve \in [Flusher -> SUBSET DOMAIN alerts]
    /\ viewed \in {0} \union DOMAIN alerts
    /\ \A i \in DOMAIN alerts : stored[alerts[i].trigger] = 1
MonitoringInv == IngestInv /\ AlertsInv

LEMMA BatchRange ==
    ASSUME NEW S, NEW s \in Seq(S)
    PROVE  /\ Range(s) \subseteq S
           /\ \A e : \A t \in Range(Append(s, e)) : t \in Range(s) \/ t = e
           /\ s # << >> => /\ Head(s) \in Range(s) /\ Last(s) \in Range(s)
                           /\ Tail(s) \in Seq(S) /\ Range(Tail(s)) \subseteq Range(s)
                           /\ Len(s) # 1 => Tail(s) # << >>
<1>1. Len(s) \in Nat /\ DOMAIN s = 1 .. Len(s) /\ \A k \in 1 .. Len(s) : s[k] \in S
  BY LenProperties, ElementOfSeq
<1>2. Range(s) \subseteq S
  BY <1>1 DEF Range
<1>3. ASSUME NEW e, NEW t \in Range(Append(s, e)) PROVE t \in Range(s) \/ t = e
  <2>1. PICK k \in DOMAIN Append(s, e) : t = Append(s, e)[k]
    BY <1>3 DEF Range
  <2>2. s \in Seq(S \cup {e}) /\ e \in S \cup {e}
    BY <1>1
  <2>3. DOMAIN Append(s, e) = 1 .. Len(s) + 1 /\ Append(s, e)[Len(s) + 1] = e /\ \A n \in 1 .. Len(s) : Append(s, e)[n] = s[n]
    BY <2>2, <1>1, AppendProperties
  <2>4. QED BY <2>1, <2>3, <1>1 DEF Range
<1>4. ASSUME s # << >>
      PROVE  /\ Head(s) \in Range(s) /\ Last(s) \in Range(s)
             /\ Tail(s) \in Seq(S) /\ Range(Tail(s)) \subseteq Range(s)
             /\ Len(s) # 1 => Tail(s) # << >>
  <2>1. Len(s) >= 1 /\ 1 \in DOMAIN s /\ Len(s) \in DOMAIN s
    BY <1>1, <1>4, EmptySeq
  <2>2. Head(s) \in Range(s) /\ Last(s) \in Range(s)
    <3>1. Head(s) = s[1] /\ Last(s) = s[Len(s)]
      BY <1>4 DEF Last
    <3>2. QED BY <3>1, <2>1 DEF Range
  <2>3. Tail(s) \in Seq(S) /\ Len(Tail(s)) = Len(s) - 1 /\ \A k \in 1 .. Len(Tail(s)) : Tail(s)[k] = s[k + 1]
    BY <1>4, HeadTailProperties
  <2>4. Range(Tail(s)) \subseteq Range(s)
    <3>1. DOMAIN Tail(s) = 1 .. Len(Tail(s))
      BY <2>3, LenProperties
    <3>2. QED BY <3>1, <2>3, <1>1 DEF Range
  <2>5. Len(s) # 1 => Tail(s) # << >>
    <3>1. Len(<< >>) = 0
      BY EmptySeq
    <3>2. Len(s) # 1 => Len(Tail(s)) # 0
      BY <2>3, <1>1
    <3>3. QED BY <3>1, <3>2, Zenon
  <2>6. QED BY <2>2, <2>3, <2>4, <2>5
<1>5. QED BY <1>2, <1>3, <1>4

(* A worker past its rows goes on with what is left of its batch.          *)
LEMMA FlusherMoves ==
    ASSUME IngestInv, NEW w \in Flusher, NEW b \in Seq(Instant), Range(b) \subseteq Range(batch[w]),
           NEW p \in FlushPoint \ {"storing"}, b = << >> <=> p = "idle", p \in Flushed => at[w] \in Flushed,
           batch' = [batch EXCEPT ![w] = b], at' = [at EXCEPT ![w] = p],
           seen' \in 0 .. MaxTime, seen' # 0 => stored[seen'] = 1, status' \in {"pending", "online", "offline"},
           UNCHANGED <<now, reading, buffer, claimed, stored, beat>>
    PROVE  IngestInv'
<1>1. at \in [Flusher -> FlushPoint] /\ batch \in [Flusher -> Seq(Instant)]
  BY DEF IngestInv, IngestTypeOK
<1>2. IngestTypeOK'
  BY <1>1 DEF IngestInv, IngestTypeOK
<1>3. \A v \in Flusher : /\ batch'[v] = IF v = w THEN b ELSE batch[v]
                         /\ at'[v] = IF v = w THEN p ELSE at[v]
  BY <1>1
<1>4. \A v \in Flusher : Range(batch'[v]) \subseteq Range(batch[v])
  BY <1>3
<1>5. \A v \in Flusher : /\ batch'[v] = << >> <=> at'[v] = "idle"
                         /\ at'[v] = "storing" => at[v] = "storing"
                         /\ at'[v] \in Flushed => at[v] \in Flushed
  BY <1>3 DEF IngestInv, ReadingsMove
<1>6. ReadingsMove'
  <2>1. \A t \in Range(buffer') : reading'[t] # "none" /\ stored'[t] = 0 /\ \A v \in Flusher : t \notin Range(batch'[v])
    BY <1>4 DEF IngestInv, ReadingsMove
  <2>2. \A v \in Flusher : \A t \in Range(batch'[v]) :
          /\ reading'[t] # "none"
          /\ at'[v] = "storing" => stored'[t] = 0
          /\ at'[v] \in Flushed => stored'[t] = 1
          /\ \A u \in Flusher \ {v} : t \notin Range(batch'[u])
    BY <1>4, <1>5 DEF IngestInv, ReadingsMove
  <2>3. QED BY <1>5, <2>1, <2>2 DEF IngestInv, ReadingsMove
<1>7. QED BY <1>2, <1>6 DEF IngestInv

LEMMA BatchFacts ==
    ASSUME IngestInv, NEW w \in Flusher
    PROVE  /\ batch[w] \in Seq(Instant) /\ Range(batch[w]) \subseteq Instant /\ at[w] \in FlushPoint
           /\ at[w] # "idle" => /\ Head(batch[w]) \in Range(batch[w]) /\ Last(batch[w]) \in Range(batch[w])
                                /\ Tail(batch[w]) \in Seq(Instant) /\ Range(Tail(batch[w])) \subseteq Range(batch[w])
                                /\ Len(batch[w]) # 1 => Tail(batch[w]) # << >>
           /\ \A t \in Range(batch[w]) : at[w] \in Flushed => t \in Instant /\ stored[t] = 1
<1>1. batch[w] \in Seq(Instant) /\ at[w] \in FlushPoint
  BY DEF IngestInv, IngestTypeOK
<1>2. at[w] # "idle" => batch[w] # << >>
  BY DEF IngestInv, ReadingsMove
<1>3. \A t \in Range(batch[w]) : at[w] \in Flushed => stored[t] = 1
  BY DEF IngestInv, ReadingsMove
<1>4. QED BY <1>1, <1>2, <1>3, BatchRange

LEMMA NextReadingKeeps ==
    ASSUME IngestInv, NEW w \in Flusher, at[w] \in Flushed, NextReading(w),
           UNCHANGED <<now, reading, buffer, claimed, stored, seen, status, beat>>
    PROVE  IngestInv'
<1>1. seen' \in 0 .. MaxTime /\ (seen' # 0 => stored[seen'] = 1) /\ status' \in {"pending", "online", "offline"}
  BY DEF IngestInv, IngestTypeOK
<1>2. CASE Len(batch[w]) = 1
  <2>1. batch' = [batch EXCEPT ![w] = << >>] /\ at' = [at EXCEPT ![w] = "idle"]
    BY <1>2 DEF NextReading, Leaves
  <2>2. << >> \in Seq(Instant) /\ Range(<< >>) \subseteq Range(batch[w]) /\ "idle" \in FlushPoint \ {"storing"} /\ "idle" \notin Flushed
    BY EmptySeq DEF Range, FlushPoint, Flushed
  <2>3. QED BY <1>1, <2>1, <2>2, FlusherMoves
<1>3. CASE Len(batch[w]) # 1
  <2>1. batch' = [batch EXCEPT ![w] = Tail(batch[w])] /\ at' = [at EXCEPT ![w] = "checking"]
    BY <1>3 DEF NextReading
  <2>2. at[w] # "idle" /\ "checking" \in FlushPoint \ {"storing"} /\ "checking" # "idle"
    BY DEF Flushed, FlushPoint
  <2>3. Tail(batch[w]) \in Seq(Instant) /\ Range(Tail(batch[w])) \subseteq Range(batch[w]) /\ Tail(batch[w]) # << >>
    BY <1>3, <2>2, BatchFacts
  <2>4. QED BY <1>1, <2>1, <2>2, <2>3, FlusherMoves
<1>4. QED BY <1>2, <1>3

(* The path of a reading up to its row and the device page.                *)
LEMMA IngestInitially == IngestInit => IngestInv
<1> SUFFICES ASSUME IngestInit PROVE IngestInv
  OBVIOUS
<1>1. Range(<< >>) = {} /\ << >> \in Seq(Instant)
  BY EmptySeq DEF Range
<1>2. 1 \in Instant /\ 0 \in 0 .. MaxTime
  BY TimeAssumption DEF Instant
<1>3. IngestTypeOK
  <2>1. /\ now \in Instant /\ buffer \in Seq(Instant) /\ seen \in 0 .. MaxTime
        /\ status \in {"pending", "online", "offline"} /\ claimed \in BOOLEAN /\ beat \in BOOLEAN
    BY <1>1, <1>2 DEF IngestInit
  <2>2. reading \in [Instant -> {"none", "high", "normal"}] /\ stored \in [Instant -> 0 .. 2]
    BY DEF IngestInit
  <2>3. at \in [Flusher -> FlushPoint] /\ batch \in [Flusher -> Seq(Instant)]
    BY <1>1 DEF IngestInit, FlushPoint
  <2>4. QED BY <2>1, <2>2, <2>3 DEF IngestTypeOK
<1>4. ReadingsMove
  BY <1>1 DEF IngestInit, ReadingsMove
<1>5. QED BY <1>3, <1>4 DEF IngestInit, IngestInv

LEMMA ArriveKeeps == ASSUME IngestInv, NEW value \in {"high", "normal"}, Arrive(value) PROVE IngestInv'
<1>1. /\ reading' = [reading EXCEPT ![now] = value] /\ buffer' = Append(buffer, now)
      /\ UNCHANGED <<now, claimed, at, batch, stored, seen, status, beat>> /\ reading[now] = "none"
  BY DEF Arrive
<1>2. now \in Instant /\ reading \in [Instant -> {"none", "high", "normal"}] /\ buffer \in Seq(Instant)
  BY DEF IngestInv, IngestTypeOK
<1>3. IngestTypeOK'
  <2>1. reading' \in [Instant -> {"none", "high", "normal"}] /\ buffer' \in Seq(Instant)
    BY <1>1, <1>2, AppendProperties
  <2>2. QED BY <1>1, <2>1 DEF IngestInv, IngestTypeOK
<1>4. \A t : reading[t] # "none" => reading'[t] # "none"
  BY <1>1, <1>2
<1>5. \A t \in Instant : reading'[t] = "none" => reading[t] = "none"
  BY <1>1, <1>2
<1>6. ReadingsMove'
  <2>1. \A t \in Range(buffer') : t \in Range(buffer) \/ t = now
    BY <1>1, <1>2, BatchRange
  <2>2. stored[now] = 0 /\ \A w \in Flusher : now \notin Range(batch[w])
    BY <1>1, <1>2 DEF IngestInv, ReadingsMove
  <2>3. reading'[now] # "none"
    BY <1>1, <1>2
  <2>4. \A t \in Range(buffer') : reading'[t] # "none" /\ stored'[t] = 0 /\ \A w \in Flusher : t \notin Range(batch'[w])
    BY <1>1, <1>4, <2>1, <2>2, <2>3 DEF IngestInv, ReadingsMove
  <2>5. QED BY <1>1, <1>4, <1>5, <2>4 DEF IngestInv, ReadingsMove
<1>7. QED BY <1>1, <1>3, <1>6 DEF IngestInv

LEMMA TakeKeeps == ASSUME IngestInv, NEW w \in Flusher, TakeBatch(w) PROVE IngestInv'
<1>1. /\ buffer' = << >> /\ at[w] = "idle" /\ buffer # << >>
      /\ UNCHANGED <<now, reading, claimed, stored, seen, status, beat>>
  BY DEF TakeBatch, AfterPop
<1>2. /\ at \in [Flusher -> FlushPoint] /\ batch \in [Flusher -> Seq(Instant)]
      /\ buffer \in Seq(Instant) /\ << >> \in Seq(Instant) /\ Range(<< >>) = {}
  BY EmptySeq DEF IngestInv, IngestTypeOK, Range
<1>3. CASE ~claimed
  <2>1. UNCHANGED <<batch, at>>
    BY <1>3 DEF TakeBatch
  <2>2. IngestTypeOK'
    BY <1>1, <1>2, <2>1 DEF IngestInv, IngestTypeOK
  <2>3. ReadingsMove'
    BY <1>1, <1>2, <2>1 DEF IngestInv, ReadingsMove
  <2>4. QED BY <1>1, <2>2, <2>3 DEF IngestInv
<1>4. CASE claimed
  <2>1. batch' = [batch EXCEPT ![w] = buffer] /\ at' = [at EXCEPT ![w] = "storing"]
    BY <1>4 DEF TakeBatch, Pipeline
  <2>2. \A v \in Flusher : /\ batch'[v] = IF v = w THEN buffer ELSE batch[v]
                           /\ at'[v] = IF v = w THEN "storing" ELSE at[v]
    BY <1>2, <2>1
  <2>3. IngestTypeOK'
    BY <1>1, <1>2, <2>1 DEF IngestInv, IngestTypeOK, FlushPoint
  <2>4. \A v \in Flusher : batch'[v] = << >> <=> at'[v] = "idle"
    BY <1>1, <2>2 DEF IngestInv, ReadingsMove
  <2>5. ASSUME NEW v \in Flusher, NEW t \in Range(batch'[v])
        PROVE  /\ reading'[t] # "none"
               /\ at'[v] = "storing" => stored'[t] = 0
               /\ at'[v] \in Flushed => stored'[t] = 1
               /\ \A u \in Flusher \ {v} : t \notin Range(batch'[u])
    <3>1. CASE v = w
      <4>1. t \in Range(buffer)
        BY <2>2, <2>5, <3>1
      <4>2. \A u \in Flusher \ {v} : t \notin Range(batch'[u])
        BY <2>2, <3>1, <4>1 DEF IngestInv, ReadingsMove
      <4>3. reading'[t] # "none" /\ stored'[t] = 0 /\ at'[v] \notin Flushed
        BY <1>1, <2>2, <3>1, <4>1 DEF IngestInv, ReadingsMove, Flushed
      <4>4. QED BY <4>2, <4>3
    <3>2. CASE v # w
      <4>1. t \in Range(batch[v]) /\ at'[v] = at[v]
        BY <2>2, <2>5, <3>2
      <4>2. t \notin Range(buffer)
        BY <4>1 DEF IngestInv, ReadingsMove
      <4>3. \A u \in Flusher \ {v} : t \notin Range(batch'[u])
        BY <2>2, <4>1, <4>2 DEF IngestInv, ReadingsMove
      <4>4. QED BY <1>1, <4>1, <4>3 DEF IngestInv, ReadingsMove
    <3>3. QED BY <3>1, <3>2
  <2>6. ReadingsMove'
    BY <1>1, <1>2, <2>4, <2>5 DEF IngestInv, ReadingsMove
  <2>7. QED BY <1>1, <2>3, <2>6 DEF IngestInv
<1>5. QED BY <1>3, <1>4

LEMMA StepsAfter == StepAfter("storing") = "showing" /\ StepAfter("showing") = "checking"
<1>1. Pipeline[1] = "storing" /\ Pipeline[2] = "showing" /\ Pipeline[3] = "checking"
  BY DEF Pipeline
<1>2. \A i \in 1 .. 2 : i = 1 \/ i = 2
  OBVIOUS
<1>3. (CHOOSE i \in 1 .. 2 : Pipeline[i] = "storing") = 1
  BY <1>1, <1>2
<1>4. (CHOOSE i \in 1 .. 2 : Pipeline[i] = "showing") = 2
  BY <1>1, <1>2
<1>5. QED BY <1>1, <1>3, <1>4 DEF StepAfter

LEMMA StoreKeeps ==
    ASSUME IngestInv, NEW w \in Flusher, StoreBatch(w)
    PROVE  IngestInv' /\ \A t \in Instant : stored[t] = 1 => stored'[t] = 1
<1>1. /\ at[w] = "storing" /\ at' = [at EXCEPT ![w] = "showing"]
      /\ stored' = [t \in Instant |-> stored[t] + IF t \in Range(batch[w]) THEN 1 ELSE 0]
      /\ UNCHANGED <<now, reading, buffer, claimed, batch, seen, status, beat>>
  BY StepsAfter DEF StoreBatch
<1>2. /\ at \in [Flusher -> FlushPoint] /\ stored \in [Instant -> 0 .. 2] /\ seen \in 0 .. MaxTime
      /\ Range(buffer) \subseteq Instant /\ \A v \in Flusher : Range(batch[v]) \subseteq Instant
  <2>1. buffer \in Seq(Instant)
    BY DEF IngestInv, IngestTypeOK
  <2>2. QED BY <2>1, BatchRange, BatchFacts DEF IngestInv, IngestTypeOK
<1>3. \A t \in Range(batch[w]) : t \in Instant /\ stored[t] = 0 /\ stored'[t] = 1
  BY <1>1, <1>2 DEF IngestInv, ReadingsMove
<1>4. \A t \in Instant : t \notin Range(batch[w]) => stored'[t] = stored[t]
  BY <1>1, <1>2
<1>5. \A t \in Instant : stored[t] = 1 => stored'[t] = 1
  BY <1>3, <1>4
<1>6. \A v \in Flusher : at'[v] = IF v = w THEN "showing" ELSE at[v]
  BY <1>1, <1>2
<1>7. IngestTypeOK'
  <2>1. stored' \in [Instant -> 0 .. 2]
    BY <1>1, <1>2, <1>3, <1>4
  <2>2. at' \in [Flusher -> FlushPoint]
    BY <1>1, <1>2 DEF FlushPoint
  <2>3. QED BY <1>1, <2>1, <2>2 DEF IngestInv, IngestTypeOK
<1>8. ReadingsMove'
  <2>1. \A v \in Flusher : batch'[v] = << >> <=> at'[v] = "idle"
    BY <1>1, <1>6 DEF IngestInv, ReadingsMove
  <2>2. \A t \in Range(buffer') : reading'[t] # "none" /\ stored'[t] = 0 /\ \A v \in Flusher : t \notin Range(batch'[v])
    BY <1>1, <1>2, <1>4 DEF IngestInv, ReadingsMove
  <2>3. ASSUME NEW v \in Flusher, NEW t \in Range(batch'[v])
        PROVE  /\ at'[v] = "storing" => stored'[t] = 0
               /\ at'[v] \in Flushed => stored'[t] = 1
    <3>1. t \in Range(batch[v]) /\ t \in Instant
      BY <1>1, <1>2, <2>3
    <3>2. CASE v = w
      BY <1>3, <1>6, <3>1, <3>2
    <3>3. CASE v # w
      <4>1. t \notin Range(batch[w])
        BY <3>1, <3>3 DEF IngestInv, ReadingsMove
      <4>2. QED BY <1>4, <1>6, <3>1, <3>3, <4>1 DEF IngestInv, ReadingsMove
    <3>4. QED BY <3>2, <3>3
  <2>4. \A t \in Instant : reading'[t] = "none" => stored'[t] = 0
    BY <1>1, <1>4 DEF IngestInv, ReadingsMove
  <2>5. QED BY <1>1, <2>1, <2>2, <2>3, <2>4 DEF IngestInv, ReadingsMove
<1>9. seen' # 0 => stored'[seen'] = 1
  BY <1>1, <1>2, <1>5, TimeAssumption DEF IngestInv, Instant
<1>10. QED BY <1>5, <1>7, <1>8, <1>9 DEF IngestInv

LEMMA IngestKeeps ==
    ASSUME IngestInv, IngestStep
    PROVE  IngestInv' /\ \A t \in Instant : stored[t] = 1 => stored'[t] = 1
<1> USE TimeAssumption
<1>1. CASE Tick \/ ReleaseGateway \/ ReadStale \/ MarkOffline
  <2>1. UNCHANGED <<reading, buffer, at, batch, stored, seen>>
    BY <1>1 DEF Tick, ReleaseGateway, ReadStale, MarkOffline
  <2>2. IngestTypeOK'
    <3>1. now' \in Instant
      BY <1>1 DEF Tick, ReleaseGateway, ReadStale, MarkOffline, IngestInv, IngestTypeOK, Instant
    <3>2. claimed' \in BOOLEAN /\ beat' \in BOOLEAN /\ status' \in {"pending", "online", "offline"}
      BY <1>1, Zenon DEF Tick, ReleaseGateway, ReadStale, MarkOffline, IngestInv, IngestTypeOK
    <3>3. QED BY <2>1, <3>1, <3>2 DEF IngestInv, IngestTypeOK
  <2>3. QED BY <2>1, <2>2 DEF IngestInv, ReadingsMove
<1>2. ASSUME NEW value \in {"high", "normal"}, Arrive(value)
      PROVE  IngestInv' /\ \A t \in Instant : stored[t] = 1 => stored'[t] = 1
  BY <1>2, ArriveKeeps DEF Arrive
<1>3. ASSUME NEW w \in Flusher, TakeBatch(w)
      PROVE  IngestInv' /\ \A t \in Instant : stored[t] = 1 => stored'[t] = 1
  BY <1>3, TakeKeeps DEF TakeBatch
<1>4. ASSUME NEW w \in Flusher, ShowBatch(w)
      PROVE  IngestInv' /\ \A t \in Instant : stored[t] = 1 => stored'[t] = 1
  <2>1. /\ at[w] = "showing" /\ at' = [at EXCEPT ![w] = "checking"] /\ seen' = Last(batch[w]) /\ status' = "online"
        /\ UNCHANGED <<now, reading, buffer, claimed, batch, stored, beat>>
    BY <1>4, StepsAfter DEF ShowBatch
  <2>2. Last(batch[w]) \in Range(batch[w]) /\ batch[w] \in Seq(Instant) /\ batch[w] # << >>
    BY <2>1, BatchFacts DEF IngestInv, ReadingsMove
  <2>3. seen' \in 0 .. MaxTime /\ stored[seen'] = 1
    <3>1. Last(batch[w]) \in Instant /\ stored[Last(batch[w])] = 1
      BY <2>1, <2>2, BatchFacts DEF Flushed
    <3>2. QED BY <2>1, <3>1 DEF Instant
  <2>4. batch' = [batch EXCEPT ![w] = batch[w]]
    BY <2>1 DEF IngestInv, IngestTypeOK
  <2>5. "checking" \in FlushPoint \ {"storing"} /\ at[w] \in Flushed
    BY <2>1 DEF FlushPoint, Flushed
  <2>6. IngestInv'
    BY <2>1, <2>2, <2>3, <2>4, <2>5, FlusherMoves
  <2>7. QED BY <2>1, <2>6
<1>5. ASSUME NEW w \in Flusher, WorkerDies(w)
      PROVE  IngestInv' /\ \A t \in Instant : stored[t] = 1 => stored'[t] = 1
  <2>1. /\ at' = [at EXCEPT ![w] = "idle"] /\ batch' = [batch EXCEPT ![w] = << >>]
        /\ UNCHANGED <<now, reading, buffer, claimed, stored, seen, status, beat>>
    BY <1>5 DEF WorkerDies, Leaves
  <2>2. << >> \in Seq(Instant) /\ Range(<< >>) \subseteq Range(batch[w]) /\ "idle" \in FlushPoint \ {"storing"} /\ "idle" \notin Flushed
    BY EmptySeq DEF Range, FlushPoint, Flushed
  <2>3. seen' \in 0 .. MaxTime /\ (seen' # 0 => stored[seen'] = 1) /\ status' \in {"pending", "online", "offline"}
    BY <2>1 DEF IngestInv, IngestTypeOK
  <2>4. IngestInv'
    BY <2>1, <2>2, <2>3, FlusherMoves
  <2>5. QED BY <2>1, <2>4
<1>6. QED BY <1>1, <1>2, <1>3, <1>4, <1>5, StoreKeeps DEF IngestStep

(* The alerts, of readings that have their row.                            *)
LEMMA CheckKeeps == ASSUME MonitoringInv, NEW w \in Flusher, CheckReading(w) PROVE MonitoringInv'
<1>1. /\ at[w] = "checking" /\ at[w] \in Flushed /\ IngestInv
      /\ UNCHANGED <<now, reading, buffer, claimed, stored, seen, status, beat, alerts, viewed>>
  BY DEF CheckReading, Flushed, MonitoringInv
<1>2. /\ seen' \in 0 .. MaxTime /\ (seen' # 0 => stored[seen'] = 1) /\ status' \in {"pending", "online", "offline"}
      /\ batch[w] \in Seq(Instant) /\ batch[w] # << >> /\ batch \in [Flusher -> Seq(Instant)]
  BY <1>1 DEF IngestInv, IngestTypeOK, ReadingsMove
<1>3. CASE NextReading(w) /\ UNCHANGED toResolve
  <2>1. IngestInv'
    BY <1>1, <1>3, NextReadingKeeps
  <2>2. QED BY <1>1, <1>3, <2>1 DEF MonitoringInv, AlertsInv
<1>4. ASSUME NEW p \in {"creating", "resolving"}, at' = [at EXCEPT ![w] = p], UNCHANGED batch PROVE IngestInv'
  <2>1. p \in FlushPoint \ {"storing"} /\ p # "idle"
    BY <1>4 DEF FlushPoint
  <2>2. batch' = [batch EXCEPT ![w] = batch[w]]
    BY <1>2, <1>4
  <2>3. QED BY <1>1, <1>2, <1>4, <2>1, <2>2, FlusherMoves
<1>5. CASE Fires(Head(batch[w])) /\ ~RecentlyRaised
  <2>1. at' = [at EXCEPT ![w] = "creating"] /\ UNCHANGED batch /\ UNCHANGED toResolve
    BY <1>5, Zenon DEF CheckReading
  <2>2. QED BY <1>1, <1>4, <2>1 DEF MonitoringInv, AlertsInv
<1>6. CASE ~Fires(Head(batch[w]))
  <2>1. at' = [at EXCEPT ![w] = "resolving"] /\ UNCHANGED batch /\ toResolve' = [toResolve EXCEPT ![w] = OpenAlerts]
    BY <1>6, Zenon DEF CheckReading
  <2>2. OpenAlerts \subseteq DOMAIN alerts
    BY DEF OpenAlerts
  <2>3. toResolve' \in [Flusher -> SUBSET DOMAIN alerts]
    BY <2>1, <2>2 DEF MonitoringInv, AlertsInv
  <2>4. QED BY <1>1, <1>4, <2>1, <2>3 DEF MonitoringInv, AlertsInv
<1>7. Fires(Head(batch[w])) /\ RecentlyRaised => NextReading(w) /\ UNCHANGED toResolve
  BY Zenon DEF CheckReading
<1>8. QED BY <1>3, <1>5, <1>6, <1>7

LEMMA AlertFields ==
    ASSUME NEW S, NEW R, NEW T, NEW a \in [status : S, raisedAt : R, trigger : T], NEW s \in S
    PROVE  [a EXCEPT !.status = s] \in [status : S, raisedAt : R, trigger : T] /\ [a EXCEPT !.status = s].trigger = a.trigger
  OBVIOUS

(* A saved status leaves an alert with the reading it quotes.              *)
LEMMA StatusSaved ==
    ASSUME MonitoringInv, NEW i \in DOMAIN alerts, NEW s \in {"active", "acknowledged", "resolved"},
           alerts' = [alerts EXCEPT ![i].status = s]
    PROVE  alerts' \in Seq(Alert) /\ DOMAIN alerts' = DOMAIN alerts /\ \A k \in DOMAIN alerts : alerts'[k].trigger = alerts[k].trigger
<1>1. alerts \in Seq(Alert)
  BY DEF MonitoringInv, AlertsInv
<1>2. alerts[i] \in Alert
  BY <1>1, ElementOfSeq, LenProperties
<1>3. PICK a : a = [alerts[i] EXCEPT !.status = s]
  OBVIOUS
<1>4. a \in Alert /\ a.trigger = alerts[i].trigger
  BY <1>2, <1>3, AlertFields DEF Alert
<1>5. alerts' = [alerts EXCEPT ![i] = a]
  BY <1>3
<1>6. alerts' \in Seq(Alert) /\ DOMAIN alerts' = DOMAIN alerts
  BY <1>1, <1>4, <1>5, ExceptSeq
<1>7. \A k \in DOMAIN alerts : alerts'[k] = IF k = i THEN a ELSE alerts[k]
  BY <1>1, <1>5
<1>8. QED BY <1>4, <1>6, <1>7

LEMMA CreateKeeps == ASSUME MonitoringInv, NEW w \in Flusher, CreateAlert(w) PROVE MonitoringInv'
<1>1. /\ at[w] = "creating" /\ at[w] \in Flushed /\ at[w] # "idle" /\ NextReading(w)
      /\ UNCHANGED <<now, reading, buffer, claimed, stored, seen, status, beat, toResolve, viewed>>
  BY DEF CreateAlert, Flushed
<1>2. IngestInv'
  BY <1>1, NextReadingKeeps DEF MonitoringInv
<1>3. PICK a : a = [status |-> "active", raisedAt |-> now, trigger |-> Head(batch[w])]
  OBVIOUS
<1>4. Head(batch[w]) \in Instant /\ stored[Head(batch[w])] = 1
  BY <1>1, BatchFacts DEF MonitoringInv
<1>5. a \in Alert /\ a.trigger = Head(batch[w])
  BY <1>3, <1>4 DEF Alert, MonitoringInv, IngestInv, IngestTypeOK
<1>6. alerts' = Append(alerts, a) /\ alerts \in Seq(Alert) /\ Len(alerts) \in Nat /\ DOMAIN alerts = 1 .. Len(alerts)
  BY <1>3, LenProperties DEF CreateAlert, MonitoringInv, AlertsInv
<1>7. /\ alerts' \in Seq(Alert) /\ DOMAIN alerts' = 1 .. Len(alerts) + 1
      /\ alerts'[Len(alerts) + 1] = a /\ \A k \in 1 .. Len(alerts) : alerts'[k] = alerts[k]
  BY <1>5, <1>6, AppendProperties
<1>8. \A k \in DOMAIN alerts' : stored[alerts'[k].trigger] = 1
  BY <1>4, <1>5, <1>6, <1>7 DEF MonitoringInv, AlertsInv
<1>9. DOMAIN alerts \subseteq DOMAIN alerts'
  BY <1>6, <1>7
<1>10. QED BY <1>1, <1>2, <1>7, <1>8, <1>9 DEF MonitoringInv, AlertsInv

LEMMA ResolveKeeps == ASSUME MonitoringInv, NEW w \in Flusher, ResolveNext(w) PROVE MonitoringInv'
<1>1. /\ at[w] = "resolving" /\ at[w] \in Flushed
      /\ UNCHANGED <<now, reading, buffer, claimed, stored, seen, status, beat, viewed>>
  BY DEF ResolveNext, Flushed
<1>2. CASE toResolve[w] = {}
  <2>1. NextReading(w) /\ UNCHANGED <<alerts, toResolve>>
    BY <1>2 DEF ResolveNext
  <2>2. IngestInv'
    BY <1>1, <2>1, NextReadingKeeps DEF MonitoringInv
  <2>3. QED BY <1>1, <2>1, <2>2 DEF MonitoringInv, AlertsInv
<1>3. CASE toResolve[w] # {}
  <2>1. PICK i \in toResolve[w] : /\ alerts' = [alerts EXCEPT ![i].status = "resolved"]
                                  /\ toResolve' = [toResolve EXCEPT ![w] = toResolve[w] \ {i}]
                                  /\ UNCHANGED <<at, batch>>
    BY <1>3 DEF ResolveNext
  <2>2. i \in DOMAIN alerts
    BY DEF MonitoringInv, AlertsInv
  <2>3. alerts' \in Seq(Alert) /\ DOMAIN alerts' = DOMAIN alerts /\ \A k \in DOMAIN alerts : alerts'[k].trigger = alerts[k].trigger
    BY <2>1, <2>2, StatusSaved
  <2>4. IngestInv'
    BY <1>1, <2>1 DEF MonitoringInv, IngestInv, IngestTypeOK, ReadingsMove
  <2>5. toResolve' \in [Flusher -> SUBSET DOMAIN alerts]
    BY <2>1 DEF MonitoringInv, AlertsInv
  <2>6. QED BY <1>1, <2>3, <2>4, <2>5 DEF MonitoringInv, AlertsInv
<1>4. QED BY <1>2, <1>3

LEMMA MonitoringStep == MonitoringInv /\ [MonitoringNext]_monitoringVars => MonitoringInv'
<1> SUFFICES ASSUME MonitoringInv, [MonitoringNext]_monitoringVars PROVE MonitoringInv'
  OBVIOUS
<1>1. CASE IngestStep /\ UNCHANGED alertVars
  <2>1. IngestInv' /\ \A t \in Instant : stored[t] = 1 => stored'[t] = 1
    BY <1>1, IngestKeeps DEF MonitoringInv
  <2>2. \A i \in DOMAIN alerts : alerts[i].trigger \in Instant
    <3>1. \A i \in DOMAIN alerts : alerts[i] \in Alert
      BY ElementOfSeq, LenProperties DEF MonitoringInv, AlertsInv
    <3>2. QED BY <3>1 DEF Alert
  <2>3. UNCHANGED <<alerts, toResolve, viewed>>
    BY <1>1 DEF alertVars
  <2>4. QED BY <2>1, <2>2, <2>3 DEF MonitoringInv, AlertsInv
<1>2. ASSUME NEW w \in Flusher, CheckReading(w) \/ CreateAlert(w) \/ ResolveNext(w) PROVE MonitoringInv'
  BY <1>2, CheckKeeps, CreateKeeps, ResolveKeeps
<1>3. ASSUME UNCHANGED ingestVars PROVE IngestInv'
  BY <1>3 DEF ingestVars, MonitoringInv, IngestInv, IngestTypeOK, ReadingsMove
<1>4. CASE ViewAlert
  <2>1. viewed' \in DOMAIN alerts /\ UNCHANGED <<alerts, toResolve, stored>>
    BY <1>4 DEF ViewAlert, ingestVars
  <2>2. IngestInv'
    BY <1>3, <1>4 DEF ViewAlert
  <2>3. QED BY <2>1, <2>2 DEF MonitoringInv, AlertsInv
<1>5. CASE Acknowledge
  <2>1. /\ viewed \in DOMAIN alerts /\ viewed' = 0 /\ UNCHANGED <<toResolve, stored>>
        /\ alerts' = [alerts EXCEPT ![viewed].status = "acknowledged"]
    BY <1>5 DEF Acknowledge, ingestVars, MonitoringInv, AlertsInv
  <2>2. alerts' \in Seq(Alert) /\ DOMAIN alerts' = DOMAIN alerts /\ \A k \in DOMAIN alerts : alerts'[k].trigger = alerts[k].trigger
    BY <2>1, StatusSaved
  <2>3. IngestInv'
    BY <1>3, <1>5 DEF Acknowledge
  <2>4. QED BY <2>1, <2>2, <2>3 DEF MonitoringInv, AlertsInv
<1>6. CASE UNCHANGED monitoringVars
  <2>1. UNCHANGED ingestVars /\ UNCHANGED <<alerts, toResolve, viewed, stored>>
    BY <1>6 DEF monitoringVars, alertVars, ingestVars
  <2>2. QED BY <1>3, <2>1 DEF MonitoringInv, AlertsInv
<1>7. QED BY <1>1, <1>2, <1>4, <1>5, <1>6 DEF MonitoringNext

LEMMA MonitoringInvariant == MonitoringSpec => []MonitoringInv
<1>1. MonitoringInit => MonitoringInv
  <2> SUFFICES ASSUME MonitoringInit PROVE MonitoringInv
    OBVIOUS
  <2>1. IngestInv
    BY IngestInitially DEF MonitoringInit
  <2>2. AlertsInv
    BY EmptySeq DEF MonitoringInit, AlertsInv
  <2>3. QED BY <2>1, <2>2 DEF MonitoringInv
<1>2. QED BY <1>1, MonitoringStep, PTL DEF MonitoringSpec

(* The last sample a device page shows, and the reading an alert quotes,   *)
(* have exactly one row, for any number of flush workers that overlap and  *)
(* die (flush_telemetry_buffer, trigger_alert).                            *)
THEOREM ShownReadingsAreStored == MonitoringSpec => []ShownReadingIsStored
<1>1. MonitoringInv => ShownReadingIsStored
  BY DEF MonitoringInv, IngestInv, AlertsInv, ShownReadingIsStored
<1>2. QED BY <1>1, MonitoringInvariant, PTL

(* A set of instants has a least and a greatest.                           *)
LEMMA Extremes ==
    ASSUME NEW S \in SUBSET Nat, S # {}
    PROVE  /\ Min(S) \in S /\ \A n \in S : Min(S) <= n
           /\ \A bound \in Nat : (\A n \in S : n <= bound) => Max(S) \in S /\ \A n \in S : n <= Max(S)
<1>1. \E m \in S : \A n \in S : m <= n
  BY LeastNumber
<1>2. Min(S) \in S /\ \A n \in S : Min(S) <= n
  BY <1>1 DEF Min
<1>3. ASSUME NEW bound \in Nat, \A n \in S : n <= bound PROVE Max(S) \in S /\ \A n \in S : n <= Max(S)
  <2>1. \E m \in S : \A n \in S : n <= m
    BY <1>3, GreatestNumber
  <2>2. \E m \in S : \A n \in S : m >= n
    BY <2>1
  <2>3. Max(S) \in S /\ \A n \in S : Max(S) >= n
    BY <2>2 DEF Max
  <2>4. QED BY <2>3
<1>4. QED BY <1>2, <1>3

(* A window the rule accepts is full: at each of its ticks the newest      *)
(* stored reading is high and recent enough.                               *)
LEMMA SustainedIsThroughout ==
    ASSUME IngestTypeOK, Sustained, Duration # 0
    PROVE  ExceededThroughout
<1> USE TimeAssumption, RuleAssumption DEF Instant
<1>1. now \in Nat /\ now >= 1 /\ now <= MaxTime /\ MaxTime \in Nat /\ OfflineAfter \in Nat /\ Tolerance \in Nat
  BY DEF IngestTypeOK
<1>2. PICK start \in Nat : start = WindowStart /\ start <= now
  <2>1. Duration \in Nat
    OBVIOUS
  <2>2. WindowStart \in Nat /\ WindowStart <= now
    BY <1>1, <2>1 DEF WindowStart
  <2>3. QED BY <2>2, Zenon
<1>3. PICK P : P = WithEarlier(InWindow)
  OBVIOUS
<1>4. /\ InWindow # {} /\ NoLongGap(P) /\ \A t \in P : Exceeds(t)
      /\ Min(InWindow) > start + Tolerance => Before # {}
  BY <1>2, <1>3 DEF Sustained
<1>5. /\ InWindow \in SUBSET Nat /\ Before \in SUBSET Nat
      /\ \A t \in Before : t <= MaxTime
      /\ \A t : t \in InWindow <=> t \in Instant /\ HasRow(t) /\ t >= start
      /\ \A t : t \in Before <=> t \in Instant /\ HasRow(t) /\ t < start
  BY <1>2 DEF InWindow, Before
<1>6. Min(InWindow) \in InWindow /\ \A t \in InWindow : Min(InWindow) <= t
  BY <1>4, <1>5, Extremes
<1>7. Before # {} => Max(Before) \in Before /\ \A t \in Before : t <= Max(Before)
  BY <1>1, <1>5, Extremes
<1>8. /\ InWindow \subseteq P /\ P \subseteq InWindow \cup Before
      /\ Min(InWindow) > start + Tolerance => Max(Before) \in P
  BY <1>2, <1>3, <1>4, <1>7 DEF WithEarlier
<1>9. P \in SUBSET Nat /\ P # {} /\ \A t \in P : t \in Instant /\ HasRow(t)
  BY <1>4, <1>5, <1>8
<1>10. PICK first \in P : first = Min(P) /\ \A t \in P : first <= t
  BY <1>9, Extremes
<1>11. first <= start + Tolerance
  <2>1. CASE Min(InWindow) > start + Tolerance
    <3>1. Max(Before) \in P /\ Max(Before) < start
      BY <1>4, <1>5, <1>7, <1>8, <2>1
    <3>2. first \in Nat /\ Max(Before) \in Nat /\ first <= Max(Before)
      BY <1>9, <1>10, <3>1
    <3>3. QED BY <1>1, <1>2, <3>1, <3>2
  <2>2. CASE ~(Min(InWindow) > start + Tolerance)
    <3>1. Min(InWindow) \in P /\ Min(InWindow) \in Nat
      BY <1>5, <1>6, <1>8
    <3>2. QED BY <1>1, <1>2, <1>9, <1>10, <2>2, <3>1
  <2>3. QED BY <2>1, <2>2
<1>12. ASSUME NEW x \in (start + Tolerance) .. now
       PROVE  \E s \in Instant : /\ s <= x /\ x <= s + OfflineAfter
                                 /\ HasRow(s) /\ Exceeds(s)
                                 /\ \A t \in s + 1 .. x : ~HasRow(t)
  <2>1. x \in Nat /\ x <= now /\ start + Tolerance <= x /\ first <= x
    BY <1>1, <1>2, <1>9, <1>10, <1>11
  <2>2. PICK Known : Known = {t \in Instant : HasRow(t) /\ t <= x}
    OBVIOUS
  <2>3. Known \in SUBSET Nat /\ first \in Known /\ \A t \in Known : t <= x
    BY <1>9, <1>10, <2>1, <2>2
  <2>4. PICK s \in Known : \A t \in Known : t <= s
    BY <2>1, <2>3, GreatestNumber
  <2>5. s \in Instant /\ HasRow(s) /\ s <= x /\ s \in Nat /\ first <= s
    BY <2>2, <2>3, <2>4
  <2>6. \A t \in s + 1 .. x : ~HasRow(t)
    <3>1. ASSUME NEW t \in s + 1 .. x, HasRow(t) PROVE FALSE
      <4>1. t \in Instant /\ t <= x /\ t > s
        BY <1>1, <2>1, <2>5, <3>1
      <4>2. t \in Known
        BY <2>2, <3>1, <4>1
      <4>3. QED BY <2>4, <2>5, <4>1, <4>2
    <3>2. QED BY <3>1
  <2>7. s \in P
    <3>1. CASE s >= start
      BY <1>5, <1>8, <2>5, <3>1
    <3>2. CASE s < start
      <4>1. s \in Before
        BY <1>5, <2>5, <3>2
      <4>2. Min(InWindow) > x
        <5>1. SUFFICES ASSUME ~(Min(InWindow) > x) PROVE FALSE
          OBVIOUS
        <5>2. Min(InWindow) \in Nat /\ Min(InWindow) \in Instant /\ HasRow(Min(InWindow)) /\ Min(InWindow) >= start
          BY <1>5, <1>6
        <5>3. Min(InWindow) \in Known
          BY <2>1, <2>2, <5>1, <5>2
        <5>4. QED BY <1>2, <2>4, <2>5, <3>2, <5>2, <5>3
      <4>3. Max(Before) \in P /\ Max(Before) \in Before /\ s <= Max(Before)
        <5>1. Min(InWindow) > start + Tolerance
          BY <1>1, <1>2, <1>5, <1>6, <2>1, <4>2
        <5>2. QED BY <1>7, <1>8, <4>1, <5>1
      <4>4. Max(Before) \in Known
        BY <1>1, <1>2, <1>5, <2>1, <2>2, <4>3
      <4>5. Max(Before) = s
        BY <1>5, <2>4, <2>5, <4>3, <4>4
      <4>6. QED BY <4>3, <4>5
    <3>3. QED BY <1>2, <2>5, <3>1, <3>2
  <2>8. x <= s + OfflineAfter
    <3>1. CASE x = s
      BY <1>1, <2>5, <3>1
    <3>2. CASE x # s
      <4>1. PICK AfterRow : AfterRow = {t \in P \cup {now} : t > s}
        OBVIOUS
      <4>2. now \in AfterRow /\ AfterRow \in SUBSET Nat
        <5>1. now > s
          BY <1>1, <2>1, <2>5, <3>2
        <5>2. \A t \in P : t \in Nat
          BY <1>9
        <5>3. QED BY <1>1, <4>1, <5>1, <5>2
      <4>3. PICK q \in AfterRow : \A t \in AfterRow : q <= t
        BY <4>2, LeastNumber
      <4>4. q \in Nat /\ q > s /\ q \in P \cup {now}
        BY <1>1, <1>9, <4>1, <4>3
      <4>5. q >= x
        <5>1. CASE q = now
          BY <2>1, <5>1
        <5>2. CASE q \in P
          BY <1>9, <2>1, <2>5, <2>6, <4>4, <5>2
        <5>3. QED BY <4>4, <5>1, <5>2
      <4>6. q # Min(P)
        BY <1>9, <1>10, <2>5, <4>4
      <4>7. PICK r \in P : r < q /\ q <= r + OfflineAfter
        BY <1>4, <4>4, <4>6 DEF NoLongGap
      <4>8. r \in Nat /\ r <= s
        <5>1. r \in Nat
          BY <1>9
        <5>2. r > s => r \in AfterRow
          BY <4>1
        <5>3. r \in AfterRow => q <= r
          BY <4>3
        <5>4. QED BY <2>5, <4>4, <4>7, <5>1, <5>2, <5>3
      <4>9. QED BY <1>1, <2>1, <2>5, <4>4, <4>5, <4>7, <4>8
    <3>3. QED BY <3>1, <3>2
  <2>9. Exceeds(s)
    BY <1>4, <2>7
  <2>10. QED BY <2>5, <2>6, <2>8, <2>9
<1>13. QED BY <1>2, <1>12 DEF ExceededThroughout

(* A worker creates an alert of a rule with a duration only when its limit *)
(* was exceeded throughout that duration, at every tick of the window past *)
(* the tolerance (evaluate_condition, check_alerts_for_payload).           *)
THEOREM AlertsAreSustained == MonitoringSpec => AlertNeedsSustainedReadings
<1>1. ASSUME MonitoringInv, MonitoringNext, NEW w \in Flusher, at[w] = "checking", at'[w] = "creating", Duration > 0
      PROVE  ExceededThroughout
  <2>1. at \in [Flusher -> FlushPoint] /\ IngestTypeOK
    BY <1>1 DEF MonitoringInv, IngestInv, IngestTypeOK
  <2>2. ASSUME IngestStep PROVE FALSE
    <3>1. ASSUME NEW v \in Flusher, TakeBatch(v) \/ StoreBatch(v) \/ ShowBatch(v) \/ WorkerDies(v) PROVE FALSE
      <4>1. at' = at \/ \E p \in {"storing", "showing", "checking", "idle"} : at' = [at EXCEPT ![v] = p]
        BY <3>1, StepsAfter DEF TakeBatch, StoreBatch, ShowBatch, WorkerDies, Leaves, Pipeline
      <4>2. QED BY <1>1, <2>1, <4>1
    <3>2. ASSUME Tick \/ (\E value \in {"high", "normal"} : Arrive(value)) \/ ReleaseGateway \/ ReadStale \/ MarkOffline PROVE FALSE
      BY <1>1, <3>2 DEF Tick, Arrive, ReleaseGateway, ReadStale, MarkOffline
    <3>3. QED BY <2>2, <3>1, <3>2 DEF IngestStep
  <2>3. ASSUME NEW v \in Flusher, CreateAlert(v) \/ ResolveNext(v) PROVE FALSE
    <3>1. at' = at \/ \E p \in {"checking", "idle"} : at' = [at EXCEPT ![v] = p]
      BY <2>3 DEF CreateAlert, ResolveNext, NextReading, Leaves
    <3>2. QED BY <1>1, <2>1, <3>1
  <2>4. ASSUME NEW v \in Flusher, CheckReading(v) PROVE Sustained
    <3>1. Fires(Head(batch[v])) \/ \E p \in {"resolving"} : at' = [at EXCEPT ![v] = p]
      BY <2>4 DEF CheckReading
    <3>2. Fires(Head(batch[v]))
      BY <1>1, <2>1, <3>1
    <3>3. QED BY <3>2 DEF Fires
  <2>5. ASSUME ViewAlert \/ Acknowledge PROVE FALSE
    BY <1>1, <2>5 DEF ViewAlert, Acknowledge, ingestVars
  <2>6. Sustained
    BY <1>1, <2>2, <2>3, <2>4, <2>5 DEF MonitoringNext
  <2>7. Duration # 0
    BY <1>1
  <2>8. QED BY <2>1, <2>6, <2>7, SustainedIsThroughout
<1>2. MonitoringInv /\ [MonitoringNext]_monitoringVars
        => [\A w \in Flusher :
               at[w] = "checking" /\ at'[w] = "creating" /\ Duration > 0 => ExceededThroughout]_monitoringVars
  BY <1>1
<1>3. QED BY <1>2, MonitoringInvariant, PTL DEF MonitoringSpec, AlertNeedsSustainedReadings

-----------------------------------------------------------------------------
(* What figures are worth (ImpactValues): at most one main meter is in the  *)
(* totals, and an amount of money is a figure of a day read well enough.   *)
SourceRow == [role: Role, total: BOOLEAN, confirmed: BOOLEAN]
InTotalsAsMain(s) == source[s].total /\ source[s].role = "site_boundary"
OneMain == \A s, t \in Source : InTotalsAsMain(s) /\ InTotalsAsMain(t) => s = t

MetersInv == source \in [Source -> SourceRow] /\ OneMain

AmountsInv ==
    /\ Given(figures.value) => ReadWell(figures.covered)
    /\ Given(figures.realized) => /\ ReadWell(figures.covered)
                                  /\ figures.status \in {"ready", "needs_configuration"}

ValuesInv == MetersInv /\ UseIsCountedOnce /\ AmountsInv

LEMMA FirstIsOne ==
    ASSUME NEW S \in SUBSET Source, NEW s \in FirstOf(S), NEW t \in FirstOf(S) PROVE s = t
<1>1. s \in Source /\ t \in Source /\ OrderOf[s] <= OrderOf[t] /\ OrderOf[t] <= OrderOf[s]
  BY DEF FirstOf
<1>2. OrderOf[s] \in Nat /\ OrderOf[t] \in Nat
  BY <1>1, ValuesAssumption
<1>3. OrderOf[s] = OrderOf[t]
  BY <1>1, <1>2
<1>4. QED BY <1>1, <1>3, ValuesAssumption

(* What a calculation counts, of the meters as they are: of one device one  *)
(* reading, and beside a main meter nothing.                               *)
LEMMA CountedApart ==
    ASSUME MetersInv, NEW s \in Counted, NEW t \in Counted, s # t
    PROVE  DeviceOf[s] # DeviceOf[t] /\ s \notin Mains
<1>1. s \in Selected /\ t \in Selected /\ Selected \subseteq Source
  BY DEF Counted, Selected, Mains, Equipment, InTotals
<1>2. DeviceOf[s] # DeviceOf[t]
  <2> DEFINE Of(u) == CountersFirst({v \in Selected : DeviceOf[v] = DeviceOf[u]})
  <2>1. SUFFICES ASSUME DeviceOf[s] = DeviceOf[t] PROVE FALSE
    OBVIOUS
  <2>2. s \in FirstOf(Of(s)) /\ t \in FirstOf(Of(t))
    BY DEF Counted
  <2>3. Of(s) = Of(t)
    BY <2>1
  <2>4. Of(s) \in SUBSET Source
    BY <1>1 DEF CountersFirst
  <2> HIDE DEF Of
  <2>5. QED BY <2>2, <2>3, <2>4, FirstIsOne
<1>3. s \notin Mains
  <2>1. SUFFICES ASSUME s \in Mains PROVE FALSE
    OBVIOUS
  <2>2. t \in Mains
    BY <2>1, <1>1 DEF Selected
  <2>3. s = t
    BY <2>1, <2>2 DEF Mains, InTotals, MetersInv, OneMain, InTotalsAsMain
  <2>4. QED BY <2>3
<1>4. QED BY <1>2, <1>3

(* No price makes an amount of a day that was read too little.              *)
LEMMA PricedWhenCovered ==
    ASSUME NEW n, NEW covered, Given(Priced(n, covered)) PROVE ReadWell(covered)
  BY DEF Priced, Given

LEMMA FoundAmounts ==
    ASSUME NEW kwh, NEW periods, Given(Metrics(kwh, periods).value)
    PROVE  ReadWell(Metrics(kwh, periods).covered)
<1>1. ~Given(NoMetrics.value)
  BY DEF NoMetrics, Given
<1>2. ~Given(ColdMetrics(periods).value)
  BY DEF ColdMetrics, NoMetrics, Given
<1>3. Metrics(kwh, periods) = EnergyMetrics(kwh)
  BY <1>1, <1>2 DEF Metrics
<1>4. \E n, covered : EnergyMetrics(kwh).value = Priced(n, covered) /\ EnergyMetrics(kwh).covered = covered
  BY DEF EnergyMetrics
<1>5. QED BY <1>3, <1>4, PricedWhenCovered

LEMMA CalculationKeeps ==
    ASSUME ValuesInv, NEW kwh, NEW worked, NEW periods, NEW long \in BOOLEAN,
           CalculateValues(kwh, worked, periods, long)
    PROVE  ValuesInv'
<1> DEFINE found == Metrics(kwh, periods)
           realized == IF long THEN Realized(found, worked) ELSE NoValue
<1>1. /\ figures'.mains \subseteq Counted \cap Mains /\ figures'.counted \subseteq Counted
      /\ figures'.covered = found.covered /\ figures'.value = found.value
      /\ figures'.realized = realized /\ figures'.status = StatusAfter(found, periods, realized, long)
  BY DEF CalculateValues
<1>2. MetersInv'
  BY DEF CalculateValues, ValuesInv, MetersInv, OneMain, InTotalsAsMain
<1>3. UseIsCountedOnce'
  <2>1. \A s, t \in Counted : s # t => DeviceOf[s] # DeviceOf[t] /\ s \notin Mains
    BY CountedApart DEF ValuesInv
  <2>2. QED BY <2>1, <1>1 DEF UseIsCountedOnce
<1>4. Given(figures'.value) => ReadWell(figures'.covered)
  BY <1>1, FoundAmounts
<1>5. Given(realized) => ReadWell(found.covered)
  BY DEF Realized, Given
<1>6. Given(realized) => StatusAfter(found, periods, realized, long) \in {"ready", "needs_configuration"}
  <2>1. SUFFICES ASSUME Given(realized) PROVE StatusAfter(found, periods, realized, long) \in {"ready", "needs_configuration"}
    OBVIOUS
  <2>2. ReadWell(found.covered)
    BY <2>1 DEF Realized, Given
  <2> HIDE DEF found, realized
  <2>3. QED BY <2>1, <2>2 DEF StatusAfter
<1>7. QED BY <1>1, <1>2, <1>3, <1>4, <1>5, <1>6 DEF ValuesInv, AmountsInv

LEMMA MetersKeep ==
    ASSUME MetersInv
    PROVE  /\ SuggestSources => MetersInv'
           /\ \A s \in Source, role \in Role \ {"none"}, asked \in BOOLEAN : ConfirmSource(s, role, asked) => MetersInv'
<1>1. ASSUME SuggestSources PROVE MetersInv'
  <2>1. source' \in [Source -> SourceRow]
    BY <1>1 DEF SuggestSources, MetersInv, SourceRow, NoSource, Role
  <2>2. \A s \in Source : InTotalsAsMain(s)' => InTotalsAsMain(s)
    BY <1>1 DEF SuggestSources, MetersInv, SourceRow, NoSource, InTotalsAsMain
  <2>3. QED BY <2>1, <2>2 DEF MetersInv, OneMain
<1>2. ASSUME NEW s \in Source, NEW role \in Role \ {"none"}, NEW asked \in BOOLEAN, ConfirmSource(s, role, asked)
      PROVE  MetersInv'
  <2> DEFINE total == asked /\ role # "monitoring_only"
  <2>1. /\ source'[s] = [role |-> role, total |-> total, confirmed |-> TRUE]
        /\ \A t \in Source \ {s} : /\ source'[t].role = source[t].role
                                   /\ source'[t].total => source[t].total
                                   /\ total /\ role = "site_boundary" => ~source'[t].total
    BY <1>2 DEF ConfirmSource, TakenOut, MetersInv, SourceRow
  <2>2. source' \in [Source -> SourceRow]
    BY <1>2 DEF ConfirmSource, MetersInv, SourceRow
  <2>3. \A t \in Source \ {s} : InTotalsAsMain(t)' => InTotalsAsMain(t) /\ ~InTotalsAsMain(s)'
    BY <2>1 DEF InTotalsAsMain
  <2>4. QED BY <2>2, <2>3 DEF MetersInv, OneMain
<1>3. QED BY <1>1, <1>2

LEMMA ValuesStep == ValuesInv /\ [ValuesNext]_valuesVars => ValuesInv'
<1> SUFFICES ASSUME ValuesInv, [ValuesNext]_valuesVars PROVE ValuesInv'
  OBVIOUS
<1>1. ASSUME MetersInv', UNCHANGED figures PROVE ValuesInv'
  BY <1>1 DEF ValuesInv, UseIsCountedOnce, AmountsInv
<1>2. ASSUME UNCHANGED source PROVE MetersInv'
  BY <1>2 DEF ValuesInv, MetersInv, OneMain, InTotalsAsMain
<1>3. CASE SuggestSources
  BY <1>3, <1>1, MetersKeep DEF ValuesInv, SuggestSources
<1>4. ASSUME NEW s \in Source, NEW role \in Role \ {"none"}, NEW asked \in BOOLEAN, ConfirmSource(s, role, asked)
      PROVE  ValuesInv'
  <2>1. MetersInv'
    BY <1>4, MetersKeep DEF ValuesInv
  <2>2. QED BY <2>1, <1>1, <1>4 DEF ConfirmSource
<1>5. CASE SaveSettings \/ DayEnds \/ BaselinesRefreshed
  BY <1>5, <1>1, <1>2 DEF SaveSettings, DayEnds, BaselinesRefreshed
<1>6. CASE OpenEdit \/ SaveEdit \/ CreateTicketFor
  BY <1>6, <1>1, <1>2 DEF OpenEdit, SaveEdit, CreateTicketFor
<1>7. CASE UNCHANGED valuesVars
  BY <1>7, <1>1, <1>2 DEF valuesVars
<1>8. QED BY <1>3, <1>4, <1>5, <1>6, <1>7, CalculationKeeps DEF ValuesNext

LEMMA ValuesInvariant == ValuesSpec => []ValuesInv
<1>1. ValuesInit => ValuesInv
  BY DEF ValuesInit, ValuesInv, MetersInv, SourceRow, NoSource, Role, OneMain, InTotalsAsMain,
         UseIsCountedOnce, AmountsInv, NoFigures, Given
<1>2. QED BY <1>1, ValuesStep, PTL DEF ValuesSpec

(* confirm_data_source and _energy_sources never let a total contain a main *)
(* meter beside another, or a device twice, however meters are confirmed.  *)
THEOREM UseCountedOnce == ValuesSpec => []UseIsCountedOnce
  BY ValuesInvariant, PTL DEF ValuesInv

(* Money is shown only of days read well enough, in the currency reported,  *)
(* and savings only when one was calculated, for any terms and readings.   *)
THEOREM ShownValuesSupported == ValuesSpec => []ShownValuesAreSupported
<1>1. AmountsInv => ShownValuesAreSupported
  <2>1. \A x : Given(Visible(x)) => Given(x) /\ figures.currency = terms.currency
    BY DEF Visible, Given
  <2>2. /\ Shown.opportunity = Visible(figures.value) /\ Shown.realized = Visible(figures.realized)
        /\ Shown.net # {} \/ Shown.roi \/ Shown.payback => Given(Visible(figures.realized))
    BY DEF Shown
  <2>3. QED BY <2>1, <2>2 DEF ShownValuesAreSupported, AmountsInv
<1>2. QED BY <1>1, ValuesInvariant, PTL DEF ValuesInv

(* sync_opportunities leaves the status a person gave an opportunity.       *)
THEOREM DecisionsSurvive == ValuesSpec => DecisionsSurviveCalculations
<1> DEFINE Survives == figures' # figures /\ opportunity.status # "none" => opportunity'.status = opportunity.status
<1>1. [ValuesNext]_valuesVars => Survives
  <2> SUFFICES ASSUME [ValuesNext]_valuesVars, figures' # figures, opportunity.status # "none"
               PROVE  opportunity'.status = opportunity.status
    OBVIOUS
  <2>1. \E kwh \in [Source -> Readings], worked \in Worked, periods \in Excursions, long \in BOOLEAN :
           CalculateValues(kwh, worked, periods, long)
    BY DEF ValuesNext, valuesVars, SuggestSources, ConfirmSource, SaveSettings, DayEnds, BaselinesRefreshed,
           OpenEdit, SaveEdit, CreateTicketFor
  <2>2. QED BY <2>1 DEF CalculateValues, Synced
<1>2. QED BY <1>1, PTL DEF ValuesSpec, DecisionsSurviveCalculations
=============================================================================
