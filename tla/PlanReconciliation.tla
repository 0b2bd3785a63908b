-------------------------- MODULE PlanReconciliation ------------------------
(***************************************************************************)
(* The application of a subscription's polling limit to the gateways of a  *)
(* team, from apps/devices/plan_reconciliation.py.  A Stripe event queues  *)
(* a reconciliation once; the task it schedules may be lost, a scanner     *)
(* runs every minute, and a worker that died is taken over after five      *)
(* minutes.  A slow worker is taken over as well and goes on.              *)
(***************************************************************************)
EXTENDS Naturals, FiniteSets

CONSTANTS
    PlanEvent,     \* Stripe events, each with its source key
    Gateway,       \* active gateways of the team that have devices
    Unsupported,   \* those whose edge software has no guided setup
    Runner,        \* workers
    MaxDeaths      \* bound on the workers that die

ASSUME PlanAssumption ==
    /\ IsFiniteSet(PlanEvent) /\ "none" \notin PlanEvent \cup Gateway
    /\ Unsupported \subseteq Gateway
    /\ MaxDeaths \in Nat

VARIABLES
    plan,      \* how often the limit has changed
    rec,       \* GatewayPlanReconciliation.status per event
    fresh,     \* updated_at lies within five minutes
    runner,    \* what each worker is doing
    newest,    \* the limit in the newest settings of each gateway
    deaths,
    excused    \* not in the code: workers overlapped, or queueing settings failed

planVars == <<plan, rec, fresh, runner, newest, deaths, excused>>

Settled == {"completed", "needs_attention"}
Limit == 0 .. Cardinality(PlanEvent)
NoEvent == "none"
NoGateway == "none"

IdleRunner == [event |-> NoEvent, todo |-> {}, failed |-> FALSE, gateway |-> NoGateway, limit |-> 0]

PlanTypeOK ==
    /\ plan \in Limit
    /\ rec \in [PlanEvent -> {"none", "queued", "running"} \union Settled]
    /\ fresh \in [PlanEvent -> BOOLEAN]
    /\ runner \in [Runner -> [event : PlanEvent \union {NoEvent}, todo : SUBSET Gateway,
                              failed : BOOLEAN, gateway : Gateway \union {NoGateway}, limit : Limit]]
    /\ newest \in [Gateway -> Limit]
    /\ deaths \in 0 .. MaxDeaths
    /\ excused \in BOOLEAN

PlanInit ==
    /\ plan = 0
    /\ rec = [e \in PlanEvent |-> "none"]
    /\ fresh = [e \in PlanEvent |-> FALSE]
    /\ runner = [x \in Runner |-> IdleRunner]
    /\ newest = [g \in Gateway |-> 0]
    /\ deaths = 0
    /\ excused = FALSE

-----------------------------------------------------------------------------
(* The webhook changes the subscription and queues one row per event.      *)
PlanChanges(e) ==
    /\ rec[e] = "none"
    /\ plan' = plan + 1
    /\ rec' = [rec EXCEPT ![e] = "queued"]
    /\ UNCHANGED <<fresh, runner, newest, deaths, excused>>

(* reconcile_team_gateway_polling under the row lock, called by the task   *)
(* and by the scanner.                                                     *)
QueuedOnly(e) == rec[e] = "queued"   \* mutated form
Due(e) == rec[e] = "queued" \/ (rec[e] = "running" /\ ~fresh[e])

Begin(x, e) ==
    /\ runner[x] = IdleRunner
    /\ Due(e)
    /\ rec' = [rec EXCEPT ![e] = "running"]
    /\ fresh' = [fresh EXCEPT ![e] = TRUE]
    /\ runner' = [runner EXCEPT ![x] = [IdleRunner EXCEPT !.event = e, !.todo = Gateway]]
    /\ excused' = (excused \/ \E y \in Runner : runner[y] # IdleRunner)
    /\ UNCHANGED <<plan, newest, deaths>>

Working(x) == runner[x].event # NoEvent /\ runner[x].gateway = NoGateway

(* A gateway without support is counted, one whose newest settings already *)
(* carry the limit is skipped, for the others the settings are generated.  *)
SkipsSettled(r, g) ==   \* mutated form
    IF g \in Unsupported THEN [r EXCEPT !.todo = @ \ {g}, !.failed = TRUE]
    ELSE IF newest[g] # 0 THEN [r EXCEPT !.todo = @ \ {g}]
    ELSE [r EXCEPT !.todo = @ \ {g}, !.gateway = g, !.limit = plan]
LookedAt(r, g) ==
    IF g \in Unsupported THEN [r EXCEPT !.todo = @ \ {g}, !.failed = TRUE]
    ELSE IF newest[g] = plan THEN [r EXCEPT !.todo = @ \ {g}]
    ELSE [r EXCEPT !.todo = @ \ {g}, !.gateway = g, !.limit = plan]

GenerateSettings(x) ==
    /\ Working(x)
    /\ \E g \in runner[x].todo : runner' = [runner EXCEPT ![x] = LookedAt(runner[x], g)]
    /\ UNCHANGED <<plan, rec, fresh, newest, deaths, excused>>

(* queue_gateway_config makes a new newest revision, or raises.            *)
QueueSettings(x) ==
    /\ runner[x].gateway # NoGateway
    /\ \/ /\ newest' = [newest EXCEPT ![runner[x].gateway] = runner[x].limit]
          /\ runner' = [runner EXCEPT ![x].gateway = NoGateway, ![x].limit = 0]
          /\ UNCHANGED excused
       \/ /\ runner' = [runner EXCEPT ![x].gateway = NoGateway, ![x].limit = 0, ![x].failed = TRUE]
          /\ excused' = TRUE
          /\ UNCHANGED newest
    /\ UNCHANGED <<plan, rec, fresh, deaths>>

Finish(x) ==
    /\ Working(x)
    /\ runner[x].todo = {}
    /\ rec' = [rec EXCEPT ![runner[x].event] = IF runner[x].failed THEN "needs_attention" ELSE "completed"]
    /\ runner' = [runner EXCEPT ![x] = IdleRunner]
    /\ UNCHANGED <<plan, fresh, newest, deaths, excused>>

RunnerDies(x) ==
    /\ runner[x] # IdleRunner
    /\ deaths < MaxDeaths
    /\ deaths' = deaths + 1
    /\ runner' = [runner EXCEPT ![x] = IdleRunner]
    /\ UNCHANGED <<plan, rec, fresh, newest, excused>>

FiveMinutesPass(e) ==
    /\ rec[e] = "running" /\ fresh[e]
    /\ fresh' = [fresh EXCEPT ![e] = FALSE]
    /\ UNCHANGED <<plan, rec, runner, newest, deaths, excused>>

Proceed(x) == GenerateSettings(x) \/ QueueSettings(x) \/ Finish(x)

PlanNext ==
    \/ \E e \in PlanEvent : PlanChanges(e) \/ FiveMinutesPass(e)
    \/ \E x \in Runner : Proceed(x) \/ RunnerDies(x) \/ \E e \in PlanEvent : Begin(x, e)

PlanSpec == PlanInit /\ [][PlanNext]_planVars

(* The beat scans every minute, workers go on, and time passes.            *)
PlanFairness ==
    /\ \A e \in PlanEvent : WF_planVars(\E x \in Runner : Begin(x, e))
    /\ \A e \in PlanEvent : WF_planVars(FiveMinutesPass(e))
    /\ \A x \in Runner : WF_planVars(Proceed(x))

-----------------------------------------------------------------------------
(* A plan change is always carried to an end, although the task that       *)
(* applies it may never be scheduled, or die half-way and be taken over.   *)
ReconciliationEnds == \A e \in PlanEvent : rec[e] = "queued" ~> rec[e] \in Settled

(* When every plan change is settled, gateways with guided setup have the  *)
(* limit in force in their newest settings.                                *)
AppliedOn(g) == newest[g] = plan

AllSettled == \A e \in PlanEvent : rec[e] \in {"none"} \cup Settled

(* A gateway is left with an old limit only by workers that overlapped, as *)
(* one taken over goes on, or by a failure to queue its settings: not by a *)
(* plan that changes half-way, a death, or a worker that skips it          *)
(* (plan_reconciliation.py:81, :92).                                       *)
OnlyOverlapsKeepAnOldLimit ==
    AllSettled /\ ~excused => \A g \in Gateway \ Unsupported : AppliedOn(g)

(* Workers that overlap do no harm.  The code does not keep this: one that *)
(* generated settings for the old limit queues them after those for the    *)
(* new one (README.md, "Known divergences").                               *)
OverlapsAreHarmless ==
    AllSettled /\ (\A x \in Runner : runner[x] = IdleRunner) /\ (\A e \in PlanEvent : rec[e] # "needs_attention")
        => \A g \in Gateway \ Unsupported : AppliedOn(g)
=============================================================================
