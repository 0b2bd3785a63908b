--------------------------- MODULE AutomationRules --------------------------
(***************************************************************************)
(* One automation whose conditions must all hold, from                     *)
(* apps/automations/engine.py.  A payload carries values for some of the   *)
(* conditions' keys; the others are judged by the state the cache keeps    *)
(* since they were last evaluated.  While the automation cools down, the   *)
(* engine leaves before it looks at the conditions.  A worker evaluates,   *)
(* then executes; two flush workers overlap.                               *)
(***************************************************************************)
EXTENDS Naturals

CONSTANTS
    Condition,      \* AutomationCondition rows
    AutoWorker,     \* flush workers
    Sustain,        \* duration_seconds of every condition, in ticks
    AutoCooldown,   \* cooldown_minutes, in ticks
    LastTick        \* the bounded clock stops here

ASSUME AutoAssumption == Sustain \in Nat /\ AutoCooldown \in Nat /\ LastTick \in Nat \ {0}

VARIABLES
    tick,       \* the clock
    heard,      \* what each payload said of each condition, by tick
    metSince,   \* auto_cond_state_<id>.met_since, 0 when the cache has no state
    firedAt,    \* last_triggered_at, 0 for null
    executing   \* workers that go on to execute_automation

autoVars == <<tick, heard, metSince, firedAt, executing>>

Verdict == {"absent", "met", "unmet"}

AutoTypeOK ==
    /\ tick \in 1 .. LastTick
    /\ heard \in [1 .. LastTick -> [Condition -> Verdict]]
    /\ metSince \in [Condition -> 0 .. LastTick]
    /\ firedAt \in 0 .. LastTick
    /\ executing \subseteq AutoWorker

Nothing == [c \in Condition |-> "absent"]

AutoInit ==
    /\ tick = 1
    /\ heard = [t \in 1 .. LastTick |-> Nothing]
    /\ metSince = [c \in Condition |-> 0]
    /\ firedAt = 0
    /\ executing = {}

AutoTick ==
    /\ tick < LastTick
    /\ tick' = tick + 1
    /\ UNCHANGED <<heard, metSince, firedAt, executing>>

CoolingDown == firedAt # 0 /\ tick < firedAt + AutoCooldown

(* evaluate_condition keeps or starts met_since, and clears it when the    *)
(* condition is broken.                                                    *)
KeptWhenBroken(c, verdict) ==      \* mutated forms
    IF verdict = "met" /\ metSince[c] = 0 THEN tick ELSE metSince[c]
DeadlineKept(c, verdict) ==
    IF verdict = "met" /\ metSince[c] = 0 THEN tick + Sustain ELSE metSince[c]
StateAfter(c, verdict) ==
    CASE verdict = "met"    -> IF metSince[c] = 0 THEN tick ELSE metSince[c]
      [] verdict = "unmet"  -> 0
      [] verdict = "absent" -> metSince[c]

(* A condition counts when its state is met for long enough.               *)
Satisfied(since) == since # 0 /\ tick >= since + Sustain

EvaluatePayload(w) ==
    /\ w \notin executing
    /\ heard[tick] = Nothing
    /\ \E payload \in [Condition -> Verdict] \ {Nothing} :
         /\ heard' = [heard EXCEPT ![tick] = payload]
         /\ IF CoolingDown
            THEN UNCHANGED <<metSince, executing>>
            ELSE /\ metSince' = [c \in Condition |-> StateAfter(c, payload[c])]
                 /\ executing' = IF \A c \in Condition : Satisfied(metSince'[c])
                                 THEN executing \union {w} ELSE executing
    /\ UNCHANGED <<tick, firedAt>>

(* execute_automation stamps the automation, then runs its actions.        *)
ExecuteAutomation(w) ==
    /\ w \in executing
    /\ firedAt' = tick
    /\ executing' = executing \ {w}
    /\ UNCHANGED <<tick, heard, metSince>>

AutoNext == AutoTick \/ \E w \in AutoWorker : EvaluatePayload(w) \/ ExecuteAutomation(w)

AutoSpec == AutoInit /\ [][AutoNext]_autoVars

-----------------------------------------------------------------------------
Goes(w) == w \notin executing /\ w \in executing'

(* No automation acts on a condition whose value in the same payload       *)
(* breaks it, or that was never reported met.                              *)
ActsOnReportedConditions ==
    [][\A w \in AutoWorker : Goes(w) =>
          \A c \in Condition :
             /\ heard'[tick][c] # "unmet"
             /\ \E t \in 1 .. tick : heard'[t][c] = "met"]_autoVars

(* The code does not keep this: README.md, "Known divergences".            *)
(* AutomationCondition.duration_seconds: when the automation acts, every   *)
(* condition has remained true for the time the customer asked for.        *)
ActsOnlyWhenSustained ==
    [][\A w \in AutoWorker : Goes(w) =>
          \A c \in Condition : \A t \in 1 .. tick :
             t + Sustain >= tick => heard'[t][c] # "unmet"]_autoVars
=============================================================================
