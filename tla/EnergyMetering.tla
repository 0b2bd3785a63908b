---------------------------- MODULE EnergyMetering ----------------------------
(***************************************************************************)
(* How telemetry of one energy source becomes kWh (impact/calculations.py):*)
(* the loops of integrate_power_source and integrate_counter_source over   *)
(* consecutive samples, run for a day and for its two halves at once.      *)
(*                                                                         *)
(* Time and readings are integers, energy of power is doubled seconds.  The*)
(* meter is external: it shows its register, or a value the register map   *)
(* calls implausible, and it may be replaced.                              *)
(***************************************************************************)
EXTENDS Integers

CONSTANTS
    Start, Split, End,   \* the day and where its halves meet
    Lead,                \* _source_points reads this much before the period
    PowerGap, CounterGap,\* max_gap_seconds of the two loops
    Capacity,            \* the register wraps here; a reading above is implausible
    MaxUse,              \* bound on what is consumed between two samples
    LastSample,          \* bound on time
    OpensAt, ClosesAt    \* the operating window of the schedule, over midnight if closing comes first

ASSUME MeteringAssumption ==
    /\ Start \in Nat /\ Split \in Nat /\ End \in Nat /\ Lead \in Nat
    /\ Start < Split /\ Split < End
    /\ PowerGap \in Nat /\ CounterGap \in Nat
    /\ Capacity \in Nat \ {0} /\ MaxUse \in 0 .. Capacity
    /\ LastSample \in Nat /\ OpensAt \in Nat /\ ClosesAt \in Nat

VARIABLES
    meter,       \* [kind, rollover configured]: how the source is read
    register,    \* what the meter has counted since it was installed, modulo Capacity
    used,        \* what was consumed since the first sample
    replaced,    \* how often the meter was replaced
    sample,      \* the latest sample: [at, value]
    tally        \* per period, what the loop has added up

meterVars == <<meter, register, used, replaced, sample, tally>>

Period == {"day", "first", "second"}
PeriodStart(p) == IF p = "second" THEN Split ELSE Start
PeriodEnd(p) == IF p = "first" THEN Split ELSE End

Zero == [energy |-> 0, after |-> 0, covered |-> 0, resets |-> 0]
Tally == [energy: Nat, after: Nat, covered: Nat, resets: Nat]

MeterTypeOK ==
    /\ meter \in [kind: {"power", "counter"}, rollover: BOOLEAN]
    /\ register \in 0 .. Capacity - 1
    /\ used \in Nat /\ replaced \in Nat
    /\ sample \in [at: Nat, value: Nat]
    /\ tally \in [Period -> Tally]

MeterInit ==
    /\ meter \in [kind: {"power", "counter"}, rollover: BOOLEAN]
    /\ register \in 0 .. Capacity - 1
    /\ used = 0 /\ replaced = 0
    /\ \E t \in 0 .. LastSample : sample = [at |-> t, value |-> register]
    /\ tally = [p \in Period |-> Zero]

-----------------------------------------------------------------------------
Later(a, b) == IF a < b THEN b ELSE a
Sooner(a, b) == IF a < b THEN a ELSE b

(* Two consecutive samples of a period: what lies inside it, between        *)
(* samples that are not too far apart.                                     *)
ReadBothSides(p, l, r) ==   \* mutated form of Read
    l.at >= PeriodStart(p) - Lead /\ l.at < PeriodEnd(p)
Read(p, l, r) == l.at >= PeriodStart(p) - Lead /\ r.at < PeriodEnd(p)

Seconds(p, l, r) == Sooner(r.at, PeriodEnd(p)) - Later(l.at, PeriodStart(p))

MaxGap == IF meter.kind = "power" THEN PowerGap ELSE CounterGap

IsPlausible(s) == s.value < Capacity

Usable(p, l, r) ==
    /\ Read(p, l, r) /\ Seconds(p, l, r) > 0
    /\ r.at > l.at /\ r.at - l.at <= MaxGap
    /\ IsPlausible(l) /\ IsPlausible(r)

(* A reading that fell is a rollover from the top fifth to the bottom fifth *)
(* of a configured register, or else a reset that is left out.             *)
AnyFallRollsOver(l, r) == meter.rollover   \* mutated form of RolledOver
RolledOver(l, r) == meter.rollover /\ 5 * l.value >= 4 * Capacity /\ 5 * r.value <= Capacity

IsReset(l, r) == meter.kind = "counter" /\ r.value < l.value /\ ~RolledOver(l, r)

Difference(l, r) == r.value - l.value   \* mutated form of Delta
Delta(l, r) == IF r.value < l.value THEN Capacity - l.value + r.value ELSE r.value - l.value

Energy(p, l, r) ==
    IF meter.kind = "power" THEN (l.value + r.value) * Seconds(p, l, r) ELSE Delta(l, r)

(* is_operating_time of the middle of the segment.                         *)
IsOperatingTime(t) ==
    IF OpensAt <= ClosesAt THEN OpensAt <= t /\ t < ClosesAt ELSE t >= OpensAt \/ t < ClosesAt

Middle(p, l, r) == (Later(l.at, PeriodStart(p)) + Sooner(r.at, PeriodEnd(p))) \div 2

Added(p, l, r) ==
    LET old == tally[p]
        e == Energy(p, l, r)
    IN  IF ~Usable(p, l, r) THEN old
        ELSE IF IsReset(l, r) THEN [old EXCEPT !.resets = @ + 1]
        ELSE [old EXCEPT !.energy = @ + e, !.covered = @ + Seconds(p, l, r),
                         !.after = IF IsOperatingTime(Middle(p, l, r)) THEN @ ELSE @ + e]

(* One turn of the loops: the next sample in the order of time.             *)
Take(s) ==
    /\ s.at >= sample.at /\ s.at <= LastSample
    /\ sample' = s
    /\ tally' = [p \in Period |-> Added(p, sample, s)]
    /\ UNCHANGED meter

(* A counter shows its register after a further use of u, nothing at the    *)
(* same instant.                                                           *)
Wrapped(n) == IF n >= Capacity THEN n - Capacity ELSE n

Counts(t, u) ==
    /\ meter.kind = "counter" /\ (t = sample.at => u = 0)
    /\ register' = Wrapped(register + u)
    /\ used' = used + u
    /\ Take([at |-> t, value |-> register'])
    /\ UNCHANGED replaced

(* Power goes up and down.                                                 *)
ShowsPower(t, n) ==
    /\ meter.kind = "power"
    /\ Take([at |-> t, value |-> n])
    /\ UNCHANGED <<register, used, replaced>>

(* Either shows nonsense, which the plausibility bounds recognise.          *)
Glitches(t) ==
    /\ Take([at |-> t, value |-> Capacity])
    /\ UNCHANGED <<register, used, replaced>>

(* A new counter has counted n of the u that was used.                      *)
IsReplaced(t, u, n) ==
    /\ meter.kind = "counter" /\ replaced = 0
    /\ n <= u
    /\ register' = Wrapped(n)
    /\ used' = used + u
    /\ replaced' = 1
    /\ Take([at |-> t, value |-> register'])

MeterNext ==
    \E t \in 0 .. LastSample :
        \/ \E u \in 0 .. MaxUse : Counts(t, u)
        \/ \E n \in 0 .. Capacity - 1 : ShowsPower(t, n)
        \/ Glitches(t)
        \/ \E u, n \in 0 .. MaxUse : IsReplaced(t, u, n)

MeterSpec == MeterInit /\ [][MeterNext]_meterVars

-----------------------------------------------------------------------------
(* Figures of the parts of a day never add up to more than the day's: no    *)
(* segment that crosses their border is counted twice, although each part  *)
(* reads the samples before it (_source_points, _segment_bounds).          *)
PartsNeverExceedDay ==
    /\ tally["first"].energy + tally["second"].energy <= tally["day"].energy
    /\ tally["first"].covered + tally["second"].covered <= tally["day"].covered

(* A counter is never billed for more than was consumed, whatever gaps,     *)
(* duplicates, nonsense and rollovers its samples have; a replaced meter   *)
(* can be mistaken for a rollover and cost a fifth of the register once.   *)
CountedWasConsumed ==
    meter.kind = "counter" => \A p \in Period : 5 * tally[p].energy <= 5 * used + Capacity * replaced

(* Energy is billed once, and only what was consumed.                       *)
EnergyIsCountedOnce == PartsNeverExceedDay /\ CountedWasConsumed

(* Coverage is at most the period and what was used after hours at most     *)
(* what was used.                                                          *)
TallyIsBounded ==
    \A p \in Period : tally[p].covered <= PeriodEnd(p) - PeriodStart(p) /\ tally[p].after <= tally[p].energy
=============================================================================
