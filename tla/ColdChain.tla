------------------------------- MODULE ColdChain -------------------------------
(***************************************************************************)
(* Temperature excursions of one source in one period                      *)
(* (calculate_cold_chain_metrics): a loop over consecutive samples that    *)
(* measures how long the mean of the two was out of the configured range.  *)
(* Time and temperatures are integers; a mean is kept doubled.             *)
(***************************************************************************)
EXTENDS Integers

CONSTANTS
    ColdEnd,        \* the period is 0 .. ColdEnd
    ColdGap,        \* longest gap between two samples that is bridged
    Degrees,        \* what a sample can say
    ColdMin, ColdMax,\* the range
    Hottest,        \* plausibility: a mean above is left out
    Delay,          \* excursion_delay_minutes
    Critical        \* cold_critical_duration_minutes

ASSUME ColdAssumption ==
    /\ ColdEnd \in Nat /\ ColdGap \in Nat /\ Delay \in Nat /\ Critical \in Nat \ {0}
    /\ Degrees \subseteq Int /\ ColdMin \in Int /\ ColdMax \in Int /\ Hottest \in Int

VARIABLES
    probe,    \* the latest sample: [at, value]
    cold,     \* the loop's counters
    ended     \* the samples of the period are used up

coldVars == <<probe, cold, ended>>

Counters == [covered: Nat, inRange: Nat, out: BOOLEAN, lasts: Nat,
             count: Nat, unresolved: Nat, seconds: Nat, avoided: Nat]

ColdTypeOK ==
    /\ probe \in [at: 0 .. ColdEnd, value: Degrees]
    /\ cold \in Counters
    /\ ended \in BOOLEAN

ColdInit ==
    /\ probe \in [at: 0 .. ColdEnd, value: Degrees]
    /\ cold = [covered |-> 0, inRange |-> 0, out |-> FALSE, lasts |-> 0,
               count |-> 0, unresolved |-> 0, seconds |-> 0, avoided |-> 0]
    /\ ended = FALSE

Mean2(s) == probe.value + s.value
InRange(s) == 2 * ColdMin <= Mean2(s) /\ Mean2(s) <= 2 * ColdMax
Bridged(s) == s.at > probe.at /\ s.at - probe.at <= ColdGap

(* An excursion that lasted is counted when it is over ...                  *)
LastedAtAll == cold.out   \* mutated form
Lasted == cold.out /\ cold.lasts >= Delay

CountedExcursion == IF Lasted THEN [cold EXCEPT !.count = @ + 1, !.seconds = @ + cold.lasts] ELSE cold
Over(c) == [c EXCEPT !.out = FALSE, !.lasts = 0]

(* ... as resolved when the temperature is back in range, with what the     *)
(* answer spared of the time to spoilage ...                               *)
Resolved == [CountedExcursion EXCEPT !.avoided = IF Lasted /\ cold.lasts < Critical THEN @ + (Critical - cold.lasts) ELSE @]

(* ... and as unresolved when the samples stop.                             *)
Unresolved == [CountedExcursion EXCEPT !.unresolved = IF Lasted THEN @ + 1 ELSE @]

(* One turn of the loop.                                                    *)
ColdSample(s) ==
    /\ ~ended /\ s.at >= probe.at
    /\ probe' = s
    /\ LET seconds == s.at - probe.at
           covered == [cold EXCEPT !.covered = @ + seconds]
       IN  cold' = IF ~Bridged(s) THEN Over(Unresolved)
                   ELSE IF Mean2(s) > 2 * Hottest THEN cold
                   ELSE IF InRange(s) THEN [Over(Resolved) EXCEPT !.covered = @ + seconds, !.inRange = @ + seconds]
                   ELSE [covered EXCEPT !.out = TRUE, !.lasts = @ + seconds]
    /\ UNCHANGED ended

(* After the last sample.                                                   *)
ColdEnds ==
    /\ ~ended
    /\ ended' = TRUE
    /\ cold' = Over(Unresolved)
    /\ UNCHANGED probe

ColdNext ==
    \/ \E t \in 0 .. ColdEnd, v \in Degrees : ColdSample([at |-> t, value |-> v])
    \/ ColdEnds

ColdSpec == ColdInit /\ [][ColdNext]_coldVars

-----------------------------------------------------------------------------
(* The report's time in range and its excursions never claim more than was *)
(* measured, each excursion lasted the configured delay, and no open       *)
(* excursion is forgotten: a period's covered seconds are those in range,  *)
(* those of counted excursions, and those that were too short or are still *)
(* running.                                                                *)
ExcursionsAreMeasured ==
    /\ cold.inRange + cold.seconds + cold.lasts <= cold.covered
    /\ cold.covered <= ColdEnd
    /\ cold.count * Delay <= cold.seconds
    /\ cold.unresolved <= cold.count
    /\ cold.avoided <= (cold.count - cold.unresolved) * Critical
=============================================================================
