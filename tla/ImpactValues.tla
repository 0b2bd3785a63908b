---------------------------- MODULE ImpactValues ----------------------------
(***************************************************************************)
(* What one site's figures are worth (impact/calculations.py, services.py, *)
(* forms.py, views.py): meters are suggested and confirmed, business terms *)
(* entered, a day is valued from what the meters counted, and opportunities*)
(* found in it are followed up while later calculations rewrite them.      *)
(*                                                                         *)
(* EnergyMetering and ColdChain model what a meter or sensor counts and    *)
(* ImpactFigures how days are kept; here a day's readings are any of       *)
(* Readings.  Amounts are integers of the smallest unit.  A request is one *)
(* action, but an edit of an opportunity reads and saves its row.          *)
(***************************************************************************)
EXTENDS Integers, FiniteSets, Functions

CONSTANTS
    Source,       \* power and energy readings of verified, field-tested templates
    DeviceOf,     \* the device each belongs to
    OrderOf,      \* their order: priority, device name, key
    Cumulative,   \* those that are cumulative counters of energy
    Utility,      \* those of devices marked as the utility supply
    Readings,     \* what a source may have counted in a day
    Worked,       \* downtime and labour minutes of the day's tickets
    Excursions,   \* what temperature sensors may show: confirmed, coverage, risk avoided, unresolved
    Terms,        \* business terms the customer may enter
    Averages,     \* rolling baselines that a refresh may find
    MaxEvents     \* bound on the events of a behaviour

NoValue == -1     \* None
Amount == Nat \cup {NoValue}
Given(x) == x # NoValue

Usage == {"energy", "downtime", "labor"}
Minimum == 80     \* MIN_FINANCIAL_COVERAGE
ReadWell(covered) == covered >= Minimum

MeterDay == [energy: Nat, after: Nat, idle: Nat, covered: 0 .. 100]
Term == [currency: {"SGD", "USD"}, price: [Usage -> Amount], base: Amount, supplied: [Usage -> Amount],
         recurring: Nat, oneTime: Nat, months: Nat \ {0}]

ASSUME ValuesAssumption ==
    /\ OrderOf \in [Source -> Nat] /\ \A s, t \in Source : OrderOf[s] = OrderOf[t] => s = t
    /\ Source = DOMAIN DeviceOf /\ Cumulative \subseteq Source /\ Utility \subseteq Source
    /\ IsFiniteSet(Source)
    /\ Readings \subseteq MeterDay /\ Worked \subseteq [downtime: Nat, labor: Nat]
    /\ Excursions \subseteq [sensors: BOOLEAN, covered: 0 .. 100, risk: Amount, unresolved: Nat]
    /\ Terms \subseteq Term /\ Averages \subseteq [Usage -> Amount] /\ MaxEvents \in Nat

VARIABLES
    vertical,     \* SiteImpactProfile.vertical_profile
    source,       \* per source: [role, total, confirmed]
    terms,        \* the newest assumption revision, supplied baseline and business profile
    dayOver,      \* the day has ended: later revisions do not apply to it
    effective,    \* the assumption revision in effect for the day
    average,      \* rolling baselines: a day's average of each metric
    figures,      \* what the last calculation persisted
    opportunity,  \* the ImpactOpportunity of the day
    edit,         \* the row a request to edit it has read
    events        \* events so far

termsVars == <<terms, dayOver, effective>>
valuesVars == <<vertical, source, termsVars, average, figures, opportunity, edit, events>>

Role == {"none", "site_boundary", "submeter", "generation", "independent", "monitoring_only"}
OpportunityStatus == {"none", "open", "actioned", "resolved", "dismissed"}
CalculationStatus == {"needs_configuration", "low_coverage", "collecting_baseline", "ready"}

NoSource == [role |-> "none", total |-> FALSE, confirmed |-> FALSE]
NoOpportunity == [status |-> "none", quantity |-> NoValue, value |-> NoValue]
NoFigures == [mains |-> {}, counted |-> {}, covered |-> 0, cost |-> NoValue, quantity |-> NoValue, value |-> NoValue,
              realized |-> NoValue, basis |-> {}, currency |-> "SGD", status |-> "needs_configuration"]

ValuesTypeOK ==
    /\ vertical \in {"energy", "cold_chain"}
    /\ source \in [Source -> [role: Role, total: BOOLEAN, confirmed: BOOLEAN]]
    /\ terms \in Terms
    /\ average \in [Usage -> Amount]
    /\ figures.mains \subseteq figures.counted /\ figures.counted \subseteq Source
    /\ opportunity.status \in OpportunityStatus /\ edit.status \in OpportunityStatus /\ events \in 0 .. MaxEvents
    /\ dayOver \in BOOLEAN /\ effective \in Terms

ValuesInit ==
    /\ vertical \in {"energy", "cold_chain"}
    /\ source = [s \in Source |-> NoSource]
    /\ terms \in Terms /\ effective = terms /\ dayOver = FALSE
    /\ average = [k \in Usage |-> NoValue]
    /\ figures = NoFigures
    /\ opportunity = NoOpportunity /\ edit = NoOpportunity /\ events = 0

-----------------------------------------------------------------------------
(* Meters *)

(* suggest_data_sources: every reading gets a row; the first of the utility *)
(* supply is taken for the main meter if the site has none.                *)
Missing == {s \in Source : source[s].role = "none"}
FirstOf(S) == {s \in S : \A t \in S : OrderOf[s] <= OrderOf[t]}

SuggestedMain == IF \E s \in Source : source[s].role = "site_boundary" THEN {} ELSE FirstOf(Missing \cap Utility)

SuggestSources ==
    /\ Missing # {}
    /\ source' = [s \in Source |->
           IF s \notin Missing THEN source[s]
           ELSE [NoSource EXCEPT !.role = IF s \in SuggestedMain THEN "site_boundary" ELSE "independent"]]
    /\ UNCHANGED <<vertical, termsVars, average, figures, opportunity, edit>>

(* confirm_data_source: a main meter in the totals takes the others out.    *)
NoneTakenOut(s, main) == {}   \* mutated form
TakenOut(s, main) == IF main THEN Source \ {s} ELSE {}

ConfirmSource(s, role, asked) ==
    LET total == asked /\ role # "monitoring_only"
        out == TakenOut(s, total /\ role = "site_boundary")
    IN  /\ source[s].role # "none"
        /\ source' = [t \in Source |->
               IF t = s THEN [role |-> role, total |-> total, confirmed |-> TRUE]
               ELSE IF t \in out THEN [source[t] EXCEPT !.total = FALSE] ELSE source[t]]
        /\ UNCHANGED <<vertical, termsVars, average, figures, opportunity, edit>>

(* _energy_sources: the main meters if there are any, else the equipment's; *)
(* of one device its first counter, or its first reading.                  *)
InTotals == {s \in Source : source[s].confirmed /\ source[s].total}
Mains == {s \in InTotals : source[s].role = "site_boundary"}
Equipment == {s \in InTotals : source[s].role \in {"submeter", "independent"}}
Selected == IF Mains # {} THEN Mains ELSE Equipment

CountersFirst(S) == IF S \cap Cumulative # {} THEN S \cap Cumulative ELSE S
Counted == {s \in Selected : s \in FirstOf(CountersFirst({t \in Selected : DeviceOf[t] = DeviceOf[s]}))}

-----------------------------------------------------------------------------
(* Terms and baselines *)

(* ImpactSettingsForm.save: the business profile, the supplied baseline and *)
(* an assumption revision that takes effect now.                           *)
SaveSettings ==
    /\ terms' \in Terms \ {terms}
    /\ effective' = IF dayOver THEN effective ELSE terms'
    /\ UNCHANGED <<vertical, source, dayOver, average, figures, opportunity, edit>>

(* active_assumption of a day takes the newest revision before its end.     *)
DayEnds ==
    /\ ~dayOver
    /\ dayOver' = TRUE
    /\ UNCHANGED <<vertical, source, terms, effective, average, figures, opportunity, edit>>

(* refresh_site_baselines: what the final days average.                     *)
BaselinesRefreshed ==
    /\ average' \in Averages \ {average}
    /\ UNCHANGED <<vertical, source, termsVars, figures, opportunity, edit>>

(* _latest_baseline_value of a day.                                         *)
Expected(k) == IF Given(terms.supplied[k]) THEN terms.supplied[k] ELSE average[k]

-----------------------------------------------------------------------------
(* Values *)

PositivePart(n) == IF n > 0 THEN n ELSE 0
Greater(m, n) == IF m < n THEN n ELSE m

(* estimated_energy_opportunity: the greater of what was used after hours   *)
(* beyond the expected base load and what was used beyond the baseline.    *)
AfterHoursExcess(after, idle) ==
    IF Given(effective.base) THEN PositivePart(after - effective.base * idle) ELSE NoValue
AbnormalExcess(used) ==
    IF Given(Expected("energy")) THEN PositivePart(used - Expected("energy")) ELSE NoValue

(* A price turns a quantity into money, if enough of the day was read.      *)
Priced(n, covered) ==
    IF Given(n) /\ Given(effective.price["energy"]) /\ ReadWell(covered) THEN n * effective.price["energy"] ELSE NoValue

(* calculate_energy_metrics.  What it finds is nothing without a meter.     *)
TotalOf(parts) == FoldFunction(+, 0, parts)

EnergyMetrics(reading) ==
    LET used == TotalOf([s \in Counted |-> reading[s].energy])
        covered == TotalOf([s \in Counted |-> reading[s].covered]) \div Cardinality(Counted)
        wasted == Greater(AfterHoursExcess(TotalOf([s \in Counted |-> reading[s].after]),
                                           TotalOf([s \in Counted |-> reading[s].idle])),
                          AbnormalExcess(used))
    IN  [energy |-> used, covered |-> covered, cost |-> Priced(used, covered), quantity |-> wasted,
         value |-> Priced(wasted, covered), risk |-> NoValue]

NoMetrics == [energy |-> NoValue, covered |-> 100, cost |-> NoValue, quantity |-> NoValue, value |-> NoValue, risk |-> NoValue]

(* calculate_cold_chain_metrics, of what the sensors showed.                *)
ColdMetrics(seen) ==
    IF seen.sensors
    THEN [NoMetrics EXCEPT !.covered = seen.covered, !.quantity = seen.unresolved,
                           !.risk = IF ReadWell(seen.covered) /\ seen.risk > 0 THEN seen.risk ELSE NoValue]
    ELSE NoMetrics

(* calculate_site_period: what the vertical has metrics of.                 *)
Metrics(reading, seen) ==
    IF vertical = "cold_chain" THEN ColdMetrics(seen) ELSE IF Counted = {} THEN NoMetrics ELSE EnergyMetrics(reading)

(* add_realized_value_metrics: what was used less than expected, at its     *)
(* price, of each metric that has both; energy only if it was read.        *)
Comparison(found, worked) == [energy |-> found.energy, downtime |-> worked.downtime, labor |-> worked.labor]

Basis(found, worked) ==
    {k \in Usage : /\ Given(Comparison(found, worked)[k]) /\ Given(effective.price[k]) /\ Given(Expected(k))
                   /\ k = "energy" => ReadWell(found.covered)}

SavedOn(k, found, worked) == PositivePart(Expected(k) - Comparison(found, worked)[k]) * effective.price[k]

HasBasis(found, worked) == Given(found.risk) \/ Basis(found, worked) # {}

Realized(found, worked) ==
    IF HasBasis(found, worked) /\ ReadWell(found.covered)
    THEN TotalOf([k \in Basis(found, worked) |-> SavedOn(k, found, worked)]) + PositivePart(found.risk)
    ELSE NoValue

StatusAfter(found, seen, realized, long) ==
    IF ~seen.sensors /\ ~\E s \in Source : source[s].confirmed THEN "needs_configuration"
    ELSE IF ~ReadWell(found.covered) THEN "low_coverage"
    ELSE IF long /\ ~Given(realized) THEN "collecting_baseline" ELSE "ready"

(* sync_opportunities: what was found is entered or renewed under the day's *)
(* fingerprint, leaving its status; nothing found changes nothing.         *)
Synced(found) ==
    IF found.quantity > 0 \/ found.value > 0
    THEN [status |-> IF opportunity.status = "none" THEN "open" ELSE opportunity.status,
          quantity |-> found.quantity, value |-> found.value]
    ELSE opportunity

(* Realized value is part of a period of at least twenty hours only.        *)
CalculateValues(reading, worked, seen, long) ==
    LET found == Metrics(reading, seen)
        realized == IF long THEN Realized(found, worked) ELSE NoValue
        energy == vertical = "energy"
    IN  /\ figures' = [mains |-> IF energy THEN Counted \cap Mains ELSE {}, counted |-> IF energy THEN Counted ELSE {},
                       covered |-> found.covered, cost |-> found.cost, quantity |-> found.quantity, value |-> found.value,
                       realized |-> realized, basis |-> Basis(found, worked), currency |-> effective.currency,
                       status |-> StatusAfter(found, seen, realized, long)]
        /\ opportunity' = Synced(found)
        /\ UNCHANGED <<vertical, source, termsVars, average, edit>>

-----------------------------------------------------------------------------
(* Opportunities *)

(* opportunity_detail: the row is read, and saved whole with the form's     *)
(* status.                                                                 *)
OpenEdit ==
    /\ opportunity.status # "none" /\ edit = NoOpportunity
    /\ edit' = opportunity
    /\ UNCHANGED <<vertical, source, termsVars, average, figures, opportunity>>

SaveEdit ==
    /\ edit # NoOpportunity
    /\ \E s \in OpportunityStatus \ {"none"} : opportunity' = [edit EXCEPT !.status = s]
    /\ edit' = NoOpportunity
    /\ UNCHANGED <<vertical, source, termsVars, average, figures>>

(* opportunity_create_ticket saves the status only.                         *)
CreateTicketFor ==
    /\ opportunity.status # "none"
    /\ opportunity' = [opportunity EXCEPT !.status = "actioned"]
    /\ UNCHANGED <<vertical, source, termsVars, average, figures, edit>>

ValuesNext ==
    /\ events < MaxEvents /\ events' = events + 1
    /\ \/ SuggestSources
       \/ \E s \in Source, role \in Role \ {"none"}, asked \in BOOLEAN : ConfirmSource(s, role, asked)
       \/ SaveSettings \/ DayEnds \/ BaselinesRefreshed
       \/ \E reading \in [Source -> Readings], worked \in Worked, seen \in Excursions, long \in BOOLEAN :
             CalculateValues(reading, worked, seen, long)
       \/ OpenEdit \/ SaveEdit \/ CreateTicketFor

ValuesSpec == ValuesInit /\ [][ValuesNext]_valuesVars

-----------------------------------------------------------------------------
(* What a page shows (build_site_impact_summary): amounts in another        *)
(* currency than the team's are withheld, and costs come off the rest.     *)
Rounded(n, d) == (2 * n + d) \div (2 * d)

Investment == terms.recurring + Rounded(terms.oneTime, terms.months)
Visible(amount) == IF figures.currency = terms.currency THEN amount ELSE NoValue

Shown ==
    LET realized == Visible(figures.realized)
    IN  [opportunity |-> Visible(figures.value),
         realized |-> realized,
         net |-> IF Given(realized) THEN {realized - Investment} ELSE {},
         roi |-> Given(realized) /\ Investment > 0,
         payback |-> Given(realized) /\ realized > terms.recurring /\ terms.oneTime > 0]

-----------------------------------------------------------------------------
(* No use is counted twice: a main meter is counted alone, whatever meters  *)
(* behind it were confirmed before or after, and a device has one reading  *)
(* in the total ("boundary meter prevents submeter double counting").      *)
UseIsCountedOnce ==
    \A s, t \in figures.counted : s # t => DeviceOf[s] # DeviceOf[t] /\ s \notin figures.mains

(* Money is stated only of days that were read well enough, in the currency *)
(* the customer reports in, and a saving only against a baseline and       *)
(* price, or a risk, that was there when it was calculated.                *)
ShownValuesAreSupported ==
    /\ Given(Shown.opportunity) \/ Given(Shown.realized) =>
           ReadWell(figures.covered) /\ figures.currency = terms.currency
    /\ Shown.net # {} \/ Shown.roi \/ Shown.payback => Given(figures.realized)
    /\ Given(figures.realized) => figures.status \in {"ready", "needs_configuration"}

(* A calculation neither reopens nor closes what a person decided on.       *)
DecisionsSurviveCalculations ==
    [][figures' # figures /\ opportunity.status # "none" => opportunity'.status = opportunity.status]_valuesVars

(* An opportunity shows the last figure calculated.                         *)
(* The code does not keep this: README.md, "Known divergences".            *)
OpportunityIsCurrent ==
    opportunity.status # "none" => opportunity.quantity = figures.quantity /\ opportunity.value = figures.value
=============================================================================
