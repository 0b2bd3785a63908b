---------------------------- MODULE ImpactFigures ----------------------------
(***************************************************************************)
(* The durable figures of one site: the hourly refresh of the current day, *)
(* the finalisation of the day before, and the backfill that follows a     *)
(* changed source (impact/tasks.py) write daily snapshots, baselines and   *)
(* monthly snapshots (_persist_result, refresh_site_baselines,             *)
(* aggregate_daily_snapshots) while the customer changes the inputs.       *)
(*                                                                         *)
(* A figure is the inputs it was calculated with and how much of its day it*)
(* covers.  A transaction is one action; a task is several, so a worker may*)
(* be overtaken, or die, between any two.                                  *)
(***************************************************************************)
EXTENDS Naturals, Sequences, FiniteSets

CONSTANTS
    LastDay,      \* days 1 .. LastDay make the month
    Inputs,       \* confirmed sources and assumptions that give different figures
    ImpactJob,    \* tasks that can overlap
    MinDays,      \* good days a baseline needs
    MaxChanges,   \* bound on changes of the inputs
    MaxJobs       \* bound on tasks

ASSUME FiguresAssumption ==
    /\ LastDay \in Nat \ {0} /\ MinDays \in Nat \ {0}
    /\ MaxChanges \in Nat /\ MaxJobs \in Nat

VARIABLES
    clock,      \* half days: day d lasts from 2d to 2d + 1, and ends at 2d + 2
    inputs,     \* [now, changes]: what figures are calculated with, and how often it changed
    rows,       \* daily snapshots: [day, whole, revision, inputs, finalized]
    month,      \* monthly snapshots, oldest first: [picked, finalized]
    baselines,  \* baselines, oldest first: the daily snapshots averaged
    job,        \* per task: [at, day, left, kind]
    started     \* tasks so far

figuresVars == <<clock, inputs, rows, month, baselines, job, started>>

MonthDays == 1 .. LastDay
Today == clock \div 2
MonthOver == Today > LastDay

Snapshot == [day: 1 .. LastDay + 1, whole: BOOLEAN, revision: Nat \ {0}, inputs: Inputs, finalized: BOOLEAN]

NoJob == [at |-> "idle", kind |-> "refresh", day |-> 1, left |-> << >>]

FiguresTypeOK ==
    /\ clock \in 2 .. 2 * LastDay + 3
    /\ inputs \in [now: Inputs, changes: 0 .. MaxChanges]
    /\ \A r \in rows : r \in Snapshot
    /\ \A k \in DOMAIN month : month[k].finalized \in BOOLEAN /\ month[k].picked \subseteq rows \cup Snapshot
    /\ \A k \in DOMAIN baselines : baselines[k] \subseteq Snapshot
    /\ \A j \in ImpactJob : job[j].at \in {"idle", "calculate", "baselines", "aggregate"}
    /\ started \in 0 .. MaxJobs

FiguresInit ==
    /\ clock = 2
    /\ inputs \in [now: Inputs, changes: {0}]
    /\ rows = {} /\ month = << >> /\ baselines = << >>
    /\ job = [j \in ImpactJob |-> NoJob]
    /\ started = 0

-----------------------------------------------------------------------------
(* _persist_result of one daily figure.  The first revision is updated,    *)
(* unless it and the new figure are final and differ: then a revision is   *)
(* added, whatever the later ones say.                                     *)
SamePeriod(r) == {q \in rows : q.day = r.day /\ q.whole = r.whole}
FirstRevision(r) == {q \in SamePeriod(r) : q.revision = 1}
Highest(S) == CHOOSE n \in {q.revision : q \in S} : \A q \in S : q.revision <= n

Persisted(r) ==
    IF \E q \in FirstRevision(r) : q.finalized /\ r.finalized
    THEN IF r \in FirstRevision(r) THEN rows ELSE rows \cup {[r EXCEPT !.revision = Highest(SamePeriod(r)) + 1]}
    ELSE (rows \ FirstRevision(r)) \cup {r}

Figure(d, whole, finalized) ==
    [day |-> d, whole |-> whole, revision |-> 1, inputs |-> inputs.now, finalized |-> finalized]

(* What the month is made of: of each day the first row in the order of    *)
(* -revision, whichever of its periods that row is for.                    *)
OfDay(d) == {r \in rows : r.day = d}
LatestRevision(S) == {r \in S : r.revision = Highest(S)}
FiguredDays == {d \in MonthDays : OfDay(d) # {}}

MonthPicks ==
    {{pick[d] : d \in FiguredDays} :
        pick \in {f \in [FiguredDays -> rows] : \A d \in FiguredDays : f[d] \in LatestRevision(OfDay(d))}}

MonthWith(picked, finalized) ==
    IF month # << >> /\ month[1].finalized /\ finalized
    THEN IF month[1].picked = picked THEN month ELSE Append(month, [picked |-> picked, finalized |-> TRUE])
    ELSE [month EXCEPT ![1] = [picked |-> picked, finalized |-> finalized]]

MonthSaved(picked, finalized) ==
    IF month = << >> THEN <<[picked |-> picked, finalized |-> finalized]>> ELSE MonthWith(picked, finalized)

(* What a baseline averages: of each day the newest final snapshot.         *)
AnyDaily == rows   \* mutated form of Comparable
Comparable == {r \in rows : r.finalized}

NewestOf(S) == {r \in S : \A q \in S : q.day = r.day => q.revision <= r.revision}

-----------------------------------------------------------------------------
(* Tasks start.  What a refresh takes for today is read once.               *)
StartJob(j, kind, day, left) ==
    /\ job[j].at = "idle" /\ started < MaxJobs
    /\ started' = started + 1
    /\ job' = [job EXCEPT ![j] = [at |-> "calculate", kind |-> kind, day |-> day, left |-> left]]
    /\ UNCHANGED <<clock, inputs, rows, month, baselines>>

StartRefresh(j) == ~MonthOver /\ StartJob(j, "refresh", Today, << >>)

StartFinalization(j) == Today > 1 /\ StartJob(j, "finalize", Today - 1, << >>)

Past == [n \in 1 .. (IF MonthOver THEN LastDay ELSE Today - 1) |-> n]
StartBackfill(j) ==
    Past # << >> /\ inputs.changes > 0 /\ StartJob(j, "backfill", Head(Past), Tail(Past))

(* calculate_site_period, under the profile's lock.  A refresh stops at now *)
(* or at the end of its day; at midnight there is nothing to calculate.    *)
Calculate(j) ==
    LET d == job[j].day
        final == job[j].kind # "refresh"
        whole == final \/ clock >= 2 * d + 2
    IN  /\ job[j].at = "calculate"
        /\ rows' = IF clock = 2 * d THEN rows ELSE Persisted(Figure(d, whole, final))
        /\ job' = [job EXCEPT ![j].at = IF final THEN "baselines" ELSE "aggregate"]
        /\ UNCHANGED <<clock, inputs, month, baselines, started>>

RefreshBaselines(j) ==
    LET averaged == NewestOf(Comparable)
        left == job[j].left
    IN  /\ job[j].at = "baselines"
        /\ baselines' = IF Cardinality(averaged) < MinDays \/ (baselines # << >> /\ baselines[Len(baselines)] = averaged)
                        THEN baselines ELSE Append(baselines, averaged)
        /\ job' = [job EXCEPT ![j] = IF left = << >> THEN [@ EXCEPT !.at = "aggregate"]
                                     ELSE [@ EXCEPT !.at = "calculate", !.day = Head(left), !.left = Tail(left)]]
        /\ UNCHANGED <<clock, inputs, rows, month, started>>

Aggregate(j) ==
    LET final == job[j].kind # "refresh" /\ MonthOver
    IN  /\ job[j].at = "aggregate"
        /\ \E picked \in MonthPicks : month' = IF picked = {} THEN month ELSE MonthSaved(picked, final)
        /\ job' = [job EXCEPT ![j] = NoJob]
        /\ UNCHANGED <<clock, inputs, rows, baselines, started>>

JobDies(j) ==
    /\ job[j].at # "idle"
    /\ job' = [job EXCEPT ![j] = NoJob]
    /\ UNCHANGED <<clock, inputs, rows, month, baselines, started>>

(* confirm_data_source, create_assumption_revision.                         *)
ChangeInputs ==
    /\ inputs.changes < MaxChanges
    /\ \E i \in Inputs \ {inputs.now} : inputs' = [now |-> i, changes |-> inputs.changes + 1]
    /\ UNCHANGED <<clock, rows, month, baselines, job, started>>

TimePasses ==
    /\ clock < 2 * LastDay + 3
    /\ clock' = clock + 1
    /\ UNCHANGED <<inputs, rows, month, baselines, job, started>>

FiguresNext ==
    \/ \E j \in ImpactJob :
         \/ StartRefresh(j) \/ StartFinalization(j) \/ StartBackfill(j)
         \/ Calculate(j) \/ RefreshBaselines(j) \/ Aggregate(j) \/ JobDies(j)
    \/ ChangeInputs \/ TimePasses

FiguresSpec == FiguresInit /\ [][FiguresNext]_figuresVars

-----------------------------------------------------------------------------
(* "Rolling baselines use up to four complete weeks of finalized local-day *)
(* snapshots": no baseline ever averages part of a day, and none counts a  *)
(* day twice, whatever refreshes, finalisations and backfills overlap.     *)
BaselinesAverageWholeDays ==
    \A k \in DOMAIN baselines :
        /\ \A r \in baselines[k] : r.whole
        /\ \A r, q \in baselines[k] : r.day = q.day => r = q

(* A month that is over is made of its days' final figures.                 *)
(* The code does not keep this: README.md, "Known divergences".            *)
MonthIsMadeOfFinalDays ==
    \A k \in DOMAIN month : month[k].finalized => \A r \in month[k].picked : r.whole

(* A recalculated day shows what was calculated.                            *)
(* The code does not keep this: README.md, "Known divergences".            *)
NewestFigureIsCurrent ==
    [][\A j \in ImpactJob : job[j].kind # "refresh" /\ Calculate(j) =>
         \E r \in rows' : /\ r.day = job[j].day /\ r.finalized /\ r.inputs = inputs.now
                          /\ \A q \in rows' : q.day = r.day /\ q.finalized => q.revision <= r.revision]_figuresVars

(* A final figure is not made provisional again.                            *)
(* The code does not keep this: README.md, "Known divergences".            *)
FinalFiguresStay == [][\A r \in rows : r.finalized => r \in rows']_figuresVars
=============================================================================
