----------------------------- MODULE AlertRules -----------------------------
(***************************************************************************)
(* One alert rule over the readings of TelemetryIngest, from               *)
(* apps/alerts/services.py and apps/alerts/views.py.  For each reading of  *)
(* its batch a flush worker evaluates the rule, with its duration window,  *)
(* against the stored history; it then raises an alert unless a recent one *)
(* is open, or resolves the open ones from a list it read before.  A user  *)
(* acknowledges an alert from a row read in another request.               *)
(***************************************************************************)
EXTENDS TelemetryIngest

CONSTANTS
    Duration,    \* AlertRule.duration_seconds, in ticks
    Tolerance,   \* how late the first reading of the window may be
    Cooldown     \* AlertRule.cooldown_minutes, in ticks

ASSUME RuleAssumption == Duration \in Nat /\ Tolerance \in Nat /\ Cooldown \in Nat

VARIABLES
    alerts,      \* Alert rows in the order they were created
    toResolve,   \* per worker, the open alerts its query returned
    viewed       \* the alert a user's acknowledge request has read, 0 for none

alertVars == <<alerts, toResolve, viewed>>
monitoringVars == <<ingestVars, alertVars>>

Alert == [status : {"active", "acknowledged", "resolved"}, raisedAt : Instant, trigger : Instant]

MonitoringInit ==
    /\ IngestInit
    /\ alerts = << >>
    /\ toResolve = [w \in Flusher |-> {}]
    /\ viewed = 0

-----------------------------------------------------------------------------
(* evaluate_condition.  A high reading is one the threshold comparison     *)
(* accepts; a gap longer than the offline threshold breaks the window.     *)
Exceeds(t) == reading[t] = "high"

HasRow(t) == stored[t] > 0

WindowStart == IF now > Duration THEN now - Duration ELSE 0

InWindow == {t \in Instant : HasRow(t) /\ t >= WindowStart}
Before == {t \in Instant : HasRow(t) /\ t < WindowStart}

WithEarlier(points) ==
    IF Min(points) > WindowStart + Tolerance THEN points \union {Max(Before)} ELSE points

AnyGap(points) == TRUE   \* mutated form
NoLongGap(points) ==
    \A t \in points \union {now} :
        t = Min(points) \/ \E s \in points : s < t /\ t <= s + OfflineAfter

Sustained ==
    \/ Duration = 0
    \/ /\ InWindow # {}
       /\ Min(InWindow) > WindowStart + Tolerance => Before # {}
       /\ NoLongGap(WithEarlier(InWindow))
       /\ \A t \in WithEarlier(InWindow) : Exceeds(t)

Fires(t) == Exceeds(t) /\ Sustained

-----------------------------------------------------------------------------
IsOpen(alert) == alert.status \in {"active", "acknowledged"}

OpenAlerts == {i \in DOMAIN alerts : IsOpen(alerts[i])}

RecentlyRaised == \E i \in OpenAlerts : alerts[i].raisedAt + Cooldown >= now

(* The worker goes on with the next reading of its batch, or ends.         *)
NextReading(w) ==
    IF Len(batch[w]) = 1
    THEN Leaves(w)
    ELSE /\ batch' = [batch EXCEPT ![w] = Tail(batch[w])]
         /\ at' = [at EXCEPT ![w] = "checking"]

(* check_alerts_for_payload: evaluate, then the query of trigger_alert or  *)
(* of resolve_alert.                                                       *)
CheckReading(w) ==
    /\ at[w] = "checking"
    /\ IF Fires(Head(batch[w]))
       THEN /\ IF RecentlyRaised
               THEN NextReading(w)
               ELSE /\ at' = [at EXCEPT ![w] = "creating"]
                    /\ UNCHANGED batch
            /\ UNCHANGED toResolve
       ELSE /\ at' = [at EXCEPT ![w] = "resolving"]
            /\ toResolve' = [toResolve EXCEPT ![w] = OpenAlerts]
            /\ UNCHANGED batch
    /\ UNCHANGED <<now, reading, buffer, claimed, stored, seen, status, beat, alerts, viewed>>

CreateAlert(w) ==
    /\ at[w] = "creating"
    /\ alerts' = Append(alerts, [status |-> "active", raisedAt |-> now, trigger |-> Head(batch[w])])
    /\ NextReading(w)
    /\ UNCHANGED <<now, reading, buffer, claimed, stored, seen, status, beat, toResolve, viewed>>

(* Each alert of the list is saved resolved, whatever it has become.       *)
ResolveNext(w) ==
    /\ at[w] = "resolving"
    /\ IF toResolve[w] = {}
       THEN NextReading(w) /\ UNCHANGED <<alerts, toResolve>>
       ELSE \E i \in toResolve[w] :
              /\ alerts' = [alerts EXCEPT ![i].status = "resolved"]
              /\ toResolve' = [toResolve EXCEPT ![w] = @ \ {i}]
              /\ UNCHANGED <<at, batch>>
    /\ UNCHANGED <<now, reading, buffer, claimed, stored, seen, status, beat, viewed>>

(* acknowledge_alert: the row is read, found active, and saved later.      *)
ViewAlert ==
    /\ viewed = 0
    /\ \E i \in DOMAIN alerts : alerts[i].status = "active" /\ viewed' = i
    /\ UNCHANGED <<ingestVars, alerts, toResolve>>

Acknowledge ==
    /\ viewed # 0
    /\ alerts' = [alerts EXCEPT ![viewed].status = "acknowledged"]
    /\ viewed' = 0
    /\ UNCHANGED <<ingestVars, toResolve>>

MonitoringNext ==
    \/ IngestStep /\ UNCHANGED alertVars
    \/ \E w \in Flusher : CheckReading(w) \/ CreateAlert(w) \/ ResolveNext(w)
    \/ ViewAlert
    \/ Acknowledge

(* The beat runs the heartbeat task, and time passes.                      *)
MonitoringFairness ==
    WF_ingestVars(Tick) /\ WF_ingestVars(ReadStale) /\ WF_ingestVars(MarkOffline)

MonitoringSpec == MonitoringInit /\ [][MonitoringNext]_monitoringVars /\ MonitoringFairness

-----------------------------------------------------------------------------
(* Types of the telemetry path and of the alerts together.                 *)
MonitoringTypeOK ==
    /\ IngestTypeOK
    /\ alerts \in Seq(Alert)
    /\ toResolve \in [Flusher -> SUBSET DOMAIN alerts]
    /\ viewed \in {0} \union DOMAIN alerts

(* The last sample a device page shows, and the reading an alert quotes,   *)
(* have one row in the history, although flushes overlap and a worker can  *)
(* die between the statements that write them.                             *)
ShownReadingIsStored ==
    /\ seen # 0 => stored[seen] = 1
    /\ \A i \in DOMAIN alerts : stored[alerts[i].trigger] = 1

(* Reference for the duration rule: at every tick of the window, past the  *)
(* tolerance, the newest sample known at that tick exceeded the limit and  *)
(* was not older than the offline threshold.                               *)
ExceededThroughout ==
    \A x \in (WindowStart + Tolerance) .. now :
        \E s \in Instant :
            /\ s <= x /\ x <= s + OfflineAfter
            /\ HasRow(s) /\ Exceeds(s)
            /\ \A t \in s + 1 .. x : ~HasRow(t)

(* A worker goes on to create an alert only when the limit was exceeded    *)
(* throughout the rule's duration, as far as the stored history tells.     *)
AlertNeedsSustainedReadings ==
    [][\A w \in Flusher :
          at[w] = "checking" /\ at'[w] = "creating" /\ Duration > 0 => ExceededThroughout]_monitoringVars

(* A device that has stopped sending is shown offline in the end, although *)
(* a late flush may show it online again and move its last sample back.    *)
Silent == \A t \in Instant : now <= t + OfflineAfter => reading[t] = "none"

SilentDeviceGoesOffline == <>[]Silent => <>[](status # "online")
=============================================================================
