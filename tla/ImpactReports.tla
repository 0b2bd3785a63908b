---------------------------- MODULE ImpactReports ----------------------------
(***************************************************************************)
(* The monthly impact report of a team (impact/reporting.py,               *)
(* impact/tasks.py): the scheduler's six-hour check, the generating task   *)
(* with its retries, the page that generates one at once, the mail that    *)
(* announces it, and the removal of old reports.                           *)
(***************************************************************************)
EXTENDS Naturals, Sequences

CONSTANTS
    Reporter,      \* workers and requests that can overlap
    ReportRetries, \* max_retries of generate_monthly_team_report
    MaxReports     \* bound on revisions

ASSUME ReportsAssumption == ReportRetries \in Nat /\ MaxReports \in Nat

VARIABLES
    reports,    \* ImpactReport rows by revision: [status, filled, named]; removed once too old
    files,      \* revisions whose PDF is in the private storage
    reporter,   \* [at, revision, retries, monthly] of each worker
    notified,   \* revisions whose mail was taken, by their idempotency key
    old         \* the month is beyond the retention
reportVars == <<reports, files, reporter, notified, old>>

ReportStatus == {"generating", "ready", "failed", "removed"}
NoReport == [at |-> "idle", revision |-> 0, retries |-> 0, monthly |-> FALSE]
Revisions == DOMAIN reports
ReporterStep == {"idle", "queued", "fill", "render", "ready", "failing", "mail", "removing"}

ReportsTypeOK ==
    /\ reports \in Seq([status: ReportStatus, filled: BOOLEAN, named: BOOLEAN])
    /\ files \subseteq Revisions /\ notified \subseteq Revisions
    /\ reporter \in [Reporter -> [at: ReporterStep, revision: 0 .. MaxReports, retries: 0 .. ReportRetries, monthly: BOOLEAN]]
    /\ old \in BOOLEAN

ReportsInit ==
    /\ reports = << >> /\ files = {} /\ notified = {} /\ old = FALSE
    /\ reporter = [w \in Reporter |-> NoReport]

GoTo(w, point) == reporter' = [reporter EXCEPT ![w].at = point]
SaveReport(n, row) == reports' = [reports EXCEPT ![n] = IF @.status = "removed" THEN @ ELSE row]

-----------------------------------------------------------------------------
(* dispatch_monthly_impact_reports: no task while a row is under way or ready.*)
DispatchMonth(w) ==
    /\ reporter[w].at = "idle" /\ ~old
    /\ \A n \in Revisions : reports[n].status \notin {"generating", "ready"}
    /\ reporter' = [reporter EXCEPT ![w] = [NoReport EXCEPT !.at = "queued", !.monthly = TRUE]]
    /\ UNCHANGED <<reports, files, notified, old>>

(* report_generate of the page.                                             *)
AskForReport(w) ==
    /\ reporter[w].at = "idle"
    /\ reporter' = [reporter EXCEPT ![w] = [NoReport EXCEPT !.at = "queued"]]
    /\ UNCHANGED <<reports, files, notified, old>>

Ready == {n \in Revisions : reports[n].status = "ready"}
LatestOf(S) == CHOOSE n \in S : \A m \in S : m <= n

(* A monthly task takes the newest ready report, or a row is created under  *)
(* the team's lock.                                                        *)
Begin(w) ==
    /\ reporter[w].at = "queued"
    /\ IF reporter[w].monthly /\ Ready # {}
       THEN /\ reporter' = [reporter EXCEPT ![w].at = "mail", ![w].revision = LatestOf(Ready)]
            /\ UNCHANGED reports
       ELSE /\ Len(reports) < MaxReports
            /\ reports' = Append(reports, [status |-> "generating", filled |-> FALSE, named |-> FALSE])
            /\ reporter' = [reporter EXCEPT ![w].at = "fill", ![w].revision = Len(reports')]
    /\ UNCHANGED <<files, notified, old>>

(* The frozen payload is saved, then the PDF is stored, then the row is     *)
(* ready; what raises on the way goes to "failing".                        *)
Fill(w) ==
    LET n == reporter[w].revision
    IN  /\ reporter[w].at = "fill"
        /\ \/ SaveReport(n, [reports[n] EXCEPT !.filled = TRUE]) /\ GoTo(w, "render")
           \/ GoTo(w, "failing") /\ UNCHANGED reports
        /\ UNCHANGED <<files, notified, old>>

StorePdf(w) ==
    LET n == reporter[w].revision
    IN  /\ reporter[w].at = "render"
        /\ \/ files' = files \cup {n} /\ GoTo(w, "ready")
           \/ GoTo(w, "failing") /\ UNCHANGED files
        /\ UNCHANGED <<reports, notified, old>>

MarkReady(w) ==
    LET n == reporter[w].revision
    IN  /\ reporter[w].at = "ready"
        /\ \/ /\ SaveReport(n, [reports[n] EXCEPT !.status = "ready", !.named = TRUE])
              /\ GoTo(w, IF reporter[w].monthly THEN "mail" ELSE "idle")
           \/ GoTo(w, "failing") /\ UNCHANGED reports
        /\ UNCHANGED <<files, notified, old>>

(* A task that may try again asks for it; a page does not.                  *)
TryAgain(w) ==
    reporter' = [reporter EXCEPT ![w] =
        IF reporter[w].monthly /\ reporter[w].retries < ReportRetries
        THEN [NoReport EXCEPT !.at = "queued", !.monthly = TRUE, !.retries = reporter[w].retries + 1] ELSE NoReport]

FilesWithoutMonth(n) == {}   \* mutated form: one name for all revisions
FilesWithout(n) == files \ {n}

RecordFailure(w) ==
    LET n == reporter[w].revision
    IN  /\ reporter[w].at = "failing"
        /\ files' = FilesWithout(n)
        /\ SaveReport(n, [reports[n] EXCEPT !.status = "failed", !.named = FALSE])
        /\ TryAgain(w)
        /\ UNCHANGED <<notified, old>>

(* send_report_email: the idempotency key is the report's and its revision's.*)
Announce(w) ==
    /\ reporter[w].at = "mail"
    /\ \/ notified' = notified \cup {reporter[w].revision} /\ GoTo(w, "idle")
       \/ TryAgain(w) /\ notified' \in {notified, notified \cup {reporter[w].revision}}
    /\ UNCHANGED <<reports, files, old>>

ReporterDies(w) ==
    /\ reporter[w].at # "idle"
    /\ reporter' = [reporter EXCEPT ![w] = NoReport]
    /\ UNCHANGED <<reports, files, notified, old>>

(* cleanup_impact_history: the files of the rows it lists, then every row.  *)
MonthGrowsOld == ~old /\ old' = TRUE /\ UNCHANGED <<reports, files, reporter, notified>>

RemoveFiles(w) ==
    /\ old /\ reporter[w].at = "idle"
    /\ files' = files \ {n \in Revisions : reports[n].named}
    /\ GoTo(w, "removing")
    /\ UNCHANGED <<reports, notified, old>>

RemoveRows(w) ==
    /\ reporter[w].at = "removing"
    /\ reports' = [n \in Revisions |-> [reports[n] EXCEPT !.status = "removed"]]
    /\ GoTo(w, "idle")
    /\ UNCHANGED <<files, notified, old>>

ReportsNext ==
    \/ MonthGrowsOld
    \/ \E w \in Reporter :
         \/ DispatchMonth(w) \/ AskForReport(w) \/ Begin(w) \/ Fill(w) \/ StorePdf(w) \/ MarkReady(w)
         \/ RecordFailure(w) \/ Announce(w) \/ ReporterDies(w) \/ RemoveFiles(w) \/ RemoveRows(w)

ReportsSpec == ReportsInit /\ [][ReportsNext]_reportVars

-----------------------------------------------------------------------------
(* A report that is offered, or was announced, is whole: its payload is     *)
(* frozen and its PDF is stored, whatever failed, died or overlapped, until *)
(* the month is too old.                                                   *)
AnnouncedReportsAreWhole ==
    ~old => \A n \in Revisions : reports[n].status = "ready" \/ n \in notified =>
              reports[n].status = "ready" /\ reports[n].filled /\ n \in files
=============================================================================
