---------------------------- MODULE TrackedEmail ----------------------------
(***************************************************************************)
(* One tracked notification to one recipient, from apps/events/services.py *)
(* and the retrying Celery tasks that use it.  Two workers can resolve the *)
(* same alert (see AlertRules), so two tasks may carry the same            *)
(* notification; the provider reports about it through a webhook, and its  *)
(* reply to a send may be lost after it took the mail.                     *)
(***************************************************************************)
EXTENDS Naturals

CONSTANTS
    MailTask,      \* the tasks that carry the notification
    MaxRetries     \* max_retries of the task

ASSUME MailAssumption == MaxRetries \in Nat

VARIABLES
    mailStatus,   \* EmailDelivery.status
    mailAt,       \* what each task is doing
    mailTries,    \* request.retries of each task
    mailed        \* the provider has taken the mail at least once

mailVars == <<mailStatus, mailAt, mailTries, mailed>>

DELIVERY_FINAL_STATUSES == {"sent", "delivered", "bounced", "complained", "rejected"}

EventStatus == DELIVERY_FINAL_STATUSES \union {"failed", "deferred", "unknown"}

MailTypeOK ==
    /\ mailStatus \in EventStatus \union {"none", "pending", "sending"}
    /\ mailAt \in [MailTask -> {"new", "queued", "opened", "sending", "answered", "refused", "ended"}]
    /\ mailTries \in [MailTask -> 0 .. MaxRetries]
    /\ mailed \in BOOLEAN

MailInit ==
    /\ mailStatus = "none"
    /\ mailAt = [t \in MailTask |-> "new"]
    /\ mailTries = [t \in MailTask |-> 0]
    /\ mailed = FALSE

Go(t, point) == mailAt' = [mailAt EXCEPT ![t] = point]

(* send_alert_notifications: the task is put on the queue.                 *)
QueueMail(t) ==
    /\ mailAt[t] = "new"
    /\ Go(t, "queued")
    /\ UNCHANGED <<mailStatus, mailTries, mailed>>

(* get_or_create_email_delivery, then the test that skips a settled one.   *)
OpenDelivery(t) ==
    /\ mailAt[t] = "queued"
    /\ mailStatus' = IF mailStatus = "none" THEN "pending" ELSE mailStatus
    /\ Go(t, IF mailStatus \in DELIVERY_FINAL_STATUSES THEN "ended" ELSE "opened")
    /\ UNCHANGED <<mailTries, mailed>>

(* The attempt is recorded before the provider is called.                  *)
RecordedEarly == "sent"   \* mutated form
RecordedAttempt == "sending"

StartAttempt(t) ==
    /\ mailAt[t] = "opened"
    /\ mailStatus' = RecordedAttempt
    /\ Go(t, "sending")
    /\ UNCHANGED <<mailTries, mailed>>

(* message.send: the mail may be taken although the call raises.           *)
CallProvider(t) ==
    /\ mailAt[t] = "sending"
    /\ \/ mailed' = TRUE /\ Go(t, "answered")
       \/ mailed' \in {mailed, TRUE} /\ Go(t, "refused")
    /\ UNCHANGED <<mailStatus, mailTries>>

SaveSent(t) ==
    /\ mailAt[t] = "answered"
    /\ mailStatus' = "sent"
    /\ Go(t, "ended")
    /\ UNCHANGED <<mailTries, mailed>>

(* The failure is saved and the task asks Celery for a retry.              *)
SaveFailed(t) ==
    /\ mailAt[t] = "refused"
    /\ mailStatus' = "failed"
    /\ IF mailTries[t] < MaxRetries
       THEN Go(t, "queued") /\ mailTries' = [mailTries EXCEPT ![t] = @ + 1]
       ELSE Go(t, "ended") /\ UNCHANGED mailTries
    /\ UNCHANGED mailed

MailWorkerDies(t) ==
    /\ mailAt[t] \in {"opened", "sending", "answered", "refused"}
    /\ Go(t, "ended")
    /\ UNCHANGED <<mailStatus, mailTries, mailed>>

(* update_email_delivery_from_tracking saves what the event says, over     *)
(* whatever the row says.                                                  *)
TrackingEvent ==
    /\ mailed
    /\ mailStatus' \in EventStatus
    /\ UNCHANGED <<mailAt, mailTries, mailed>>

MailNext ==
    \/ TrackingEvent
    \/ \E t \in MailTask :
          QueueMail(t) \/ OpenDelivery(t) \/ StartAttempt(t) \/ CallProvider(t)
            \/ SaveSent(t) \/ SaveFailed(t) \/ MailWorkerDies(t)

MailSpec == MailInit /\ [][MailNext]_mailVars

-----------------------------------------------------------------------------
(* A delivery shown as settled was taken by the provider: neither a crash  *)
(* between the statements of a task nor two tasks that carry the same      *)
(* notification can stop the retries of a mail nobody has.                 *)
SettledMailWasTaken == mailStatus \in DELIVERY_FINAL_STATUSES => mailed
=============================================================================
