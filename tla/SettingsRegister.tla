-------------------------- MODULE SettingsRegister --------------------------
(***************************************************************************)
(* What the delivery of settings promises those that ask for them (setup   *)
(* runs, plan reconciliation, the settings pages), without outbox rows,    *)
(* leases, time limits or receipts: asking for settings gives up what was  *)
(* asked for before; the gateway decides once on each revision; only the   *)
(* newest revision is shown with a decision, and only with the gateway's   *)
(* own; and a revision that is over becomes open again only by a sender    *)
(* that began while it was open.  GatewayConfigDelivery implements it.     *)
(***************************************************************************)
EXTENDS Naturals

CONSTANT MaxRevision

VARIABLES
    newest,    \* the newest revision asked for, 0 before
    decided,   \* what the gateway decided on each revision
    shown,     \* what those who asked are shown of it
    sending    \* the revisions that senders are at work on

registerVars == <<newest, decided, shown, sending>>

Asked == 1 .. MaxRevision
Decision == {"active", "failed"}

RegisterInit ==
    /\ newest = 0
    /\ decided = [r \in Asked |-> "nothing"]
    /\ shown = [r \in Asked |-> "none"]
    /\ sending = {}

(* Everything without a decision is given up for the new revision.         *)
Ask ==
    /\ newest < MaxRevision
    /\ newest' = newest + 1
    /\ shown' = [r \in Asked |-> IF r = newest' THEN "open"
                                 ELSE IF shown[r] \in Decision \cup {"none"} THEN shown[r] ELSE "over"]
    /\ UNCHANGED <<decided, sending>>

Show(r, what) ==
    /\ shown[r] # "none"
    /\ shown' = [shown EXCEPT ![r] = what]

StartSending(r) ==
    /\ shown[r] = "open"
    /\ sending' = sending \cup {r}
    /\ UNCHANGED <<newest, decided, shown>>

(* A sender ends, perhaps not the last one, and perhaps with the revision  *)
(* open again that was over, or decided on, by then.                       *)
StopSending(r) ==
    /\ r \in sending
    /\ sending' \in {sending, sending \ {r}}
    /\ Show(r, "open") \/ UNCHANGED shown
    /\ UNCHANGED <<newest, decided>>

(* The gateway accepts a revision and later applies or refuses it, or      *)
(* decides at once.                                                        *)
DecideOn(r, decision) ==
    /\ decided[r] = "nothing" \/ (decided[r] = "accepted" /\ decision # "accepted")
    /\ decided' = [decided EXCEPT ![r] = decision]
    /\ UNCHANGED <<newest, shown, sending>>

(* A decision reaches those who asked, perhaps again; that the gateway had *)
(* accepted does not hide what it decided since.                           *)
Learn(r) ==
    /\ r = newest
    /\ \/ decided[r] \in Decision /\ Show(r, decided[r])
       \/ decided[r] # "nothing" /\ shown[r] \notin Decision /\ Show(r, "accepted")
    /\ UNCHANGED <<newest, decided, sending>>

(* Time is up, the gateway is given back, or a newer revision exists.      *)
GiveUp(r) ==
    /\ shown[r] \in Decision => r # newest
    /\ Show(r, "over")
    /\ UNCHANGED <<newest, decided, sending>>

(* The gateway was given back, and its history with it.                    *)
Forget ==
    /\ shown' = [r \in Asked |-> "none"]
    /\ UNCHANGED <<newest, decided, sending>>

RegisterNext ==
    \/ Ask
    \/ \E r \in Asked : StartSending(r) \/ StopSending(r) \/ Learn(r) \/ GiveUp(r)
    \/ \E r \in Asked, decision \in {"accepted"} \cup Decision : DecideOn(r, decision)
    \/ Forget

RegisterSpec == RegisterInit /\ [][RegisterNext]_registerVars
=============================================================================
