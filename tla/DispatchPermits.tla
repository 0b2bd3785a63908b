-------------------------- MODULE DispatchPermits ---------------------------
(***************************************************************************)
(* What governed dispatch promises, without outboxes, leases or workers:   *)
(* a message reaches the broker only by spending a single-use permit; a    *)
(* command has a bounded number of permits; and a permit for a revocable   *)
(* command is granted only while the era the command was issued in lasts.  *)
(* Once the era has moved on, at most the permits still open can be spent. *)
(* RemoteControl implements this module.                                   *)
(***************************************************************************)
EXTENDS Naturals

CONSTANTS
    Command,
    Revocable,     \* the commands that a new era revokes
    MaxPermits

VARIABLES
    era,
    born,          \* the era a command was issued in, 0 before
    granted,       \* how many permits the command has been granted
    open,          \* the permits that are neither spent nor dropped
    spent          \* the permits a message was sent under

permitVars == <<era, born, granted, open, spent>>

PermitInit ==
    /\ era = 1
    /\ born = [c \in Command |-> 0]
    /\ granted = [c \in Command |-> 0]
    /\ open = [c \in Command |-> {}]
    /\ spent = [c \in Command |-> {}]

NewEra ==
    /\ era' = era + 1
    /\ UNCHANGED <<born, granted, open, spent>>

Issue(c) ==
    /\ born[c] = 0
    /\ born' = [born EXCEPT ![c] = era]
    /\ UNCHANGED <<era, granted, open, spent>>

Grant(c) ==
    /\ born[c] # 0
    /\ c \in Revocable => born[c] = era
    /\ granted[c] < MaxPermits
    /\ granted' = [granted EXCEPT ![c] = @ + 1]
    /\ open' = [open EXCEPT ![c] = @ \cup {granted[c] + 1}]
    /\ UNCHANGED <<era, born, spent>>

Spend(c, n) ==
    /\ n \in open[c]
    /\ open' = [open EXCEPT ![c] = @ \ {n}]
    /\ spent' = [spent EXCEPT ![c] = @ \cup {n}]
    /\ UNCHANGED <<era, born, granted>>

Drop(c, n) ==
    /\ n \in open[c]
    /\ open' = [open EXCEPT ![c] = @ \ {n}]
    /\ UNCHANGED <<era, born, granted, spent>>

PermitNext ==
    \/ NewEra
    \/ \E c \in Command : Issue(c) \/ Grant(c)
    \/ \E c \in Command, n \in 1..MaxPermits : Spend(c, n) \/ Drop(c, n)

PermitSpec == PermitInit /\ [][PermitNext]_permitVars
=============================================================================
