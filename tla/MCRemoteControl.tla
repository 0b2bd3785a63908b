-------------------------- MODULE MCRemoteControl ---------------------------
(* A small instance of RemoteControl: the operations and answers that TLC  *)
(* explores.                                                               *)
EXTENDS RemoteControl

CONSTANTS c1, k1

Cmd == {c1}
Keys == {k1}
OneKey == [c \in Cmd |-> k1]
AsWrite == [c \in Cmd |-> "write_device"]
AsRestart == [c \in Cmd |-> "restart_all"]
AsRead == [c \in Cmd |-> "read_device"]
NoCommand == {}

Ready == {[capable |-> TRUE, ready |-> TRUE]}
NoReport == {}

Answer(stage, s) == [stage |-> stage, status |-> s, mismatch |-> FALSE]
Mismatch == [stage |-> "failed", status |-> "error", mismatch |-> TRUE]

(* Answers of a gateway to a write: receipt, verified execution and a      *)
(* read-back mismatch; to a read, also an answer without a stage.          *)
WriteAnswers ==
    {Answer("gateway_received", "received"), Answer("field_execution_verified", "success"), Mismatch}
FewAnswers == {Answer("gateway_received", "received"), Answer("diagnostic_completed", "success"),
               Answer("none", "error")}
LegacyAnswer == {Answer("none", "error")}
ActionAnswers == {Answer("executing", "processing"), Answer("gateway_action_completed", "success"),
                  Answer("none", "success"), Answer("rejected", "error")}
=============================================================================
