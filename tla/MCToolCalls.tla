---------------------------- MODULE MCToolCalls -----------------------------
(* Homes, retries and budgets for the run of ToolCalls. *)
EXTENDS ToolCalls

CONSTANTS c1, c3, p1, p2, Losses, Cancels, Crashes

MCHome == [c \in Callers |-> IF c = c3 THEN p2 ELSE p1]
MCRetries == [k \in Kinds |-> 1]
MCBudget == [redis |-> Losses, cancel |-> Cancels, crash |-> Crashes]
=============================================================================
