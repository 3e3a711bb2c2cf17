---------------------------- MODULE MCJobStream ----------------------------
(* Budgets for the runs of JobStream: how many disturbances TLC injects. *)
EXTENDS JobStream, TLC

CONSTANTS Faults, Drops, Timeouts, Chats

MCBudget == [fault |-> Faults, drop |-> Drops, timeout |-> Timeouts, chat |-> Chats]

StreamSymmetry == Permutations(Streams)
=============================================================================
