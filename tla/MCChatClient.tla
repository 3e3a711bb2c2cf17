---------------------------- MODULE MCChatClient ----------------------------
(* Budgets for the run of ChatClient. *)
EXTENDS ChatClient, TLC

CONSTANTS Networks, Auths, Endings, Reloads

MCBudget == [network |-> Networks, auth |-> Auths, end |-> Endings, reload |-> Reloads]

ConversationSymmetry == Permutations(Conversations)
=============================================================================
