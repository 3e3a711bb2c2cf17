--------------------------- MODULE MCSessionState ---------------------------
(* Budgets for the runs of SessionState: how many disturbances TLC injects. *)
EXTENDS SessionState

CONSTANTS Faults, Expiries, Archives

MCBudget ==
  [fault |-> Faults, ttl |-> Expiries, archive |-> Archives]
=============================================================================
