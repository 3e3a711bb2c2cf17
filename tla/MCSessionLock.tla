--------------------------- MODULE MCSessionLock ---------------------------
(* Budgets for the run of SessionLock: how many disturbances TLC injects. *)
EXTENDS SessionLock

CONSTANTS Errors, Expiries, Retries, Crashes

MCBudget ==
  [error |-> Errors, expiry |-> Expiries, retry |-> Retries, crash |-> Crashes]
=============================================================================
