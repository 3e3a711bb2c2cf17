--------------------------- MODULE MCPlanningJob ---------------------------
(* Budgets for the runs of PlanningJob: how many disturbances TLC injects. *)
EXTENDS PlanningJob, TLC

CONSTANTS Faults, Crashes, Cancels, Redispatches, Patches

MCBudget == [fault |-> Faults, crash |-> Crashes, cancel |-> Cancels,
             redispatch |-> Redispatches, patch |-> Patches]

WorkerSymmetry == Permutations(Workers)
=============================================================================
