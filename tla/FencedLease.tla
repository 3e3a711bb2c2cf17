---------------------------- MODULE FencedLease ----------------------------
(***************************************************************************)
(* What the planning-job table promises its workers, with none of the      *)
(* statuses, signals and tasks that implement it: a lease per job that is  *)
(* granted only while it is vacant or expired, a term that every grant     *)
(* advances by one, and a log to which only the current term appends.      *)
(* PlanningJob implements this specification (PlanningJob!RefinesLease).   *)
(***************************************************************************)
EXTENDS Naturals, Sequences

CONSTANTS
  Jobs,
  Workers,
  NoWorker,   \* the lease of a vacant job
  LogStages   \* the stages a log entry may carry

VARIABLES
  holder,     \* [Jobs -> Workers \cup {NoWorker}]
  expired,    \* [Jobs -> BOOLEAN]
  term,       \* [Jobs -> Nat], the number of grants so far
  log         \* [Jobs -> Seq([stage, attempt])]

leaseVars == <<holder, expired, term, log>>

Init ==
  /\ holder = [j \in Jobs |-> NoWorker]
  /\ expired = [j \in Jobs |-> FALSE]
  /\ term = [j \in Jobs |-> 0]
  /\ log = [j \in Jobs |-> << >>]

Grant(j, w) ==
  /\ holder[j] = NoWorker \/ expired[j]
  /\ holder' = [holder EXCEPT ![j] = w]
  /\ expired' = [expired EXCEPT ![j] = FALSE]
  /\ term' = [term EXCEPT ![j] = @ + 1]
  /\ UNCHANGED log

Renew(j) ==
  /\ holder[j] # NoWorker
  /\ expired' = [expired EXCEPT ![j] = FALSE]
  /\ UNCHANGED <<holder, term, log>>

Expire(j) ==
  /\ holder[j] # NoWorker
  /\ expired' = [expired EXCEPT ![j] = TRUE]
  /\ UNCHANGED <<holder, term, log>>

Vacate(j) ==
  /\ holder' = [holder EXCEPT ![j] = NoWorker]
  /\ expired' = [expired EXCEPT ![j] = FALSE]
  /\ UNCHANGED <<term, log>>

Record(j, s) ==
  /\ holder[j] # NoWorker
  /\ log' = [log EXCEPT ![j] = Append(@, [stage |-> s, attempt |-> term[j]])]
  /\ UNCHANGED <<holder, expired, term>>

\* The holder, if there is one, is dismissed and the log says so in one step.
Revoke(j, s) ==
  /\ holder' = [holder EXCEPT ![j] = NoWorker]
  /\ expired' = [expired EXCEPT ![j] = FALSE]
  /\ log' = [log EXCEPT ![j] = Append(@, [stage |-> s, attempt |-> term[j]])]
  /\ UNCHANGED term

Next ==
  \E j \in Jobs :
    \/ \E w \in Workers : Grant(j, w)
    \/ Renew(j) \/ Expire(j) \/ Vacate(j)
    \/ \E s \in LogStages : Record(j, s) \/ Revoke(j, s)

Spec == Init /\ [][Next]_leaseVars
=============================================================================
