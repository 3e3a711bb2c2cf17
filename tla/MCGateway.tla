----------------------------- MODULE MCGateway -----------------------------
(* Limits and budgets for the run of Gateway. *)
EXTENDS Gateway

CONSTANTS IpLimit, UserLimit, GuestLimit, Losses, Expiries, Aborts, Crashes

MCLimit == [ip |-> IpLimit, user |-> UserLimit, guest |-> GuestLimit]

MCBudget ==
  [redis |-> Losses, expiry |-> Expiries, abort |-> Aborts, crash |-> Crashes]

RequestSymmetry == Permutations(Requests)
=============================================================================
