---------------------------- MODULE SessionLease ----------------------------
(***************************************************************************)
(* What acquire_lock of core/memory.py promises to the code inside its     *)
(* "async with": nobody else is inside, unless the lease of one of the two *)
(* has run out meanwhile.  The lock is a lease, not a mutex: its keys have *)
(* a time to live, the holder is never told that they are gone (the task   *)
(* that extends them ends silently), and it carries on.  SessionLock is    *)
(* the Redlock algorithm that keeps the promise; SessionState uses it.     *)
(***************************************************************************)
CONSTANT Clients  \* attempts to run the body of an "async with acquire_lock"

VARIABLES
  held,    \* the clients inside the body
  broken   \* those of them whose lease has run out, on some node at least

leaseVars == <<held, broken>>

LeaseInit == held = {} /\ broken = {}

(* The body is entered while others are inside only when the lease of each *)
(* of them has run out, or that of the newcomer has: its keys may expire   *)
(* between the first node and the last.                                    *)
Acquire(c) ==
  /\ c \notin held
  /\ held' = held \cup {c}
  /\ \/ held \subseteq broken /\ broken' = broken
     \/ broken' = broken \cup {c}

Break(c) ==
  /\ c \in held
  /\ broken' = broken \cup {c}
  /\ UNCHANGED held

Release(c) ==
  /\ c \in held
  /\ held' = held \ {c}
  /\ broken' = broken \ {c}

LeaseNext == \E c \in Clients: Acquire(c) \/ Break(c) \/ Release(c)

LeaseSpec == LeaseInit /\ [][LeaseNext]_leaseVars
=============================================================================
