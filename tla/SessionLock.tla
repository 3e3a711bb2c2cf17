---------------------------- MODULE SessionLock ----------------------------
(***************************************************************************)
(* The lock around a save of the session state: Redlock.acquire, release   *)
(* and its keys on N Redis masters (core/redlock.py), retried until a      *)
(* deadline by MemoryManager.acquire_lock (core/memory.py).                *)
(*                                                                         *)
(* The nodes are asked one after the other, each answer is a step.  Every  *)
(* attempt has a token of its own, and a client remembers only the token   *)
(* of its last attempt; what an earlier attempt set is nobody's and is     *)
(* called Orphan.  Extending a lease only moves the moment at which a key  *)
(* expires; since a key may expire at any moment here, and the holder does *)
(* nothing when extending fails, it has no step of its own.                *)
(***************************************************************************)
EXTENDS Naturals, FiniteSets

CONSTANTS
  Savers,     \* coroutines that want to save the state of the one session
  N,          \* how many Redis masters there are (redis_redlock_url_list)
  Free,       \* the key of a node is not set
  Orphan,     \* it holds a token that nobody will release
  LockBudget  \* bound: how often each kind of disturbance may happen

LockDisturbances == {"error", "expiry", "retry", "crash"}

ASSUME NAssumption == N \in Nat \ {0}
ASSUME TokenAssumption == Free \notin Savers /\ Orphan \notin Savers /\ Free # Orphan
ASSUME LockBudgetAssumption == LockBudget \in [LockDisturbances -> Nat]

Nodes == 1..N

VARIABLES
  key,   \* whose token the lock key of each node holds
  pc,    \* idle, acquiring, holding, releasing or crashed
  node,    \* the next node to be asked
  acks,  \* the nodes that granted the current attempt
  lost,  \* history: the nodes where a key of the current attempt has expired
  spent

lockVars == <<key, pc, node, acks, lost, spent>>

Suffer(d) ==
  /\ spent[d] < LockBudget[d]
  /\ spent' = [spent EXCEPT ![d] = @ + 1]

\* acquired >= len(clients) // 2 + 1
\* Mutant: half of the nodes is enough.
Quorum_half(Q) == 2 * Cardinality(Q) >= N - 1

Quorum(Q) == 2 * Cardinality(Q) > N

LockInit ==
  /\ key = [n \in Nodes |-> Free]
  /\ pc = [c \in Savers |-> "idle"]
  /\ node = [c \in Savers |-> 1]
  /\ acks = [c \in Savers |-> {}]
  /\ lost = [c \in Savers |-> {}]
  /\ spent = [d \in LockDisturbances |-> 0]

Begin(c) ==
  /\ pc[c] = "idle"
  /\ pc' = [pc EXCEPT ![c] = "acquiring"]
  /\ node' = [node EXCEPT ![c] = 1]
  /\ acks' = [acks EXCEPT ![c] = {}]
  /\ lost' = [lost EXCEPT ![c] = {}]
  /\ UNCHANGED <<key, spent>>

Asking(c, s) == pc[c] = s /\ node[c] \in Nodes

(* SET NX EX on the next node. *)
\* Mutant: a node is skipped.
SetKey_skips(c) ==
  /\ Asking(c, "acquiring")
  /\ node' = [node EXCEPT ![c] = @ + 2]
  /\ UNCHANGED <<key, pc, acks, lost, spent>>

SetKey(c) ==
  /\ Asking(c, "acquiring")
  /\ IF key[node[c]] = Free
       THEN /\ key' = [key EXCEPT ![node[c]] = c]
            /\ acks' = [acks EXCEPT ![c] = @ \cup {node[c]}]
       ELSE UNCHANGED <<key, acks>>
  /\ node' = [node EXCEPT ![c] = @ + 1]
  /\ UNCHANGED <<pc, lost, spent>>

(* The call raises, whether or not the node has set the key, and the loop  *)
(* goes on without counting it.                                            *)
SetKeyRaises(c) ==
  /\ Asking(c, "acquiring")
  /\ Suffer("error")
  /\ \/ key' = key
     \/ key[node[c]] = Free /\ key' = [key EXCEPT ![node[c]] = c]
  /\ node' = [node EXCEPT ![c] = @ + 1]
  /\ UNCHANGED <<pc, acks, lost>>

Asked(c) == pc[c] = "acquiring" /\ node[c] = N + 1

Enter(c) ==
  /\ Asked(c)
  /\ Quorum(acks[c])
  /\ pc' = [pc EXCEPT ![c] = "holding"]
  /\ UNCHANGED <<key, node, acks, lost, spent>>

Abandoned(c) == [n \in Nodes |-> IF key[n] = c THEN Orphan ELSE key[n]]

(* No quorum: the keys that were set stay behind.  Before the deadline     *)
(* acquire_lock tries again, with a new token; after it, it raises.        *)
Retry(c) ==
  /\ Asked(c)
  /\ ~Quorum(acks[c])
  /\ Suffer("retry")
  /\ key' = Abandoned(c)
  /\ node' = [node EXCEPT ![c] = 1]
  /\ acks' = [acks EXCEPT ![c] = {}]
  /\ lost' = [lost EXCEPT ![c] = {}]
  /\ UNCHANGED pc

GiveUp(c) ==
  /\ Asked(c)
  /\ ~Quorum(acks[c])
  /\ key' = Abandoned(c)
  /\ pc' = [pc EXCEPT ![c] = "idle"]
  /\ acks' = [acks EXCEPT ![c] = {}]
  /\ UNCHANGED <<node, lost, spent>>

(* The body of the "async with" ends, by its last line or by an exception. *)
Leave(c) ==
  /\ pc[c] = "holding"
  /\ pc' = [pc EXCEPT ![c] = "releasing"]
  /\ node' = [node EXCEPT ![c] = 1]
  /\ UNCHANGED <<key, acks, lost, spent>>

(* Compare and delete, on one node after the other. *)
\* Mutant: the key is deleted whatever token it holds.
DeleteKey_any(c) ==
  /\ Asking(c, "releasing")
  /\ key' = [key EXCEPT ![node[c]] = Free]
  /\ node' = [node EXCEPT ![c] = @ + 1]
  /\ UNCHANGED <<pc, acks, lost, spent>>

DeleteKey(c) ==
  /\ Asking(c, "releasing")
  /\ key' = [key EXCEPT ![node[c]] = IF @ = c THEN Free ELSE @]
  /\ node' = [node EXCEPT ![c] = @ + 1]
  /\ UNCHANGED <<pc, acks, lost, spent>>

DeleteKeyRaises(c) ==
  /\ Asking(c, "releasing")
  /\ Suffer("error")
  /\ node' = [node EXCEPT ![c] = @ + 1]
  /\ UNCHANGED <<key, pc, acks, lost>>

Released(c) ==
  /\ pc[c] = "releasing"
  /\ node[c] = N + 1
  /\ key' = Abandoned(c)
  /\ pc' = [pc EXCEPT ![c] = "idle"]
  /\ acks' = [acks EXCEPT ![c] = {}]
  /\ UNCHANGED <<node, lost, spent>>

(* The process of a client dies with whatever it holds. *)
Die(c) ==
  /\ pc[c] \in {"acquiring", "holding", "releasing"}
  /\ Suffer("crash")
  /\ key' = Abandoned(c)
  /\ pc' = [pc EXCEPT ![c] = "crashed"]
  /\ acks' = [acks EXCEPT ![c] = {}]
  /\ UNCHANGED <<node, lost>>

(* A key reaches its time to live.  A key nobody extends any more always   *)
(* does; one whose owner is alive does when its owner is late (a pause, an *)
(* extension that failed, or none: acquire runs before the extension       *)
(* task), which the budget bounds.                                         *)
ExpireOrphan(n) ==
  /\ key[n] = Orphan
  /\ key' = [key EXCEPT ![n] = Free]
  /\ UNCHANGED <<pc, node, acks, lost, spent>>

ExpireOwned(n) ==
  /\ key[n] \in Savers
  /\ Suffer("expiry")
  /\ key' = [key EXCEPT ![n] = Free]
  /\ lost' = [lost EXCEPT ![key[n]] = @ \cup {n}]
  /\ UNCHANGED <<pc, node, acks>>

SaverStep(c) ==
  \/ Begin(c) \/ SetKey(c) \/ SetKeyRaises(c) \/ Enter(c) \/ Retry(c) \/ GiveUp(c)
  \/ Leave(c) \/ DeleteKey(c) \/ DeleteKeyRaises(c) \/ Released(c) \/ Die(c)

LockNext ==
  \/ \E c \in Savers: SaverStep(c)
  \/ \E n \in Nodes: ExpireOrphan(n) \/ ExpireOwned(n)

LockSpec == LockInit /\ [][LockNext]_lockVars

-----------------------------------------------------------------------------
LockTypeOK ==
  /\ key \in [Nodes -> Savers \cup {Free, Orphan}]
  /\ pc \in [Savers -> {"idle", "acquiring", "holding", "releasing", "crashed"}]
  /\ node \in [Savers -> 1..(N + 1)]
  /\ acks \in [Savers -> SUBSET Nodes]
  /\ lost \in [Savers -> SUBSET Nodes]
  /\ spent \in [LockDisturbances -> Nat]

(* A node that granted an attempt holds its token until the key expires:   *)
(* no other client's SET or release takes it away (core/redlock.py acquire *)
(* sets only an absent key, release deletes only its own token).           *)
GrantsHold ==
  \A c \in Savers:
    pc[c] \in {"acquiring", "holding"} =>
      \A n \in acks[c]: key[n] = c \/ n \in lost[c]

(* The lock is the lease that SessionLease promises: a client enters past  *)
(* another only when one of the two has lost a key.                        *)
Lease == INSTANCE SessionLease WITH
  Clients <- Savers,
  held    <- {c \in Savers: pc[c] = "holding"},
  broken  <- {c \in Savers: pc[c] = "holding" /\ lost[c] # {}}

LeaseHolds == Lease!LeaseSpec
=============================================================================
