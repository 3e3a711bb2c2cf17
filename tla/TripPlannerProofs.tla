------------------------- MODULE TripPlannerProofs -------------------------
(***************************************************************************)
(* Proofs about TripPlanner: every plan keeps the limits of its days and   *)
(* visits no place twice, leaves no room that a place left out would have  *)
(* filled, is asked for with enough attractions, and is put into words as  *)
(* it is.                                                                  *)
(*                                                                         *)
(* The loops of the code are folds and recursive functions of the model.   *)
(* What they come to is said of the sequence of their intermediate results *)
(* (Accumulates), which exists because the step of each stays in a set     *)
(* (FoldExists) and is theirs because the choice of the function that      *)
(* meets the recursion meets it too (FoldSteps, CountSteps); what holds of *)
(* every intermediate result is shown of the least one of which it does    *)
(* not (NoneUpTo).                                                         *)
(*                                                                         *)
(* The invariant says of a request on its way what the next steps count    *)
(* on: that the candidates are places with numbers, that the plan with the *)
(* day being filled keeps its limits (OnePlan), and that no finished day   *)
(* has room for what remains (AllFull).                                    *)
(***************************************************************************)
EXTENDS TripPlanner, SequenceTheorems, FiniteSetTheorems, WellFoundedInduction, TLAPS

(* The largest of some indices. *)
LEMMA MaxIs ==
  ASSUME NEW k \in Nat, NEW s \in SUBSET (1..k), k \in s
  PROVE  Max(s) = k
<1>1. \A x \in s: x \in Int /\ x <= k
  OBVIOUS
<1>2. k \in s /\ \A y \in s: k >= y
  BY <1>1
<1>3. \A x \in s: (\A y \in s: x >= y) => x = k
  BY <1>1
<1> QED
  BY <1>2, <1>3, Zenon DEF Max

(* Every set of naturals that is not empty has a least element.            *)
LEMMA Least ==
  ASSUME NEW s \in SUBSET Nat, s # {}
  PROVE  \E k \in s: \A j \in s: k <= j
<1> DEFINE R == OpToRel(<, Nat)
<1>1. IsWellFoundedOn(R, Nat)
  BY NatLessThanWellFounded
<1>2. \A j, k \in Nat: <<j, k>> \in R <=> j < k
  BY DEF OpToRel
<1> HIDE DEF R
<1>3. \E k \in s: \A j \in s: ~(<<j, k>> \in R)
  BY <1>1, WFMin
<1>4. \A k, j \in Nat: ~(<<j, k>> \in R) => k <= j
  BY <1>2
<1> QED
  BY <1>3, <1>4

(* Induction up to n, said of the exceptions.                              *)
LEMMA NoneUpTo ==
  ASSUME NEW n \in Nat, NEW Bad \in SUBSET (0..n), 0 \notin Bad,
         \A k \in 1..n: k \in Bad => k - 1 \in Bad
  PROVE  Bad = {}
<1>1. SUFFICES ASSUME Bad # {} PROVE FALSE
  OBVIOUS
<1>2. Bad \in SUBSET Nat
  OBVIOUS
<1>3. PICK k \in Bad: \A j \in Bad: k <= j
  BY <1>1, <1>2, Least
<1>4. k \in 1..n
  OBVIOUS
<1>5. k - 1 \in Bad
  BY <1>4
<1> QED
  BY <1>3, <1>4, <1>5

(* An accumulation in T over a sequence of length n starts with base; its  *)
(* step at index i leads from a to op[<<a, i>>].                           *)
IsStep(op, n, T) == op \in [T \X (1..n) -> T]

Folds(g, base, op, n, T) ==
  /\ g \in [SUBSET (1..n) -> T]
  /\ \A s \in SUBSET (1..n): g[s] = IF s = {} THEN base ELSE op[<<g[s \ {Max(s)}], Max(s)>>]

\* The same, where F is known to be in T.
Unfolds(F, base, op, n, T) ==
  /\ F[{}] = base
  /\ \A s \in SUBSET (1..n): s # {} /\ F[s \ {Max(s)}] \in T
                               => F[s] = op[<<F[s \ {Max(s)}], Max(s)>>]

Accumulates(acc, base, op, n, T) ==
  /\ acc \in [0..n -> T]
  /\ acc[0] = base
  /\ \A k \in 1..n: acc[k] = op[<<acc[k - 1], k>>]

(* There is such an accumulation, over the sets of indices.                *)
LEMMA FoldExists ==
  ASSUME NEW n \in Nat, NEW T, NEW base \in T, NEW op, IsStep(op, n, T)
  PROVE  \E g: Folds(g, base, op, n, T)
<1> USE DEF IsStep
<1> DEFINE Steps(g, k) == \A s \in SUBSET (1..k):
             g[s] = IF s = {} THEN base ELSE op[<<g[s \ {Max(s)}], Max(s)>>]
           Exists(k) == \E g \in [SUBSET (1..k) -> T]: Steps(g, k)
           Bad == {k \in 0..n: ~Exists(k)}
<1>0. SUFFICES Bad = {}
  <2>1. n \in 0..n
    OBVIOUS
  <2>2. Exists(n)
    BY <1>0, <2>1
  <2> QED
    BY <2>2 DEF Folds
<1>1. Exists(0)
  <2>1. SUBSET (1..0) = {{}}
    OBVIOUS
  <2>2. [s \in {{}} |-> base] \in [SUBSET (1..0) -> T] /\ Steps([s \in {{}} |-> base], 0)
    BY <2>1
  <2> QED
    BY <2>2
<1>2. ASSUME NEW k \in 1..n, Exists(k - 1) PROVE Exists(k)
  <2>1. PICK h \in [SUBSET (1..(k - 1)) -> T]: Steps(h, k - 1)
    BY <1>2
  <2> DEFINE g == [s \in SUBSET (1..k) |-> IF k \in s THEN op[<<h[s \ {k}], k>>] ELSE h[s]]
  <2>2. \A s \in SUBSET (1..k): s \ {k} \in SUBSET (1..(k - 1))
    OBVIOUS
  <2>3. \A s \in SUBSET (1..k): k \notin s => s \in SUBSET (1..(k - 1))
    OBVIOUS
  <2>4. \A s \in SUBSET (1..k): g[s] = IF k \in s THEN op[<<h[s \ {k}], k>>] ELSE h[s]
    OBVIOUS
  <2>5. g \in [SUBSET (1..k) -> T]
    <3>1. ASSUME NEW s \in SUBSET (1..k)
          PROVE  (IF k \in s THEN op[<<h[s \ {k}], k>>] ELSE h[s]) \in T
      <4>1. CASE k \in s
        <5>1. h[s \ {k}] \in T
          BY <2>2
        <5> QED
          BY <4>1, <5>1
      <4>2. CASE k \notin s
        BY <2>3, <4>2
      <4> QED
        BY <4>1, <4>2
    <3> QED
      BY <3>1
  <2> HIDE DEF g
  <2>6. ASSUME NEW s \in SUBSET (1..k)
        PROVE  g[s] = IF s = {} THEN base ELSE op[<<g[s \ {Max(s)}], Max(s)>>]
    <3>1. CASE k \in s
      <4>1. Max(s) = k /\ s # {}
        BY <3>1, MaxIs
      <4>2. s \ {k} \in SUBSET (1..k) /\ k \notin s \ {k}
        OBVIOUS
      <4>3. g[s \ {k}] = h[s \ {k}]
        BY <2>4, <4>2
      <4> QED
        BY <2>4, <3>1, <4>1, <4>3
    <3>2. CASE k \notin s
      <4>1. s \in SUBSET (1..(k - 1)) /\ g[s] = h[s]
        BY <2>3, <2>4, <3>2
      <4>2. s \ {Max(s)} \in SUBSET (1..k) /\ k \notin s \ {Max(s)}
        BY <3>2
      <4>3. g[s \ {Max(s)}] = h[s \ {Max(s)}]
        BY <2>4, <4>2
      <4>4. h[s] = IF s = {} THEN base ELSE op[<<h[s \ {Max(s)}], Max(s)>>]
        BY <2>1, <4>1
      <4> QED
        BY <4>1, <4>3, <4>4
    <3> QED
      BY <3>1, <3>2
  <2> QED
    BY <2>5, <2>6
<1> HIDE DEF Exists
<1>3. \A k \in 1..n: k \in Bad => k - 1 \in Bad
  <2>1. ASSUME NEW k \in 1..n PROVE k - 1 \in 0..n
    OBVIOUS
  <2> QED
    BY <1>2, <2>1
<1>4. 0 \notin Bad /\ Bad \in SUBSET (0..n)
  BY <1>1
<1> HIDE DEF Bad
<1> QED
  BY <1>3, <1>4, NoneUpTo

(* A set of indices contains its largest.                                  *)
LEMMA MaxIn ==
  ASSUME NEW n \in Nat, NEW s \in SUBSET (1..n), s # {}
  PROVE  Max(s) \in s
<1> DEFINE Down == {n - j : j \in s}
<1>1. Down \in SUBSET Nat /\ Down # {}
  <2>1. \A j \in s: n - j \in Nat
    OBVIOUS
  <2> QED
    BY <2>1
<1>2. PICK k \in Down: \A j \in Down: k <= j
  BY <1>1, Least
<1>3. PICK x \in s: k = n - x
  OBVIOUS
<1>4. ASSUME NEW y \in s PROVE x >= y
  <2>1. k <= n - y /\ x \in Int /\ y \in Int
    BY <1>2
  <2> QED
    BY <1>3, <2>1
<1> QED
  BY <1>4, Zenon DEF Max

(* What an accumulation is made of.                                        *)
LEMMA FoldSteps ==
  ASSUME NEW n \in Nat, NEW T, NEW base \in T, NEW op, IsStep(op, n, T), NEW F,
         Unfolds(F, base, op, n, T)
  PROVE  \E acc: Accumulates(acc, base, op, n, T) /\ acc[n] = F[1..n]
<1> USE DEF IsStep, Unfolds
<1> DEFINE acc == [k \in 0..n |-> F[1..k]]
           Bad == {k \in 0..n: F[1..k] \notin T}
<1>1. 1..0 = {}
  OBVIOUS
<1>2. ASSUME NEW k \in 1..n, F[1..(k - 1)] \in T
      PROVE  F[1..k] = op[<<F[1..(k - 1)], k>>] /\ F[1..k] \in T
  <2>1. k \in Nat /\ k \in 1..k /\ (1..k) \in SUBSET (1..n) /\ (1..k) \in SUBSET (1..k)
    OBVIOUS
  <2>3. Max(1..k) = k
    BY <2>1, MaxIs
  <2>2. (1..k) \ {k} = 1..(k - 1)
    OBVIOUS
  <2>4. F[1..k] = op[<<F[1..(k - 1)], k>>]
    BY <1>2, <2>1, <2>2, <2>3
  <2> QED
    BY <1>2, <2>4
<1>3. Bad = {}
  <2>1. Bad \in SUBSET (0..n) /\ 0 \notin Bad
    BY <1>1
  <2>2. ASSUME NEW k \in 1..n, k \in Bad PROVE k - 1 \in Bad
    <3>1. k - 1 \in 0..n /\ k \in 0..n
      OBVIOUS
    <3> QED
      BY <1>1, <1>2, <2>2, <3>1
  <2> HIDE DEF Bad
  <2> QED
    BY <2>1, <2>2, NoneUpTo
<1>4. acc \in [0..n -> T]
  BY <1>3
<1>5. acc[0] = base /\ acc[n] = F[1..n]
  BY <1>1
<1>6. ASSUME NEW k \in 1..n PROVE acc[k] = op[<<acc[k - 1], k>>]
  <2>1. k \in 0..n /\ k - 1 \in 0..n
    OBVIOUS
  <2>2. F[1..(k - 1)] \in T
    BY <1>3, <2>1
  <2> QED
    BY <1>2, <2>1, <2>2
<1> QED
  BY <1>4, <1>5, <1>6 DEF Accumulates

-----------------------------------------------------------------------------
(* Sums. *)

(* A sum is what its running total comes to.                               *)
LEMMA SumTotals ==
  ASSUME NEW values \in Seq(Int)
  PROVE  \E total \in [0..Len(values) -> Int]:
           /\ total[0] = 0
           /\ \A k \in 1..Len(values): total[k] = total[k - 1] + values[k]
           /\ Sum(values) = total[Len(values)]
<1>0. SUFFICES ASSUME NEW T, T = Int
               PROVE  \E total \in [0..Len(values) -> T]:
                        /\ total[0] = 0
                        /\ \A k \in 1..Len(values): total[k] = total[k - 1] + values[k]
                        /\ Sum(values) = total[Len(values)]
  OBVIOUS
<1> DEFINE n == Len(values)
           op == [p \in Int \X (1..n) |-> p[1] + values[p[2]]]
           Body(f) == [s \in SUBSET (1..n) |->
                         IF s = {} THEN 0 ELSE f[s \ {Max(s)}] + values[Max(s)]]
           F == CHOOSE f: f = Body(f)
<1>1. n \in Nat /\ DOMAIN values = 1..n /\ \A k \in 1..n: values[k] \in Int
  OBVIOUS
<1>2. Sum(values) = F[1..n]
  BY <1>1 DEF Sum, FoldLeft, MapThenFoldSet
<1> HIDE DEF n
<1>3. IsStep(op, n, T) /\ \A a \in T, k \in 1..n: op[<<a, k>>] = a + values[k]
  BY <1>0, <1>1 DEF IsStep
<1>z. 0 \in T
  BY <1>0
<1> HIDE DEF op
<1>4. PICK g: Folds(g, 0, op, n, T)
  BY <1>1, <1>3, <1>z, FoldExists
<1>5. ASSUME NEW s \in SUBSET (1..n)
      PROVE  g[s] = IF s = {} THEN 0 ELSE g[s \ {Max(s)}] + values[Max(s)]
  <2>1. g[s \ {Max(s)}] \in T
    BY <1>4 DEF Folds
  <2>2. g[s] = IF s = {} THEN 0 ELSE op[<<g[s \ {Max(s)}], Max(s)>>]
    BY <1>4 DEF Folds
  <2> QED
    BY <1>1, <1>3, <2>1, <2>2, MaxIn
<1>6. g = Body(g)
  BY <1>4, <1>5 DEF Folds
<1>7. F = Body(F)
  BY <1>6
<1> HIDE DEF F
<1>8. F[{}] = 0
  BY <1>7
<1>9. ASSUME NEW s \in SUBSET (1..n), s # {}, F[s \ {Max(s)}] \in T
      PROVE  F[s] = op[<<F[s \ {Max(s)}], Max(s)>>]
  <2>1. F[s] = F[s \ {Max(s)}] + values[Max(s)]
    BY <1>7, <1>9
  <2> QED
    BY <1>1, <1>3, <1>9, <2>1, MaxIn
<1>za. Unfolds(F, 0, op, n, T)
  BY <1>8, <1>9 DEF Unfolds
<1>10. PICK total: Accumulates(total, 0, op, n, T) /\ total[n] = F[1..n]
  BY <1>1, <1>3, <1>z, <1>za, FoldSteps
<1>11. ASSUME NEW k \in 1..n PROVE total[k] = total[k - 1] + values[k]
  <2>1. total[k - 1] \in T
    BY <1>1, <1>10 DEF Accumulates
  <2> QED
    BY <1>3, <1>10, <2>1 DEF Accumulates
<1> QED
  BY <1>2, <1>10, <1>11 DEF n, Accumulates

(* Nothing adds up to nothing.                                             *)
LEMMA SumEmpty == Sum(<<>>) = 0
<1>1. <<>> \in Seq(Int) /\ Len(<<>>) = 0
  OBVIOUS
<1> QED
  BY <1>1, SumTotals

(* A sum of integers is an integer.                                        *)
LEMMA SumType ==
  ASSUME NEW values \in Seq(Int)
  PROVE  Sum(values) \in Int
BY SumTotals

(* One more value adds to the sum.                                         *)
LEMMA SumAppend ==
  ASSUME NEW values \in Seq(Int), NEW v \in Int
  PROVE  Sum(Append(values, v)) = Sum(values) + v
<1> DEFINE n == Len(values)
           longer == Append(values, v)
<1>1. /\ n \in Nat /\ longer \in Seq(Int) /\ Len(longer) = n + 1
      /\ longer[n + 1] = v /\ \A k \in 1..n: longer[k] = values[k]
  OBVIOUS
<1>2. PICK total \in [0..n -> Int]:
        /\ total[0] = 0
        /\ \A k \in 1..n: total[k] = total[k - 1] + values[k]
        /\ Sum(values) = total[n]
  BY SumTotals
<1>3. PICK more \in [0..(n + 1) -> Int]:
        /\ more[0] = 0
        /\ \A k \in 1..(n + 1): more[k] = more[k - 1] + longer[k]
        /\ Sum(longer) = more[n + 1]
  BY <1>1, SumTotals
<1> HIDE DEF longer, n
<1> DEFINE Bad == {k \in 0..n: more[k] # total[k]}
<1>4. Bad = {}
  <2>1. Bad \in SUBSET (0..n) /\ 0 \notin Bad
    BY <1>1, <1>2, <1>3
  <2>2. ASSUME NEW k \in 1..n, k \in Bad PROVE k - 1 \in Bad
    <3>1. k - 1 \in 0..n /\ k \in 1..(n + 1) /\ longer[k] = values[k]
      BY <1>1
    <3>2. more[k] = more[k - 1] + values[k] /\ total[k] = total[k - 1] + values[k]
      BY <1>2, <1>3, <3>1
    <3> QED
      BY <2>2, <3>1, <3>2
  <2> HIDE DEF Bad
  <2> QED
    BY <1>1, <2>1, <2>2, NoneUpTo
<1>5. more[n] = total[n] /\ more[n + 1] = more[n] + v
  <2>1. n \in 0..n /\ n + 1 \in 1..(n + 1) /\ (n + 1) - 1 = n
    BY <1>1
  <2> QED
    BY <1>1, <1>3, <1>4, <2>1
<1> QED
  BY <1>2, <1>3, <1>5 DEF longer

(* What is nowhere negative adds up to no debt.                            *)
LEMMA SumNat ==
  ASSUME NEW values \in Seq(Int), \A k \in 1..Len(values): values[k] >= 0
  PROVE  Sum(values) \in Nat
<1> DEFINE n == Len(values)
<1>1. n \in Nat /\ \A k \in 1..n: values[k] \in Nat
  OBVIOUS
<1>2. PICK total \in [0..n -> Int]:
        /\ total[0] = 0
        /\ \A k \in 1..n: total[k] = total[k - 1] + values[k]
        /\ Sum(values) = total[n]
  BY SumTotals
<1> HIDE DEF n
<1> DEFINE Bad == {k \in 0..n: total[k] < 0}
<1>3. Bad = {}
  <2>1. Bad \in SUBSET (0..n) /\ 0 \notin Bad
    BY <1>1, <1>2
  <2>2. ASSUME NEW k \in 1..n, k \in Bad PROVE k - 1 \in Bad
    <3>1. k - 1 \in 0..n /\ total[k - 1] \in Int /\ values[k] \in Nat
      BY <1>1, <1>2
    <3>2. total[k] = total[k - 1] + values[k] /\ total[k] < 0
      BY <1>2, <2>2
    <3> QED
      BY <3>1, <3>2
  <2> HIDE DEF Bad
  <2> QED
    BY <1>1, <2>1, <2>2, NoneUpTo
<1>4. n \in 0..n
  BY <1>1
<1> QED
  BY <1>2, <1>3, <1>4

(* A recursion over 0..n.                                                  *)
Counts(F, base, op, n, T) ==
  /\ F[0] = base
  /\ \A k \in 1..n: F[k - 1] \in T => F[k] = op[<<F[k - 1], k>>]

(* There is a recursion over 0..n for every step.                          *)
LEMMA CountExists ==
  ASSUME NEW n \in Nat, NEW T, NEW base \in T, NEW op, IsStep(op, n, T)
  PROVE  \E acc: Accumulates(acc, base, op, n, T)
<1>1. PICK g: Folds(g, base, op, n, T)
  BY FoldExists
<1>2. Unfolds(g, base, op, n, T)
  BY <1>1 DEF Folds, Unfolds
<1> QED
  BY <1>2, FoldSteps

(* A function that is known to follow the step while it stays in T does    *)
(* stay in T.                                                              *)
LEMMA CountSteps ==
  ASSUME NEW n \in Nat, NEW T, NEW base \in T, NEW op, IsStep(op, n, T),
         NEW F, DOMAIN F = 0..n, F = [k \in DOMAIN F |-> F[k]], Counts(F, base, op, n, T)
  PROVE  Accumulates(F, base, op, n, T)
<1> DEFINE Bad == {k \in 0..n: F[k] \notin T}
<1>1. ASSUME NEW k \in 1..n, F[k - 1] \in T
      PROVE  F[k] = op[<<F[k - 1], k>>] /\ F[k] \in T
  BY <1>1 DEF Counts, IsStep
<1>2. Bad = {}
  <2>1. Bad \in SUBSET (0..n) /\ 0 \notin Bad
    BY DEF Counts
  <2>2. ASSUME NEW k \in 1..n, k \in Bad PROVE k - 1 \in Bad
    <3>1. k - 1 \in 0..n /\ k \in 0..n
      OBVIOUS
    <3> QED
      BY <1>1, <2>2, <3>1
  <2> HIDE DEF Bad
  <2> QED
    BY <2>1, <2>2, NoneUpTo
<1>3. \A k \in 0..n: F[k] \in T
  BY <1>2
<1>4. F \in [0..n -> T]
  BY <1>3
<1>5. ASSUME NEW k \in 1..n PROVE F[k] = op[<<F[k - 1], k>>]
  <2>1. k - 1 \in 0..n
    OBVIOUS
  <2> QED
    BY <1>1, <1>3, <2>1
<1> QED
  BY <1>4, <1>5 DEF Accumulates, Counts

-----------------------------------------------------------------------------
(* The limit of every day is at least one kilometre, however tired the     *)
(* traveller (compute_daily_walk_limits).                                  *)
LEMMA WalkLimitsType ==
  ASSUME NEW cs, cs.days \in Nat, cs.walk \in Int, cs.traveller \in DOMAIN Recovery,
         cs.recovery \in Nat \cup {NotGiven}
  PROVE  \A d \in 1..cs.days: WalkLimits(cs)[d] \in Nat \ {0}
<1> DEFINE n == cs.days
           T == [limit: Nat, fatigue: Nat, streak: Nat]
           base == IF cs.walk <= 0 THEN 8 ELSE cs.walk
           r == Rate(cs)
           Rested(a) == (r * a.fatigue) \div 100
           Able(a) == Higher(Whole, base * Whole - Rested(a))
           Forced(a) == a.streak >= 2
           Limit(a) == Higher(1, (IF Forced(a) THEN Lower(Able(a), base * 4000) ELSE Able(a)) \div Whole)
           Step(a) == [limit |-> Limit(a), fatigue |-> Rested(a) + Limit(a) * Whole,
                       streak |-> IF 10 * Limit(a) < 8 * base THEN 0
                                  ELSE IF Forced(a) THEN 1 ELSE a.streak + 1]
           first == [limit |-> 0, fatigue |-> 0, streak |-> 0]
           Body(f) == [d \in 0..n |-> IF d = 0 THEN first ELSE Step(f[d - 1])]
           after == CHOOSE f: f = Body(f)
           op == [p \in T \X (1..n) |-> Step(p[1])]
<1>1. WalkLimits(cs) = [d \in 1..n |-> after[d].limit]
  BY DEF WalkLimits
<1>2. base \in Nat /\ r \in Nat /\ n \in Nat
  BY DEF Recovery, Rate
<1>3. first \in T
  OBVIOUS
<1> HIDE DEF base, r, n
<1>4. ASSUME NEW a \in T PROVE Step(a) \in T /\ Step(a).limit # 0
  <2>1. r * a.fatigue \in Nat
    BY <1>2
  <2>2. Rested(a) \in Nat
    BY <2>1
  <2> HIDE DEF Rested
  <2>3. Able(a) \in Nat
    BY <1>2, <2>2 DEF Higher, Whole
  <2> HIDE DEF Able
  <2>4. \A x \in Nat: x \div Whole \in Nat
    BY DEF Whole
  <2>5. (IF Forced(a) THEN Lower(Able(a), base * 4000) ELSE Able(a)) \in Nat
    BY <1>2, <2>3 DEF Lower
  <2>6. Limit(a) \in Nat \ {0}
    BY <2>4, <2>5 DEF Higher
  <2> HIDE DEF Limit
  <2>7. a.streak \in Nat /\ Rested(a) + Limit(a) * Whole \in Nat
    BY <2>2, <2>6 DEF Whole
  <2> QED
    BY <2>6, <2>7
<1> HIDE DEF Step, first
<1>5. IsStep(op, n, T) /\ \A a \in T, k \in 1..n: op[<<a, k>>] = Step(a)
  BY <1>4 DEF IsStep
<1> HIDE DEF op, T
<1>6. PICK acc: Accumulates(acc, first, op, n, T)
  BY <1>2, <1>3, <1>5, CountExists
<1>7. acc = Body(acc)
  <2>1. ASSUME NEW d \in 1..n PROVE acc[d] = Step(acc[d - 1])
    <3>1. acc[d - 1] \in T
      BY <1>2, <1>6 DEF Accumulates
    <3> QED
      BY <1>5, <1>6, <3>1 DEF Accumulates
  <2>2. acc = [d \in 0..n |-> acc[d]] /\ acc[0] = first
    BY <1>6 DEF Accumulates
  <2>3. \A d \in 0..n: d # 0 => d \in 1..n
    BY <1>2
  <2> QED
    BY <2>1, <2>2, <2>3
<1>8. after = Body(after)
  BY <1>7
<1> HIDE DEF after
<1>9. DOMAIN after = 0..n /\ after = [k \in DOMAIN after |-> after[k]]
  BY <1>8
<1>10. Counts(after, first, op, n, T)
  <2>1. after[0] = first
    BY <1>2, <1>8
  <2>2. ASSUME NEW k \in 1..n PROVE after[k] = Step(after[k - 1])
    BY <1>2, <1>8
  <2> QED
    BY <1>5, <2>1, <2>2 DEF Counts
<1>11. Accumulates(after, first, op, n, T)
  BY <1>2, <1>3, <1>5, <1>9, <1>10, CountSteps
<1>12. ASSUME NEW d \in 1..n PROVE after[d] \in T /\ after[d].limit # 0
  <2>1. d - 1 \in 0..n /\ d \in 0..n
    BY <1>2
  <2>2. after[d - 1] \in T /\ after[d] \in T
    BY <1>11, <2>1 DEF Accumulates
  <2>3. after[d] = Step(after[d - 1])
    BY <1>5, <1>11, <2>2 DEF Accumulates
  <2> QED
    BY <1>4, <2>2, <2>3
<1> QED
  BY <1>1, <1>12 DEF n, T

-----------------------------------------------------------------------------
(* Nodes and days. *)

(* What the solver counts on: nodes with numbers, the hotel first, and     *)
(* constraints of at least one day.                                        *)
AreNodes(ns) ==
  /\ Len(ns) \in Nat /\ DOMAIN ns = 1..Len(ns) /\ Hotel \in DOMAIN ns
  /\ \A i \in DOMAIN ns: {ns[i].km, ns[i].price, ns[i].dur, ns[i].walk} \subseteq Int
  /\ ns[Hotel].dur = 0

(* A visit, and a day that keeps what PlanKeepsLimits asks of it.          *)
Visits(ns) == [node: Real(ns), from: Int]

DayKeepsLimits(ns, cs, d, day) ==
  /\ Len(day) <= MaxPoiPerDay
  /\ Walk(ns, day) <= WalkLimits(cs)[d]
  /\ Affordable(cs, Price(ns, day))
  /\ \A k \in DOMAIN day:
       LET leg == Travel(ns, IF k = 1 THEN Hotel ELSE day[k - 1].node, day[k].node)
       IN  /\ leg <= cs.transit
           /\ day[k].from = (IF k = 1 THEN Start(cs) ELSE day[k - 1].from + ns[day[k - 1].node].dur) + leg
           /\ day[k].from + ns[day[k].node].dur <= End(cs)

-----------------------------------------------------------------------------
(* Naturals multiply to naturals.                                          *)
LEMMA ProductNat == \A a, b \in Nat: a * b \in Nat
OBVIOUS

(* Every commute has a time and a fare (travel_estimator.py).              *)
LEMMA TravelType ==
  ASSUME NEW ns, AreNodes(ns), NEW i \in DOMAIN ns, NEW j \in DOMAIN ns
  PROVE  Travel(ns, i, j) \in Nat /\ Ride(ns, i, j) \in Nat
<1>1. Km(ns[i], ns[j]) \in Nat
  BY DEF AreNodes, Km
<1>2. Mode(ns[i], ns[j]) \in {"walk", "subway", "taxi", "drive"}
  BY <1>1 DEF Mode
<1>3. \A m \in {"walk", "subway", "taxi", "drive"}:
        Speed[m] \in Nat \ {0} /\ Fare[m][1] \in Nat /\ Fare[m][2] \in Nat
  BY DEF Speed, Fare
<1>4. Estimate(ns[i], ns[j]).minutes \in Nat
  <2>1. \A a \in Nat, b \in Nat \ {0}: (a * 600) \div b \in Nat
    OBVIOUS
  <2> QED
    BY <1>1, <1>2, <1>3, <2>1 DEF Estimate, Higher
<1>5. Estimate(ns[i], ns[j]).fen \in Nat
  <2>1. \A a, b, d \in Nat: a + b * d \in Nat
    BY ProductNat
  <2> QED
    BY <1>1, <1>2, <1>3, <2>1 DEF Estimate
<1> QED
  BY <1>4, <1>5 DEF Travel, Ride

(* The nodes of a request carry numbers.                                   *)
LEMMA RealNodes ==
  ASSUME NEW ns, AreNodes(ns)
  PROVE  Real(ns) \subseteq DOMAIN ns /\ Hotel \in DOMAIN ns
         /\ \A i \in DOMAIN ns: /\ ns[i].price \in Int /\ ns[i].dur \in Int /\ ns[i].walk \in Int
BY DEF AreNodes, Real

(* A number for every node, taken along a day.                             *)
Along(f, day) == [v \in DOMAIN day |-> f[day[v].node]]

Numbers(ns) == [DOMAIN ns -> Int]
Prices(ns) == [i \in DOMAIN ns |-> ns[i].price]
Walks(ns) == [i \in DOMAIN ns |-> ns[i].walk]
Stays(ns) == [i \in DOMAIN ns |-> ns[i].dur]

(* The three numbers of a node that a day adds up.                         *)
LEMMA NodeNumbers ==
  ASSUME NEW ns, AreNodes(ns)
  PROVE  Prices(ns) \in Numbers(ns) /\ Walks(ns) \in Numbers(ns) /\ Stays(ns) \in Numbers(ns)
BY RealNodes DEF Prices, Walks, Stays, Numbers

(* The visits of a day are of nodes there are.                             *)
LEMMA DayNodes ==
  ASSUME NEW ns, AreNodes(ns), NEW day \in Seq(Visits(ns))
  PROVE  /\ Len(day) \in Nat /\ DOMAIN day = 1..Len(day)
         /\ \A k \in DOMAIN day: day[k].node \in Real(ns) /\ day[k].node \in DOMAIN ns /\ day[k].from \in Int
<1>1. Len(day) \in Nat /\ DOMAIN day = 1..Len(day) /\ \A k \in DOMAIN day: day[k] \in Visits(ns)
  OBVIOUS
<1>2. \A v \in Visits(ns): v.node \in Real(ns) /\ v.node \in DOMAIN ns /\ v.from \in Int
  BY RealNodes DEF Visits
<1> QED
  BY <1>1, <1>2

(* Along a day the numbers of its nodes form a sequence of integers.       *)
LEMMA AlongType ==
  ASSUME NEW ns, AreNodes(ns), NEW day \in Seq(Visits(ns)), NEW f \in Numbers(ns)
  PROVE  Along(f, day) \in Seq(Int)
<1>1. \A k \in DOMAIN day: f[day[k].node] \in Int
  BY DayNodes DEF Numbers
<1> QED
  BY <1>1, DayNodes DEF Along

(* The sums of a day are sums along it.                                    *)
LEMMA AlongDay ==
  ASSUME NEW ns, AreNodes(ns), NEW day \in Seq(Visits(ns))
  PROVE  /\ Price(ns, day) = Sum(Along(Prices(ns), day))
         /\ Walk(ns, day) = Sum(Along(Walks(ns), day))
         /\ Stay(ns, day) = Sum(Along(Stays(ns), day))
<1>1. \A k \in DOMAIN day: day[k].node \in DOMAIN ns
  BY DayNodes
<1>2. /\ [v \in DOMAIN day |-> ns[day[v].node].price] = Along(Prices(ns), day)
      /\ [v \in DOMAIN day |-> ns[day[v].node].walk] = Along(Walks(ns), day)
      /\ [v \in DOMAIN day |-> ns[day[v].node].dur] = Along(Stays(ns), day)
  BY <1>1 DEF Along, Prices, Walks, Stays
<1> QED
  BY <1>2 DEF Price, Walk, Stay

(* A visit adds the number of its node to a sum along the day.             *)
LEMMA AlongGrows ==
  ASSUME NEW ns, AreNodes(ns), NEW day \in Seq(Visits(ns)), NEW v \in Visits(ns), NEW f \in Numbers(ns)
  PROVE  Sum(Along(f, Append(day, v))) = Sum(Along(f, day)) + f[v.node]
<1> DEFINE longer == Append(day, v)
           n == Len(day)
           s == Along(f, day)
           t == Along(f, longer)
<1>1. longer \in Seq(Visits(ns)) /\ n \in Nat /\ Len(longer) = n + 1
      /\ longer[n + 1] = v /\ \A k \in 1..n: longer[k] = day[k]
  OBVIOUS
<1> HIDE DEF longer
<1>2. v.node \in DOMAIN ns
  BY RealNodes DEF Visits
<1>3. f[v.node] \in Int
  BY <1>2 DEF Numbers
<1>4. s \in Seq(Int) /\ t \in Seq(Int)
  BY <1>1, AlongType
<1>5. Len(s) = n /\ \A k \in 1..n: s[k] = f[day[k].node]
  BY DayNodes, <1>4 DEF Along
<1>6. Len(t) = n + 1 /\ \A k \in 1..(n + 1): t[k] = f[longer[k].node]
  <2>1. DOMAIN longer = 1..(n + 1)
    BY <1>1
  <2> QED
    BY <1>1, <1>4, <2>1 DEF Along
<1> HIDE DEF s, t, n
<1>7. Append(s, f[v.node]) \in Seq(Int) /\ Len(Append(s, f[v.node])) = n + 1
  BY <1>3, <1>4, <1>5
<1>8. ASSUME NEW k \in 1..(n + 1) PROVE t[k] = Append(s, f[v.node])[k]
  <2>1. Append(s, f[v.node])[n + 1] = f[v.node] /\ \A j \in 1..n: Append(s, f[v.node])[j] = s[j]
    BY <1>3, <1>4, <1>5
  <2>2. CASE k = n + 1
    BY <1>1, <1>6, <2>1, <2>2
  <2>3. CASE k \in 1..n
    BY <1>1, <1>5, <1>6, <2>1, <2>3
  <2>4. n \in Nat
    BY <1>1
  <2>5. k = n + 1 \/ k \in 1..n
    BY <2>4
  <2> QED
    BY <2>2, <2>3, <2>5
<1>9. t = Append(s, f[v.node])
  BY <1>4, <1>6, <1>7, <1>8, SeqEqual
<1> QED
  BY <1>3, <1>4, <1>9, SumAppend DEF s, t, longer

(* The sums over a day are numbers, and a visit adds to them.              *)
LEMMA DaySums ==
  ASSUME NEW ns, AreNodes(ns), NEW day \in Seq(Visits(ns))
  PROVE  Price(ns, day) \in Int /\ Walk(ns, day) \in Int /\ Stay(ns, day) \in Int
BY AlongDay, AlongType, NodeNumbers, SumType

(* A visit adds its price, its walking and its stay to the sums of the     *)
(* day.                                                                    *)
LEMMA DayGrows ==
  ASSUME NEW ns, AreNodes(ns), NEW day \in Seq(Visits(ns)), NEW v \in Visits(ns)
  PROVE  /\ Price(ns, Append(day, v)) = Price(ns, day) + ns[v.node].price
         /\ Walk(ns, Append(day, v)) = Walk(ns, day) + ns[v.node].walk
         /\ Stay(ns, Append(day, v)) = Stay(ns, day) + ns[v.node].dur
<1>1. Append(day, v) \in Seq(Visits(ns))
  OBVIOUS
<1>2. v.node \in DOMAIN ns
  BY RealNodes DEF Visits
<1>3. Prices(ns)[v.node] = ns[v.node].price /\ Walks(ns)[v.node] = ns[v.node].walk
      /\ Stays(ns)[v.node] = ns[v.node].dur
  BY <1>2 DEF Prices, Walks, Stays
<1>4. \A f \in Numbers(ns): Sum(Along(f, Append(day, v))) = Sum(Along(f, day)) + f[v.node]
  BY AlongGrows
<1> QED
  BY <1>1, <1>3, <1>4, AlongDay, NodeNumbers

-----------------------------------------------------------------------------
(* The heuristic. *)

(* A day without visits keeps its limits.                                  *)
LEMMA EmptyDayKeepsLimits ==
  ASSUME NEW ns, AreNodes(ns), NEW cs, AreConstraints(cs), NEW d \in 1..cs.days
  PROVE  DayKeepsLimits(ns, cs, d, <<>>)
<1>1. Walk(ns, <<>>) = 0 /\ Price(ns, <<>>) = 0
  BY SumEmpty DEF Walk, Price
<1>2. WalkLimits(cs)[d] \in Nat
  BY WalkLimitsType DEF AreConstraints
<1>3. Affordable(cs, 0)
  BY DEF Affordable, AreConstraints
<1> QED
  BY <1>1, <1>2, <1>3 DEF DayKeepsLimits, MaxPoiPerDay

(* Where the day stands before its next visit.                             *)
LEMMA StandsAt ==
  ASSUME NEW ns, AreNodes(ns), NEW cs, AreConstraints(cs), NEW day \in Seq(Visits(ns))
  PROVE  /\ Start(cs) \in Int /\ End(cs) \in Int
         /\ Where(day) \in DOMAIN ns /\ Now(ns, cs, day) \in Int
         /\ Len(day) = 0 => Where(day) = Hotel /\ Now(ns, cs, day) = Start(cs)
         /\ Len(day) # 0 => /\ Where(day) = day[Len(day)].node
                            /\ Now(ns, cs, day) = day[Len(day)].from + ns[day[Len(day)].node].dur
<1>1. Start(cs) \in Int /\ End(cs) \in Int
  BY DEF AreConstraints, Start, End, OrElse, DayStart, DayEnd
<1>2. Len(day) \in Nat /\ (Len(day) = 0 <=> day = <<>>)
  OBVIOUS
<1>3. Hotel \in DOMAIN ns
  BY RealNodes
<1>4. CASE day = <<>>
  BY <1>1, <1>2, <1>3, <1>4 DEF Where, Now
<1>5. CASE day # <<>>
  <2>1. Len(day) \in DOMAIN day /\ Last(day) = day[Len(day)]
    BY <1>2, <1>5, DayNodes DEF Last
  <2>2. day[Len(day)].node \in DOMAIN ns /\ day[Len(day)].from \in Int
    BY <2>1, DayNodes
  <2>3. ns[day[Len(day)].node].dur \in Int
    BY <2>2, RealNodes
  <2> QED
    BY <1>1, <1>2, <1>5, <2>1, <2>2, <2>3 DEF Where, Now
<1> QED
  BY <1>4, <1>5

(* The visit that the heuristic would append is a visit.                   *)
LEMMA VisitType ==
  ASSUME NEW ns, AreNodes(ns), NEW cs, AreConstraints(cs), NEW day \in Seq(Visits(ns)), NEW i \in Real(ns)
  PROVE  Visit(ns, cs, day, i) \in Visits(ns)
<1>1. i \in DOMAIN ns
  BY RealNodes
<1>2. Travel(ns, Where(day), i) \in Nat /\ Now(ns, cs, day) \in Int
  BY <1>1, StandsAt, TravelType
<1> QED
  BY <1>2 DEF Visit, Visits

(* A visit that fits keeps the limits of its day.                          *)
LEMMA FittingKeepsLimits ==
  ASSUME NEW ns, AreNodes(ns), NEW cs, AreConstraints(cs), NEW d \in 1..cs.days,
         NEW day \in Seq(Visits(ns)), DayKeepsLimits(ns, cs, d, day), Len(day) < MaxPoiPerDay,
         NEW i \in Real(ns), Fits(ns, cs, WalkLimits(cs), d, day, i)
  PROVE  DayKeepsLimits(ns, cs, d, Append(day, Visit(ns, cs, day, i)))
<1> DEFINE v == Visit(ns, cs, day, i)
           longer == Append(day, v)
           n == Len(day)
           leg == Travel(ns, Where(day), i)
<1>1. v \in Visits(ns) /\ v.node = i /\ v.from = Now(ns, cs, day) + leg
  BY VisitType DEF Visit
<1>2. /\ leg <= cs.transit
      /\ Now(ns, cs, day) + leg + ns[i].dur <= End(cs)
      /\ Affordable(cs, Price(ns, day) + ns[i].price)
      /\ Walk(ns, day) + ns[i].walk <= WalkLimits(cs)[d]
  BY DEF Fits
<1> HIDE DEF v, leg
<1>3. Price(ns, longer) = Price(ns, day) + ns[i].price /\ Walk(ns, longer) = Walk(ns, day) + ns[i].walk
  BY <1>1, DayGrows
<1>4. /\ n \in Nat /\ DOMAIN day = 1..n /\ DOMAIN longer = 1..(n + 1) /\ Len(longer) = n + 1
      /\ longer[n + 1] = v /\ \A k \in 1..n: longer[k] = day[k]
  BY <1>1, DayNodes
<1> HIDE DEF longer
<1>5. Len(longer) <= MaxPoiPerDay
  BY <1>4 DEF MaxPoiPerDay
<1>6. ASSUME NEW k \in DOMAIN longer
      PROVE  LET step == Travel(ns, IF k = 1 THEN Hotel ELSE longer[k - 1].node, longer[k].node)
             IN  /\ step <= cs.transit
                 /\ longer[k].from = (IF k = 1 THEN Start(cs)
                                      ELSE longer[k - 1].from + ns[longer[k - 1].node].dur) + step
                 /\ longer[k].from + ns[longer[k].node].dur <= End(cs)
  <2>1. CASE k \in 1..n
    <3>1. k = 1 \/ k - 1 \in 1..n
      BY <1>4, <2>1
    <3> QED
      BY <1>4, <2>1, <3>1 DEF DayKeepsLimits
  <2>2. CASE k = n + 1
    <3>1. longer[k].node = i /\ longer[k].from = Now(ns, cs, day) + leg
      BY <1>1, <1>4, <2>2
    <3>2. Where(day) = IF k = 1 THEN Hotel ELSE longer[k - 1].node
      BY <1>4, <2>2, StandsAt
    <3>3. Now(ns, cs, day) = IF k = 1 THEN Start(cs) ELSE longer[k - 1].from + ns[longer[k - 1].node].dur
      BY <1>4, <2>2, StandsAt
    <3> QED
      BY <1>2, <3>1, <3>2, <3>3 DEF leg
  <2> QED
    BY <1>4, <2>1, <2>2
<1>7. Affordable(cs, Price(ns, longer)) /\ Walk(ns, longer) <= WalkLimits(cs)[d]
  BY <1>2, <1>3
<1> QED
  BY <1>5, <1>6, <1>7 DEF DayKeepsLimits, longer, v

-----------------------------------------------------------------------------
(* The exact search (CP-SAT). *)

(* Multiplication by a natural keeps the order.                            *)
LEMMA TimesMonotonic == \A x, y \in Int, n \in Nat: x <= y => x * n <= y * n
<1> SUFFICES ASSUME NEW x \in Int, NEW y \in Int, NEW n \in Nat, x <= y PROVE x * n <= y * n
  OBVIOUS
<1>1. y - x \in Nat /\ y = x + (y - x)
  OBVIOUS
<1>2. (y - x) * n \in Nat
  BY <1>1, ProductNat
<1>3. y * n = x * n + (y - x) * n
  OBVIOUS
<1> QED
  BY <1>2, <1>3

(* Where a route comes from when it reaches its k-th node.                 *)
Before(route, k) == IF k = 1 THEN Hotel ELSE route[k - 1]

(* Where one arrives along a route, and when.                              *)
LEMMA ArrivalsReached ==
  ASSUME NEW ns, AreNodes(ns), NEW cs, AreConstraints(cs),
         NEW route \in Seq(Real(ns)), IsInjective(route)
  PROVE  /\ \A k \in DOMAIN route: Arrivals(ns, cs, route)[route[k]] \in Int
         /\ \A k \in DOMAIN route:
              Arrivals(ns, cs, route)[route[k]] =
                (IF k = 1 THEN Start(cs)
                 ELSE Arrivals(ns, cs, route)[route[k - 1]] + ns[route[k - 1]].dur)
                + Travel(ns, Before(route, k), route[k])
<1> DEFINE n == Len(route)
           Leg(k) == Travel(ns, Before(route, k), route[k])
           Body(f) == [k \in 0..n |->
                         IF k = 0 THEN Start(cs)
                         ELSE f[k - 1] + ns[Before(route, k)].dur
                                + Travel(ns, Before(route, k), route[k])]
           reached == CHOOSE f: f = Body(f)
           a == Arrivals(ns, cs, route)
<1>0. SUFFICES ASSUME NEW T, T = Int
               PROVE  /\ \A k \in DOMAIN route: a[route[k]] \in Int
                      /\ \A k \in DOMAIN route:
                           a[route[k]] = (IF k = 1 THEN Start(cs)
                                          ELSE a[route[k - 1]] + ns[route[k - 1]].dur) + Leg(k)
  OBVIOUS
<1>1. n \in Nat /\ DOMAIN route = 1..n /\ \A k \in 1..n: route[k] \in Real(ns)
  OBVIOUS
<1>2. \A i \in Real(ns): i \in DOMAIN ns /\ i # Hotel /\ i \in 1..Len(ns)
  BY RealNodes DEF Real
<1>3. a = [i \in 1..Len(ns) |->
             IF i = Hotel THEN Start(cs)
             ELSE IF i \in Range(route) THEN reached[CHOOSE k \in DOMAIN route: route[k] = i]
             ELSE 0]
  BY DEF Arrivals, Before
<1> HIDE DEF n, a
<1>4. Start(cs) \in T
  BY <1>0, StandsAt, EmptySeq
<1> HIDE DEF Leg
<1>5. ASSUME NEW k \in 1..n PROVE Before(route, k) \in DOMAIN ns /\ Leg(k) \in Nat /\ ns[Before(route, k)].dur \in Int
  <2>1. k = 1 \/ k - 1 \in 1..n
    BY <1>1
  <2>2. Hotel \in DOMAIN ns
    BY RealNodes
  <2>3. Before(route, k) \in DOMAIN ns /\ route[k] \in DOMAIN ns
    BY <1>1, <1>2, <2>1, <2>2 DEF Before
  <2> QED
    BY <2>3, TravelType, RealNodes DEF Leg
<1> DEFINE op == [p \in T \X (1..n) |-> p[1] + ns[Before(route, p[2])].dur + Leg(p[2])]
<1>6. IsStep(op, n, T) /\ \A x \in T, k \in 1..n: op[<<x, k>>] = x + ns[Before(route, k)].dur + Leg(k)
  BY <1>0, <1>5 DEF IsStep
<1> HIDE DEF op
<1>7. PICK acc: Accumulates(acc, Start(cs), op, n, T)
  BY <1>1, <1>4, <1>6, CountExists
<1>8. acc = Body(acc)
  <2>1. ASSUME NEW k \in 1..n PROVE acc[k] = acc[k - 1] + ns[Before(route, k)].dur + Leg(k)
    <3>1. acc[k - 1] \in T
      BY <1>1, <1>7 DEF Accumulates
    <3> QED
      BY <1>6, <1>7, <3>1 DEF Accumulates
  <2>2. acc = [k \in 0..n |-> acc[k]] /\ acc[0] = Start(cs)
    BY <1>7 DEF Accumulates
  <2>3. \A k \in 0..n: k # 0 => k \in 1..n
    BY <1>1
  <2> QED
    BY <2>1, <2>2, <2>3 DEF Leg
<1>9. reached = Body(reached)
  BY <1>8
<1> HIDE DEF reached
<1>10. DOMAIN reached = 0..n /\ reached = [k \in DOMAIN reached |-> reached[k]]
  BY <1>9
<1>11. Counts(reached, Start(cs), op, n, T)
  <2>1. reached[0] = Start(cs)
    BY <1>1, <1>9
  <2>2. ASSUME NEW k \in 1..n
        PROVE  reached[k] = reached[k - 1] + ns[Before(route, k)].dur + Leg(k)
    BY <1>1, <1>9 DEF Leg
  <2> QED
    BY <1>6, <2>1, <2>2 DEF Counts
<1>12. Accumulates(reached, Start(cs), op, n, T)
  BY <1>1, <1>4, <1>6, <1>10, <1>11, CountSteps
<1>13. reached[0] = Start(cs)
       /\ \A k \in 1..n: /\ reached[k - 1] \in Int /\ reached[k] \in Int
                         /\ reached[k] = reached[k - 1] + ns[Before(route, k)].dur + Leg(k)
  <2>1. ASSUME NEW k \in 1..n PROVE reached[k - 1] \in T /\ reached[k] \in T
    <3>1. k - 1 \in 0..n /\ k \in 0..n
      BY <1>1
    <3> QED
      BY <1>12, <3>1 DEF Accumulates
  <2> QED
    BY <1>0, <1>6, <1>12, <2>1 DEF Accumulates
<1>14. ASSUME NEW k \in 1..n PROVE a[route[k]] = reached[k]
  <2>1. route[k] \in 1..Len(ns) /\ route[k] # Hotel /\ route[k] \in Range(route)
    BY <1>1, <1>2 DEF Range
  <2>2. (CHOOSE l \in DOMAIN route: route[l] = route[k]) = k
    BY <1>1 DEF IsInjective
  <2> QED
    BY <1>3, <2>1, <2>2
<1>15. ASSUME NEW k \in 1..n
       PROVE  a[route[k]] = (IF k = 1 THEN Start(cs)
                             ELSE a[route[k - 1]] + ns[route[k - 1]].dur) + Leg(k)
  <2>1. CASE k = 1
    <3>1. ns[Before(route, k)].dur = 0
      BY <2>1 DEF Before, AreNodes
    <3>2. Start(cs) \in Int /\ Leg(k) \in Int
      BY <1>0, <1>4, <1>5
    <3> QED
      BY <1>13, <1>14, <2>1, <3>1, <3>2
  <2>2. CASE k # 1
    <3>1. k - 1 \in 1..n
      BY <1>1, <2>2
    <3> QED
      BY <1>13, <1>14, <2>2, <3>1 DEF Before
  <2> QED
    BY <2>1, <2>2
<1> QED
  BY <1>1, <1>13, <1>14, <1>15

(* What _extract_schedule makes of one circuit.                            *)
ExtractedDay(ns, cs, route) ==
  [k \in DOMAIN route |-> [node |-> route[k], from |-> Arrivals(ns, cs, route)[route[k]]]]

(* A route of the CP-SAT model visits at most five places, none twice and  *)
(* none for any time.                                                      *)
LEMMA RouteType ==
  ASSUME NEW ns, NEW cs, NEW limit, NEW route \in DayRoutes(ns, cs, limit)
  PROVE  /\ route \in Seq(Real(ns)) /\ Len(route) \in Nat /\ Len(route) <= MaxPoiPerDay
         /\ IsInjective(route)
         /\ \A k \in DOMAIN route: ns[route[k]].dur = 0
<1> DEFINE Idle == {i \in Real(ns): ns[i].dur = 0}
<1>1. route \in SeqOf(Idle, MaxPoiPerDay) /\ IsInjective(route)
  BY DEF DayRoutes
<1>2. PICK m \in 0..MaxPoiPerDay: route \in [1..m -> Idle]
  BY <1>1 DEF SeqOf
<1>3. m \in Nat /\ m <= MaxPoiPerDay
  BY DEF MaxPoiPerDay
<1>4. route \in Seq(Idle) /\ Len(route) = m
  BY <1>2, <1>3
<1>5. \A k \in DOMAIN route: route[k] \in Real(ns) /\ ns[route[k]].dur = 0
  BY <1>2
<1>6. route \in [1..m -> Real(ns)]
  BY <1>2, <1>5
<1> QED
  BY <1>1, <1>3, <1>4, <1>5, <1>6

(* The day extracted from a route keeps the limits of its day              *)
(* (_extract_schedule).                                                    *)
LEMMA RouteKeepsLimits ==
  ASSUME NEW ns, AreNodes(ns), NEW cs, AreConstraints(cs), NEW d \in 1..cs.days,
         NEW route \in DayRoutes(ns, cs, WalkLimits(cs)[d])
  PROVE  /\ ExtractedDay(ns, cs, route) \in Seq(Visits(ns))
         /\ DayKeepsLimits(ns, cs, d, ExtractedDay(ns, cs, route))
<1> DEFINE a == Arrivals(ns, cs, route)
           day == ExtractedDay(ns, cs, route)
           n == Len(route)
<1>1. /\ route \in Seq(Real(ns)) /\ n \in Nat /\ n <= MaxPoiPerDay /\ IsInjective(route)
      /\ \A k \in DOMAIN route: ns[route[k]].dur = 0
  BY RouteType
<1>2. DOMAIN route = 1..n /\ \A k \in 1..n: route[k] \in Real(ns) /\ route[k] \in DOMAIN ns
  BY <1>1, RealNodes
<1>3. \A k \in 1..n:
        /\ a[route[k]] \in Int
        /\ a[route[k]] = (IF k = 1 THEN Start(cs) ELSE a[route[k - 1]] + ns[route[k - 1]].dur)
                         + Travel(ns, Before(route, k), route[k])
  BY <1>1, <1>2, ArrivalsReached
<1>4. /\ Propagates(ns, cs, route)
      /\ Sum([k \in DOMAIN route |-> ns[route[k]].walk]) <= WalkLimits(cs)[d]
      /\ Affordable(cs, DayCost(ns, cs, route))
  BY DEF DayRoutes
<1>5. DOMAIN day = 1..n /\ \A k \in 1..n: day[k].node = route[k] /\ day[k].from = a[route[k]]
  BY <1>2 DEF ExtractedDay
<1>6. day \in Seq(Visits(ns)) /\ Len(day) = n
  <2>1. \A k \in 1..n: [node |-> route[k], from |-> a[route[k]]] \in Visits(ns)
    BY <1>2, <1>3 DEF Visits
  <2>2. day = [k \in 1..n |-> [node |-> route[k], from |-> a[route[k]]]]
    BY <1>2 DEF ExtractedDay
  <2> HIDE DEF day, a
  <2>3. day \in [1..n -> Visits(ns)]
    BY <2>1, <2>2
  <2> QED
    BY <1>1, <2>3
<1> HIDE DEF day, a, n
<1>7. ASSUME NEW k \in 1..n
      PROVE  LET leg == Travel(ns, IF k = 1 THEN Hotel ELSE day[k - 1].node, day[k].node)
             IN  /\ leg <= cs.transit
                 /\ day[k].from = (IF k = 1 THEN Start(cs)
                                   ELSE day[k - 1].from + ns[day[k - 1].node].dur) + leg
                 /\ day[k].from + ns[day[k].node].dur <= End(cs)
  <2>1. k = 1 \/ (k # 1 /\ k - 1 \in 1..n /\ k - 1 \in 1..(n - 1))
    BY <1>1
  <2>2. Before(route, k) = IF k = 1 THEN Hotel ELSE day[k - 1].node
    BY <1>5, <2>1 DEF Before
  <2>3. Travel(ns, Before(route, k), route[k]) <= cs.transit
    <3>1. CASE k = 1
      BY <3>1 DEF Travel, Before, AreConstraints
    <3>5. \A i, j \in 1..Len(ns): i # j /\ Travel(ns, i, j) > cs.transit => <<i, j>> \notin Arcs(route)
      BY <1>4 DEF Propagates
    <3>2. CASE k # 1
      <4> DEFINE i == route[k - 1]
                 j == route[k]
      <4>1. i # j /\ i \in DOMAIN ns /\ j \in DOMAIN ns
        BY <1>1, <1>2, <2>1, <3>2 DEF IsInjective
      <4>2. i \in 1..Len(ns) /\ j \in 1..Len(ns)
        BY <4>1 DEF AreNodes
      <4>3. <<i, j>> \in Arcs(route)
        <5>1. route # <<>> /\ Len(route) = n
          BY <1>1, <2>1, <3>2 DEF n
        <5>2. (k - 1) + 1 = k
          BY <1>1
        <5> QED
          BY <2>1, <3>2, <5>1, <5>2 DEF Arcs
      <4> HIDE DEF i, j
      <4>4. ~(Travel(ns, i, j) > cs.transit)
        BY <4>1, <4>2, <4>3, <3>5
      <4>5. Travel(ns, i, j) \in Nat /\ cs.transit \in Nat
        BY <4>1, TravelType DEF AreConstraints
      <4> QED
        BY <3>2, <4>4, <4>5 DEF Before, i, j
    <3> QED
      BY <3>1, <3>2
  <2>4. day[k].from + ns[day[k].node].dur <= End(cs)
    <3>1. route[k] \in 1..Len(ns) /\ ns[route[k]].dur = 0
      BY <1>1, <1>2 DEF AreNodes
    <3>2. a[route[k]] <= End(cs)
      BY <1>4, <3>1 DEF Propagates, a
    <3>3. a[route[k]] \in Int
      BY <1>3
    <3> QED
      BY <1>5, <3>1, <3>2, <3>3
  <2> QED
    BY <1>3, <1>5, <2>1, <2>2, <2>3, <2>4
<1>8. Walk(ns, day) <= WalkLimits(cs)[d]
  <2>1. [v \in DOMAIN day |-> ns[day[v].node].walk] = [k \in DOMAIN route |-> ns[route[k]].walk]
    BY <1>2, <1>5
  <2> QED
    BY <1>4, <2>1 DEF Walk
<1>9. Affordable(cs, Price(ns, day))
  <2>1. [v \in DOMAIN day |-> ns[day[v].node].price] = [k \in DOMAIN route |-> ns[route[k]].price]
    BY <1>2, <1>5
  <2>2. DayCost(ns, cs, route) = cs.food + Price(ns, day) + Rides(ns, route)
    BY <2>1 DEF DayCost, Price
  <2>3. Price(ns, day) \in Int /\ cs.food \in Nat /\ cs.days \in Nat /\ cs.budget \in Nat
    BY <1>6, DaySums DEF AreConstraints
  <2>4. Rides(ns, route) \in Nat
    <3> DEFINE legs == [k \in 1..(n - 1) |-> Ride(ns, route[k], route[k + 1]) \div 100]
    <3>1. ASSUME NEW k \in 1..(n - 1) PROVE Ride(ns, route[k], route[k + 1]) \div 100 \in Nat
      <4>1. k \in 1..n /\ k + 1 \in 1..n
        BY <1>1
      <4>2. Ride(ns, route[k], route[k + 1]) \in Nat
        BY <1>2, <4>1, TravelType
      <4> QED
        BY <4>2
    <3>2. legs \in Seq(Int) /\ \A k \in 1..Len(legs): legs[k] >= 0
      <4>1. CASE n = 0
        <5>1. 1..(n - 1) = {}
          BY <4>1
        <5>2. legs = [k \in {} |-> Ride(ns, route[k], route[k + 1]) \div 100]
          BY <5>1
        <5> HIDE DEF legs
        <5>3. legs = <<>>
          BY <5>2
        <5>4. <<>> \in Seq(Int) /\ Len(<<>>) = 0
          OBVIOUS
        <5> QED
          BY <5>3, <5>4
      <4>2. CASE n # 0
        <5>1. n - 1 \in Nat
          BY <1>1, <4>2
        <5>2. legs \in [1..(n - 1) -> Nat]
          BY <3>1
        <5> HIDE DEF legs
        <5>3. legs \in Seq(Nat) /\ Len(legs) = n - 1
          BY <5>1, <5>2
        <5>4. legs \in Seq(Int)
          BY <5>3, SeqMonotonic
        <5>5. \A k \in 1..Len(legs): legs[k] \in Nat
          BY <5>2, <5>3
        <5> QED
          BY <5>4, <5>5
      <4> QED
        BY <4>1, <4>2
    <3> HIDE DEF legs
    <3>3. Sum(legs) \in Nat
      BY <3>2, SumNat
    <3> QED
      BY <3>3 DEF Rides, legs, n
  <2>5. DayCost(ns, cs, route) \in Int /\ Price(ns, day) <= DayCost(ns, cs, route)
    BY <2>2, <2>3, <2>4
  <2>6. Price(ns, day) * cs.days <= DayCost(ns, cs, route) * cs.days
    BY <2>3, <2>5, TimesMonotonic
  <2>7. Price(ns, day) * cs.days \in Int /\ DayCost(ns, cs, route) * cs.days \in Int
    BY <2>3, <2>5
  <2> QED
    BY <1>4, <2>3, <2>6, <2>7 DEF Affordable
<1> QED
  BY <1>1, <1>5, <1>6, <1>7, <1>8, <1>9 DEF DayKeepsLimits, day

(* A schedule that the model admits keeps every limit.                     *)
LEMMA ScheduleKeepsLimits ==
  ASSUME NEW ns, AreNodes(ns), NEW cs, AreConstraints(cs),
         NEW s \in Schedules(ns, cs, WalkLimits(cs))
  PROVE  /\ Extracted(ns, cs, s) \in [1..cs.days -> Seq(Visits(ns))]
         /\ \A d \in 1..cs.days: DayKeepsLimits(ns, cs, d, Extracted(ns, cs, s)[d])
         /\ \A d, e \in 1..cs.days:
              \A k \in DOMAIN Extracted(ns, cs, s)[d], l \in DOMAIN Extracted(ns, cs, s)[e]:
                Extracted(ns, cs, s)[d][k].node = Extracted(ns, cs, s)[e][l].node => d = e /\ k = l
<1> DEFINE plan == Extracted(ns, cs, s)
           routes == [d \in 1..cs.days |-> DayRoutes(ns, cs, WalkLimits(cs)[d])]
<1>1. /\ \A d \in 1..cs.days: s[d] \in routes[d]
      /\ \A d, e \in 1..cs.days: d # e => Range(s[d]) \cap Range(s[e]) = {}
  BY DEF Schedules
<1>2. \A d \in 1..cs.days: s[d] \in DayRoutes(ns, cs, WalkLimits(cs)[d])
  BY <1>1
<1>3. plan = [d \in 1..cs.days |-> ExtractedDay(ns, cs, s[d])]
  BY DEF Extracted, ExtractedDay
<1> HIDE DEF plan, routes
<1>4. \A d \in 1..cs.days: plan[d] \in Seq(Visits(ns)) /\ DayKeepsLimits(ns, cs, d, plan[d])
  BY <1>2, <1>3, RouteKeepsLimits
<1>5. ASSUME NEW d \in 1..cs.days
      PROVE  DOMAIN plan[d] = DOMAIN s[d] /\ \A k \in DOMAIN s[d]: plan[d][k].node = s[d][k]
  BY <1>3 DEF ExtractedDay
<1>6. ASSUME NEW d \in 1..cs.days, NEW e \in 1..cs.days,
             NEW k \in DOMAIN plan[d], NEW l \in DOMAIN plan[e],
             plan[d][k].node = plan[e][l].node
      PROVE  d = e /\ k = l
  <2>1. s[d][k] = s[e][l] /\ k \in DOMAIN s[d] /\ l \in DOMAIN s[e]
    BY <1>5, <1>6
  <2>2. s[d][k] \in Range(s[d]) /\ s[d][k] \in Range(s[e])
    BY <2>1 DEF Range
  <2>3. d = e
    BY <1>1, <2>2
  <2>4. IsInjective(s[d])
    BY <1>2, RouteType
  <2> QED
    BY <2>1, <2>3, <2>4 DEF IsInjective
<1>7. plan \in [1..cs.days -> Seq(Visits(ns))]
  BY <1>3, <1>4
<1> QED
  BY <1>4, <1>6, <1>7 DEF plan

-----------------------------------------------------------------------------
(* Places. *)

(* One of the places that ArePlaces speaks of.                             *)
IsPlace(p) ==
  /\ {"id", "cat", "km", "score", "price", "dur", "min", "max", "open", "close", "walk",
      "period"} \subseteq DOMAIN p
  /\ {p.km, p.price, p.dur, p.min, p.max, p.walk} \subseteq Int

(* A list of places, said of its members.                                  *)
LEMMA PlacesOf ==
  ASSUME NEW ps
  PROVE  ArePlaces(ps) <=> /\ ps \in Seq(Range(ps))
                           /\ \A i \in DOMAIN ps: IsPlace(ps[i])
<1>1. ASSUME ArePlaces(ps) PROVE ps \in Seq(Range(ps))
  <2>1. Len(ps) \in Nat /\ ps = [i \in 1..Len(ps) |-> ps[i]]
    BY <1>1 DEF ArePlaces
  <2> DEFINE n == Len(ps)
  <2> HIDE DEF n
  <2>2. n \in Nat /\ ps = [i \in 1..n |-> ps[i]]
    BY <2>1 DEF n
  <2>3. DOMAIN ps = 1..n
    BY <2>2
  <2>4. \A i \in 1..n: ps[i] \in Range(ps)
    BY <2>3 DEF Range
  <2>5. ps \in [1..n -> Range(ps)]
    BY <2>2, <2>4
  <2> QED
    BY <2>2, <2>5
<1>2. ASSUME ps \in Seq(Range(ps)) PROVE Len(ps) \in Nat /\ ps = [i \in 1..Len(ps) |-> ps[i]]
  BY <1>2
<1> QED
  BY <1>1, <1>2 DEF ArePlaces, IsPlace

(* A sequence of places is a list of places.                               *)
LEMMA EachPlace ==
  ASSUME NEW n \in Nat, NEW ps, ps = [i \in 1..n |-> ps[i]], \A i \in 1..n: IsPlace(ps[i])
  PROVE  ArePlaces(ps)
<1>1. DOMAIN ps = 1..n /\ \A i \in 1..n: ps[i] \in Range(ps)
  BY DEF Range
<1>2. ps \in [1..n -> Range(ps)]
  BY <1>1
<1>3. ps \in Seq(Range(ps))
  BY <1>2
<1> QED
  BY <1>1, <1>3, PlacesOf

(* Two lists of places make one.                                           *)
LEMMA JoinedPlaces ==
  ASSUME NEW ps, ArePlaces(ps), NEW qs, ArePlaces(qs)
  PROVE  /\ ArePlaces(ps \o qs) /\ Len(ps \o qs) = Len(ps) + Len(qs)
         /\ \A i \in 1..Len(ps): (ps \o qs)[i] = ps[i]
<1> DEFINE T == Range(ps) \cup Range(qs)
<1>1. ps \in Seq(Range(ps)) /\ qs \in Seq(Range(qs))
  BY PlacesOf
<1>2. ps \in Seq(T) /\ qs \in Seq(T)
  BY <1>1, SeqMonotonic
<1>3. /\ ps \o qs \in Seq(T) /\ Len(ps \o qs) = Len(ps) + Len(qs)
      /\ \A i \in 1..Len(ps): (ps \o qs)[i] = ps[i]
      /\ \A i \in Len(ps) + 1..Len(ps) + Len(qs): (ps \o qs)[i] = qs[i - Len(ps)]
  BY <1>2, ConcatProperties
<1> DEFINE n == Len(ps) + Len(qs)
<1>4. Len(ps) \in Nat /\ Len(qs) \in Nat /\ DOMAIN ps = 1..Len(ps) /\ DOMAIN qs = 1..Len(qs)
  BY <1>2
<1>5. DOMAIN (ps \o qs) = 1..n
  BY <1>3
<1>6. ASSUME NEW i \in 1..n PROVE IsPlace((ps \o qs)[i])
  <2>1. CASE i \in 1..Len(ps)
    BY <1>3, <1>4, <2>1, PlacesOf
  <2>2. CASE i \in Len(ps) + 1..Len(ps) + Len(qs)
    <3>1. i - Len(ps) \in 1..Len(qs)
      BY <1>4, <2>2
    <3> QED
      BY <1>3, <1>4, <2>2, <3>1, PlacesOf
  <2> QED
    BY <1>4, <2>1, <2>2
<1> DEFINE both == ps \o qs
<1>7. both \in Seq(T) /\ DOMAIN both = 1..n /\ n \in Nat
  BY <1>3, <1>4, <1>5
<1> HIDE DEF both, n
<1>8. both = [i \in 1..n |-> both[i]]
  BY <1>7
<1>9. \A i \in 1..n: IsPlace(both[i])
  BY <1>6 DEF both
<1>10. ArePlaces(both)
  BY <1>7, <1>8, <1>9, EachPlace
<1> QED
  BY <1>3, <1>10 DEF both

(* No places are places.                                                   *)
LEMMA NoPlaces == ArePlaces(<<>>)
BY DEF ArePlaces

(* The first of some places are places.                                    *)
LEMMA FirstPlaces ==
  ASSUME NEW ps, ArePlaces(ps), NEW n \in Nat
  PROVE  ArePlaces(First(n, ps))
<1>1. ps \in Seq(Range(ps)) /\ Len(ps) \in Nat /\ DOMAIN ps = 1..Len(ps)
  BY PlacesOf
<1> DEFINE m == IF Len(ps) < n THEN Len(ps) ELSE n
<1>2. m \in Nat /\ m <= Len(ps)
  BY <1>1
<1> HIDE DEF m
<1> DEFINE qs == [i \in 1..m |-> ps[i]]
<1>3. SubSeq(ps, 1, m) = qs
  BY <1>1, <1>2
<1>4. \A i \in 1..m: IsPlace(ps[i]) /\ qs[i] = ps[i]
  BY <1>1, <1>2, PlacesOf
<1>6. qs = [i \in 1..m |-> qs[i]]
  OBVIOUS
<1> HIDE DEF qs
<1>5. ArePlaces(qs)
  BY <1>2, <1>4, <1>6, EachPlace
<1> QED
  BY <1>3, <1>5 DEF First, m

(* Conversions keep places places.                                         *)
LEMMA ConvertedPlace ==
  ASSUME NEW p, IsPlace(p)
  PROVE  /\ IsPlace(ByRetrieval(p)) /\ IsPlace(ByQuery(p)) /\ IsPlace(ByDefaults(p))
         /\ IsPlace(ByAmap(p)) /\ \A mode: IsPlace(Adjusted(p, mode))
<1>1. IsPlace(ByRetrieval(p))
  BY DEF IsPlace, ByRetrieval, OrElse
<1>2. IsPlace(ByQuery(p))
  BY DEF IsPlace, ByQuery
<1>3. IsPlace(ByDefaults(p))
  BY DEF IsPlace, ByDefaults, OrElse
<1>4. IsPlace(ByAmap(p))
  BY DEF IsPlace, ByAmap
<1>5. ASSUME NEW q, IsPlace(q) PROVE IsPlace(Window(q))
  <2>1. \A x, y: IsPlace([q EXCEPT !.open = x]) /\ IsPlace([q EXCEPT !.close = y])
                 /\ IsPlace([q EXCEPT !.open = x, !.close = y])
    BY <1>5 DEF IsPlace
  <2> QED
    BY <1>5, <2>1 DEF Window
<1>6. ASSUME NEW mode PROVE IsPlace(Adjusted(p, mode))
  <2> DEFINE dur == CASE mode = "quick" -> Higher(p.min, 15)
                      [] mode = "deep" -> Lower(p.max, 480)
                      [] OTHER -> Higher(p.min, Lower(p.max, p.dur))
  <2>1. p.min \in Int /\ p.max \in Int /\ p.dur \in Int
    BY DEF IsPlace
  <2>2. dur \in Int
    BY <2>1 DEF Higher, Lower
  <2> HIDE DEF dur
  <2>3. IsPlace([p EXCEPT !.dur = dur])
    BY <2>2 DEF IsPlace
  <2>4. Adjusted(p, mode) = Window([p EXCEPT !.dur = dur])
    <3>1. "dur" \in DOMAIN p
      BY DEF IsPlace
    <3> QED
      BY <3>1 DEF Adjusted, dur
  <2> QED
    BY <1>5, <2>3, <2>4
<1> QED
  BY <1>1, <1>2, <1>3, <1>4, <1>6

(* The meals of a trip are places with a price, which is a share of the    *)
(* food budget of a day.                                                   *)
LEMMA MealPlaces ==
  ASSUME NEW cs, AreConstraints(cs), cs.meals # 0
  PROVE  ArePlaces(Meals(cs))
<1> DEFINE m == Lower(cs.meals, 2)
           n == cs.days * m
           ms == [i \in 1..n |-> Meal(cs, ((i - 1) % m) + 1)]
<1>1. m \in Nat \ {0} /\ cs.days \in Nat \ {0} /\ cs.food \in Nat
  BY DEF AreConstraints, Lower
<1>2. n \in Nat /\ n > 0
  <2>1. \A a, b \in Nat \ {0}: a * b \in Nat /\ a * b > 0
    OBVIOUS
  <2> HIDE DEF m
  <2> QED
    BY <1>1, <2>1
<1>3. cs.food \div n \in Int
  <2>1. \A a, b \in Nat: b > 0 => a \div b \in Int
    OBVIOUS
  <2> HIDE DEF n
  <2> QED
    BY <1>1, <1>2, <2>1
<1>4. ASSUME NEW k PROVE IsPlace(Meal(cs, k))
  <2> DEFINE price == cs.food \div n
             w == IF k = 1 THEN <<690, 810>> ELSE <<1050, 1200>>
  <2>1. w[2] - w[1] \in Int
    OBVIOUS
  <2>2. Meal(cs, k) =
          [id |-> "__meal", cat |-> "restaurant", km |-> 0, score |-> 50, price |-> price,
           dur |-> w[2] - w[1], min |-> 15, max |-> 240, open |-> w[1], close |-> w[2],
           walk |-> 0, period |-> "none", tags |-> {}, peak |-> FALSE]
    BY DEF Meal
  <2> HIDE DEF w, price, n
  <2>3. price \in Int
    BY <1>3 DEF price
  <2> QED
    BY <2>1, <2>2, <2>3 DEF IsPlace
<1>5. \A i \in 1..n: IsPlace(ms[i])
  BY <1>4
<1>6. ms = [i \in 1..n |-> ms[i]]
  OBVIOUS
<1>7. Meals(cs) = ms
  BY DEF Meals
<1> HIDE DEF ms, n
<1> QED
  BY <1>2, <1>5, <1>6, <1>7, EachPlace

(* With the hotel in front, places are the nodes of a solver.              *)
LEMMA HotelFirst ==
  ASSUME NEW ps, ArePlaces(ps)
  PROVE  AreNodes(InjectHotel(ps))
<1> DEFINE hotel == [id |-> "__hotel", cat |-> "hotel", km |-> 0, score |-> 0, price |-> 0,
                     dur |-> 0, min |-> 15, max |-> 240, open |-> 0, close |-> 1439, walk |-> 0,
                     period |-> "none", tags |-> {}, peak |-> FALSE]
           one == <<hotel>>
           ns == one \o ps
<1>1. InjectHotel(ps) = ns
  BY DEF InjectHotel
<1>2. IsPlace(hotel) /\ hotel.dur = 0
  BY DEF IsPlace
<1> HIDE DEF hotel
<1>3. Len(one) = 1 /\ one[1] = hotel /\ one = [i \in 1..1 |-> one[i]]
  OBVIOUS
<1> HIDE DEF one
<1>4. \A i \in 1..1: IsPlace(one[i])
  BY <1>2, <1>3
<1>5. ArePlaces(one)
  BY <1>3, <1>4, EachPlace
<1>6. ArePlaces(ns) /\ Len(ns) = 1 + Len(ps) /\ ns[1] = hotel
  BY <1>3, <1>5, JoinedPlaces
<1>7. Len(ps) \in Nat
  BY DEF ArePlaces
<1> HIDE DEF ns
<1>8. /\ Len(ns) \in Nat /\ DOMAIN ns = 1..Len(ns)
      /\ \A i \in DOMAIN ns: {ns[i].km, ns[i].price, ns[i].dur, ns[i].walk} \subseteq Int
  <2>1. ns \in Seq(Range(ns)) /\ \A i \in DOMAIN ns: IsPlace(ns[i])
    BY <1>6, PlacesOf
  <2> QED
    BY <2>1 DEF IsPlace
<1>9. AreNodes(ns)
  BY <1>2, <1>6, <1>7, <1>8 DEF AreNodes, Hotel
<1> QED
  BY <1>1, <1>9

(* What the service makes of places are nodes (planner/preprocessing).     *)
LEMMA PreprocessedNodes ==
  ASSUME NEW ps, ArePlaces(ps), NEW cs, AreConstraints(cs)
  PROVE  AreNodes(Preprocessed(ps, cs))
<1> DEFINE as == [i \in DOMAIN ps |-> Adjusted(ps[i], cs.mode)]
           ms == IF cs.meals = 0 THEN <<>> ELSE Meals(cs)
<1>1. Len(ps) \in Nat /\ DOMAIN ps = 1..Len(ps) /\ \A i \in DOMAIN ps: IsPlace(ps[i])
  BY PlacesOf
<1>2. \A i \in 1..Len(ps): IsPlace(as[i])
  BY <1>1, ConvertedPlace
<1>3. as = [i \in 1..Len(ps) |-> as[i]]
  BY <1>1
<1>4. Preprocessed(ps, cs) = InjectHotel(as \o ms)
  BY DEF Preprocessed
<1> HIDE DEF as
<1>5. ArePlaces(as)
  BY <1>1, <1>2, <1>3, EachPlace
<1>6. ArePlaces(ms)
  BY NoPlaces, MealPlaces
<1> HIDE DEF ms
<1>7. ArePlaces(as \o ms)
  BY <1>5, <1>6, JoinedPlaces
<1> QED
  BY <1>4, <1>7, HotelFirst

(* The constraints the node sends are such as the solver counts on.        *)
LEMMA TripConstraints ==
  ASSUME turn \in Turns
  PROVE  AreConstraints(Constraints)
<1>1. /\ turn.days \in Nat /\ turn.budget \in Nat /\ turn.meals \in Nat
      /\ turn.walk \in Nat /\ turn.transit \in Nat
  BY TurnsAssumption
<1>2. TravelDays \in Nat \ {0}
  BY <1>1 DEF TravelDays, OrElse
<1>3. Traveller(turn.companions) \in DOMAIN Recovery
  BY DEF Traveller, Recovery
<1>4. Higher(1, (WalkMinutes * 45) \div 600) \in Int
  <2>1. WalkMinutes \in Nat
    BY <1>1 DEF WalkMinutes, Lower, OrElse
  <2>2. \A a \in Nat: Higher(1, (a * 45) \div 600) \in Int
    BY DEF Higher
  <2> QED
    BY <2>1, <2>2
<1>5. TransitMinutes \in Nat /\ DayStart \in Nat /\ DayEnd \in Nat
  BY <1>1 DEF TransitMinutes, DayStart, DayEnd, Lower, OrElse
<1> DEFINE w == Higher(1, (WalkMinutes * 45) \div 600)
           m == IF turn.restaurants THEN turn.meals ELSE 0
<1>6. m \in Nat /\ w \in Int
  BY <1>1, <1>4
<1>7. /\ Constraints.days = TravelDays /\ Constraints.start = DayStart /\ Constraints.end = DayEnd
      /\ Constraints.transit = TransitMinutes /\ Constraints.walk = w
      /\ Constraints.budget = turn.budget /\ Constraints.food = 100 /\ Constraints.rest = 60
      /\ Constraints.meals = m /\ Constraints.traveller = Traveller(turn.companions)
      /\ Constraints.recovery = NotGiven
  BY DEF Constraints
<1> HIDE DEF w, m
<1> QED
  BY <1>1, <1>2, <1>3, <1>5, <1>6, <1>7 DEF AreConstraints

-----------------------------------------------------------------------------
(* Enough attractions. *)

(* What the loop over the built-in places does with one.                   *)
FreshStep(known, all, s, p) ==
  IF p.id \notin known \cup Names(s) /\ (all \/ p.cat = "attraction") THEN Append(s, p) ELSE s

\* How the fresh places come together, place by place.
FreshTrace(acc, known, all, P, ps) ==
  /\ acc \in [0..Len(ps) -> Seq(P)]
  /\ acc[0] = <<>>
  /\ \A k \in 1..Len(ps): acc[k] = FreshStep(known, all, acc[k - 1], ps[k])
  /\ Fresh(known, ps, all) = acc[Len(ps)]

(* That is how the loop over the built-in places ends.                     *)
LEMMA FreshSteps ==
  ASSUME NEW known, NEW all, NEW P, NEW ps \in Seq(P)
  PROVE  \E acc: FreshTrace(acc, known, all, P, ps)
<1> DEFINE n == Len(ps)
           T == Seq(P)
           op == [q \in T \X (1..n) |-> FreshStep(known, all, q[1], ps[q[2]])]
           Body(f) == [s \in SUBSET (1..n) |->
                         IF s = {} THEN <<>>
                         ELSE FreshStep(known, all, f[s \ {Max(s)}], ps[Max(s)])]
           F == CHOOSE f: f = Body(f)
<1>1. n \in Nat /\ DOMAIN ps = 1..n /\ \A k \in 1..n: ps[k] \in P
  OBVIOUS
<1>2. Fresh(known, ps, all) = F[1..n]
  BY <1>1 DEF Fresh, FoldLeft, MapThenFoldSet, FreshStep
<1> HIDE DEF n
<1>3. ASSUME NEW a \in T, NEW k \in 1..n PROVE FreshStep(known, all, a, ps[k]) \in T
  BY <1>1 DEF FreshStep
<1>4. <<>> \in T
  OBVIOUS
<1> HIDE DEF T
<1>5. IsStep(op, n, T) /\ \A a \in T, k \in 1..n: op[<<a, k>>] = FreshStep(known, all, a, ps[k])
  BY <1>3 DEF IsStep
<1> HIDE DEF op
<1>6. PICK g: Folds(g, <<>>, op, n, T)
  BY <1>1, <1>4, <1>5, FoldExists
<1>7. ASSUME NEW s \in SUBSET (1..n)
      PROVE  g[s] = IF s = {} THEN <<>> ELSE FreshStep(known, all, g[s \ {Max(s)}], ps[Max(s)])
  <2>1. g[s \ {Max(s)}] \in T
    BY <1>6 DEF Folds
  <2>2. g[s] = IF s = {} THEN <<>> ELSE op[<<g[s \ {Max(s)}], Max(s)>>]
    BY <1>6 DEF Folds
  <2> QED
    BY <1>1, <1>5, <2>1, <2>2, MaxIn
<1>8. g = Body(g)
  BY <1>6, <1>7 DEF Folds
<1>9. F = Body(F)
  BY <1>8
<1> HIDE DEF F
<1>10. F[{}] = <<>>
  BY <1>9
<1>11. ASSUME NEW s \in SUBSET (1..n), s # {}, F[s \ {Max(s)}] \in T
       PROVE  F[s] = op[<<F[s \ {Max(s)}], Max(s)>>]
  <2>1. F[s] = FreshStep(known, all, F[s \ {Max(s)}], ps[Max(s)])
    BY <1>9, <1>11
  <2> QED
    BY <1>1, <1>5, <1>11, <2>1, MaxIn
<1>12. Unfolds(F, <<>>, op, n, T)
  BY <1>10, <1>11 DEF Unfolds
<1>13. PICK acc: Accumulates(acc, <<>>, op, n, T) /\ acc[n] = F[1..n]
  BY <1>1, <1>4, <1>5, <1>12, FoldSteps
<1>14. ASSUME NEW k \in 1..n PROVE acc[k] = FreshStep(known, all, acc[k - 1], ps[k])
  <2>1. acc[k - 1] \in T
    BY <1>1, <1>13 DEF Accumulates
  <2> QED
    BY <1>5, <1>13, <2>1 DEF Accumulates
<1> QED
  BY <1>2, <1>13, <1>14 DEF n, T, Accumulates, FreshTrace

SelectStep(s, p) ==
  IF p.cat = "attraction" /\ s.attractions > 0
  THEN [s EXCEPT !.taken = Append(@, p), !.attractions = @ - 1]
  ELSE IF p.cat # "attraction" /\ s.total > 0
  THEN [s EXCEPT !.taken = Append(@, p), !.total = @ - 1]
  ELSE s

Unmet == [taken |-> <<>>, attractions |-> Short(MinAttractions, Cardinality(Attractions(places))),
          total |-> Short(MinTotal, Len(places))]

Selections(S) == [taken: S, attractions: Nat, total: Nat]

(* A step takes the place and counts it, or leaves it and has no need of   *)
(* an attraction.                                                          *)
LEMMA SelectStepCases ==
  ASSUME NEW P, NEW a \in Selections(Seq(P)), NEW p \in P
  PROVE  /\ a.taken \in Seq(P) /\ a.attractions \in Nat /\ SelectStep(a, p) \in Selections(Seq(P))
         /\ \/ /\ SelectStep(a, p).taken = Append(a.taken, p)
               /\ SelectStep(a, p).attractions =
                    a.attractions - (IF p.cat = "attraction" THEN 1 ELSE 0)
            \/ /\ SelectStep(a, p).taken = a.taken /\ SelectStep(a, p).attractions = a.attractions
               /\ p.cat = "attraction" => ~(a.attractions > 0)
<1> DEFINE S == Seq(P)
           t == Append(a.taken, p)
<1>1. a.taken \in S /\ t \in S /\ a.attractions \in Nat /\ a.total \in Nat
  BY DEF Selections
<1>2. SelectStep(a, p) =
        IF p.cat = "attraction" /\ a.attractions > 0
        THEN [a EXCEPT !.taken = t, !.attractions = a.attractions - 1]
        ELSE IF p.cat # "attraction" /\ a.total > 0
        THEN [a EXCEPT !.taken = t, !.total = a.total - 1]
        ELSE a
  BY DEF SelectStep
<1>3. a \in Selections(S)
  OBVIOUS
<1> HIDE DEF S, t
<1>4. CASE p.cat = "attraction" /\ a.attractions > 0
  <2> DEFINE x == a.attractions - 1
  <2>1. x \in Nat
    BY <1>1, <1>4
  <2>2. SelectStep(a, p) = [a EXCEPT !.taken = t, !.attractions = x]
    BY <1>2, <1>4
  <2> HIDE DEF x
  <2>3. /\ SelectStep(a, p) \in Selections(S) /\ SelectStep(a, p).taken = t
        /\ SelectStep(a, p).attractions = x
    BY <1>1, <1>3, <2>1, <2>2 DEF Selections
  <2> QED
    BY <1>1, <1>4, <2>3 DEF S, t, x
<1>5. CASE p.cat # "attraction" /\ a.total > 0
  <2> DEFINE x == a.total - 1
  <2>1. x \in Nat
    BY <1>1, <1>5
  <2>2. SelectStep(a, p) = [a EXCEPT !.taken = t, !.total = x]
    BY <1>2, <1>5
  <2> HIDE DEF x
  <2>3. /\ SelectStep(a, p) \in Selections(S) /\ SelectStep(a, p).taken = t
        /\ SelectStep(a, p).attractions = a.attractions
    BY <1>1, <1>3, <2>1, <2>2 DEF Selections
  <2> QED
    BY <1>1, <1>5, <2>3 DEF S, t, x
<1>6. CASE ~(p.cat = "attraction" /\ a.attractions > 0) /\ ~(p.cat # "attraction" /\ a.total > 0)
  BY <1>1, <1>2, <1>3, <1>6 DEF S
<1> QED
  BY <1>4, <1>5, <1>6

\* How the selection comes together, place by place.
SelectTrace(acc, P, ps) ==
  /\ acc \in [0..Len(ps) -> Selections(Seq(P))]
  /\ acc[0] = Unmet
  /\ \A k \in 1..Len(ps): acc[k] = SelectStep(acc[k - 1], ps[k])
  /\ Selected(ps) = acc[Len(ps)].taken

(* That is how the loop over the supplement ends.                          *)
LEMMA SelectSteps ==
  ASSUME NEW P, NEW ps \in Seq(P), Unmet.attractions \in Nat, Unmet.total \in Nat
  PROVE  \E acc: SelectTrace(acc, P, ps)
<1> DEFINE n == Len(ps)
           T == Selections(Seq(P))
           op == [q \in T \X (1..n) |-> SelectStep(q[1], ps[q[2]])]
           Body(f) == [s \in SUBSET (1..n) |->
                         IF s = {} THEN Unmet ELSE SelectStep(f[s \ {Max(s)}], ps[Max(s)])]
           F == CHOOSE f: f = Body(f)
<1>1. n \in Nat /\ DOMAIN ps = 1..n /\ \A k \in 1..n: ps[k] \in P
  OBVIOUS
<1>2. Selected(ps) = F[1..n].taken
  BY <1>1 DEF Selected, FoldLeft, MapThenFoldSet, SelectStep, Unmet
<1> HIDE DEF n
<1>3. \A a \in T, k \in 1..n: SelectStep(a, ps[k]) \in T
  BY <1>1, SelectStepCases
<1>4. Unmet \in T
  <2>1. <<>> \in Seq(P)
    OBVIOUS
  <2> QED
    BY <2>1 DEF Unmet, Selections
<1> HIDE DEF T
<1>5. IsStep(op, n, T) /\ \A a \in T, k \in 1..n: op[<<a, k>>] = SelectStep(a, ps[k])
  BY <1>3 DEF IsStep
<1> HIDE DEF op
<1>6. PICK g: Folds(g, Unmet, op, n, T)
  BY <1>1, <1>4, <1>5, FoldExists
<1>7. ASSUME NEW s \in SUBSET (1..n)
      PROVE  g[s] = IF s = {} THEN Unmet ELSE SelectStep(g[s \ {Max(s)}], ps[Max(s)])
  <2>1. g[s \ {Max(s)}] \in T
    BY <1>6 DEF Folds
  <2>2. g[s] = IF s = {} THEN Unmet ELSE op[<<g[s \ {Max(s)}], Max(s)>>]
    BY <1>6 DEF Folds
  <2> QED
    BY <1>1, <1>5, <2>1, <2>2, MaxIn
<1>8. g = Body(g)
  BY <1>6, <1>7 DEF Folds
<1>9. F = Body(F)
  BY <1>8
<1> HIDE DEF F
<1>10. F[{}] = Unmet
  BY <1>9
<1>11. ASSUME NEW s \in SUBSET (1..n), s # {}, F[s \ {Max(s)}] \in T
       PROVE  F[s] = op[<<F[s \ {Max(s)}], Max(s)>>]
  <2>1. F[s] = SelectStep(F[s \ {Max(s)}], ps[Max(s)])
    BY <1>9, <1>11
  <2> QED
    BY <1>1, <1>5, <1>11, <2>1, MaxIn
<1>12. Unfolds(F, Unmet, op, n, T)
  BY <1>10, <1>11 DEF Unfolds
<1>13. PICK acc: Accumulates(acc, Unmet, op, n, T) /\ acc[n] = F[1..n]
  BY <1>1, <1>4, <1>5, <1>12, FoldSteps
<1>14. ASSUME NEW k \in 1..n PROVE acc[k] = SelectStep(acc[k - 1], ps[k])
  <2>1. acc[k - 1] \in T
    BY <1>1, <1>13 DEF Accumulates
  <2> QED
    BY <1>5, <1>13, <2>1 DEF Accumulates
<1> QED
  BY <1>2, <1>13, <1>14 DEF n, T, Accumulates, SelectTrace

(* A sequence made of places is a list of places.                          *)
LEMMA PlacesFrom ==
  ASSUME NEW P, \A p \in P: IsPlace(p), NEW s \in Seq(P)
  PROVE  ArePlaces(s)
<1>1. Len(s) \in Nat /\ s = [i \in 1..Len(s) |-> s[i]] /\ \A i \in 1..Len(s): s[i] \in P
  OBVIOUS
<1> QED
  BY <1>1, EachPlace

(* What a place adds to the names and the attractions of a list.           *)
LEMMA Appended ==
  ASSUME NEW P, NEW s \in Seq(P), NEW p \in P
  PROVE  /\ Append(s, p) \in Seq(P)
         /\ Names(Append(s, p)) = Names(s) \cup {p.id}
         /\ Attractions(Append(s, p)) =
              Attractions(s) \cup (IF p.cat = "attraction" THEN {Len(s) + 1} ELSE {})
<1> DEFINE t == Append(s, p)
           n == Len(s)
<1>1. /\ n \in Nat /\ DOMAIN s = 1..n /\ DOMAIN t = 1..(n + 1) /\ t \in Seq(P)
      /\ t[n + 1] = p /\ \A k \in 1..n: t[k] = s[k]
  OBVIOUS
<1> HIDE DEF t, n
<1>2. 1..(n + 1) = (1..n) \cup {n + 1} /\ n + 1 \notin 1..n
  BY <1>1
<1>3. Names(t) = Names(s) \cup {p.id}
  BY <1>1, <1>2 DEF Names
<1>4. Attractions(t) = Attractions(s) \cup (IF p.cat = "attraction" THEN {n + 1} ELSE {})
  BY <1>1, <1>2 DEF Attractions
<1> QED
  BY <1>1, <1>3, <1>4 DEF t, n

(* The attractions of a list are finitely many.                            *)
LEMMA AttractionsCounted ==
  ASSUME NEW P, NEW s \in Seq(P)
  PROVE  /\ IsFiniteSet(Attractions(s)) /\ Cardinality(Attractions(s)) \in Nat
         /\ Len(s) + 1 \notin Attractions(s)
<1>1. Len(s) \in Nat /\ DOMAIN s = 1..Len(s)
  OBVIOUS
<1>2. Attractions(s) \subseteq 1..Len(s)
  BY <1>1 DEF Attractions
<1>3. IsFiniteSet(1..Len(s))
  BY <1>1, FS_Interval
<1>4. IsFiniteSet(Attractions(s))
  BY <1>2, <1>3, FS_Subset
<1>5. Len(s) + 1 \notin 1..Len(s)
  BY <1>1
<1> QED
  BY <1>2, <1>4, <1>5, FS_CardinalityType

(* Every attraction counts once.                                           *)
LEMMA OneMoreAttraction ==
  ASSUME NEW P, NEW s \in Seq(P), NEW p \in P
  PROVE  Cardinality(Attractions(Append(s, p))) =
           Cardinality(Attractions(s)) + (IF p.cat = "attraction" THEN 1 ELSE 0)
<1>1. CASE p.cat = "attraction"
  <2>1. Attractions(Append(s, p)) = Attractions(s) \cup {Len(s) + 1}
    BY <1>1, Appended
  <2>2. IsFiniteSet(Attractions(s)) /\ Len(s) + 1 \notin Attractions(s)
    BY AttractionsCounted
  <2> QED
    BY <1>1, <2>1, <2>2, FS_AddElement
<1>2. CASE p.cat # "attraction"
  <2>1. Attractions(Append(s, p)) = Attractions(s)
    BY <1>2, Appended
  <2>2. Cardinality(Attractions(s)) \in Nat
    BY AttractionsCounted
  <2> QED
    BY <1>2, <2>1, <2>2
<1> QED
  BY <1>1, <1>2

(* Nothing that is asked for is left out of the fresh places but for its   *)
(* name, and nothing else is among them.                                   *)
LEMMA FreshPlaces ==
  ASSUME NEW known, NEW all, NEW P, NEW ps \in Seq(P)
  PROVE  /\ Fresh(known, ps, all) \in Seq(P)
         /\ \A i \in DOMAIN ps:
              all \/ ps[i].cat = "attraction" => ps[i].id \in known \cup Names(Fresh(known, ps, all))
<1> DEFINE n == Len(ps)
<1>1. n \in Nat /\ DOMAIN ps = 1..n /\ \A k \in 1..n: ps[k] \in P
  OBVIOUS
<1>12. PICK acc: FreshTrace(acc, known, all, P, ps)
  BY FreshSteps
<1>2. /\ acc \in [0..n -> Seq(P)]
      /\ acc[0] = <<>>
      /\ \A k \in 1..n: acc[k] = FreshStep(known, all, acc[k - 1], ps[k])
      /\ Fresh(known, ps, all) = acc[n]
  BY <1>12 DEF FreshTrace
<1> HIDE DEF n
<1> DEFINE Had(k) == \A i \in 1..k:
                       all \/ ps[i].cat = "attraction" => ps[i].id \in known \cup Names(acc[k])
           Bad == {k \in 0..n: ~Had(k)}
<1>3. ASSUME NEW k \in 1..n, Had(k - 1) PROVE Had(k)
  <2>1. acc[k - 1] \in Seq(P) /\ ps[k] \in P /\ acc[k] = FreshStep(known, all, acc[k - 1], ps[k])
    BY <1>1, <1>2
  <2>2. Names(acc[k - 1]) \subseteq Names(acc[k])
    BY <2>1, Appended DEF FreshStep
  <2>3. all \/ ps[k].cat = "attraction" => ps[k].id \in known \cup Names(acc[k])
    BY <2>1, Appended DEF FreshStep
  <2>4. \A i \in 1..k: i \in 1..(k - 1) \/ i = k
    BY <1>1
  <2> QED
    BY <1>3, <2>2, <2>3, <2>4
<1>4. Had(0)
  OBVIOUS
<1> HIDE DEF Had
<1>5. Bad = {}
  <2>1. Bad \in SUBSET (0..n) /\ 0 \notin Bad
    BY <1>1, <1>4
  <2>2. ASSUME NEW k \in 1..n, k \in Bad PROVE k - 1 \in Bad
    <3>1. k - 1 \in 0..n /\ k \in 0..n
      BY <1>1
    <3> QED
      BY <1>3, <2>2, <3>1
  <2> HIDE DEF Bad
  <2> QED
    BY <1>1, <2>1, <2>2, NoneUpTo
<1>6. n \in 0..n
  BY <1>1
<1>7. Had(n)
  BY <1>5, <1>6
<1> QED
  BY <1>1, <1>2, <1>6, <1>7 DEF Had

(* A trip needs a number of attractions and of places.                     *)
LEMMA TripNeeds ==
  ASSUME turn \in Turns
  PROVE  MinAttractions \in Nat /\ MinTotal \in Nat
<1>1. turn.days \in Nat
  BY TurnsAssumption
<1> QED
  BY <1>1 DEF MinAttractions, MinTotal, TravelDays, OrElse, Higher

(* What is selected meets the need for attractions, or is all of them.     *)
LEMMA SelectedPlaces ==
  ASSUME turn \in Turns, NEW P, places \in Seq(P), NEW ps \in Seq(P)
  PROVE  /\ Selected(ps) \in Seq(P)
         /\ \/ Cardinality(Attractions(places \o Selected(ps))) >= MinAttractions
            \/ \A i \in DOMAIN ps: ps[i].cat = "attraction" => ps[i].id \in Names(Selected(ps))
<1> DEFINE n == Len(ps)
           S == Selections(Seq(P))
           need == MinAttractions
<1>1. n \in Nat /\ DOMAIN ps = 1..n /\ \A k \in 1..n: ps[k] \in P
  OBVIOUS
<1>2. need \in Nat /\ MinTotal \in Nat /\ Len(places) \in Nat
      /\ Cardinality(Attractions(places)) \in Nat
  BY TripNeeds, AttractionsCounted
<1>3. /\ Unmet.taken = <<>> /\ Unmet.attractions \in Nat /\ Unmet.total \in Nat
      /\ Cardinality(Attractions(places)) + Unmet.attractions >= need
  BY <1>2 DEF Unmet, Short
<1>12. PICK acc: SelectTrace(acc, P, ps)
  BY <1>3, SelectSteps
<1>4. /\ acc \in [0..n -> S]
      /\ acc[0] = Unmet
      /\ \A k \in 1..n: acc[k] = SelectStep(acc[k - 1], ps[k])
      /\ Selected(ps) = acc[n].taken
  BY <1>12 DEF SelectTrace
<1> HIDE DEF n, need
<1> DEFINE Met(k) ==
             /\ Cardinality(Attractions(places \o acc[k].taken)) + acc[k].attractions >= need
             /\ acc[k].attractions > 0 =>
                  \A i \in 1..k: ps[i].cat = "attraction" => ps[i].id \in Names(acc[k].taken)
           Bad == {k \in 0..n: ~Met(k)}
<1>5. Met(0)
  <2>1. places \o <<>> = places
    OBVIOUS
  <2>2. acc[0].taken = <<>> /\ acc[0].attractions = Unmet.attractions /\ 1..0 = {}
    BY <1>3, <1>4
  <2>3. Cardinality(Attractions(places \o acc[0].taken)) + acc[0].attractions >= need
    BY <1>3, <2>1, <2>2
  <2> QED
    BY <2>2, <2>3
<1>6. ASSUME NEW k \in 1..n, Met(k - 1) PROVE Met(k)
  <2> DEFINE a == acc[k - 1]
             b == acc[k]
             p == ps[k]
             T == Seq(P)
  <2>1. a \in S /\ p \in P /\ b = SelectStep(a, p)
    BY <1>1, <1>4
  <2>2. Cardinality(Attractions(places \o a.taken)) + a.attractions >= need
    BY <1>6
  <2>3. a.attractions > 0 =>
          \A i \in 1..(k - 1): ps[i].cat = "attraction" => ps[i].id \in Names(a.taken)
    BY <1>6
  <2>4. \A i \in 1..k: i \in 1..(k - 1) \/ i = k
    BY <1>1
  <2> HIDE DEF a, b
  <2>5. a.taken \in T /\ a.attractions \in Nat /\ places \o a.taken \in T
    <3>1. a.taken \in Seq(P) /\ a.attractions \in Nat
      BY <2>1, SelectStepCases
    <3> QED
      BY <3>1
  <2>6. CASE b.taken = Append(a.taken, p)
             /\ b.attractions = a.attractions - (IF p.cat = "attraction" THEN 1 ELSE 0)
    <3>1. places \o b.taken = Append(places \o a.taken, p)
      BY <2>1, <2>5, <2>6, AppendIsConcat
    <3>2. Cardinality(Attractions(places \o b.taken)) =
            Cardinality(Attractions(places \o a.taken)) + (IF p.cat = "attraction" THEN 1 ELSE 0)
      BY <2>1, <2>5, <3>1, OneMoreAttraction
    <3>3. Cardinality(Attractions(places \o a.taken)) \in Nat
      BY <2>5, AttractionsCounted
    <3>4. Names(b.taken) = Names(a.taken) \cup {p.id}
      BY <2>1, <2>5, <2>6, Appended
    <3>5. Cardinality(Attractions(places \o b.taken)) + b.attractions >= need
      BY <1>2, <2>2, <2>5, <2>6, <3>2, <3>3
    <3>6. b.attractions > 0 => a.attractions > 0
      BY <2>5, <2>6
    <3> QED
      BY <2>3, <2>4, <3>4, <3>5, <3>6 DEF b
  <2>7. CASE /\ b.taken = a.taken /\ b.attractions = a.attractions
             /\ p.cat = "attraction" => ~(a.attractions > 0)
    BY <2>2, <2>3, <2>4, <2>7 DEF b
  <2>8. \/ b.taken = Append(a.taken, p)
           /\ b.attractions = a.attractions - (IF p.cat = "attraction" THEN 1 ELSE 0)
        \/ /\ b.taken = a.taken /\ b.attractions = a.attractions
           /\ p.cat = "attraction" => ~(a.attractions > 0)
    <3>1. a \in Selections(Seq(P)) /\ p \in P
      BY <2>1
    <3> HIDE DEF p, T
    <3>2. \/ /\ SelectStep(a, p).taken = Append(a.taken, p)
             /\ SelectStep(a, p).attractions =
                  a.attractions - (IF p.cat = "attraction" THEN 1 ELSE 0)
          \/ /\ SelectStep(a, p).taken = a.taken /\ SelectStep(a, p).attractions = a.attractions
             /\ p.cat = "attraction" => ~(a.attractions > 0)
      BY <3>1, SelectStepCases
    <3> QED
      BY <2>1, <3>2
  <2> QED
    BY <2>6, <2>7, <2>8
<1> HIDE DEF Met
<1>7. Bad = {}
  <2>1. Bad \in SUBSET (0..n) /\ 0 \notin Bad
    BY <1>1, <1>5
  <2>2. ASSUME NEW k \in 1..n, k \in Bad PROVE k - 1 \in Bad
    <3>1. k - 1 \in 0..n /\ k \in 0..n
      BY <1>1
    <3> QED
      BY <1>6, <2>2, <3>1
  <2> HIDE DEF Bad
  <2> QED
    BY <1>1, <2>1, <2>2, NoneUpTo
<1>8. n \in 0..n
  BY <1>1
<1>9. Met(n)
  BY <1>7, <1>8
<1>10. acc[n].taken \in Seq(P) /\ acc[n].attractions \in Nat /\ places \o acc[n].taken \in Seq(P)
  <2>1. acc[n].taken \in Seq(P) /\ acc[n].attractions \in Nat
    BY <1>4, <1>8 DEF Selections
  <2> QED
    BY <2>1
<1>11. Cardinality(Attractions(places \o acc[n].taken)) \in Nat
  BY <1>10, AttractionsCounted
<1> QED
  BY <1>1, <1>2, <1>4, <1>9, <1>10, <1>11 DEF Met, need

(* The conversions of the four sources keep lists of places.               *)
LEMMA ConvertedPlaces ==
  ASSUME NEW ps, ArePlaces(ps)
  PROVE  /\ ArePlaces(Each(ByRetrieval, ps)) /\ ArePlaces(Each(ByQuery, ps))
         /\ ArePlaces(Each(ByDefaults, ps)) /\ ArePlaces(Each(ByAmap, ps))
<1>1. Len(ps) \in Nat /\ DOMAIN ps = 1..Len(ps) /\ \A i \in DOMAIN ps: IsPlace(ps[i])
  BY PlacesOf
<1> DEFINE n == Len(ps)
           a == Each(ByRetrieval, ps)
           b == Each(ByQuery, ps)
           d == Each(ByDefaults, ps)
           e == Each(ByAmap, ps)
<1>2. a = [i \in 1..n |-> ByRetrieval(ps[i])] /\ b = [i \in 1..n |-> ByQuery(ps[i])]
      /\ d = [i \in 1..n |-> ByDefaults(ps[i])] /\ e = [i \in 1..n |-> ByAmap(ps[i])]
  BY <1>1 DEF Each
<1> HIDE DEF a, b, d, e, n
<1>3. /\ a = [i \in 1..n |-> a[i]] /\ b = [i \in 1..n |-> b[i]]
      /\ d = [i \in 1..n |-> d[i]] /\ e = [i \in 1..n |-> e[i]]
  BY <1>2
<1>4. \A i \in 1..n: IsPlace(a[i]) /\ IsPlace(b[i]) /\ IsPlace(d[i]) /\ IsPlace(e[i])
  BY <1>1, <1>2, ConvertedPlace DEF n
<1>5. n \in Nat
  BY <1>1 DEF n
<1>6. ArePlaces(a) /\ ArePlaces(b) /\ ArePlaces(d) /\ ArePlaces(e)
  BY <1>3, <1>4, <1>5, EachPlace
<1> QED
  BY <1>6 DEF a, b, d, e

(* What AMap supplements are places.                                       *)
LEMMA SupplementPlaces ==
  ASSUME NEW reply \in AmapReplies, NEW attractions, NEW total, NEW restaurants
  PROVE  ArePlaces(AmapSupplement(reply, attractions, total, restaurants))
<1> DEFINE a == IF attractions > 0 THEN SearchPois(reply.attractions) ELSE <<>>
           b == IF restaurants /\ total > 0 THEN SearchPois(reply.restaurants) ELSE <<>>
<1>1. ArePlaces(a) /\ ArePlaces(b)
  BY AmapAssumption, NoPlaces
<1>2. AmapSupplement(reply, attractions, total, restaurants) = Each(ByAmap, a \o b)
  BY DEF AmapSupplement
<1> HIDE DEF a, b
<1>3. ArePlaces(a \o b)
  BY <1>1, JoinedPlaces
<1> QED
  BY <1>2, <1>3, ConvertedPlaces

(* The built-in data of a city, or of a city that has none.                *)
LEMMA DefaultPlaces ==
  ASSUME NEW city
  PROVE  /\ ArePlaces(Of(CityDefaults, city))
         /\ \A i, j \in DOMAIN Of(CityDefaults, city):
              Of(CityDefaults, city)[i].id = Of(CityDefaults, city)[j].id
                => Of(CityDefaults, city)[i].cat = Of(CityDefaults, city)[j].cat
<1>1. CASE city \in DOMAIN CityDefaults
  BY <1>1, DefaultsAssumption DEF Of
<1>2. CASE city \notin DOMAIN CityDefaults
  <2>1. Of(CityDefaults, city) = <<>> /\ DOMAIN <<>> = {}
    BY <1>2 DEF Of
  <2> QED
    BY <2>1, NoPlaces
<1> QED
  BY <1>1, <1>2

(* The attractions of the city that are not among the places.              *)
Unused(ps) ==
  {Of(CityDefaults, turn.city)[i].id : i \in Attractions(Of(CityDefaults, turn.city))} \ Names(ps)

(* The fresh places among the built-in ones.                               *)
LEMMA BuiltInPlaces ==
  /\ ArePlaces(BuiltIn)
  /\ \A id \in Unused(places): \E j \in DOMAIN BuiltIn: BuiltIn[j].id = id /\ BuiltIn[j].cat = "attraction"
<1> DEFINE known == Of(CityDefaults, turn.city)
           ps == Each(ByDefaults, known)
           fresh == Fresh(Names(places), ps, turn.restaurants)
           P == Range(ps)
<1>1. /\ ArePlaces(known)
      /\ \A i, j \in DOMAIN known: known[i].id = known[j].id => known[i].cat = known[j].cat
  BY DefaultPlaces
<1>2. DOMAIN ps = DOMAIN known /\ \A i \in DOMAIN known: ps[i] = ByDefaults(known[i])
  BY DEF Each
<1>3. ASSUME NEW i \in DOMAIN known PROVE ps[i].id = known[i].id /\ ps[i].cat = known[i].cat
  <2>1. {"id", "cat"} \subseteq DOMAIN known[i]
    BY <1>1 DEF ArePlaces
  <2>2. ByDefaults(known[i]).id = known[i].id /\ ByDefaults(known[i]).cat = known[i].cat
    BY <2>1 DEF ByDefaults
  <2> QED
    BY <1>2, <2>2
<1>4. ArePlaces(ps)
  BY <1>1, ConvertedPlaces
<1> HIDE DEF ps, known
<1>5. ps \in Seq(P) /\ \A p \in P: IsPlace(p) /\ \E i \in DOMAIN ps: ps[i] = p
  BY <1>4, PlacesOf DEF Range
<1> HIDE DEF P
<1>6. /\ fresh \in Seq(P)
      /\ \A i \in DOMAIN ps: ps[i].cat = "attraction" => ps[i].id \in Names(places) \cup Names(fresh)
  BY <1>5, FreshPlaces
<1>7. BuiltIn = fresh
  BY DEF BuiltIn, ps, known
<1> HIDE DEF fresh
<1>8. ArePlaces(fresh)
  BY <1>5, <1>6, PlacesFrom
<1>9. ASSUME NEW id \in Unused(places)
      PROVE  \E j \in DOMAIN fresh: fresh[j].id = id /\ fresh[j].cat = "attraction"
  <2>1. PICK i \in DOMAIN known: known[i].id = id /\ known[i].cat = "attraction"
    BY DEF Unused, Attractions, known
  <2>2. id \notin Names(places)
    BY DEF Unused
  <2>3. ps[i].id = id /\ ps[i].cat = "attraction" /\ i \in DOMAIN ps
    BY <1>2, <1>3, <2>1
  <2>4. id \in Names(fresh)
    BY <1>6, <2>2, <2>3
  <2>5. PICK j \in DOMAIN fresh: fresh[j].id = id
    BY <2>4 DEF Names
  <2>6. fresh[j] \in P
    BY <1>6
  <2>7. PICK m \in DOMAIN known: ps[m] = fresh[j]
    BY <1>2, <1>5, <2>6
  <2>8. known[m].id = known[i].id /\ ps[m].cat = known[m].cat
    BY <1>3, <2>1, <2>5, <2>7
  <2>9. known[m].cat = "attraction"
    BY <1>1, <2>1, <2>8
  <2> QED
    BY <2>5, <2>7, <2>8, <2>9
<1> QED
  BY <1>7, <1>8, <1>9

(* The supplement begins with the fresh built-in places.                   *)
LEMMA SuppliedPlaces ==
  ASSUME NEW reply \in AmapReplies
  PROVE  /\ ArePlaces(Supplied(reply))
         /\ \A i \in DOMAIN BuiltIn: i \in DOMAIN Supplied(reply) /\ Supplied(reply)[i] = BuiltIn[i]
<1> DEFINE attractions == Short(MinAttractions, Cardinality(Attractions(places))
                                                  + Cardinality(Attractions(BuiltIn)))
           total == Short(MinTotal, Len(places) + Len(BuiltIn))
           more == AmapSupplement(reply, attractions, total, turn.restaurants)
           known == Names(places) \cup Names(BuiltIn)
           rest == IF attractions > 0 \/ total > 0 THEN Fresh(known, more, TRUE) ELSE <<>>
<1>1. Supplied(reply) = BuiltIn \o rest
  BY DEF Supplied
<1>2. ArePlaces(more)
  BY SupplementPlaces
<1> HIDE DEF more, known
<1>3. more \in Seq(Range(more)) /\ \A p \in Range(more): IsPlace(p)
  BY <1>2, PlacesOf DEF Range
<1>4. Fresh(known, more, TRUE) \in Seq(Range(more))
  BY <1>3, FreshPlaces
<1>5. ArePlaces(Fresh(known, more, TRUE))
  BY <1>3, <1>4, PlacesFrom
<1>6. ArePlaces(rest)
  BY <1>5, NoPlaces
<1> HIDE DEF rest
<1>7. /\ ArePlaces(BuiltIn \o rest) /\ Len(BuiltIn \o rest) = Len(BuiltIn) + Len(rest)
      /\ \A i \in 1..Len(BuiltIn): (BuiltIn \o rest)[i] = BuiltIn[i]
  BY <1>6, BuiltInPlaces, JoinedPlaces
<1> DEFINE both == BuiltIn \o rest
<1>8. both = BuiltIn \o rest
  OBVIOUS
<1> HIDE DEF both
<1>9. /\ Len(BuiltIn) \in Nat /\ Len(rest) \in Nat /\ DOMAIN BuiltIn = 1..Len(BuiltIn)
      /\ DOMAIN both = 1..Len(both)
  <2>1. ArePlaces(BuiltIn) /\ ArePlaces(both)
    BY <1>7, <1>8, BuiltInPlaces
  <2> QED
    BY <1>6, <2>1 DEF ArePlaces
<1> QED
  BY <1>1, <1>7, <1>8, <1>9

(* What AttractionsSuffice asks of the places of a request.                *)
Suffices(ps) ==
  Cardinality(Attractions(ps)) >=
    Lower(MinAttractions, Cardinality(Attractions(ps)) + Cardinality(Unused(ps)))

(* Enough attractions, or all of them, suffice.                            *)
LEMMA EnoughSuffice ==
  ASSUME turn \in Turns, NEW ps, ArePlaces(ps),
         Cardinality(Attractions(ps)) >= MinAttractions \/ Unused(ps) = {}
  PROVE  Suffices(ps)
<1>1. ps \in Seq(Range(ps))
  BY PlacesOf
<1>2. Cardinality(Attractions(ps)) \in Nat
  BY <1>1, AttractionsCounted
<1>3. MinAttractions \in Nat
  BY TripNeeds
<1> DEFINE u == Cardinality(Unused(ps))
<1>4. CASE Cardinality(Attractions(ps)) >= MinAttractions
  <2>1. u \in Nat
    <3> DEFINE known == Of(CityDefaults, turn.city)
               some == Attractions(known)
    <3>1. known \in Seq(Range(known))
      BY DefaultPlaces, PlacesOf
    <3>2. IsFiniteSet(some)
      BY <3>1, AttractionsCounted
    <3> HIDE DEF some
    <3>3. IsFiniteSet({known[i].id : i \in some})
      <4> DEFINE ids == {known[i].id : i \in some}
                 f == [i \in some |-> known[i].id]
      <4>1. f \in Surjection(some, ids)
        BY DEF Surjection
      <4> HIDE DEF f, ids
      <4>2. IsFiniteSet(ids)
        BY <3>2, <4>1, FS_Surjection
      <4> QED
        BY <4>2 DEF ids
    <3>4. Unused(ps) \subseteq {known[i].id : i \in some}
      BY DEF Unused, some
    <3>5. IsFiniteSet(Unused(ps))
      BY <3>3, <3>4, FS_Subset
    <3> QED
      BY <3>5, FS_CardinalityType
  <2> HIDE DEF u
  <2> QED
    BY <1>2, <1>3, <1>4, <2>1 DEF Suffices, Lower, u
<1>5. CASE Unused(ps) = {}
  <2>1. u = 0
    BY <1>5, FS_EmptySet
  <2> QED
    BY <1>2, <1>3, <2>1 DEF Suffices, Lower
<1> QED
  BY <1>4, <1>5

(* After _ensure_sufficient_pois the attractions suffice.                  *)
LEMMA EnsuredPlaces ==
  ASSUME turn \in Turns, ArePlaces(places), NEW reply \in AmapReplies
  PROVE  LET ps == IF Sufficient THEN places ELSE places \o Selected(Supplied(reply))
         IN  ArePlaces(ps) /\ Suffices(ps)
<1> DEFINE more == Supplied(reply)
           taken == Selected(more)
           both == places \o taken
           P == Range(places) \cup Range(more)
<1>1. CASE Sufficient
  <2>1. Cardinality(Attractions(places)) >= MinAttractions
    BY <1>1 DEF Sufficient
  <2> QED
    BY <1>1, <2>1, EnoughSuffice
<1>2. CASE ~Sufficient
  <2>1. ArePlaces(more) /\ \A i \in DOMAIN BuiltIn: i \in DOMAIN more /\ more[i] = BuiltIn[i]
    BY SuppliedPlaces
  <2> HIDE DEF more
  <2>2. /\ places \in Seq(Range(places)) /\ more \in Seq(Range(more))
        /\ \A p \in P: IsPlace(p)
    BY <2>1, PlacesOf DEF Range
  <2>3. places \in Seq(P) /\ more \in Seq(P)
    BY <2>2, SeqMonotonic
  <2> HIDE DEF P
  <2>4. /\ taken \in Seq(P)
        /\ \/ Cardinality(Attractions(places \o taken)) >= MinAttractions
           \/ \A i \in DOMAIN more: more[i].cat = "attraction" => more[i].id \in Names(taken)
    BY <2>3, SelectedPlaces
  <2> HIDE DEF taken
  <2>5. ArePlaces(taken)
    BY <2>2, <2>4, PlacesFrom
  <2>6. ArePlaces(both)
    BY <2>5, JoinedPlaces
  <2>7. /\ both \in Seq(P) /\ Len(both) = Len(places) + Len(taken)
        /\ \A i \in 1..Len(places): both[i] = places[i]
        /\ \A i \in Len(places) + 1..Len(places) + Len(taken): both[i] = taken[i - Len(places)]
    BY <2>3, <2>4, ConcatProperties
  <2> HIDE DEF both
  <2>8. Len(places) \in Nat /\ Len(taken) \in Nat /\ DOMAIN places = 1..Len(places)
        /\ DOMAIN taken = 1..Len(taken) /\ DOMAIN both = 1..(Len(places) + Len(taken))
    BY <2>3, <2>4, <2>7
  <2>9. Names(places) \subseteq Names(both) /\ Names(taken) \subseteq Names(both)
    <3>1. ASSUME NEW i \in DOMAIN places PROVE i \in DOMAIN both /\ both[i] = places[i]
      BY <2>7, <2>8
    <3>2. ASSUME NEW i \in DOMAIN taken
          PROVE  i + Len(places) \in DOMAIN both /\ both[i + Len(places)] = taken[i]
      <4>1. i + Len(places) \in Len(places) + 1..Len(places) + Len(taken)
        BY <2>8
      <4>2. (i + Len(places)) - Len(places) = i
        BY <2>8
      <4> QED
        BY <2>7, <2>8, <4>1, <4>2
    <3> QED
      BY <3>1, <3>2 DEF Names
  <2>10. CASE Cardinality(Attractions(both)) >= MinAttractions
    BY <1>2, <2>6, <2>10, EnoughSuffice DEF both, taken, more
  <2>11. CASE \A i \in DOMAIN more: more[i].cat = "attraction" => more[i].id \in Names(taken)
    <3>1. ASSUME NEW id \in Unused(both) PROVE FALSE
      <4>1. id \notin Names(places) /\ id \notin Names(taken)
        BY <2>9 DEF Unused
      <4>2. id \in Unused(places)
        BY <4>1 DEF Unused
      <4>3. PICK j \in DOMAIN BuiltIn: BuiltIn[j].id = id /\ BuiltIn[j].cat = "attraction"
        BY <4>2, BuiltInPlaces
      <4> QED
        BY <2>1, <2>11, <4>1, <4>3
    <3> QED
      BY <1>2, <2>6, <3>1, EnoughSuffice DEF both, taken, more
  <2> QED
    BY <2>4, <2>10, <2>11 DEF both
<1> QED
  BY <1>1, <1>2

-----------------------------------------------------------------------------
(* Plans. *)

(* No place is visited twice.                                              *)
Once(p) ==
  \A d, e \in DOMAIN p: \A k \in DOMAIN p[d], l \in DOMAIN p[e]:
    p[d][k].node = p[e][l].node => d = e /\ k = l

(* Days that keep their limits, and never more than the trip has.          *)
OnePlan(ns, cs, p) ==
  /\ p \in Seq(Seq(Visits(ns))) /\ Len(p) <= cs.days
  /\ \A d \in DOMAIN p: DayKeepsLimits(ns, cs, d, p[d])
  /\ Once(p)

(* What is visited neither on a finished day nor on the one being filled.  *)
Remaining(ns, ds, td) == Real(ns) \ (Visited(td) \cup UNION {Visited(ds[d]) : d \in DOMAIN ds})

(* Why LeavesNoRoom holds of one place and one day: one limit is in the way. *)
NoRoom(ns, cs, d, day, i) ==
  LET longer == Append(day, Visit(ns, cs, day, i))
      k == Len(longer)
  IN  \/ k > MaxPoiPerDay
      \/ Travel(ns, Where(day), i) > cs.transit
      \/ longer[k].from + ns[longer[k].node].dur > End(cs)
      \/ Stay(ns, longer) + Travel(ns, Where(day), i) + cs.rest > End(cs) - Start(cs)
      \/ Walk(ns, longer) > WalkLimits(cs)[d]
      \/ ~Affordable(cs, Price(ns, longer))

(* A plan without days keeps its limits.                                   *)
LEMMA EmptyPlan ==
  ASSUME NEW ns, NEW cs, AreConstraints(cs)
  PROVE  OnePlan(ns, cs, <<>>)
<1>1. <<>> \in Seq(Seq(Visits(ns))) /\ Len(<<>>) = 0 /\ DOMAIN <<>> = {}
  OBVIOUS
<1>2. cs.days >= 0
  BY DEF AreConstraints
<1> QED
  BY <1>1, <1>2 DEF OnePlan, Once

(* What appending does to a sequence.                                      *)
LEMMA DayAppended ==
  ASSUME NEW T, NEW ds \in Seq(T), NEW td \in T
  PROVE  /\ Append(ds, td) \in Seq(T) /\ Len(ds) \in Nat
         /\ DOMAIN ds = 1..Len(ds) /\ DOMAIN Append(ds, td) = 1..(Len(ds) + 1)
         /\ Len(Append(ds, td)) = Len(ds) + 1
         /\ Append(ds, td)[Len(ds) + 1] = td
         /\ \A d \in 1..Len(ds): Append(ds, td)[d] = ds[d] /\ d # Len(ds) + 1
         /\ \A d \in 1..(Len(ds) + 1): d \in 1..Len(ds) \/ d = Len(ds) + 1
OBVIOUS

(* A plan that is not full can begin another day.                          *)
LEMMA DayBegun ==
  ASSUME NEW ns, AreNodes(ns), NEW cs, AreConstraints(cs), NEW ds, OnePlan(ns, cs, ds),
         Len(ds) < cs.days
  PROVE  OnePlan(ns, cs, Append(ds, <<>>))
<1> DEFINE p == Append(ds, <<>>)
           n == Len(ds)
           T == Seq(Visits(ns))
<1>1. ds \in Seq(T) /\ <<>> \in T /\ DOMAIN <<>> = {}
  BY DEF OnePlan
<1> HIDE DEF T
<1>2. /\ p \in Seq(T) /\ n \in Nat /\ DOMAIN ds = 1..n /\ DOMAIN p = 1..(n + 1) /\ Len(p) = n + 1
      /\ p[n + 1] = <<>> /\ \A d \in 1..n: p[d] = ds[d]
      /\ \A d \in 1..(n + 1): d \in 1..n \/ d = n + 1
  BY <1>1, DayAppended
<1>3. Len(p) <= cs.days /\ n + 1 \in 1..cs.days
  BY <1>2 DEF AreConstraints
<1> HIDE DEF p, n
<1>4. DayKeepsLimits(ns, cs, n + 1, <<>>)
  BY <1>3, EmptyDayKeepsLimits
<1>5. \A d \in DOMAIN p: DayKeepsLimits(ns, cs, d, p[d])
  BY <1>2, <1>4 DEF OnePlan
<1>7. Once(ds)
  BY DEF OnePlan
<1>6. Once(p)
  <2>1. ASSUME NEW d \in 1..(n + 1), NEW e \in 1..(n + 1), NEW k \in DOMAIN p[d], NEW l \in DOMAIN p[e],
               p[d][k].node = p[e][l].node
        PROVE  d = e /\ k = l
    <3>1. d \in 1..n /\ e \in 1..n
      BY <1>1, <1>2
    <3>2. p[d] = ds[d] /\ p[e] = ds[e] /\ d \in DOMAIN ds /\ e \in DOMAIN ds
      BY <1>2, <3>1
    <3> QED
      BY <1>7, <2>1, <3>2 DEF Once
  <2> QED
    BY <1>2, <2>1 DEF Once
<1> QED
  BY <1>2, <1>3, <1>5, <1>6 DEF OnePlan, p, T

(* The heuristic adds a visit that fits to the last day.                   *)
LEMMA VisitAdded ==
  ASSUME NEW ns, AreNodes(ns), NEW cs, AreConstraints(cs),
         NEW ds \in Seq(Seq(Visits(ns))), NEW td \in Seq(Visits(ns)),
         OnePlan(ns, cs, Append(ds, td)), Len(td) < MaxPoiPerDay,
         NEW i \in Remaining(ns, ds, td),
         Fits(ns, cs, WalkLimits(cs), Len(ds) + 1, td, i)
  PROVE  /\ Append(td, Visit(ns, cs, td, i)) \in Seq(Visits(ns))
         /\ OnePlan(ns, cs, Append(ds, Append(td, Visit(ns, cs, td, i))))
<1> DEFINE v == Visit(ns, cs, td, i)
           more == Append(td, v)
           p == Append(ds, td)
           q == Append(ds, more)
           n == Len(ds)
           m == Len(td)
           T == Seq(Visits(ns))
<1>1. i \in Real(ns) /\ v \in Visits(ns) /\ v.node = i
  BY VisitType DEF Remaining, Visit
<1> HIDE DEF v
<1>2. /\ more \in T /\ m \in Nat /\ DOMAIN td = 1..m /\ DOMAIN more = 1..(m + 1)
      /\ more[m + 1] = v /\ \A k \in 1..m: more[k] = td[k] /\ k # m + 1
      /\ \A k \in 1..(m + 1): k \in 1..m \/ k = m + 1
  BY <1>1, DayAppended
<1>3. ds \in Seq(T) /\ td \in T
  OBVIOUS
<1> HIDE DEF T, more, m
<1>4. /\ n \in Nat /\ DOMAIN ds = 1..n /\ DOMAIN p = 1..(n + 1) /\ Len(p) = n + 1
      /\ p[n + 1] = td /\ \A d \in 1..n: p[d] = ds[d] /\ d # n + 1
      /\ \A d \in 1..(n + 1): d \in 1..n \/ d = n + 1
  BY <1>3, DayAppended
<1>5. /\ q \in Seq(T) /\ DOMAIN q = 1..(n + 1) /\ Len(q) = n + 1
      /\ q[n + 1] = more /\ \A d \in 1..n: q[d] = ds[d]
  BY <1>2, <1>3, DayAppended
<1>6. OnePlan(ns, cs, p)
  OBVIOUS
<1> HIDE DEF p, q, n
<1>7. n + 1 \in 1..cs.days /\ n + 1 \in DOMAIN p
  BY <1>4, <1>6 DEF OnePlan, AreConstraints
<1>8. DayKeepsLimits(ns, cs, n + 1, td)
  BY <1>4, <1>6, <1>7 DEF OnePlan
<1>9. DayKeepsLimits(ns, cs, n + 1, more)
  BY <1>1, <1>7, <1>8, FittingKeepsLimits DEF n, more, v
<1>10. \A d \in DOMAIN q: DayKeepsLimits(ns, cs, d, q[d])
  BY <1>4, <1>5, <1>6, <1>9 DEF OnePlan
<1>11. /\ \A k \in 1..m: td[k].node # i
       /\ \A d \in 1..n: \A k \in DOMAIN ds[d]: ds[d][k].node # i
  <2>1. i \notin Visited(td) /\ \A d \in 1..n: i \notin Visited(ds[d])
    BY <1>4 DEF Remaining
  <2> QED
    BY <1>2, <2>1 DEF Visited
<1>14. Once(p)
  BY <1>6 DEF OnePlan
<1>15. \A d \in 1..(n + 1): d \in DOMAIN p
  BY <1>4
<1>12. ASSUME NEW d \in 1..(n + 1), NEW e \in 1..(n + 1),
              NEW k \in DOMAIN q[d], NEW l \in DOMAIN q[e], q[d][k].node = q[e][l].node
       PROVE  d = e /\ k = l
  <2>1. CASE d \in 1..n /\ e \in 1..n
    <3>1. q[d] = p[d] /\ q[e] = p[e]
      BY <1>4, <1>5, <2>1
    <3> QED
      BY <1>12, <1>14, <1>15, <3>1 DEF Once
  <2>2. CASE d \in 1..n /\ e = n + 1
    <3>1. q[d] = ds[d] /\ q[d] = p[d] /\ q[e] = more /\ p[e] = td
      BY <1>4, <1>5, <2>2
    <3>2. l \in 1..m
      BY <1>1, <1>2, <1>11, <1>12, <2>2, <3>1
    <3>3. k \in DOMAIN p[d] /\ l \in DOMAIN p[e] /\ p[d][k].node = p[e][l].node
      BY <1>2, <1>12, <3>1, <3>2
    <3> QED
      BY <1>14, <1>15, <3>3 DEF Once
  <2>3. CASE d = n + 1 /\ e \in 1..n
    <3>1. q[e] = ds[e] /\ q[e] = p[e] /\ q[d] = more /\ p[d] = td
      BY <1>4, <1>5, <2>3
    <3>2. k \in 1..m
      BY <1>1, <1>2, <1>11, <1>12, <2>3, <3>1
    <3>3. k \in DOMAIN p[d] /\ l \in DOMAIN p[e] /\ p[d][k].node = p[e][l].node
      BY <1>2, <1>12, <3>1, <3>2
    <3> QED
      BY <1>14, <1>15, <3>3 DEF Once
  <2>4. CASE d = n + 1 /\ e = n + 1
    <3>1. q[d] = more /\ q[e] = more /\ p[d] = td
      BY <1>4, <1>5, <2>4
    <3>2. CASE k \in 1..m /\ l \in 1..m
      BY <1>2, <1>12, <1>14, <1>15, <2>4, <3>1, <3>2 DEF Once
    <3>3. CASE k = m + 1 \/ l = m + 1
      BY <1>1, <1>2, <1>11, <1>12, <2>4, <3>1, <3>3
    <3> QED
      BY <1>2, <2>4, <3>1, <3>2, <3>3
  <2> QED
    BY <1>4, <2>1, <2>2, <2>3, <2>4
<1>13. Once(q)
  BY <1>5, <1>12 DEF Once
<1> QED
  BY <1>2, <1>4, <1>5, <1>6, <1>10, <1>13 DEF OnePlan, T, q, more, v

(* A place for which a day has no room would break a limit.                *)
LEMMA DayFull ==
  ASSUME NEW ns, AreNodes(ns), NEW cs, AreConstraints(cs), NEW d \in 1..cs.days,
         NEW day \in Seq(Visits(ns)), NEW i \in Real(ns),
         Len(day) >= MaxPoiPerDay \/ ~Fits(ns, cs, WalkLimits(cs), d, day, i)
  PROVE  NoRoom(ns, cs, d, day, i)
<1> DEFINE v == Visit(ns, cs, day, i)
           longer == Append(day, v)
           n == Len(day)
           leg == Travel(ns, Where(day), i)
           now == Now(ns, cs, day)
<1>1. v \in Visits(ns) /\ v.node = i /\ v.from = now + leg
  BY VisitType DEF Visit
<1>2. /\ Price(ns, longer) = Price(ns, day) + ns[i].price
      /\ Walk(ns, longer) = Walk(ns, day) + ns[i].walk
      /\ Stay(ns, longer) = Stay(ns, day) + ns[i].dur
  BY <1>1, DayGrows
<1>3. n \in Nat /\ Len(longer) = n + 1 /\ longer[n + 1] = v
  BY <1>1
<1>4. /\ leg \in Nat /\ now \in Int /\ ns[i].dur \in Int /\ ns[i].walk \in Int
      /\ Start(cs) \in Int /\ End(cs) \in Int
  BY RealNodes, StandsAt, TravelType
<1>5. /\ Walk(ns, day) \in Int /\ Stay(ns, day) \in Int /\ WalkLimits(cs)[d] \in Int
      /\ cs.transit \in Int /\ cs.rest \in Int
  BY DaySums, WalkLimitsType DEF AreConstraints
<1> HIDE DEF v, longer, n, leg, now
<1>6. CASE n >= MaxPoiPerDay
  <2>1. n + 1 > MaxPoiPerDay
    BY <1>3, <1>6 DEF MaxPoiPerDay
  <2> QED
    BY <1>3, <2>1 DEF NoRoom, longer, v
<1>7. CASE ~Fits(ns, cs, WalkLimits(cs), d, day, i)
  <2>1. \/ ~(leg <= cs.transit)
        \/ ~(now + leg + ns[i].dur <= End(cs))
        \/ ~(Stay(ns, day) + ns[i].dur + leg + cs.rest <= End(cs) - Start(cs))
        \/ ~Affordable(cs, Price(ns, day) + ns[i].price)
        \/ ~(Walk(ns, day) + ns[i].walk <= WalkLimits(cs)[d])
    BY <1>7 DEF Fits, leg, now
  <2>2. \/ leg > cs.transit
        \/ longer[n + 1].from + ns[longer[n + 1].node].dur > End(cs)
        \/ Stay(ns, longer) + leg + cs.rest > End(cs) - Start(cs)
        \/ Walk(ns, longer) > WalkLimits(cs)[d]
        \/ ~Affordable(cs, Price(ns, longer))
    <3>1. ~(leg <= cs.transit) => leg > cs.transit
      BY <1>4, <1>5
    <3>2. ~(now + leg + ns[i].dur <= End(cs))
            => longer[n + 1].from + ns[longer[n + 1].node].dur > End(cs)
      BY <1>1, <1>3, <1>4
    <3>3. ~(Stay(ns, day) + ns[i].dur + leg + cs.rest <= End(cs) - Start(cs))
            => Stay(ns, longer) + leg + cs.rest > End(cs) - Start(cs)
      BY <1>2, <1>4, <1>5
    <3>4. ~(Walk(ns, day) + ns[i].walk <= WalkLimits(cs)[d]) => Walk(ns, longer) > WalkLimits(cs)[d]
      BY <1>2, <1>4, <1>5
    <3>5. ~Affordable(cs, Price(ns, day) + ns[i].price) => ~Affordable(cs, Price(ns, longer))
      BY <1>2
    <3> QED
      BY <2>1, <3>1, <3>2, <3>3, <3>4, <3>5
  <2> QED
    BY <1>3, <2>2 DEF NoRoom, longer, v, leg
<1> QED
  BY <1>6, <1>7 DEF n

(* No finished day has room for any of these places.                       *)
AllFull(ns, cs, ds, left) == \A d \in DOMAIN ds: \A i \in left: NoRoom(ns, cs, d, ds[d], i)

(* A visit takes places from what remains.                                 *)
LEMMA RemainingShrinks ==
  ASSUME NEW ns, NEW T, NEW ds, NEW td \in Seq(T), NEW v \in T
  PROVE  Remaining(ns, ds, Append(td, v)) \subseteq Remaining(ns, ds, td)
<1>1. /\ DOMAIN td = 1..Len(td) /\ DOMAIN Append(td, v) = 1..(Len(td) + 1)
      /\ \A k \in 1..Len(td): Append(td, v)[k] = td[k] /\ k \in 1..(Len(td) + 1)
  OBVIOUS
<1>2. Visited(td) \subseteq Visited(Append(td, v))
  BY <1>1 DEF Visited
<1> QED
  BY <1>2 DEF Remaining

(* Closing a day leaves what remains as it is.                             *)
LEMMA DayClosed ==
  ASSUME NEW ns, NEW T, NEW ds \in Seq(Seq(T)), NEW td \in Seq(T)
  PROVE  Remaining(ns, Append(ds, td), <<>>) = Remaining(ns, ds, td)
<1> DEFINE more == Append(ds, td)
           n == Len(ds)
           S == Seq(T)
<1>1. ds \in Seq(S) /\ td \in S
  OBVIOUS
<1> HIDE DEF S
<1>2. /\ n \in Nat /\ DOMAIN ds = 1..n /\ DOMAIN more = 1..(n + 1)
      /\ more[n + 1] = td /\ \A d \in 1..n: more[d] = ds[d]
  BY <1>1, DayAppended
<1> HIDE DEF more, n
<1>3. UNION {Visited(more[d]) : d \in DOMAIN more} =
        Visited(td) \cup UNION {Visited(ds[d]) : d \in DOMAIN ds}
  <2>1. \A d \in 1..(n + 1): d \in 1..n \/ d = n + 1
    BY <1>2
  <2>2. n + 1 \in 1..(n + 1) /\ \A d \in 1..n: d \in 1..(n + 1)
    BY <1>2
  <2> QED
    BY <1>2, <2>1, <2>2
<1>4. Visited(<<>>) = {}
  BY DEF Visited
<1> QED
  BY <1>3, <1>4 DEF Remaining, more

-----------------------------------------------------------------------------
(* What is written. *)

(* An activity that tells of a place and of a time.                        *)
Told(a, id, from) == {"id", "from", "why"} \subseteq DOMAIN a /\ a.id = id /\ a.from = from

(* Whatever the language model answers, an activity keeps its place and    *)
(* its time and has a reason.                                              *)
LEMMA ReasonGiven ==
  ASSUME NEW a, NEW id, NEW from, Told(a, id, from), NEW batch, NEW why
  PROVE  /\ Told(EnrichedActivity(a, why), id, from) /\ EnrichedActivity(a, why).why # ""
         /\ Told(FromBatch(a, batch, why), id, from) /\ FromBatch(a, batch, why).why # ""
<1>1. \A w: Told([a EXCEPT !.why = w], id, from) /\ [a EXCEPT !.why = w].why = w
  BY DEF Told
<1>2. Told(TemplateReason(a), id, from) /\ TemplateReason(a).why # ""
  BY <1>1 DEF TemplateReason
<1>3. Told(EnrichedActivity(a, why), id, from) /\ EnrichedActivity(a, why).why # ""
  BY <1>1, <1>2 DEF EnrichedActivity
<1>4. Told(FromBatch(a, batch, why), id, from) /\ FromBatch(a, batch, why).why # ""
  BY <1>1, <1>2, <1>3 DEF FromBatch
<1> QED
  BY <1>3, <1>4

(* The lines of a text are the visits of the day, as TextFitsPlan asks.    *)
Fitted(ns, day, lines) ==
  /\ Len(lines) = Len(day)
  /\ \A k \in DOMAIN lines: /\ lines[k].id = ns[day[k].node].id
                            /\ lines[k].from = day[k].from
                            /\ lines[k].why # ""

(* The section that is written of a day fits the day (_enrich_day_batch,   *)
(* enrich).                                                                *)
LEMMA SectionFits ==
  ASSUME NEW day, Len(day) \in Nat, DOMAIN day = 1..Len(day),
         NEW batches, NEW section \in Sections(Draft(day), batches)
  PROVE  Fitted(nodes, day, section.lines)
<1>8. PICK said, batch, offered, why: section = Section(Draft(day), said, batch, offered, why)
  BY SMT DEF Sections
<1> DEFINE n == Len(day)
           draft == Draft(day)
           Id(k) == nodes[day[k].node].id
           Begin(k) == day[k].from
           written == IF said = "json" THEN [i \in DOMAIN draft |-> FromBatch(draft[i], batch, why)]
                      ELSE draft
           lines == EnrichedDay(draft, said, batch, why)
<1>1. DOMAIN draft = 1..n /\ \A k \in 1..n: Told(draft[k], Id(k), Begin(k))
  BY DEF Draft, Told
<1> HIDE DEF draft, Id, Begin
<1>2. DOMAIN written = 1..n /\ \A k \in 1..n: Told(written[k], Id(k), Begin(k))
  BY <1>1, ReasonGiven
<1>3. said = "json" => \A k \in 1..n: written[k].why # ""
  BY <1>1, ReasonGiven
<1>4. lines = IF said = "json" /\ BatchValid(draft, batch) THEN written
              ELSE [i \in DOMAIN written |->
                      IF written[i].why = "known" THEN written[i] ELSE EnrichedActivity(written[i], why)]
  BY DEF EnrichedDay
<1>5. lines = [k \in 1..n |-> lines[k]]
  BY <1>1, <1>2, <1>4
<1> HIDE DEF written, lines
<1>6. \A k \in 1..n: Told(lines[k], Id(k), Begin(k)) /\ lines[k].why # ""
  BY <1>2, <1>3, <1>4, ReasonGiven
<1>7. Len(lines) = n /\ DOMAIN lines = 1..n
  BY <1>5
<1> QED
  BY <1>6, <1>7, <1>8 DEF Fitted, Section, Told, Id, Begin, lines, n, draft

-----------------------------------------------------------------------------
(* The invariant. *)

(* Where a request is being solved or answered.                            *)
Solving == {"greedy", "cpsat", "planned", "scheduled", "proposed", "plain"}
Answering == {"planned", "scheduled", "proposed"}

(* What there is at each stage of a request.                               *)
Shape ==
  /\ at \in {"idle", "clarify", "query", "last", "ensure", "request", "respond", "rejected"}
            \cup Solving
  /\ at \in {"query", "last", "ensure"} => turn \in Turns
  /\ ArePlaces(places)
  /\ wrote \in Nat
  /\ at \notin Answering => wrote = 0
  /\ at \notin Solving \/ at = "cpsat" => days = <<>>
  /\ at # "greedy" => today = <<>>

(* What the solver has done so far is right.                               *)
Solved ==
  /\ at \in {"request"} \cup Solving => AreConstraints(c)
  /\ at \in Solving => AreNodes(nodes) /\ OnePlan(nodes, c, days)
  /\ at = "greedy" => /\ today \in Seq(Visits(nodes))
                      /\ OnePlan(nodes, c, Append(days, today))
  /\ at \in {"greedy", "planned"} => AllFull(nodes, c, days, Remaining(nodes, days, today))
  /\ at \in {"planned", "scheduled"} => wrote < Len(days)

(* The last text is that of its day.                                       *)
TextFits == wrote > 0 => Fitted(nodes, days[wrote], text.lines)

(* Together they are kept by every step.                                   *)
IInv == Shape /\ Solved /\ TextFits /\ AttractionsSuffice

-----------------------------------------------------------------------------
(* The invariant holds before the request.                                 *)
LEMMA InitInv == Init => IInv
<1> SUFFICES ASSUME Init PROVE IInv
  OBVIOUS
<1>1. /\ at = "idle" /\ places = <<>> /\ days = <<>> /\ today = <<>> /\ wrote = 0
  BY DEF Init
<1>2. Shape
  BY <1>1, NoPlaces DEF Shape, Solving, Answering
<1>3. Solved /\ TextFits /\ AttractionsSuffice
  BY <1>1 DEF Solved, TextFits, AttractionsSuffice, Solving
<1> QED
  BY <1>2, <1>3 DEF IInv

(* A plan is begun without days, and with an empty first day.              *)
LEMMA Begun ==
  ASSUME NEW ns, NEW cs, AreConstraints(cs), AreNodes(ns)
  PROVE  /\ OnePlan(ns, cs, <<>>) /\ OnePlan(ns, cs, Append(<<>>, <<>>))
         /\ <<>> \in Seq(Visits(ns))
         /\ \A left: AllFull(ns, cs, <<>>, left)
<1>1. OnePlan(ns, cs, <<>>) /\ Len(<<>>) < cs.days
  BY EmptyPlan DEF AreConstraints
<1>2. OnePlan(ns, cs, Append(<<>>, <<>>))
  BY <1>1, DayBegun
<1> QED
  BY <1>1, <1>2 DEF AllFull

(* One step per operation. *)

(* The node starts with what was retrieved, or asks where to go.           *)
LEMMA AskInv ==
  ASSUME IInv, NEW t \in Turns, NEW s \in Searches, AskNowhere(t) \/ Ask(t, s)
  PROVE  IInv'
<1>1. CASE AskNowhere(t)
  BY <1>1 DEF AskNowhere, IInv, Shape, Solved, TextFits, AttractionsSuffice, Solving, Answering
<1>2. CASE Ask(t, s)
  <2>1. ArePlaces(Retrieved(KnowledgeBase, t, s, ByHeart)) /\ MaxKnowledge \in Nat
    BY RetrievalAssumption DEF MaxKnowledge
  <2>2. ArePlaces(places')
    BY <1>2, <2>1, FirstPlaces, ConvertedPlaces DEF Ask
  <2> QED
    BY <1>2, <2>2 DEF Ask, IInv, Shape, Solved, TextFits, AttractionsSuffice, Solving, Answering
<1> QED
  BY <1>1, <1>2

(* The search for places answers.                                          *)
LEMMA QueriedInv ==
  ASSUME IInv, NEW found, ArePlaces(found), Queried(found)
  PROVE  IInv'
<1>1. ArePlaces(places')
  BY ConvertedPlaces DEF Queried
<1> QED
  BY <1>1 DEF Queried, IInv, Shape, Solved, TextFits, AttractionsSuffice, Solving, Answering

(* The search answers in time, or raises.                                  *)
LEMMA QueryInv ==
  ASSUME IInv, at = "query", (\E w \in Worlds: Query(w)) \/ QueryRaises
  PROVE  IInv'
<1>1. ASSUME NEW w \in Worlds, Query(w) PROVE IInv'
  <2>1. turn \in Turns
    BY DEF IInv, Shape
  <2> QED
    BY <1>1, <2>1, WorldsAssumption, QueriedInv DEF Query
<1>2. CASE QueryRaises
  BY <1>2, DefaultPlaces, QueriedInv DEF QueryRaises
<1> QED
  BY <1>1, <1>2

(* AMap is the last resort.                                                *)
LEMMA LastResortInv ==
  ASSUME IInv, NEW reply \in AmapReplies, LastResort(reply)
  PROVE  IInv'
<1>1. ArePlaces(places')
  BY SupplementPlaces DEF LastResort
<1> QED
  BY <1>1 DEF LastResort, IInv, Shape, Solved, TextFits, AttractionsSuffice, Solving, Answering

(* The candidates are made up to a minimum and the request is built.       *)
LEMMA EnsureInv ==
  ASSUME IInv, NEW reply \in AmapReplies, Ensure(reply)
  PROVE  IInv'
<1>1. turn \in Turns /\ ArePlaces(places)
  BY DEF IInv, Shape, Ensure
<1>2. ArePlaces(places') /\ Suffices(places')
  BY <1>1, EnsuredPlaces DEF Ensure
<1>3. AreConstraints(c')
  BY <1>1, TripConstraints DEF Ensure
<1>4. AttractionsSuffice'
  BY <1>2 DEF AttractionsSuffice, Suffices, Unused, Ensure, MinAttractions, TravelDays
<1> QED
  BY <1>2, <1>3, <1>4
     DEF Ensure, IInv, Shape, Solved, TextFits, Solving, Answering

(* The request is solved by the service or in the node, or posted to the   *)
(* service.                                                                *)
LEMMA RequestInv ==
  ASSUME IInv, \/ SolveLocally
               \/ SolveRemotely
               \/ \E r \in Requests: Post(r) \/ Reject(r)
  PROVE  IInv'
<1>1. CASE \E r \in Requests: Reject(r)
  BY <1>1 DEF Reject, IInv, Shape, Solved, TextFits, AttractionsSuffice, Solving, Answering
<1>2. ASSUME ArePlaces(places'), AreConstraints(c'), AreNodes(nodes'), at' \in {"greedy", "cpsat"},
             wrote = 0, days = <<>>, today = <<>>, UNCHANGED <<days, today, wrote>>
      PROVE  IInv'
  <2>1. /\ OnePlan(nodes', c', <<>>) /\ OnePlan(nodes', c', Append(<<>>, <<>>))
        /\ <<>> \in Seq(Visits(nodes'))
        /\ \A left: AllFull(nodes', c', <<>>, left)
    BY <1>2, Begun
  <2> QED
    BY <1>2, <2>1 DEF IInv, Shape, Solved, TextFits, AttractionsSuffice, Solving, Answering
<1>3. CASE SolveLocally
  <2>1. AreNodes(nodes')
    BY <1>3, HotelFirst DEF SolveLocally, GreedySolve, IInv, Shape
  <2> QED
    BY <1>2, <1>3, <2>1
       DEF SolveLocally, GreedySolve, IInv, Shape, Solved, Solving, Answering
<1>4. CASE SolveRemotely
  <2>1. AreNodes(nodes')
    BY <1>4, PreprocessedNodes DEF SolveRemotely, Solve, IInv, Shape, Solved
  <2> QED
    BY <1>2, <1>4, <2>1
       DEF SolveRemotely, Solve, IInv, Shape, Solved, Solving, Answering
<1>5. ASSUME NEW r \in Requests, Post(r) PROVE IInv'
  <2>1. ArePlaces(r.places) /\ AreConstraints(r.c)
    BY RequestsAssumption
  <2>2. AreNodes(nodes')
    BY <1>5, <2>1, PreprocessedNodes DEF Post, Solve
  <2> QED
    BY <1>2, <1>5, <2>1, <2>2 DEF Post, Solve, IInv, Shape, Solving, Answering
<1> QED
  BY <1>1, <1>3, <1>4, <1>5

(* CP-SAT finds a schedule, or the heuristic fills in.                     *)
LEMMA ScheduleInv ==
  ASSUME IInv, Scheduled \/ Unscheduled \/ SchedulingRaises
  PROVE  IInv'
<1>1. /\ at = "cpsat" /\ AreNodes(nodes) /\ AreConstraints(c) /\ days = <<>> /\ today = <<>>
      /\ wrote = 0
  BY DEF Scheduled, Unscheduled, SchedulingRaises, IInv, Shape, Solved, Solving, Answering
<1>2. CASE Scheduled
  <2>1. PICK s \in Schedules(nodes, c, WalkLimits(c)): days' = Extracted(nodes, c, s)
    BY <1>2 DEF Scheduled
  <2>2. /\ days' \in [1..c.days -> Seq(Visits(nodes))]
        /\ \A d \in 1..c.days: DayKeepsLimits(nodes, c, d, days'[d])
        /\ \A d, e \in 1..c.days: \A k \in DOMAIN days'[d], l \in DOMAIN days'[e]:
             days'[d][k].node = days'[e][l].node => d = e /\ k = l
    BY <1>1, <2>1, ScheduleKeepsLimits
  <2>3. c.days \in Nat /\ c.days > 0
    BY <1>1 DEF AreConstraints
  <2>4. DOMAIN days' = 1..c.days /\ Len(days') = c.days /\ days' \in Seq(Seq(Visits(nodes)))
    BY <2>2, <2>3
  <2>5. Once(days')
    BY <2>2, <2>4 DEF Once
  <2>6. OnePlan(nodes, c, days')
    BY <2>2, <2>3, <2>4, <2>5 DEF OnePlan
  <2> QED
    BY <1>1, <1>2, <2>3, <2>4, <2>6
       DEF Scheduled, IInv, Shape, Solved, TextFits, AttractionsSuffice, Solving, Answering
<1>3. CASE Unscheduled \/ SchedulingRaises
  <2>1. /\ OnePlan(nodes, c, <<>>) /\ OnePlan(nodes, c, Append(<<>>, <<>>))
        /\ <<>> \in Seq(Visits(nodes))
        /\ \A left: AllFull(nodes, c, <<>>, left)
    BY <1>1, Begun
  <2> QED
    BY <1>1, <1>3, <2>1
       DEF Unscheduled, SchedulingRaises, IInv, Shape, Solved, TextFits, AttractionsSuffice,
           Solving, Answering
<1> QED
  BY <1>2, <1>3

(* The heuristic takes the best place that fits.                           *)
LEMMA TakeInv ==
  ASSUME IInv, NEW i \in DOMAIN nodes, Take(i)
  PROVE  IInv'
<1>1. /\ at = "greedy" /\ AreNodes(nodes) /\ AreConstraints(c) /\ today \in Seq(Visits(nodes))
      /\ OnePlan(nodes, c, days) /\ OnePlan(nodes, c, Append(days, today))
      /\ AllFull(nodes, c, days, Remaining(nodes, days, today))
  BY DEF Take, IInv, Solved, Solving
<1>2. days \in Seq(Seq(Visits(nodes)))
  BY <1>1 DEF OnePlan
<1>3. i \in Fitting
  BY DEF Take, Best
<1>4. /\ i \in Remaining(nodes, days, today) /\ Fits(nodes, c, WalkLimits(c), Len(days) + 1, today, i)
      /\ ~(Len(today) >= MaxPoiPerDay)
  BY <1>3 DEF Fitting, Left, Remaining
<1>5. Len(today) < MaxPoiPerDay
  BY <1>1, <1>4 DEF MaxPoiPerDay
<1> DEFINE v == Visit(nodes, c, today, i)
<1>6. today' \in Seq(Visits(nodes)) /\ OnePlan(nodes, c, Append(days, today'))
  BY <1>1, <1>2, <1>4, <1>5, VisitAdded DEF Take
<1>7. v \in Visits(nodes)
  BY <1>1, <1>4, VisitType DEF Remaining
<1> HIDE DEF v
<1>8. Remaining(nodes, days, Append(today, v)) \subseteq Remaining(nodes, days, today)
  BY <1>1, <1>2, <1>7, RemainingShrinks
<1>9. AllFull(nodes, c, days, Remaining(nodes, days, today'))
  BY <1>1, <1>8 DEF AllFull, Take, v
<1> QED
  BY <1>1, <1>6, <1>9
     DEF Take, IInv, Shape, Solved, TextFits, AttractionsSuffice, Solving, Answering

(* The heuristic closes a day when nothing fits any more.                  *)
LEMMA EndDayInv ==
  ASSUME IInv, EndDay
  PROVE  IInv'
<1>1. /\ at = "greedy" /\ AreNodes(nodes) /\ AreConstraints(c) /\ today \in Seq(Visits(nodes))
      /\ OnePlan(nodes, c, days) /\ OnePlan(nodes, c, Append(days, today))
      /\ AllFull(nodes, c, days, Remaining(nodes, days, today)) /\ wrote = 0
  BY DEF EndDay, IInv, Shape, Solved, Solving, Answering
<1>2. days \in Seq(Seq(Visits(nodes)))
  BY <1>1 DEF OnePlan
<1> DEFINE n == Len(days)
           left == Remaining(nodes, days, today)
<1>3. /\ n \in Nat /\ DOMAIN days = 1..n /\ DOMAIN days' = 1..(n + 1) /\ Len(days') = n + 1
      /\ days'[n + 1] = today /\ \A d \in 1..n: days'[d] = days[d]
      /\ \A d \in 1..(n + 1): d \in 1..n \/ d = n + 1
  <2> DEFINE T == Seq(Visits(nodes))
  <2>1. days \in Seq(T) /\ today \in T
    BY <1>1, <1>2
  <2> HIDE DEF T
  <2> QED
    BY <2>1, DayAppended DEF EndDay
<1>4. Remaining(nodes, days', <<>>) = left
  BY <1>1, <1>2, DayClosed DEF EndDay
<1> HIDE DEF n
<1>5. n + 1 \in 1..c.days /\ c.days \in Nat
  BY <1>1, <1>3 DEF OnePlan, AreConstraints, EndDay
<1>6. AllFull(nodes, c, days', left)
  <2>1. ASSUME NEW i \in left PROVE NoRoom(nodes, c, n + 1, today, i)
    <3>1. i \in Real(nodes) /\ i \in Left
      BY DEF Left, Remaining
    <3>2. Len(today) >= MaxPoiPerDay \/ ~Fits(nodes, c, WalkLimits(c), n + 1, today, i)
      BY <3>1 DEF EndDay, Fitting, n
    <3> QED
      BY <1>1, <1>5, <3>1, <3>2, DayFull
  <2> HIDE DEF left
  <2> QED
    BY <1>1, <1>3, <2>1 DEF AllFull, left
<1>7. OnePlan(nodes, c, days')
  BY <1>1 DEF EndDay
<1>8. n + 1 # c.days => OnePlan(nodes, c, Append(days', <<>>))
  BY <1>1, <1>3, <1>5, <1>7, DayBegun
<1>9. <<>> \in Seq(Visits(nodes))
  OBVIOUS
<1>10. wrote < n + 1
  BY <1>1, <1>3
<1> QED
  BY <1>1, <1>3, <1>4, <1>6, <1>7, <1>8, <1>9, <1>10
     DEF EndDay, IInv, Shape, Solved, TextFits, AttractionsSuffice, Solving, Answering

(* The plan is put into words.                                             *)
LEMMA WriteInv ==
  ASSUME IInv, Write \/ WritePlainly
  PROVE  IInv'
<1>1. /\ at \in {"planned", "scheduled"} /\ OnePlan(nodes, c, days) /\ wrote < Len(days)
      /\ wrote \in Nat /\ AreConstraints(c) /\ AreNodes(nodes)
  BY DEF Write, WritePlainly, IInv, Shape, Solved, Solving
<1>2. CASE Write
  <2> DEFINE day == days[wrote + 1]
  <2>1. Len(days) \in Nat /\ wrote + 1 \in DOMAIN days /\ day \in Seq(Visits(nodes))
    BY <1>1 DEF OnePlan
  <2>2. Len(day) \in Nat /\ DOMAIN day = 1..Len(day)
    BY <2>1
  <2> HIDE DEF day
  <2>3. \E batches: text' \in Sections(Draft(day), batches)
    BY <1>2 DEF Write, day
  <2>4. Fitted(nodes, day, text'.lines)
    BY <2>2, <2>3, SectionFits
  <2>5. wrote + 1 \in Nat /\ (wrote + 1 # Len(days) => wrote + 1 < Len(days)) /\ wrote + 1 > 0
    BY <1>1, <2>1
  <2> QED
    BY <1>1, <1>2, <2>4, <2>5
       DEF Write, IInv, Shape, Solved, TextFits, AttractionsSuffice, Solving, Answering, day
<1>3. CASE WritePlainly
  BY <1>1, <1>3
     DEF WritePlainly, IInv, Shape, Solved, TextFits, AttractionsSuffice, Solving, Answering
<1> QED
  BY <1>2, <1>3

(* Every step keeps the invariant.                                         *)
LEMMA NextInv == IInv /\ [Next]_vars => IInv'
<1> SUFFICES ASSUME IInv, [Next]_vars PROVE IInv'
  OBVIOUS
<1>1. CASE UNCHANGED vars
  BY <1>1 DEF vars, IInv, Shape, Solved, TextFits, AttractionsSuffice, MinAttractions, TravelDays
<1>2. CASE Next
  <2>1. ASSUME NEW t \in Turns, AskNowhere(t) PROVE IInv'
    BY <2>1 DEF AskNowhere, IInv, Shape, Solved, TextFits, AttractionsSuffice, Solving, Answering
  <2>2. ASSUME NEW t \in Turns, NEW s \in Searches, Ask(t, s) PROVE IInv'
    BY <2>2, AskInv
  <2>3. CASE \E r \in Requests: Post(r) \/ Reject(r)
    BY <2>3, RequestInv
  <2> QED
    BY <1>2, <2>1, <2>2, <2>3, QueryInv, LastResortInv, EnsureInv, RequestInv, ScheduleInv,
       TakeInv, EndDayInv, WriteInv DEF Next
<1> QED
  BY <1>1, <1>2

(* The invariant of the planner, for any places, turns, requests and       *)
(* answers of the sources it asks.                                         *)
THEOREM PlannerInductive == Spec => []IInv
<1> QED
  BY InitInv, NextInv, PTL DEF Spec

-----------------------------------------------------------------------------
(* Whatever is planned at any time is one plan.                            *)
LEMMA PlanOne ==
  ASSUME IInv
  PROVE  OnePlan(nodes, c, Plan) \/ Plan = <<>>
<1>1. CASE at \notin Solving
  BY <1>1 DEF IInv, Shape, Plan, Solving
<1>2. CASE at \in Solving
  BY <1>2 DEF IInv, Shape, Solved, Plan
<1> QED
  BY <1>1, <1>2

(* No day asks for more than the constraints and the fatigue of the        *)
(* traveller allow, and nobody is sent anywhere twice, whether the         *)
(* heuristic (_greedy_solve, solver.py:468) or CP-SAT (_extract_schedule)  *)
(* planned it, and for any places and constraints.                         *)
THEOREM LimitsKept == Spec => []PlanKeepsLimits
<1>1. IInv => PlanKeepsLimits
  <2> SUFFICES ASSUME IInv PROVE PlanKeepsLimits
    OBVIOUS
  <2>1. CASE Plan = <<>>
    <3>1. DOMAIN Plan = {}
      BY <2>1
    <3> QED
      BY <3>1 DEF PlanKeepsLimits
  <2>2. CASE OnePlan(nodes, c, Plan)
    <3>1. Once(Plan) /\ \A d \in DOMAIN Plan: DayKeepsLimits(nodes, c, d, Plan[d])
      BY <2>2 DEF OnePlan
    <3> HIDE DEF Plan
    <3> QED
      BY <3>1 DEF PlanKeepsLimits, DayKeepsLimits, Once, Ends
  <2> QED
    BY <2>1, <2>2, PlanOne
<1> QED
  BY <1>1, PlannerInductive, PTL

(* A place that the trip leaves out fits no finished day of it, although   *)
(* the heuristic never comes back to a day (_greedy_solve, solver.py:467). *)
THEOREM NoRoomLeft == Spec => []LeavesNoRoom
<1>1. IInv => LeavesNoRoom
  <2> SUFFICES ASSUME IInv, at = "planned" PROVE LeavesNoRoom
    BY DEF LeavesNoRoom
  <2>1. AllFull(nodes, c, days, Left)
    BY DEF IInv, Solved, Left, Remaining
  <2> QED
    BY <2>1 DEF LeavesNoRoom, AllFull, NoRoom, Ends
<1> QED
  BY <1>1, PlannerInductive, PTL

(* The solver is asked with enough attractions whenever enough are known,  *)
(* however the lists overlap (_ensure_sufficient_pois, node_impl.py:530).  *)
THEOREM EnoughAsked == Spec => []AttractionsSuffice
<1> QED
  BY PlannerInductive, PTL DEF IInv

(* The text of a day is the day, with a reason for every visit, whatever   *)
(* the language model says or leaves out (writer.py:263).                  *)
THEOREM TextFitting == Spec => []TextFitsPlan
<1>1. IInv => TextFitsPlan
  BY DEF IInv, TextFits, Fitted, TextFitsPlan
<1> QED
  BY <1>1, PlannerInductive, PTL
=============================================================================
