------------------------- MODULE OutageBufferProofs -------------------------
(***************************************************************************)
(* Proofs about OutageBuffer, for any batches, bounds, delays, answers and *)
(* timeouts of a close: its type invariant, its safety invariants and      *)
(* action properties, and that it implements BatchCustody.                 *)
(***************************************************************************)
EXTENDS OutageBuffer, Sums, SequenceTheorems

(***************************************************************************)
(* Doubling a delay: the recursion has a solution, and it is a natural     *)
(* number.  Induction is by the least number for which a statement fails.  *)
(***************************************************************************)
LEMMA LeastNat ==
    ASSUME NEW S \in SUBSET Nat, S # {}
    PROVE  \E m \in S : \A k \in S : m <= k
<1>1. PICK m \in S : \A k \in S : <<k, m>> \notin OpToRel(<, Nat)
  BY NatLessThanWellFounded, WFMin
<1>2. \A k \in S : ~(k < m)
  BY <1>1 DEF OpToRel
<1> QED
  BY <1>2

Stepped(previous, limit) ==
    IF previous >= limit THEN previous ELSE Smaller(2 * previous, limit)

\* The delays of the first attempts.
Chain(g, n, limit) ==
    /\ g \in [1..n -> Nat]
    /\ \A k \in 1..n : g[k] = IF k = 1 THEN RetryBaseDelay ELSE Stepped(g[k - 1], limit)

LEMMA ChainExists ==
    ASSUME NEW limit \in Nat, NEW n \in Nat
    PROVE  \E g : Chain(g, n, limit)
<1> DEFINE Bad == {m \in Nat : ~\E g : Chain(g, m, limit)}
<1>1. ASSUME Bad # {} PROVE FALSE
  <2>1. PICK m \in Bad : \A k \in Bad : m <= k
    <3> HIDE DEF Bad
    <3>1. Bad \in SUBSET Nat
      BY DEF Bad
    <3> QED
      BY <1>1, <3>1, LeastNat
  <2>2. m # 0
    <3>1. Chain([k \in 1..0 |-> 0], 0, limit)
      BY DEF Chain
    <3> QED
      BY <2>1, <3>1
  <2>3. m - 1 \in Nat /\ m - 1 \notin Bad
    BY <2>1, <2>2
  <2>4. PICK g : Chain(g, m - 1, limit)
    BY <2>3
  <2> DEFINE last == IF m = 1 THEN RetryBaseDelay ELSE Stepped(g[m - 1], limit)
             h == [k \in 1..m |-> IF k = m THEN last ELSE g[k]]
  <2>5. last \in Nat
    <3>1. RetryBaseDelay \in Nat /\ limit \in Nat
      BY BufferAssumption
    <3>2. m # 1 => g[m - 1] \in Nat
      BY <2>2, <2>4 DEF Chain
    <3>3. \A d \in Nat : Stepped(d, limit) \in Nat
      BY <3>1 DEF Stepped, Smaller
    <3> QED
      BY <3>1, <3>2, <3>3
  <2>6. \A k \in 1..m : h[k] = IF k = 1 THEN RetryBaseDelay ELSE Stepped(h[k - 1], limit)
    <3> SUFFICES ASSUME NEW k \in 1..m
                 PROVE  h[k] = IF k = 1 THEN RetryBaseDelay ELSE Stepped(h[k - 1], limit)
      <4> HIDE DEF h
      <4> QED OBVIOUS
    <3>1. k # 1 => h[k - 1] = g[k - 1]
      OBVIOUS
    <3>2. k # m => k \in 1..(m - 1)
      BY <2>2
    <3>3. k # m => h[k] = g[k]
      OBVIOUS
    <3>4. k # m => g[k] = IF k = 1 THEN RetryBaseDelay ELSE Stepped(g[k - 1], limit)
      BY <2>4, <3>2 DEF Chain
    <3>5. h[m] = last
      BY <2>2
    <3> HIDE DEF h
    <3> QED
      BY <3>1, <3>3, <3>4, <3>5
  <2>7. h \in [1..m -> Nat]
    BY <2>2, <2>4, <2>5 DEF Chain
  <2>8. Chain(h, m, limit)
    <3> HIDE DEF h
    <3> QED
      BY <2>6, <2>7 DEF Chain
  <2> QED
    BY <2>1, <2>8
<1> QED
  BY <1>1

LEMMA ChainsAgree ==
    ASSUME NEW limit, NEW m \in Nat, NEW n \in Nat, NEW g, Chain(g, m, limit),
           NEW h, Chain(h, n, limit), NEW k \in 1..m, k <= n
    PROVE  g[k] = h[k]
<1> DEFINE Bad == {j \in Nat : j \in 1..m /\ j <= n /\ g[j] # h[j]}
<1>1. ASSUME Bad # {} PROVE FALSE
  <2>1. PICK j \in Bad : \A i \in Bad : j <= i
    <3> HIDE DEF Bad
    <3>1. Bad \in SUBSET Nat
      BY DEF Bad
    <3> QED
      BY <1>1, <3>1, LeastNat
  <2>2. /\ g[j] = IF j = 1 THEN RetryBaseDelay ELSE Stepped(g[j - 1], limit)
        /\ h[j] = IF j = 1 THEN RetryBaseDelay ELSE Stepped(h[j - 1], limit)
    BY <2>1 DEF Chain
  <2>3. j # 1 => j - 1 \in Nat /\ j - 1 \notin Bad
    BY <2>1
  <2>4. j # 1 => g[j - 1] = h[j - 1]
    BY <2>1, <2>3
  <2> QED
    BY <2>1, <2>2, <2>4
<1> QED
  BY <1>1

LEMMA DoubledNat ==
    ASSUME NEW limit \in Nat, NEW attempt \in Nat
    PROVE  Doubled(attempt, limit) \in Nat
<1> DEFINE Recursion(d) ==
               d = [n \in Nat \ {0} |->
                       IF n = 1 THEN RetryBaseDelay
                       ELSE IF d[n - 1] >= limit THEN d[n - 1]
                       ELSE Smaller(2 * d[n - 1], limit)]
           Pick(n) == CHOOSE g : Chain(g, n, limit)
           all == [n \in Nat \ {0} |-> Pick(n)[n]]
<1>1. \A n \in Nat : Chain(Pick(n), n, limit)
  <2> SUFFICES ASSUME NEW n \in Nat
               PROVE  Chain(Pick(n), n, limit)
    OBVIOUS
  <2>1. \E g : Chain(g, n, limit)
    BY ChainExists
  <2> QED
    BY <2>1
<1>2. ASSUME NEW n \in Nat \ {0}
      PROVE  all[n] = IF n = 1 THEN RetryBaseDelay ELSE Stepped(all[n - 1], limit)
  <2>1. Pick(n)[n] = IF n = 1 THEN RetryBaseDelay ELSE Stepped(Pick(n)[n - 1], limit)
    <3> HIDE DEF Pick
    <3> QED
      BY <1>1 DEF Chain
  <2>2. n # 1 => Pick(n)[n - 1] = Pick(n - 1)[n - 1]
    <3>1. n # 1 => n - 1 \in Nat \ {0}
      OBVIOUS
    <3> HIDE DEF Pick
    <3>2. n # 1 => Chain(Pick(n - 1), n - 1, limit) /\ Chain(Pick(n), n, limit)
      BY <1>1, <3>1
    <3>3. n # 1 => n - 1 \in 1..n /\ n - 1 <= n - 1
      BY <3>1
    <3> QED
      BY <3>1, <3>2, <3>3, ChainsAgree
  <2>3. all[n] = Pick(n)[n] /\ (n # 1 => all[n - 1] = Pick(n - 1)[n - 1])
    <3> HIDE DEF Pick
    <3> QED
      OBVIOUS
  <2> HIDE DEF all, Pick
  <2> QED
    BY <2>1, <2>2, <2>3
<1>3. Recursion(all)
  <2>1. all = [n \in Nat \ {0} |-> all[n]]
    <3> HIDE DEF Pick
    <3> QED OBVIOUS
  <2>2. \A n \in Nat \ {0} : all[n] = IF n = 1 THEN RetryBaseDelay
                                     ELSE IF all[n - 1] >= limit THEN all[n - 1]
                                     ELSE Smaller(2 * all[n - 1], limit)
    <3> HIDE DEF all
    <3> QED
      BY <1>2 DEF Stepped
  <2> HIDE DEF all
  <2> QED
    BY <2>1, <2>2
<1>4. \E d : Recursion(d)
  BY <1>3
<1> DEFINE delay == CHOOSE d : Recursion(d)
<1>5. Recursion(delay)
  <2> HIDE DEF Recursion
  <2> QED
    BY <1>4
<1>6. \A n \in Nat \ {0} : delay[n] = IF n = 1 THEN RetryBaseDelay
                                     ELSE IF delay[n - 1] >= limit THEN delay[n - 1]
                                     ELSE Smaller(2 * delay[n - 1], limit)
  <2> HIDE DEF delay
  <2> QED
    BY <1>5, Zenon
<1> DEFINE Bad == {n \in Nat : n # 0 /\ delay[n] \notin Nat}
<1>7. ASSUME Bad # {} PROVE FALSE
  <2>1. PICK m \in Bad : \A k \in Bad : m <= k
    <3> HIDE DEF Bad
    <3>1. Bad \in SUBSET Nat
      BY DEF Bad
    <3> QED
      BY <1>7, <3>1, LeastNat
  <2> HIDE DEF delay
  <2>2. m # 1
    BY <1>6, <2>1, BufferAssumption
  <2>3. m - 1 \in Nat \ {0} /\ m - 1 \notin Bad
    BY <2>1, <2>2
  <2>4. delay[m - 1] \in Nat
    BY <2>3
  <2>5. delay[m] = IF delay[m - 1] >= limit THEN delay[m - 1] ELSE Smaller(2 * delay[m - 1], limit)
    BY <1>6, <2>1, <2>2
  <2> QED
    BY <2>1, <2>4, <2>5 DEF Smaller
<1>8. Doubled(attempt, limit) = delay[Larger(1, attempt)]
  BY DEF Doubled
<1>9. Larger(1, attempt) \in Nat \ {0}
  BY DEF Larger
<1> HIDE DEF delay
<1> QED
  BY <1>7, <1>8, <1>9

(***************************************************************************)
(* Only.                                                                   *)
(***************************************************************************)
\* Different places of only are different places of queue.
Selects(only, queue) ==
    \A m, n \in DOMAIN only :
       \E i, j \in DOMAIN queue :
           /\ only[m] = queue[i] /\ only[n] = queue[j]
           /\ i = j => m = n

LEMMA OnlyKeeps ==
    ASSUME NEW S, NEW queue \in Seq(S), NEW items
    PROVE  LET only == Only(queue, items) IN
           /\ only \in Seq(S)
           /\ Range(only) = Range(queue) \cap items
           /\ Len(only) <= Len(queue)
           /\ Selects(only, queue)
<1> DEFINE kept  == {i \in DOMAIN queue : queue[i] \in items}
           At(n) == CHOOSE i \in kept : Rank(kept, i) = n
           k     == Cardinality(kept)
           only  == Only(queue, items)
<1>1. only = [n \in 1..k |-> queue[At(n)]]
  BY DEF Only, Rank
<1>2. kept \in SUBSET Nat /\ kept \subseteq 1..Len(queue)
  OBVIOUS
<1>3. IsFiniteSet(kept) /\ k <= Len(queue)
  <2>0. Len(queue) \in Nat
    OBVIOUS
  <2> DEFINE D == 1..Len(queue)
  <2>1. IsFiniteSet(D) /\ Cardinality(D) = Len(queue)
    BY <2>0, UpToFinite
  <2>2. kept \in SUBSET D
    BY <1>2
  <2> HIDE DEF kept, D
  <2>3. IsFiniteSet(kept) /\ Cardinality(kept) <= Cardinality(D)
    BY <2>1, <2>2, FS_Subset
  <2> QED
    BY <2>1, <2>3
<1>4. /\ k \in Nat
      /\ \A n \in 1..k : \E i \in kept : Rank(kept, i) = n
      /\ \A i \in kept : Rank(kept, i) \in 1..k
      /\ \A i, j \in kept : Rank(kept, i) = Rank(kept, j) => i = j
  <2> HIDE DEF kept
  <2> QED
    BY <1>2, <1>3, RankIsBijective
<1>5. \A n \in 1..k : At(n) \in kept /\ Rank(kept, At(n)) = n
  <2> HIDE DEF kept
  <2> QED
    BY <1>4
<1>6. \A i \in kept : At(Rank(kept, i)) = i
  <2> HIDE DEF kept, At
  <2> QED
    BY <1>4, <1>5
<1>7. \A n \in 1..k : queue[At(n)] \in S
  <2>1. \A i \in kept : queue[i] \in S
    BY ElementOfSeq
  <2> HIDE DEF kept, At, k
  <2> QED
    BY <1>5, <2>1
<1>8. only \in Seq(S) /\ Len(only) = k /\ DOMAIN only = 1..k
  <2> HIDE DEF only, At, k
  <2>1. only \in [1..k -> S]
    BY <1>1, <1>7
  <2> QED
    BY <1>4, <2>1, IsASeq, LenProperties
<1>9. Range(only) = Range(queue) \cap items
  <2>1. ASSUME NEW x \in Range(only)
        PROVE  x \in Range(queue) \cap items
    <3>1. PICK n \in 1..k : x = queue[At(n)]
      <4> HIDE DEF At, k, only
      <4> QED
        BY <1>1, <1>8 DEF Range
    <3> HIDE DEF At
    <3> QED
      BY <1>5, <3>1 DEF Range
  <2>2. ASSUME NEW x \in Range(queue), x \in items
        PROVE  x \in Range(only)
    <3>1. PICK i \in DOMAIN queue : x = queue[i]
      BY DEF Range
    <3>2. i \in kept
      BY <2>2, <3>1
    <3>3. Rank(kept, i) \in 1..k /\ At(Rank(kept, i)) = i
      <4> HIDE DEF kept, At, k
      <4> QED
        BY <1>4, <1>6, <3>2
    <3>4. only[Rank(kept, i)] = x
      <4> HIDE DEF kept, At, k, only
      <4> QED
        BY <1>1, <3>1, <3>3
    <3> HIDE DEF only, k, kept
    <3> QED
      BY <1>8, <3>3, <3>4 DEF Range
  <2> HIDE DEF only
  <2> QED
    BY <2>1, <2>2
<1>10. ASSUME NEW m \in DOMAIN only, NEW n \in DOMAIN only
       PROVE  \E i, j \in DOMAIN queue : only[m] = queue[i] /\ only[n] = queue[j] /\ (i = j => m = n)
  <2>1. m \in 1..k /\ n \in 1..k
    BY <1>8, <1>10
  <2>2. At(m) \in DOMAIN queue /\ At(n) \in DOMAIN queue /\ (At(m) = At(n) => m = n)
    <3>1. At(m) \in kept /\ At(n) \in kept /\ Rank(kept, At(m)) = m /\ Rank(kept, At(n)) = n
      <4> HIDE DEF At, kept, k
      <4> QED
        BY <1>5, <2>1
    <3> HIDE DEF At
    <3> QED
      BY <3>1
  <2>3. only[m] = queue[At(m)] /\ only[n] = queue[At(n)]
    <3> HIDE DEF At, kept, k, only
    <3> QED
      BY <1>1, <2>1
  <2> HIDE DEF At, only
  <2> QED
    BY <2>2, <2>3
<1>11. Len(only) <= Len(queue)
  BY <1>3, <1>8
<1>12. Selects(only, queue)
  <2> HIDE DEF only
  <2> QED
    BY <1>10 DEF Selects
<1> HIDE DEF only
<1> QED
  BY <1>8, <1>9, <1>11, <1>12 DEF only

(***************************************************************************)
(* The totals of a buffer are sums over its batches.                       *)
(***************************************************************************)
BatchesOf(items) == {x.batch : x \in items}

\* No two items of a set are of one batch.
Apart(items) == \A x, y \in items : x.batch = y.batch => x = y

Total(F, batches) == SumFunctionOnSet(F, batches)

WeightIn(F, items) == MapThenSumSet(LAMBDA x : F[x.batch], items)

SolvesWeight(F, S, g) ==
    g = [s \in SUBSET S |-> IF s = {} THEN 0 ELSE F[Chosen(s).batch] + g[s \ {Chosen(s)}]]

LEMMA WeightIsSum ==
    ASSUME NEW F, NEW S
    PROVE  WeightIn(F, S) = SumFunctionOnSet([x \in S |-> F[x.batch]], S)
<1> DEFINE f == [x \in S |-> F[x.batch]]
<1>1. WeightIn(F, S) = (CHOOSE g : SolvesWeight(F, S, g))[S]
  BY DEF MapThenFoldSet, WeightIn, MapThenSumSet, SolvesWeight, Chosen
<1>2. ASSUME NEW g
      PROVE  SolvesWeight(F, S, g) <=> Solves(f, S, g)
  <2>1. \A s \in SUBSET S :
            (IF s = {} THEN 0 ELSE F[Chosen(s).batch] + g[s \ {Chosen(s)}])
          = (IF s = {} THEN 0 ELSE f[Chosen(s)] + g[s \ {Chosen(s)}])
    BY ChosenIn
  <2> QED
    BY <2>1 DEF Solves, FoldOf, SolvesWeight
<1>3. (CHOOSE g : SolvesWeight(F, S, g)) = (CHOOSE g : Solves(f, S, g))
  <2> HIDE DEF f
  <2> QED
    BY <1>2
<1> QED
  BY <1>1, <1>3, SumIsFold

LEMMA BatchesOfFinite ==
    ASSUME NEW S, IsFiniteSet(S)
    PROVE  /\ IsFiniteSet(BatchesOf(S))
           /\ Apart(S) => Cardinality(BatchesOf(S)) = Cardinality(S)
<1> DEFINE batch == [x \in S |-> x.batch]
<1>1. batch \in Surjection(S, BatchesOf(S))
  BY DEF Surjection, BatchesOf
<1>2. Apart(S) => batch \in Injection(S, BatchesOf(S))
  BY DEF Injection, IsInjective, Apart, BatchesOf
<1> HIDE DEF batch
<1> QED
  BY <1>1, <1>2, FS_Surjection

LEMMA WeightOfBatches ==
    ASSUME NEW F, NEW S, IsFiniteSet(S), Apart(S), \A x \in S : F[x.batch] \in Int
    PROVE  WeightIn(F, S) = Total(F, BatchesOf(S))
<1> DEFINE Bad == {T \in SUBSET S : WeightIn(F, T) # Total(F, BatchesOf(T))}
<1>1. ASSUME Bad # {} PROVE FALSE
  <2>1. PICK T \in Bad : \A U \in SUBSET T : U # T => U \notin Bad
    <3> HIDE DEF Bad
    <3>1. Bad \in SUBSET SUBSET S
      BY DEF Bad
    <3> QED
      BY <1>1, <3>1, SmallestSubset
  <2>2. T # {}
    <3>1. BatchesOf({}) = {}
      BY DEF BatchesOf
    <3>2. WeightIn(F, {}) = 0
      BY WeightIsSum, SumEmpty
    <3>3. Total(F, {}) = 0
      BY SumEmpty DEF Total
    <3> QED
      BY <2>1, <3>1, <3>2, <3>3
  <2> DEFINE c == Chosen(T)
             U == T \ {c}
             f == [x \in T |-> F[x.batch]]
             fU == [x \in U |-> F[x.batch]]
  <2>3. c \in T /\ IsFiniteSet(T) /\ IsFiniteSet(U)
    BY <2>2, ChosenIn, FS_Subset
  <2>4. WeightIn(F, U) = Total(F, BatchesOf(U))
    BY <2>1, <2>3
  <2>5. WeightIn(F, T) = WeightIn(F, U) + F[c.batch]
    <3>1. \A x \in T : f[x] \in Int
      OBVIOUS
    <3>2. SumFunctionOnSet(f, T) = SumFunctionOnSet(f, U) + f[c]
      <4> HIDE DEF f, c
      <4> QED
        BY <2>3, <3>1, SumRemove
    <3>3. \A x \in U : f[x] = fU[x]
      OBVIOUS
    <3>4. SumFunctionOnSet(f, U) = SumFunctionOnSet(fU, U)
      <4> HIDE DEF f, fU, U
      <4> QED
        BY <2>3, <3>3, SumAgree
    <3>5. WeightIn(F, T) = SumFunctionOnSet(f, T) /\ WeightIn(F, U) = SumFunctionOnSet(fU, U)
      <4> HIDE DEF U
      <4> QED
        BY WeightIsSum
    <3>6. f[c] = F[c.batch]
      <4> HIDE DEF c
      <4> QED
        BY <2>3
    <3> HIDE DEF f, fU, c, U
    <3> QED
      BY <3>2, <3>4, <3>5, <3>6
  <2>6. Total(F, BatchesOf(T)) = Total(F, BatchesOf(U)) + F[c.batch]
    <3>1. BatchesOf(T) = BatchesOf(U) \cup {c.batch}
      <4> HIDE DEF c
      <4> QED
        BY <2>3 DEF BatchesOf
    <3>2. c.batch \notin BatchesOf(U)
      <4> HIDE DEF c
      <4> QED
        BY <2>3 DEF BatchesOf, Apart
    <3>3. IsFiniteSet(BatchesOf(U))
      <4> HIDE DEF U
      <4> QED
        BY <2>3, BatchesOfFinite
    <3>4. F[c.batch] \in Int /\ \A b \in BatchesOf(U) : F[b] \in Int
      <4> HIDE DEF c
      <4> QED
        BY <2>3 DEF BatchesOf
    <3> HIDE DEF c, U
    <3> QED
      BY <3>1, <3>2, <3>3, <3>4, SumAdd DEF Total
  <2> HIDE DEF c, U
  <2> QED
    BY <2>1, <2>4, <2>5, <2>6
<1>2. S \notin Bad
  BY <1>1
<1> QED
  BY <1>2

LEMMA BatchesFinite == Batches \in SUBSET Nat /\ IsFiniteSet(Batches) /\ 0 \notin Batches
<1>1. IsFiniteSet(Batches) /\ Batches = 1..Cardinality(Batches)
  BY BufferAssumption
<1>2. Cardinality(Batches) \in Nat
  BY <1>1, FS_CardinalityType
<1>3. \A b \in 1..Cardinality(Batches) : b \in Nat /\ b # 0
  BY <1>2
<1> QED
  BY <1>1, <1>3

LEMMA TotalMinus ==
    ASSUME NEW F \in [Batches -> Nat], NEW B \in SUBSET Batches, NEW C \in SUBSET B
    PROVE  /\ Total(F, B) \in Nat /\ Total(F, C) \in Nat /\ Total(F, B \ C) \in Nat
           /\ Total(F, B \ C) = Total(F, B) - Total(F, C)
<1>1. IsFiniteSet(B) /\ IsFiniteSet(C) /\ IsFiniteSet(B \ C)
  BY BatchesFinite, FS_Subset
<1>2. \A b \in B : F[b] \in Nat /\ F[b] \in Int
  OBVIOUS
<1>3. Total(F, B) \in Nat /\ Total(F, C) \in Nat /\ Total(F, B \ C) \in Nat
  BY <1>1, <1>2, SumNat DEF Total
<1>4. C \cup (B \ C) = B /\ C \cap (B \ C) = {}
  OBVIOUS
<1>5. Total(F, B) = Total(F, C) + Total(F, B \ C)
  BY <1>1, <1>2, <1>4, SumUnion DEF Total
<1> QED
  BY <1>3, <1>5

LEMMA TotalPlus ==
    ASSUME NEW F \in [Batches -> Nat], NEW B \in SUBSET Batches, NEW b \in Batches, b \notin B
    PROVE  Total(F, B \cup {b}) = Total(F, B) + F[b] /\ Total(F, B) \in Nat /\ F[b] \in Nat
<1>1. IsFiniteSet(B)
  BY BatchesFinite, FS_Subset
<1>2. F[b] \in Int /\ \A a \in B : F[a] \in Nat /\ F[a] \in Int
  OBVIOUS
<1> QED
  BY <1>1, <1>2, SumAdd, SumNat DEF Total

\* CountOf is what BatchCustody counts with.
LEMMA CountIsTotal == \A B : CountOf(B) = Total(EventCount, B)
BY DEF SumFunctionOnSet, FoldFunctionOnSet, MapThenFoldSet, CountOf, MapThenSumSet, Total

LEMMA ItemsWeigh ==
    ASSUME NEW S \in SUBSET Item, IsFiniteSet(S), Apart(S)
    PROVE  /\ EventsIn(S) = Total(EventCount, BatchesOf(S))
           /\ BytesIn(S) = Total(EstimatedBytes, BatchesOf(S))
           /\ BatchesOf(S) \in SUBSET Batches
<1>1. \A x \in S : x.batch \in Batches
  BY DEF Item
<1>2. \A x \in S : EventCount[x.batch] \in Int /\ EstimatedBytes[x.batch] \in Int
  <2>1. \A b \in Batches : EventCount[b] \in Int /\ EstimatedBytes[b] \in Int
    BY BufferAssumption
  <2> QED
    BY <1>1, <2>1
<1>3. EventsIn(S) = WeightIn(EventCount, S) /\ BytesIn(S) = WeightIn(EstimatedBytes, S)
  BY DEF EventsIn, BytesIn, WeightIn
<1>4. WeightIn(EventCount, S) = Total(EventCount, BatchesOf(S))
  BY <1>2, WeightOfBatches
<1>5. WeightIn(EstimatedBytes, S) = Total(EstimatedBytes, BatchesOf(S))
  BY <1>2, WeightOfBatches
<1> QED
  BY <1>1, <1>3, <1>4, <1>5 DEF BatchesOf

(***************************************************************************)
(* What is always true of the buffer: it holds no batch twice, its totals  *)
(* are those of its batches, and its three bounds hold.                    *)
(***************************************************************************)
BufferRecord == [queue : Seq(Item), events : Int, bytes : Int, dropped : Nat]

Distinct(queue) == \A i, j \in DOMAIN queue : queue[i].batch = queue[j].batch => i = j

Within(buffer) ==
    /\ Len(buffer.queue) <= RetryQueueSize
    /\ buffer.events <= BufferMaxEvents
    /\ buffer.bytes <= BufferMaxBytes

Good(buffer) ==
    /\ buffer \in BufferRecord
    /\ Distinct(buffer.queue)
    /\ buffer.events = Total(EventCount, BatchesOf(Range(buffer.queue)))
    /\ buffer.bytes = Total(EstimatedBytes, BatchesOf(Range(buffer.queue)))
    /\ Within(buffer)

InBuffer(buffer) == BatchesOf(Range(buffer.queue))

LEMMA QueueRange ==
    ASSUME NEW queue \in Seq(Item), Distinct(queue)
    PROVE  /\ Range(queue) \in SUBSET Item
           /\ IsFiniteSet(Range(queue))
           /\ Apart(Range(queue))
           /\ Len(queue) = Cardinality(Range(queue))
           /\ Len(queue) = Cardinality(BatchesOf(Range(queue)))
           /\ BatchesOf(Range(queue)) \in SUBSET Batches
           /\ \A i, j \in DOMAIN queue : queue[i] = queue[j] => i = j
<1>1. DOMAIN queue = 1..Len(queue) /\ Len(queue) \in Nat /\ \A i \in DOMAIN queue : queue[i] \in Item
  BY ElementOfSeq
<1>2. IsFiniteSet(DOMAIN queue) /\ Cardinality(DOMAIN queue) = Len(queue)
  BY <1>1, UpToFinite
<1>3. \A i, j \in DOMAIN queue : queue[i] = queue[j] => i = j
  BY DEF Distinct
<1>4. queue \in [DOMAIN queue -> Range(queue)]
  BY DEF Range
<1>5. queue \in Surjection(DOMAIN queue, Range(queue))
  BY <1>4 DEF Surjection, Range
<1>6. queue \in Injection(DOMAIN queue, Range(queue))
  BY <1>3, <1>4 DEF Injection, IsInjective
<1>7. IsFiniteSet(Range(queue)) /\ Cardinality(Range(queue)) = Len(queue)
  BY <1>2, <1>5, <1>6, FS_Surjection
<1>8. Apart(Range(queue))
  BY DEF Apart, Distinct, Range
<1>9. Range(queue) \in SUBSET Item
  BY <1>1 DEF Range
<1>10. BatchesOf(Range(queue)) \in SUBSET Batches
  BY <1>9 DEF BatchesOf, Item
<1> QED
  BY <1>3, <1>7, <1>8, <1>9, <1>10, BatchesOfFinite

\* A part of the queue.
LEMMA OnlyDistinct ==
    ASSUME NEW queue \in Seq(Item), Distinct(queue), NEW items \in SUBSET Range(queue)
    PROVE  LET only == Only(queue, Range(queue) \ items) IN
           /\ only \in Seq(Item)
           /\ Distinct(only)
           /\ Range(only) = Range(queue) \ items
           /\ BatchesOf(Range(only)) = BatchesOf(Range(queue)) \ BatchesOf(items)
           /\ BatchesOf(items) \in SUBSET BatchesOf(Range(queue))
           /\ Len(only) <= Len(queue)
<1> DEFINE only == Only(queue, Range(queue) \ items)
<1>1. /\ only \in Seq(Item)
      /\ Range(only) = Range(queue) \cap (Range(queue) \ items)
      /\ Len(only) <= Len(queue)
      /\ Selects(only, queue)
  BY OnlyKeeps
<1>2. Distinct(only)
  <2> HIDE DEF only
  <2> QED
    BY <1>1 DEF Distinct, Selects
<1>3. Apart(Range(queue))
  BY QueueRange
<1>4. Range(only) = Range(queue) \ items
  <2> HIDE DEF only
  <2> QED
    BY <1>1
<1>5. /\ BatchesOf(Range(only)) = BatchesOf(Range(queue)) \ BatchesOf(items)
      /\ BatchesOf(items) \in SUBSET BatchesOf(Range(queue))
  <2> HIDE DEF only
  <2>1. BatchesOf(Range(queue) \ items) = BatchesOf(Range(queue)) \ BatchesOf(items)
    <3>1. ASSUME NEW b \in BatchesOf(Range(queue) \ items)
          PROVE  b \in BatchesOf(Range(queue)) \ BatchesOf(items)
      BY <1>3, <3>1 DEF BatchesOf, Apart
    <3>2. ASSUME NEW b \in BatchesOf(Range(queue)), b \notin BatchesOf(items)
          PROVE  b \in BatchesOf(Range(queue) \ items)
      BY <3>2 DEF BatchesOf
    <3> QED
      BY <3>1, <3>2
  <2>2. BatchesOf(items) \in SUBSET BatchesOf(Range(queue))
    BY DEF BatchesOf
  <2> QED
    BY <1>4, <2>1, <2>2
<1> HIDE DEF only
<1> QED
  BY <1>1, <1>2, <1>4, <1>5 DEF only

\* Of the batches of a buffer and those that came to it, each that is not in it
\* afterwards is counted as dropped.
Follows(old, new, came) ==
    /\ Good(new)
    /\ InBuffer(new) \subseteq InBuffer(old) \cup came
    /\ new.dropped = old.dropped + Total(EventCount, (InBuffer(old) \cup came) \ InBuffer(new))

LEMMA GoodNow ==
    ASSUME NEW buffer, Good(buffer)
    PROVE  /\ buffer.queue \in Seq(Item) /\ buffer.events \in Nat /\ buffer.bytes \in Nat
           /\ buffer.dropped \in Nat
           /\ InBuffer(buffer) \in SUBSET Batches
<1>1. /\ buffer.queue \in Seq(Item) /\ buffer.events \in Int /\ buffer.bytes \in Int
      /\ buffer.dropped \in Nat
  BY DEF Good, BufferRecord
<1>2. InBuffer(buffer) \in SUBSET Batches
  BY <1>1, QueueRange DEF Good, InBuffer
<1>3. EventCount \in [Batches -> Nat] /\ EstimatedBytes \in [Batches -> Nat]
  BY BufferAssumption
<1> QED
  BY <1>1, <1>2, <1>3, TotalMinus DEF Good, InBuffer

\* The fields of a buffer.
LEMMA BufferFields ==
    ASSUME NEW queue \in Seq(Item), NEW events \in Int, NEW bytes \in Int, NEW dropped \in Nat
    PROVE  [queue |-> queue, events |-> events, bytes |-> bytes, dropped |-> dropped]
              \in BufferRecord
BY DEF BufferRecord

LEMMA WithoutGood ==
    ASSUME NEW buffer, Good(buffer), NEW items \in SUBSET Range(buffer.queue)
    PROVE  LET new == Without(buffer, items) IN
           /\ Good(new)
           /\ Range(new.queue) = Range(buffer.queue) \ items
           /\ InBuffer(new) = InBuffer(buffer) \ BatchesOf(items)
           /\ Follows(buffer, new, {})
           /\ new.events <= buffer.events /\ new.bytes <= buffer.bytes
<1> DEFINE queue == buffer.queue
           only  == Only(queue, Range(queue) \ items)
           R     == Range(queue)
           gone  == BatchesOf(items)
           new   == Without(buffer, items)
<1>1. queue \in Seq(Item) /\ Distinct(queue)
  BY GoodNow DEF Good
<1>2. R \in SUBSET Item /\ IsFiniteSet(R) /\ Apart(R) /\ BatchesOf(R) \in SUBSET Batches
  BY <1>1, QueueRange
<1>3. items \in SUBSET Item /\ IsFiniteSet(items) /\ Apart(items)
  BY <1>2, FS_Subset DEF Apart
<1>4. /\ EventsIn(items) = Total(EventCount, gone)
      /\ BytesIn(items) = Total(EstimatedBytes, gone)
  BY <1>3, ItemsWeigh
<1>5. /\ only \in Seq(Item) /\ Distinct(only) /\ Range(only) = R \ items
      /\ BatchesOf(Range(only)) = BatchesOf(R) \ gone
      /\ gone \in SUBSET BatchesOf(R)
      /\ Len(only) <= Len(queue)
  BY <1>1, OnlyDistinct
<1>6. EventCount \in [Batches -> Nat] /\ EstimatedBytes \in [Batches -> Nat]
  BY BufferAssumption
<1> DEFINE all == BatchesOf(R)
<1>7. /\ Total(EventCount, all) \in Nat /\ Total(EventCount, gone) \in Nat
      /\ Total(EventCount, all \ gone) \in Nat
      /\ Total(EventCount, all \ gone) = Total(EventCount, all) - Total(EventCount, gone)
      /\ Total(EstimatedBytes, all) \in Nat /\ Total(EstimatedBytes, gone) \in Nat
      /\ Total(EstimatedBytes, all \ gone) \in Nat
      /\ Total(EstimatedBytes, all \ gone) = Total(EstimatedBytes, all) - Total(EstimatedBytes, gone)
  <2> HIDE DEF gone, all
  <2>1. all \in SUBSET Batches /\ gone \in SUBSET all
    BY <1>2, <1>5 DEF all
  <2> QED
    BY <1>6, <2>1, TotalMinus
<1>8. /\ buffer.events = Total(EventCount, all) /\ buffer.bytes = Total(EstimatedBytes, all)
      /\ Within(buffer)
  BY DEF Good
<1>9. buffer.dropped \in Nat
  BY GoodNow
<1>10. new = [queue |-> only, events |-> Total(EventCount, all \ gone),
              bytes |-> Total(EstimatedBytes, all \ gone),
              dropped |-> buffer.dropped + Total(EventCount, gone)]
  <2>1. new = [queue |-> only, events |-> buffer.events - EventsIn(items),
               bytes |-> buffer.bytes - BytesIn(items),
               dropped |-> buffer.dropped + EventsIn(items)]
    BY DEF Without
  <2> HIDE DEF new, only, all, gone
  <2> QED
    BY <1>4, <1>7, <1>8, <2>1
<1>11. /\ new.queue = only /\ new.events = Total(EventCount, all \ gone)
       /\ new.bytes = Total(EstimatedBytes, all \ gone)
       /\ new.dropped = buffer.dropped + Total(EventCount, gone)
       /\ new \in BufferRecord
  <2> HIDE DEF new, only, all, gone
  <2> QED
    BY <1>5, <1>7, <1>9, <1>10, BufferFields
<1>12. new.events <= buffer.events /\ new.bytes <= buffer.bytes /\ Within(new)
  <2>1. BufferMaxEvents \in Nat /\ BufferMaxBytes \in Nat /\ RetryQueueSize \in Nat
    BY BufferAssumption
  <2>2. Len(only) \in Nat /\ Len(queue) \in Nat
    BY <1>1, <1>5, LenProperties
  <2> HIDE DEF new, only, all, gone
  <2> QED
    BY <1>5, <1>7, <1>8, <1>11, <2>1, <2>2 DEF Within
<1>13. InBuffer(new) = all \ gone /\ InBuffer(buffer) = all
  <2> HIDE DEF new, only, gone
  <2> QED
    BY <1>5, <1>11 DEF InBuffer
<1>14. Good(new)
  <2> HIDE DEF new, only, gone, all
  <2> QED
    BY <1>5, <1>11, <1>12, <1>13 DEF Good, InBuffer
<1>15. (all \cup {}) \ (all \ gone) = gone
  BY <1>5
<1> HIDE DEF new, only, gone, all
<1>16. Follows(buffer, new, {})
  BY <1>11, <1>13, <1>14, <1>15 DEF Follows
<1> QED
  BY <1>5, <1>11, <1>12, <1>13, <1>14, <1>16 DEF new, gone

LEMMA FollowsTwice ==
    ASSUME NEW old, Good(old), NEW middle, Follows(old, middle, {}),
           NEW came \in SUBSET Batches, came \cap InBuffer(old) = {},
           NEW new, Follows(middle, new, came)
    PROVE  Follows(old, new, came)
<1> DEFINE A == InBuffer(old)
           M == InBuffer(middle)
           N == InBuffer(new)
           first  == (A \cup {}) \ M
           second == (M \cup came) \ N
           both   == (A \cup came) \ N
<1>1. /\ Good(middle) /\ M \subseteq A \cup {} /\ middle.dropped = old.dropped + Total(EventCount, first)
      /\ Good(new) /\ N \subseteq M \cup came /\ new.dropped = middle.dropped + Total(EventCount, second)
  BY DEF Follows
<1>2. A \in SUBSET Batches /\ M \in SUBSET Batches /\ N \in SUBSET Batches /\ old.dropped \in Nat
  <2> HIDE DEF A, M, N
  <2> QED
    BY <1>1, GoodNow DEF A, M, N
<1>3. first \in SUBSET Batches /\ second \in SUBSET both /\ both \in SUBSET Batches /\ both \ second = first
  <2> HIDE DEF A, M, N
  <2>1. A \cap came = {}
    BY DEF A
  <2>2. M \subseteq A /\ N \subseteq M \cup came
    BY <1>1
  <2>3. both \ second = first
    BY <2>1, <2>2
  <2> QED
    BY <1>2, <2>1, <2>2, <2>3
<1>4. EventCount \in [Batches -> Nat]
  BY BufferAssumption
<1>5. /\ Total(EventCount, both) \in Nat /\ Total(EventCount, second) \in Nat
      /\ Total(EventCount, first) = Total(EventCount, both) - Total(EventCount, second)
  <2> HIDE DEF first, second, both
  <2> QED
    BY <1>3, <1>4, TotalMinus
<1>6. new.dropped = old.dropped + Total(EventCount, both)
  <2> HIDE DEF first, second, both
  <2> QED
    BY <1>1, <1>2, <1>5
<1>7. N \subseteq A \cup came
  BY <1>1
<1> QED
  BY <1>1, <1>6, <1>7 DEF Follows

LEMMA TotalOne ==
    ASSUME NEW b \in Batches
    PROVE  Total(EventCount, {b}) = EventCount[b] /\ Total(EventCount, {}) = 0 /\ EventCount[b] \in Nat
<1>1. EventCount \in [Batches -> Nat]
  BY BufferAssumption
<1>2. Total(EventCount, {}) = 0
  BY SumEmpty DEF Total
<1>3. {} \in SUBSET Batches /\ {} \cup {b} = {b}
  OBVIOUS
<1>4. Total(EventCount, {} \cup {b}) = Total(EventCount, {}) + EventCount[b] /\ EventCount[b] \in Nat
  BY <1>1, <1>3, TotalPlus
<1> QED
  BY <1>2, <1>3, <1>4

LEMMA RefusingGood ==
    ASSUME NEW buffer, Good(buffer), NEW item \in Item, item.batch \notin InBuffer(buffer)
    PROVE  LET new == Refusing(buffer, item) IN
           /\ new.queue = buffer.queue
           /\ Follows(buffer, new, {item.batch})
<1> DEFINE new == Refusing(buffer, item)
<1>1. item.batch \in Batches
  BY DEF Item
<1>2. buffer \in BufferRecord
  BY DEF Good
<1>3. EventCount[item.batch] \in Nat /\ Total(EventCount, {item.batch}) = EventCount[item.batch]
  BY <1>1, TotalOne
<1>4. /\ new \in BufferRecord /\ new.queue = buffer.queue /\ new.events = buffer.events
      /\ new.bytes = buffer.bytes /\ new.dropped = buffer.dropped + EventCount[item.batch]
  BY <1>2, <1>3 DEF Refusing, BufferRecord
<1> HIDE DEF new
<1>5. Good(new) /\ InBuffer(new) = InBuffer(buffer)
  BY <1>4 DEF Good, Within, InBuffer
<1>6. (InBuffer(buffer) \cup {item.batch}) \ InBuffer(new) = {item.batch}
  BY <1>5
<1>7. Follows(buffer, new, {item.batch})
  BY <1>3, <1>4, <1>5, <1>6 DEF Follows
<1> QED
  BY <1>4, <1>7 DEF new

Changed(buffer, queue, events, bytes) ==
    [buffer EXCEPT !.queue = queue, !.events = events, !.bytes = bytes]

LEMMA BufferChanged ==
    ASSUME NEW buffer \in BufferRecord, NEW queue \in Seq(Item), NEW events \in Int, NEW bytes \in Int,
           NEW new, new = Changed(buffer, queue, events, bytes)
    PROVE  /\ new \in BufferRecord /\ new.queue = queue /\ new.events = events
           /\ new.bytes = bytes /\ new.dropped = buffer.dropped
BY DEF BufferRecord, Changed

LEMMA AppendedGood ==
    ASSUME NEW buffer, Good(buffer), NEW item \in Item, item.batch \notin InBuffer(buffer),
           Fits(buffer, item)
    PROVE  LET new == Appended(buffer, item) IN
           /\ Range(new.queue) = Range(buffer.queue) \cup {item}
           /\ new.queue # << >>
           /\ Follows(buffer, new, {item.batch})
<1> DEFINE new   == Appended(buffer, item)
           queue == buffer.queue
           longer == Append(queue, item)
           b     == item.batch
<1>1. b \in Batches
  BY DEF Item
<1>2. /\ buffer \in BufferRecord /\ queue \in Seq(Item) /\ Distinct(queue)
      /\ buffer.events = Total(EventCount, InBuffer(buffer))
      /\ buffer.bytes = Total(EstimatedBytes, InBuffer(buffer))
      /\ InBuffer(buffer) \in SUBSET Batches
  BY GoodNow DEF Good, InBuffer
<1>3. EventCount \in [Batches -> Nat] /\ EstimatedBytes \in [Batches -> Nat]
  BY BufferAssumption
<1>4. /\ new \in BufferRecord /\ new.queue = longer
      /\ new.events = buffer.events + EventCount[b]
      /\ new.bytes = buffer.bytes + EstimatedBytes[b]
      /\ new.dropped = buffer.dropped
  <2>1. longer \in Seq(Item)
    BY <1>2, AppendProperties
  <2>2. EventCount[b] \in Int /\ EstimatedBytes[b] \in Int
    BY <1>1, <1>3
  <2>3. buffer.events \in Int /\ buffer.bytes \in Int
    BY <1>2 DEF BufferRecord
  <2> DEFINE events == buffer.events + EventCount[b]
             bytes  == buffer.bytes + EstimatedBytes[b]
  <2>4. events \in Int /\ bytes \in Int
    <3> HIDE DEF b
    <3> QED
      BY <2>2, <2>3
  <2>5. new = Changed(buffer, longer, events, bytes)
    BY DEF Appended, Changed
  <2> HIDE DEF new, longer, events, bytes
  <2>6. /\ new \in BufferRecord /\ new.queue = longer /\ new.events = events
        /\ new.bytes = bytes /\ new.dropped = buffer.dropped
    BY <1>2, <2>1, <2>4, <2>5, BufferChanged
  <2> QED
    BY <2>6 DEF events, bytes
<1>5. /\ Len(longer) = Len(queue) + 1 /\ longer \in Seq(Item) /\ longer # << >>
      /\ \A i \in 1..Len(queue) : longer[i] = queue[i]
      /\ longer[Len(queue) + 1] = item
      /\ DOMAIN longer = 1..(Len(queue) + 1) /\ DOMAIN queue = 1..Len(queue) /\ Len(queue) \in Nat
  BY <1>2, AppendProperties, LenProperties
<1>6. Range(longer) = Range(queue) \cup {item}
  <2> HIDE DEF longer, queue
  <2>1. \A i \in DOMAIN longer : i \in DOMAIN queue \/ i = Len(queue) + 1
    BY <1>5
  <2>2. \A i \in DOMAIN queue : i \in DOMAIN longer
    BY <1>5
  <2>3. Len(queue) + 1 \in DOMAIN longer
    BY <1>5
  <2> QED
    BY <1>5, <2>1, <2>2, <2>3 DEF Range
<1>7. Distinct(longer)
  <2> SUFFICES ASSUME NEW i \in DOMAIN longer, NEW j \in DOMAIN longer,
                      longer[i].batch = longer[j].batch
               PROVE  i = j
    BY DEF Distinct
  <2> HIDE DEF longer, queue
  <2>1. \A m \in DOMAIN queue : queue[m].batch # b
    BY DEF InBuffer, BatchesOf, Range, queue
  <2>2. i \in DOMAIN queue \/ i = Len(queue) + 1
    BY <1>5
  <2>3. j \in DOMAIN queue \/ j = Len(queue) + 1
    BY <1>5
  <2> QED
    BY <1>2, <1>5, <2>1, <2>2, <2>3 DEF Distinct
<1>8. InBuffer(new) = InBuffer(buffer) \cup {b}
  <2> HIDE DEF new, longer
  <2> QED
    BY <1>4, <1>6 DEF InBuffer, BatchesOf
<1>9. /\ new.events = Total(EventCount, InBuffer(new))
      /\ new.bytes = Total(EstimatedBytes, InBuffer(new))
  <2> HIDE DEF new, b, longer, queue
  <2>1. b \notin InBuffer(buffer) /\ InBuffer(buffer) \in SUBSET Batches
    BY <1>2 DEF b
  <2>2. /\ Total(EventCount, InBuffer(new)) = Total(EventCount, InBuffer(buffer)) + EventCount[b]
        /\ Total(EstimatedBytes, InBuffer(new)) = Total(EstimatedBytes, InBuffer(buffer)) + EstimatedBytes[b]
    BY <1>1, <1>3, <1>8, <2>1, TotalPlus
  <2> QED
    BY <1>2, <1>4, <2>2
<1>10. Within(new)
  <2>1. RetryQueueSize \in Nat
    BY BufferAssumption
  <2> HIDE DEF new, longer
  <2> QED
    BY <1>4, <1>5, <2>1 DEF Within, Fits
<1>11. Good(new)
  <2> HIDE DEF new, longer
  <2> QED
    BY <1>4, <1>7, <1>9, <1>10 DEF Good, InBuffer
<1>12. Follows(buffer, new, {b})
  <2> HIDE DEF new, b
  <2>1. (InBuffer(buffer) \cup {b}) \ InBuffer(new) = {}
    BY <1>8
  <2>2. new.dropped = buffer.dropped + 0
    BY <1>2, <1>4 DEF BufferRecord
  <2> QED
    BY <1>1, <1>8, <1>11, <2>1, <2>2, TotalOne DEF Follows
<1> HIDE DEF new, longer
<1> QED
  BY <1>4, <1>5, <1>6, <1>12 DEF new

LEMMA TakenGood ==
    ASSUME NEW buffer, Good(buffer), NEW item \in Range(buffer.queue)
    PROVE  LET new == Taken(buffer, item) IN
           /\ Good(new)
           /\ Range(new.queue) = Range(buffer.queue) \ {item}
           /\ InBuffer(new) = InBuffer(buffer) \ {item.batch}
           /\ item.batch \in InBuffer(buffer) /\ item \in Item
           /\ new.dropped = buffer.dropped
<1> DEFINE new   == Taken(buffer, item)
           queue == buffer.queue
           only  == Only(queue, Range(queue) \ {item})
           b     == item.batch
<1>1. /\ buffer \in BufferRecord /\ queue \in Seq(Item) /\ Distinct(queue)
      /\ buffer.events = Total(EventCount, InBuffer(buffer))
      /\ buffer.bytes = Total(EstimatedBytes, InBuffer(buffer))
      /\ InBuffer(buffer) \in SUBSET Batches
      /\ Within(buffer)
  BY GoodNow DEF Good, InBuffer
<1>2. EventCount \in [Batches -> Nat] /\ EstimatedBytes \in [Batches -> Nat]
  BY BufferAssumption
<1>3. BatchesOf({item}) = {b} /\ {item} \in SUBSET Range(queue)
  BY DEF BatchesOf
<1>4. /\ only \in Seq(Item) /\ Distinct(only) /\ Range(only) = Range(queue) \ {item}
      /\ BatchesOf(Range(only)) = BatchesOf(Range(queue)) \ BatchesOf({item})
      /\ BatchesOf({item}) \in SUBSET BatchesOf(Range(queue))
      /\ Len(only) <= Len(queue)
  BY <1>1, <1>3, OnlyDistinct
<1>5. b \in Batches /\ item \in Item /\ b \in InBuffer(buffer)
  <2>1. item \in Item
    BY <1>1, QueueRange
  <2> QED
    BY <1>3, <1>4, <2>1 DEF InBuffer, Item
<1>6. EventCount[b] \in Int /\ EstimatedBytes[b] \in Int
  BY <1>2, <1>5
<1>7. /\ new \in BufferRecord /\ new.queue = only
      /\ new.events = buffer.events - EventCount[b]
      /\ new.bytes = buffer.bytes - EstimatedBytes[b]
      /\ new.dropped = buffer.dropped
  <2>1. buffer.events \in Int /\ buffer.bytes \in Int
    BY <1>1 DEF BufferRecord
  <2> DEFINE events == buffer.events - EventCount[b]
             bytes  == buffer.bytes - EstimatedBytes[b]
  <2>2. events \in Int /\ bytes \in Int
    <3> HIDE DEF b
    <3> QED
      BY <1>6, <2>1
  <2>3. new = Changed(buffer, only, events, bytes)
    BY DEF Taken, Changed
  <2> HIDE DEF new, only, events, bytes
  <2>4. /\ new \in BufferRecord /\ new.queue = only /\ new.events = events
        /\ new.bytes = bytes /\ new.dropped = buffer.dropped
    BY <1>1, <1>4, <2>2, <2>3, BufferChanged
  <2> QED
    BY <2>4 DEF events, bytes
<1>8. InBuffer(new) = InBuffer(buffer) \ {b}
  <2> HIDE DEF new, only, b
  <2> QED
    BY <1>3, <1>4, <1>7 DEF InBuffer
<1> DEFINE rest == InBuffer(buffer) \ {b}
<1>9. rest \in SUBSET Batches /\ rest \cup {b} = InBuffer(buffer) /\ b \notin rest
  <2> HIDE DEF b
  <2> QED
    BY <1>1, <1>5
<1>10. /\ Total(EventCount, rest \cup {b}) = Total(EventCount, rest) + EventCount[b]
       /\ Total(EstimatedBytes, rest \cup {b}) = Total(EstimatedBytes, rest) + EstimatedBytes[b]
       /\ Total(EventCount, rest) \in Nat /\ Total(EstimatedBytes, rest) \in Nat
       /\ EventCount[b] \in Nat /\ EstimatedBytes[b] \in Nat
  <2> HIDE DEF b, rest
  <2> QED
    BY <1>2, <1>5, <1>9, TotalPlus
<1>11. new.events = Total(EventCount, rest) /\ new.bytes = Total(EstimatedBytes, rest)
  <2>1. /\ buffer.events = Total(EventCount, rest) + EventCount[b]
        /\ buffer.bytes = Total(EstimatedBytes, rest) + EstimatedBytes[b]
    BY <1>1, <1>9, <1>10
  <2>2. new.events = buffer.events - EventCount[b] /\ new.bytes = buffer.bytes - EstimatedBytes[b]
    BY <1>7
  <2> HIDE DEF new, b, rest
  <2> QED
    BY <1>10, <2>1, <2>2
<1>12. Within(new)
  <2>1. /\ RetryQueueSize \in Nat /\ BufferMaxEvents \in Nat /\ BufferMaxBytes \in Nat
    BY BufferAssumption
  <2>2. Len(only) \in Nat /\ Len(queue) \in Nat
    BY <1>1, <1>4, LenProperties
  <2>3. new.events <= buffer.events /\ new.bytes <= buffer.bytes
    <3>1. /\ buffer.events = Total(EventCount, rest) + EventCount[b]
          /\ buffer.bytes = Total(EstimatedBytes, rest) + EstimatedBytes[b]
      BY <1>1, <1>9, <1>10
    <3> HIDE DEF new, b, rest
    <3> QED
      BY <1>10, <1>11, <3>1
  <2>4. new.events \in Int /\ new.bytes \in Int /\ buffer.events \in Int /\ buffer.bytes \in Int
    BY <1>1, <1>7 DEF BufferRecord
  <2>5. Len(new.queue) <= Len(queue)
    BY <1>4, <1>7
  <2>6. Len(new.queue) \in Nat
    BY <1>7, <2>2
  <2> HIDE DEF new, only, b, rest
  <2> QED
    BY <1>1, <2>1, <2>2, <2>3, <2>4, <2>5, <2>6 DEF Within
<1>13. Good(new)
  <2> HIDE DEF new, only, b
  <2> QED
    BY <1>4, <1>7, <1>8, <1>11, <1>12 DEF Good, InBuffer
<1> HIDE DEF new, only
<1> QED
  BY <1>4, <1>5, <1>7, <1>8, <1>13 DEF new

(***************************************************************************)
(* Eviction: the batches that go are no younger than those that stay, and  *)
(* when all have gone, every batch that is not too large fits.             *)
(***************************************************************************)
OldestGo(old, new) ==
    \A x \in Range(old.queue) \ Range(new.queue), y \in Range(old.queue) \cap Range(new.queue) :
        x.bufferedAt <= y.bufferedAt

LEMMA OldestAreOld ==
    ASSUME NEW queue \in Seq(Item), Distinct(queue), NEW n \in Int
    PROVE  /\ TheOldest(queue, n) \in SUBSET Range(queue)
           /\ \A x \in TheOldest(queue, n), y \in Range(queue) \ TheOldest(queue, n) :
                 x.bufferedAt <= y.bufferedAt
           /\ n = Len(queue) => TheOldest(queue, n) = Range(queue)
<1> DEFINE R == Range(queue)
           Before(x) == {y \in R : Precedes(queue, y, x)}
<1>1. R \in SUBSET Item /\ IsFiniteSet(R) /\ Len(queue) = Cardinality(R) /\ Len(queue) \in Nat
  BY QueueRange, LenProperties
<1>2. \A x \in R : x.bufferedAt \in Int
  BY <1>1 DEF Item
<1>3. \A x \in R : IsFiniteSet(Before(x)) /\ Cardinality(Before(x)) \in Nat
  BY <1>1, FS_Subset, FS_CardinalityType
<1>4. TheOldest(queue, n) = {x \in R : Cardinality(Before(x)) < n}
  BY DEF TheOldest
<1>5. ASSUME NEW x \in TheOldest(queue, n), NEW y \in R \ TheOldest(queue, n)
      PROVE  x.bufferedAt <= y.bufferedAt
  <2> SUFFICES ASSUME ~(x.bufferedAt <= y.bufferedAt)
               PROVE  FALSE
    OBVIOUS
  <2>1. x \in R /\ y \in R
    BY <1>4, <1>5
  <2>2. y.bufferedAt < x.bufferedAt
    BY <1>2, <2>1
  <2>3. Before(y) \in SUBSET Before(x)
    BY <1>2, <2>1, <2>2 DEF Precedes
  <2>4. Cardinality(Before(y)) <= Cardinality(Before(x))
    <3> HIDE DEF Before
    <3> QED
      BY <1>3, <2>1, <2>3, FS_Subset
  <2>5. Cardinality(Before(x)) < n
    BY <1>4, <1>5
  <2>6. ~(Cardinality(Before(y)) < n)
    BY <1>4, <1>5
  <2> HIDE DEF Before
  <2> QED
    BY <1>3, <2>1, <2>4, <2>5, <2>6
<1>6. ASSUME n = Len(queue), NEW x \in R
      PROVE  Cardinality(Before(x)) < n
  <2>1. \A i, j \in DOMAIN queue : queue[i] = queue[j] => i = j
    BY QueueRange
  <2>2. x \notin Before(x)
    <3>1. DOMAIN queue = 1..Len(queue)
      BY LenProperties
    <3>2. ~(x.bufferedAt < x.bufferedAt)
      BY <1>2
    <3>3. ~\E i, j \in DOMAIN queue : i < j /\ queue[i] = x /\ queue[j] = x
      BY <2>1, <3>1
    <3> QED
      BY <3>2, <3>3 DEF Precedes
  <2>3. Before(x) \in SUBSET (R \ {x})
    BY <2>2
  <2>4. IsFiniteSet(R \ {x}) /\ Cardinality(R \ {x}) = Cardinality(R) - 1
    BY <1>1, <1>6, FS_RemoveElement
  <2>5. Cardinality(Before(x)) <= Cardinality(R \ {x})
    <3> HIDE DEF Before
    <3> QED
      BY <2>3, <2>4, FS_Subset
  <2> HIDE DEF Before
  <2> QED
    BY <1>1, <1>3, <1>6, <2>4, <2>5
<1>7. TheOldest(queue, n) \in SUBSET R
  BY <1>4
<1>8. n = Len(queue) => TheOldest(queue, n) = R
  <2> HIDE DEF Before, R
  <2> QED
    BY <1>4, <1>6
<1> QED
  BY <1>5, <1>7, <1>8

LEMMA MinIsLeast ==
    ASSUME NEW S \in SUBSET Nat, S # {}
    PROVE  Min(S) \in S /\ \A k \in S : Min(S) <= k
<1>1. \E m \in S : \A k \in S : m <= k
  BY LeastNat
<1> QED
  BY <1>1 DEF Min

LEMMA RoomIsMade ==
    ASSUME NEW buffer, Good(buffer), NEW item \in Item, ~TooLarge(item)
    PROVE  LET new == WithRoomFor(buffer, item) IN
           /\ Follows(buffer, new, {})
           /\ Range(new.queue) \subseteq Range(buffer.queue)
           /\ OldestGo(buffer, new)
           /\ Fits(new, item)
<1> DEFINE queue    == buffer.queue
           After(n) == Without(buffer, TheOldest(queue, n))
           Enough   == {n \in 0..Len(queue) : Fits(After(n), item)}
           m        == Min(Enough \cup {Len(queue)})
           new      == WithRoomFor(buffer, item)
<1>1. queue \in Seq(Item) /\ Distinct(queue) /\ Len(queue) \in Nat
  BY GoodNow, LenProperties DEF Good
<1>2. ASSUME NEW n \in Int
      PROVE  /\ Follows(buffer, After(n), {})
             /\ Range(After(n).queue) = Range(queue) \ TheOldest(queue, n)
             /\ OldestGo(buffer, After(n))
  <2>1. TheOldest(queue, n) \in SUBSET Range(queue)
    BY <1>1, OldestAreOld
  <2>2. /\ Follows(buffer, After(n), {})
        /\ Range(After(n).queue) = Range(queue) \ TheOldest(queue, n)
    BY <2>1, WithoutGood
  <2>3. \A x \in TheOldest(queue, n), y \in Range(queue) \ TheOldest(queue, n) :
            x.bufferedAt <= y.bufferedAt
    BY <1>1, OldestAreOld
  <2>4. OldestGo(buffer, After(n))
    <3> HIDE DEF After
    <3> QED
      BY <2>2, <2>3 DEF OldestGo
  <2> QED
    BY <2>2, <2>4
<1>3. Fits(After(Len(queue)), item)
  <2> DEFINE empty == After(Len(queue))
  <2>1. Range(empty.queue) = {}
    <3>1. TheOldest(queue, Len(queue)) = Range(queue)
      BY <1>1, OldestAreOld
    <3>2. Len(queue) \in Int
      BY <1>1
    <3>3. Range(empty.queue) = Range(queue) \ TheOldest(queue, Len(queue))
      BY <1>2, <3>2
    <3> HIDE DEF empty
    <3> QED
      BY <3>1, <3>3
  <2>2. Good(empty)
    <3>1. Len(queue) \in Int
      BY <1>1
    <3>2. Follows(buffer, empty, {})
      BY <1>2, <3>1
    <3> HIDE DEF empty
    <3> QED
      BY <3>2 DEF Follows
  <2> HIDE DEF empty
  <2>3. BatchesOf(Range(empty.queue)) = {}
    BY <2>1 DEF BatchesOf
  <2>4. Len(empty.queue) = 0
    <3>1. empty.queue \in Seq(Item) /\ Distinct(empty.queue)
      BY <2>2, GoodNow DEF Good
    <3>2. Len(empty.queue) = Cardinality(Range(empty.queue))
      BY <3>1, QueueRange
    <3> QED
      BY <2>1, <3>2, FS_EmptySet
  <2>5. empty.events = 0 /\ empty.bytes = 0
    BY <2>2, <2>3, SumEmpty DEF Good, Total
  <2>6. EventCount[item.batch] \in Nat /\ EstimatedBytes[item.batch] \in Nat
    <3>1. item.batch \in Batches
      BY DEF Item
    <3> QED
      BY <3>1, BufferAssumption
  <2>7. EventCount[item.batch] <= BufferMaxEvents /\ EstimatedBytes[item.batch] <= BufferMaxBytes
    <3>1. BufferMaxEvents \in Nat /\ BufferMaxBytes \in Nat
      BY BufferAssumption
    <3> QED
      BY <2>6, <3>1 DEF TooLarge
  <2>8. RetryQueueSize \in Nat \ {0}
    BY BufferAssumption
  <2>9. Fits(empty, item)
    BY <2>4, <2>5, <2>6, <2>7, <2>8 DEF Fits
  <2> QED
    BY <2>9 DEF empty
<1>4. Enough \cup {Len(queue)} \in SUBSET Nat /\ Len(queue) \in Enough
  <2> HIDE DEF After, queue
  <2> QED
    BY <1>1, <1>3
<1>5. m \in Enough
  <2> HIDE DEF Enough, queue
  <2>1. Enough \cup {Len(queue)} # {}
    OBVIOUS
  <2>2. m \in Enough \cup {Len(queue)}
    BY <1>4, <2>1, MinIsLeast
  <2> HIDE DEF m
  <2> QED
    BY <1>4, <2>2
<1>6. m \in Int /\ Fits(After(m), item)
  <2> HIDE DEF m, After, queue
  <2> QED
    BY <1>1, <1>5
<1>7. new = After(m)
  BY DEF WithRoomFor
<1>8. /\ Follows(buffer, After(m), {})
      /\ Range(After(m).queue) = Range(queue) \ TheOldest(queue, m)
      /\ OldestGo(buffer, After(m))
  <2> HIDE DEF m, After
  <2> QED
    BY <1>2, <1>6
<1>9. /\ Follows(buffer, new, {})
      /\ Range(new.queue) \subseteq Range(queue)
      /\ OldestGo(buffer, new)
      /\ Fits(new, item)
  <2> HIDE DEF m, After, new, queue
  <2> QED
    BY <1>6, <1>7, <1>8
<1> QED
  BY <1>9

\* The oldest of some items of the queue is one of them.
LEMMA OldestIsOne ==
    ASSUME NEW queue \in Seq(Item), Distinct(queue), NEW items \in SUBSET Range(queue), items # {}
    PROVE  OldestOf(queue, items) \in items
<1>1. /\ Range(queue) \in SUBSET Item /\ DOMAIN queue = 1..Len(queue) /\ Len(queue) \in Nat
  BY QueueRange, LenProperties
<1>2. \A x \in items : x.bufferedAt \in Nat
  BY <1>1 DEF Item
<1> DEFINE Ages == {x.bufferedAt : x \in items}
<1>3. PICK a \in Ages : \A k \in Ages : a <= k
  <2>1. Ages \in SUBSET Nat /\ Ages # {}
    BY <1>2
  <2> HIDE DEF Ages
  <2> QED
    BY <2>1, LeastNat
<1> DEFINE Places == {i \in DOMAIN queue : queue[i] \in items /\ queue[i].bufferedAt = a}
<1>4. PICK i \in Places : \A j \in Places : i <= j
  <2>1. PICK x \in items : x.bufferedAt = a
    BY <1>3
  <2>2. \E j \in DOMAIN queue : queue[j] = x
    BY <2>1 DEF Range
  <2>3. Places \in SUBSET Nat /\ Places # {}
    BY <1>1, <2>1, <2>2
  <2> HIDE DEF Places
  <2> QED
    BY <2>3, LeastNat
<1> DEFINE x == queue[i]
<1>5. x \in items /\ x.bufferedAt = a /\ i \in DOMAIN queue
  BY <1>4
<1>6. ASSUME NEW y \in items \ {x}
      PROVE  Precedes(queue, x, y)
  <2>1. a <= y.bufferedAt /\ a \in Nat /\ y.bufferedAt \in Nat
    BY <1>2, <1>3, <1>5
  <2>2. CASE a < y.bufferedAt
    BY <1>5, <2>2 DEF Precedes
  <2>3. CASE a = y.bufferedAt
    <3>1. PICK j \in DOMAIN queue : queue[j] = y
      BY DEF Range
    <3>2. j \in Places
      BY <2>3, <3>1
    <3>3. i <= j /\ i # j
      BY <1>4, <3>1, <3>2
    <3>4. i < j
      BY <1>1, <1>5, <3>3
    <3> QED
      BY <1>5, <2>3, <3>1, <3>4 DEF Precedes
  <2> QED
    BY <2>1, <2>2, <2>3
<1>7. \E z \in items : \A y \in items \ {z} : Precedes(queue, z, y)
  <2> HIDE DEF x
  <2> QED
    BY <1>5, <1>6
<1> QED
  BY <1>7 DEF OldestOf

(***************************************************************************)
(* Aging and buffering.                                                    *)
(***************************************************************************)
LEMMA FollowsItself ==
    ASSUME NEW buffer, Good(buffer)
    PROVE  Follows(buffer, buffer, {})
<1>1. (InBuffer(buffer) \cup {}) \ InBuffer(buffer) = {}
  OBVIOUS
<1>2. buffer.dropped = buffer.dropped + 0
  BY GoodNow
<1>3. Total(EventCount, {}) = 0
  BY SumEmpty DEF Total
<1> QED
  BY <1>1, <1>2, <1>3 DEF Follows

LEMMA AgedGood ==
    ASSUME NEW buffer, Good(buffer), now \in Int, recovery \in BOOLEAN
    PROVE  LET new == Aged(buffer) IN
           /\ Follows(buffer, new, {})
           /\ Range(new.queue) \subseteq Range(buffer.queue)
           /\ OldestGo(buffer, new)
           /\ recovery => new = buffer
<1>1. CASE recovery
  <2>1. Aged(buffer) = buffer
    BY <1>1 DEF Aged
  <2>2. OldestGo(buffer, buffer)
    BY DEF OldestGo
  <2> QED
    BY <2>1, <2>2, FollowsItself
<1>2. CASE ~recovery
  <2> DEFINE old == {x \in Range(buffer.queue) : Expired(x)}
             new == Aged(buffer)
  <2>1. new = Without(buffer, old)
    BY <1>2 DEF Aged, Pruned
  <2>2. old \in SUBSET Range(buffer.queue)
    OBVIOUS
  <2>3. Follows(buffer, new, {}) /\ Range(new.queue) = Range(buffer.queue) \ old
    <3> HIDE DEF old, new
    <3> QED
      BY <2>1, <2>2, WithoutGood
  <2>4. \A x \in Range(buffer.queue) : x.bufferedAt \in Int
    <3>1. Range(buffer.queue) \in SUBSET Item
      BY GoodNow, QueueRange DEF Good
    <3> QED
      BY <3>1 DEF Item
  <2>5. BufferMaxAge \in Int
    BY BufferAssumption
  <2>6. \A x \in old, y \in Range(buffer.queue) \ old : x.bufferedAt <= y.bufferedAt
    BY <2>4, <2>5 DEF Expired
  <2>7. OldestGo(buffer, new)
    <3> HIDE DEF new, old
    <3> QED
      BY <2>3, <2>6 DEF OldestGo
  <2> HIDE DEF new
  <2> QED
    BY <1>2, <2>3, <2>7 DEF new
<1> QED
  BY <1>1, <1>2

\* One step after another, in which nothing but the item may be added.
LEMMA OldestGoTwice ==
    ASSUME NEW old, NEW middle, NEW new, NEW item,
           OldestGo(old, middle), OldestGo(middle, new),
           Range(middle.queue) \subseteq Range(old.queue),
           Range(new.queue) \subseteq Range(middle.queue) \cup {item},
           item \notin Range(old.queue)
    PROVE  OldestGo(old, new)
<1> SUFFICES ASSUME NEW x \in Range(old.queue) \ Range(new.queue),
                    NEW y \in Range(old.queue) \cap Range(new.queue)
             PROVE  x.bufferedAt <= y.bufferedAt
  BY DEF OldestGo
<1>1. y \in Range(middle.queue)
  OBVIOUS
<1>2. CASE x \in Range(middle.queue)
  BY <1>1, <1>2 DEF OldestGo
<1>3. CASE x \notin Range(middle.queue)
  BY <1>1, <1>3 DEF OldestGo
<1> QED
  BY <1>2, <1>3

LEMMA EnqueuedGood ==
    ASSUME NEW buffer, Good(buffer), NEW item \in Item, item.batch \notin InBuffer(buffer),
           now \in Int, recovery \in BOOLEAN
    PROVE  LET new == Enqueued(buffer, item) IN
           /\ Follows(buffer, new, {item.batch})
           /\ OldestGo(buffer, new)
           /\ recovery /\ buffer.queue # << >> => new.queue # << >>
<1> DEFINE new   == Enqueued(buffer, item)
           aged  == Aged(buffer)
           roomy == WithRoomFor(aged, item)
<1>0. {item.batch} \in SUBSET Batches /\ {item.batch} \cap InBuffer(buffer) = {}
  BY DEF Item
<1>1. /\ Follows(buffer, aged, {})
      /\ Range(aged.queue) \subseteq Range(buffer.queue)
      /\ OldestGo(buffer, aged)
      /\ recovery => aged = buffer
  BY AgedGood
<1>2. Good(aged) /\ InBuffer(aged) \subseteq InBuffer(buffer)
  <2> HIDE DEF aged
  <2> QED
    BY <1>1 DEF Follows
<1>3. item \notin Range(buffer.queue) /\ item.batch \notin InBuffer(aged)
  BY <1>2 DEF InBuffer, BatchesOf
<1>4. CASE TooLarge(item)
  <2>1. new = Refusing(buffer, item)
    BY <1>4 DEF Enqueued
  <2>2. new.queue = buffer.queue /\ Follows(buffer, new, {item.batch})
    BY <2>1, RefusingGood
  <2> HIDE DEF new
  <2>3. OldestGo(buffer, new)
    BY <2>2 DEF OldestGo
  <2> QED
    BY <2>2, <2>3 DEF new
<1>5. CASE ~TooLarge(item) /\ ~recovery /\ Expired(item)
  <2>1. new = Refusing(aged, item)
    BY <1>5 DEF Enqueued
  <2> HIDE DEF new, aged
  <2>2. new.queue = aged.queue /\ Follows(aged, new, {item.batch})
    BY <1>2, <1>3, <2>1, RefusingGood
  <2>3. Follows(buffer, new, {item.batch})
    BY <1>0, <1>1, <2>2, FollowsTwice
  <2>4. OldestGo(buffer, new)
    BY <1>1, <2>2 DEF OldestGo
  <2> QED
    BY <1>5, <2>3, <2>4 DEF new
<1>6. CASE ~TooLarge(item) /\ ~(~recovery /\ Expired(item))
  <2>1. /\ Follows(aged, roomy, {})
        /\ Range(roomy.queue) \subseteq Range(aged.queue)
        /\ OldestGo(aged, roomy)
        /\ Fits(roomy, item)
    <3> HIDE DEF aged
    <3> QED
      BY <1>2, <1>6, RoomIsMade
  <2>2. new = Appended(roomy, item)
    BY <1>6, <2>1 DEF Enqueued
  <2> HIDE DEF new, aged, roomy
  <2>3. Good(roomy) /\ item.batch \notin InBuffer(roomy)
    BY <1>3, <2>1 DEF Follows
  <2>4. /\ Range(new.queue) = Range(roomy.queue) \cup {item}
        /\ new.queue # << >>
        /\ Follows(roomy, new, {item.batch})
    BY <2>1, <2>2, <2>3, AppendedGood
  <2>5. Follows(aged, new, {item.batch})
    <3>1. {item.batch} \cap InBuffer(aged) = {}
      BY <1>3
    <3> QED
      BY <1>0, <1>2, <2>1, <2>4, <3>1, FollowsTwice
  <2>6. Follows(buffer, new, {item.batch})
    BY <1>0, <1>1, <2>5, FollowsTwice
  <2>7. OldestGo(buffer, roomy)
    <3>1. Range(roomy.queue) \subseteq Range(aged.queue) \cup {item}
      BY <2>1
    <3> QED
      BY <1>1, <1>3, <2>1, <3>1, OldestGoTwice
  <2>8. OldestGo(roomy, new)
    BY <2>4 DEF OldestGo
  <2>9. OldestGo(buffer, new)
    <3>1. Range(roomy.queue) \subseteq Range(buffer.queue)
      BY <1>1, <2>1
    <3> QED
      BY <1>3, <2>4, <2>7, <2>8, <3>1, OldestGoTwice
  <2> QED
    BY <2>4, <2>6, <2>9 DEF new
<1> QED
  BY <1>4, <1>5, <1>6

(***************************************************************************)
(* The inductive invariant.                                                *)
(***************************************************************************)
Held == Buffered \cup InFlight

Counted == outage.dropped + sendDropped

\* A batch is in one place, and the events of those in none are counted.
OneFate ==
    /\ Held \cap delivered = {} /\ Held \cap destroyed = {} /\ delivered \cap destroyed = {}
    /\ Held \cup delivered \cup destroyed \subseteq 1..built
    /\ Counted = Total(EventCount, (1..built) \ (Held \cup delivered \cup destroyed))

NotBoth == Buffered \cap InFlight = {}

PlacesAgree ==
    /\ workerAt \in {"draining", "drainSending", "drainingBuffer", "drainWaiting",
                     "drainReplaySending", "done"} => closing
    /\ workerAt = "drainWaiting" => outage.queue # << >>
    /\ workerAt = "drainWaiting" \/ Sending => ~stopSending

BacklogKept ==
    recovery /\ workerAt \in {"waiting", "sending", "replaying", "draining", "drainSending"}
        => outage.queue # << >>

\* The gate of the client is never before the moment the endpoint asked for.
HeldBack == heldUntil <= nextSend

Refused == refusalPending => delivered # 1..built

BufferGood == Good(outage)

IInv ==
    /\ TypeOK
    /\ BufferGood
    /\ NotBoth
    /\ OneFate
    /\ PlacesAgree
    /\ BacklogKept
    /\ HeldBack
    /\ Refused

(***************************************************************************)
(* What a step does to the batches, as BatchCustody has it.                *)
(***************************************************************************)
HoldsSomeOf(inHand) ==
    /\ Held' \in SUBSET inHand
    /\ Counted' = Counted + Total(EventCount, inHand \ Held')

Builds ==
    /\ ~stopSending
    /\ built' = built + 1 /\ built' \in Batches
    /\ HoldsSomeOf(Held \cup {built'})
    /\ UNCHANGED <<delivered, destroyed, stopSending>>

GivesUp ==
    /\ stopSending
    /\ built' = built + 1 /\ built' \in Batches
    /\ destroyed' = destroyed \cup {built'}
    /\ UNCHANGED <<Held, delivered, Counted, stopSending>>

Loses ==
    /\ HoldsSomeOf(Held)
    /\ UNCHANGED <<built, delivered, destroyed, stopSending>>

Delivers ==
    /\ ~stopSending
    /\ \E b \in Held :
          /\ Held' = Held \ {b}
          /\ delivered' = delivered \cup {b}
    /\ UNCHANGED <<built, destroyed, Counted, stopSending>>

Stops ==
    /\ ~stopSending
    /\ stopSending' = TRUE
    /\ \E b \in Held :
          /\ Held' = Held \ {b}
          /\ destroyed' = destroyed \cup {b}
    /\ UNCHANGED <<built, delivered, Counted>>

FateStep == Builds \/ GivesUp \/ Loses \/ Delivers \/ Stops

\* All that is to be shown of a step.
StepKeeps ==
    /\ TypeOK'
    /\ BufferGood'
    /\ NotBoth'
    /\ PlacesAgree'
    /\ BacklogKept'
    /\ HeldBack'
    /\ FateStep
    /\ ~SendBegins => OldestGo(outage, outage')
    /\ SendBegins /\ ~closing => now >= heldUntil

LEMMA TypesNow ==
    ASSUME TypeOK, BufferGood
    PROVE  /\ now \in Int /\ now \in 1..MaxTime /\ recovery \in BOOLEAN /\ closing \in BOOLEAN
           /\ stopSending \in BOOLEAN
           /\ built \in Nat /\ nextSend \in Nat /\ heldUntil \in Nat /\ sendDropped \in Nat
           /\ outage \in BufferRecord /\ outage.dropped \in Nat
           /\ Buffered = InBuffer(outage) /\ InBuffer(outage) \in SUBSET Batches
           /\ Sending <=> workerAt \in SendingPlaces
           /\ ~Sending => inFlight = Idle /\ InFlight = {} /\ Held = Buffered
           /\ Sending => /\ inFlight \in Send /\ inFlight.batch \in Batches
                         /\ InFlight = {inFlight.batch}
                         /\ Held = Buffered \cup {inFlight.batch}
           /\ 1..built \in SUBSET Batches
<1>1. outage \in BufferRecord /\ outage.dropped \in Nat /\ InBuffer(outage) \in SUBSET Batches
  BY GoodNow DEF BufferGood, Good
<1>2. now \in Int /\ now \in 1..MaxTime
  BY BufferAssumption DEF TypeOK
<1>3. /\ recovery \in BOOLEAN /\ closing \in BOOLEAN /\ stopSending \in BOOLEAN
      /\ nextSend \in Nat /\ heldUntil \in Nat /\ sendDropped \in Nat
  BY DEF TypeOK
<1>4. built \in Nat /\ 1..built \in SUBSET Batches
  <2>1. Batches = 1..Cardinality(Batches) /\ Cardinality(Batches) \in Nat
    BY BufferAssumption, FS_CardinalityType
  <2>2. built \in 0..Cardinality(Batches)
    BY DEF TypeOK
  <2> QED
    BY <2>1, <2>2
<1>5. Buffered = InBuffer(outage)
  BY DEF Buffered, InBuffer, BatchesOf
<1>6. Sending <=> workerAt \in SendingPlaces
  BY DEF TypeOK
<1>7. ~Sending => inFlight = Idle /\ InFlight = {} /\ Held = Buffered
  BY DEF Sending, InFlight, Held
<1>8. Sending => /\ inFlight \in Send /\ inFlight.batch \in Batches
                 /\ InFlight = {inFlight.batch}
                 /\ Held = Buffered \cup {inFlight.batch}
  <2>1. inFlight \in Send \cup {Idle}
    BY DEF TypeOK
  <2> QED
    BY <2>1 DEF Sending, InFlight, Held, Send
<1> QED
  BY <1>1, <1>2, <1>3, <1>4, <1>5, <1>6, <1>7, <1>8

\* Nothing happens to a batch.
LEMMA NoneLost ==
    ASSUME TypeOK, BufferGood, Held' = Held,
           UNCHANGED <<outage, built, delivered, destroyed, sendDropped, stopSending>>
    PROVE  Loses
<1>1. Held \ Held' = {} /\ Held' \in SUBSET Held
  OBVIOUS
<1>2. Counted' = Counted /\ Counted \in Nat
  BY TypesNow DEF Counted
<1>3. Total(EventCount, {}) = 0
  BY SumEmpty DEF Total
<1>4. Counted' = Counted + Total(EventCount, Held \ Held')
  <2>1. Total(EventCount, Held \ Held') = 0
    BY <1>1, <1>3
  <2> QED
    BY <1>2, <2>1
<1> QED
  BY <1>1, <1>4 DEF Loses, HoldsSomeOf

\* What close does once the wait for the worker is over.
ReportStep == JoinEnds \/ ReadsRefusal \/ ReportsRefusal

Report == [stage : {"joining", "joined", "reporting", "returned"},
           drained : BOOLEAN, said : BOOLEAN, undelivered : Nat]

LEMMA QuietSteps ==
    ASSUME IInv,
           \/ NothingToFlush \/ StartDraining \/ QueueDrained \/ DrainDone \/ DrainGivesUp
           \/ Close \/ ReportStep \/ Tick
    PROVE  StepKeeps
<1>1. /\ UNCHANGED <<outage, built, delivered, destroyed, sendDropped, stopSending, inFlight>>
      /\ UNCHANGED <<transientAttempt, nextSend, refusalPending, heldUntil, nextReplay>>
  BY DEF NothingToFlush, StartDraining, QueueDrained, DrainDone, DrainGivesUp, Close,
         ReportStep, JoinEnds, ReadsRefusal, ReportsRefusal, Tick, gateVars, lossVars, replayVars
<1>2. Sending' = Sending /\ Held' = Held /\ Buffered' = Buffered /\ InFlight' = InFlight
  BY <1>1 DEF Held, Buffered, InFlight, Sending
<1>3. Loses
  BY <1>1, <1>2, NoneLost DEF IInv
<1>4. workerAt' \in WorkerPlaces /\ (workerAt' \in SendingPlaces <=> workerAt \in SendingPlaces)
  BY DEF IInv, TypeOK, NothingToFlush, StartDraining, QueueDrained, DrainDone, DrainGivesUp, Close,
         ReportStep, JoinEnds, ReadsRefusal, ReportsRefusal, Tick, WorkerPlaces, SendingPlaces
<1>5. now' \in 1..MaxTime /\ deadline' \in Nat /\ closing' \in BOOLEAN /\ recovery' \in BOOLEAN
  <2>1. now \in 1..MaxTime /\ deadline \in Nat /\ closing \in BOOLEAN /\ recovery \in BOOLEAN
    BY DEF IInv, TypeOK
  <2>0. MaxTime \in Nat /\ CloseTimeouts \in SUBSET Nat
    BY BufferAssumption
  <2>2. CASE Tick
    <3>1. now < MaxTime /\ now' = now + 1 /\ UNCHANGED <<deadline, closing, recovery>>
      BY <2>2 DEF Tick, replayVars
    <3>2. now' \in 1..MaxTime
      BY <2>0, <2>1, <3>1
    <3> QED
      BY <2>1, <3>1, <3>2
  <2>3. CASE Close
    <3>1. closing' = TRUE /\ UNCHANGED <<now, recovery>>
      BY <2>3 DEF Close, replayVars
    <3>2. PICK t \in CloseTimeouts : deadline' = now + t
      BY <2>3 DEF Close
    <3>3. deadline' \in Nat
      BY <2>0, <2>1, <3>2
    <3> QED
      BY <2>1, <3>1, <3>3
  <2>4. CASE ~Tick /\ ~Close
    BY <2>1, <2>4 DEF NothingToFlush, StartDraining, QueueDrained, DrainDone, DrainGivesUp,
       ReportStep, JoinEnds, ReadsRefusal, ReportsRefusal, clockVars, replayVars
  <2> QED
    BY <2>2, <2>3, <2>4
<1>6. closeReport' \in Report
  <2>1. closeReport \in Report
    BY DEF IInv, TypeOK, Report
  <2>2. refusalPending \in BOOLEAN /\ outage.events \in Nat
    BY GoodNow DEF IInv, TypeOK, BufferGood
  <2>3. CASE ReportStep
    <3>1. CASE JoinEnds
      BY <2>1, <3>1 DEF JoinEnds, Report
    <3>2. CASE ReadsRefusal
      BY <2>1, <3>2 DEF ReadsRefusal, Report
    <3>3. CASE ReportsRefusal
      BY <2>1, <2>2, <3>3 DEF ReportsRefusal, Report
    <3> QED
      BY <2>3, <3>1, <3>2, <3>3 DEF ReportStep
  <2>4. CASE ~ReportStep
    BY <2>1, <2>4 DEF NothingToFlush, StartDraining, QueueDrained, DrainDone, DrainGivesUp, Close,
       Tick, clockVars
  <2> QED
    BY <2>3, <2>4
<1>7. TypeOK'
  <2>1. TypeOK
    BY DEF IInv
  <2> HIDE DEF WorkerPlaces, SendingPlaces
  <2> QED
    BY <1>1, <1>2, <1>4, <1>5, <1>6, <2>1 DEF TypeOK, Report
<1>8. BufferGood' /\ NotBoth' /\ HeldBack'
  BY <1>1, <1>2 DEF IInv, BufferGood, NotBoth, HeldBack
<1>9. PlacesAgree'
  <2>1. PlacesAgree
    BY DEF IInv
  <2>2. closing => closing'
    BY <1>5 DEF NothingToFlush, StartDraining, QueueDrained, DrainDone, DrainGivesUp, Close,
         ReportStep, JoinEnds, ReadsRefusal, ReportsRefusal, Tick, clockVars
  <2>3. workerAt' = "drainWaiting" => workerAt = "drainWaiting"
    BY DEF NothingToFlush, StartDraining, QueueDrained, DrainDone, DrainGivesUp, Close,
         ReportStep, JoinEnds, ReadsRefusal, ReportsRefusal, Tick
  <2>4. workerAt' \in {"draining", "drainSending", "drainingBuffer", "drainWaiting",
                     "drainReplaySending", "done"} =>
            \/ workerAt \in {"draining", "drainSending", "drainingBuffer", "drainWaiting",
                     "drainReplaySending", "done"}
            \/ closing
    BY DEF NothingToFlush, StartDraining, QueueDrained, DrainDone, DrainGivesUp, Close,
         ReportStep, JoinEnds, ReadsRefusal, ReportsRefusal, Tick
  <2> QED
    BY <1>1, <1>2, <2>1, <2>2, <2>3, <2>4 DEF PlacesAgree
<1>10. BacklogKept'
  <2>1. BacklogKept
    BY DEF IInv
  <2> QED
    BY <1>1, <2>1 DEF BacklogKept, NothingToFlush, StartDraining, QueueDrained, DrainDone,
       DrainGivesUp, Close, ReportStep, JoinEnds, ReadsRefusal, ReportsRefusal, Tick, replayVars
<1>11. OldestGo(outage, outage')
  BY <1>1 DEF OldestGo
<1> QED
  BY <1>2, <1>3, <1>7, <1>8, <1>9, <1>10, <1>11 DEF StepKeeps, FateStep, SendBegins

(***************************************************************************)
(* Sending a batch that has just been built.                               *)
(***************************************************************************)
LEMMA BuildSteps ==
    ASSUME IInv, FlushOneBatch \/ DrainOneBatch
    PROVE  StepKeeps
<1> DEFINE b    == built + 1
           item == RetryBatch(NewSend, Larger(0, NewSend.attempt - 1), nextSend)
<1>0. TypeOK /\ BufferGood /\ NotBoth /\ OneFate /\ PlacesAgree /\ BacklogKept /\ HeldBack
  BY DEF IInv
<1>1. /\ b \in Batches /\ b \notin 1..built /\ built' = b /\ built \in Nat
      /\ b \in 0..Cardinality(Batches)
  <2>1. Batches = 1..Cardinality(Batches) /\ Cardinality(Batches) \in Nat
    BY BufferAssumption, FS_CardinalityType
  <2>2. built \in Nat /\ built < Cardinality(Batches) /\ built' = b
    BY <1>0, TypesNow DEF FlushOneBatch, DrainOneBatch, BuildBatch
  <2> QED
    BY <2>1, <2>2
<1>2. workerAt \in {"waiting", "draining"} /\ ~Sending
  BY <1>0, TypesNow DEF FlushOneBatch, DrainOneBatch, SendingPlaces
<1>3. inFlight = Idle /\ InFlight = {} /\ Held = Buffered
  BY <1>0, <1>2, TypesNow
<1>4. /\ UNCHANGED <<now, deadline, closing, closeReport>>
      /\ UNCHANGED <<transientAttempt, nextSend, refusalPending, heldUntil, nextReplay, recovery>>
      /\ UNCHANGED <<sendDropped, stopSending, delivered>>
  BY DEF FlushOneBatch, DrainOneBatch, clockVars, gateVars, replayVars
<1>5. \/ /\ FlushOneBatch /\ workerAt = "waiting" /\ ~closing
         /\ SendPayload(NewSend, FALSE, "sending", "replaying")
      \/ /\ DrainOneBatch /\ workerAt = "draining"
         /\ SendPayload(NewSend, TRUE, "drainSending", "draining")
  BY DEF FlushOneBatch, DrainOneBatch
<1>6. b \notin Held /\ b \notin delivered /\ b \notin destroyed /\ b \notin InBuffer(outage)
  <2>1. b \notin Held \cup delivered \cup destroyed
    BY <1>0, <1>1 DEF OneFate
  <2>2. InBuffer(outage) = Held
    BY <1>0, <1>3, TypesNow
  <2> QED
    BY <2>1, <2>2
<1>7. NewSend \in Send /\ NewSend.batch = b /\ NewSend # Idle
  <2>1. 0 \in 0..MaxTime
    BY BufferAssumption
  <2>2. NewSend \in Send
    BY <1>1, <2>1 DEF NewSend, Send
  <2>3. NewSend.attempt = 1 /\ Idle.attempt = 0
    BY DEF NewSend, Idle
  <2> QED
    BY <2>2, <2>3 DEF NewSend
<1>8. TypeOK' <=> /\ outage' \in BufferRecord
                  /\ workerAt' \in WorkerPlaces
                  /\ inFlight' \in Send \cup {Idle}
                  /\ Sending' <=> workerAt' \in SendingPlaces
                  /\ destroyed' \subseteq Batches
  BY <1>0, <1>1, <1>4 DEF TypeOK, BufferRecord
<1>9. HeldBack'
  BY <1>0, <1>4 DEF HeldBack
<1>10. CASE /\ stopSending /\ destroyed' = destroyed \cup {b}
            /\ workerAt' \in {"replaying", "draining"}
            /\ workerAt' = "draining" => workerAt = "draining"
            /\ UNCHANGED <<outage, inFlight>>
  <2>1. Held' = Held /\ Sending' = Sending /\ Buffered' = Buffered /\ InFlight' = InFlight
    BY <1>10 DEF Held, Buffered, InFlight, Sending
  <2>2. TypeOK'
    BY <1>0, <1>1, <1>2, <1>8, <1>10, <2>1, TypesNow DEF WorkerPlaces, SendingPlaces, TypeOK
  <2>3. BufferGood' /\ NotBoth'
    BY <1>0, <1>10, <2>1 DEF BufferGood, NotBoth
  <2>4. PlacesAgree' /\ BacklogKept'
    BY <1>0, <1>2, <1>4, <1>10, <2>1 DEF PlacesAgree, BacklogKept
  <2>5. GivesUp
    BY <1>1, <1>4, <1>10, <2>1 DEF GivesUp, Counted
  <2>6. OldestGo(outage, outage')
    BY <1>10 DEF OldestGo
  <2> QED
    BY <1>2, <1>9, <2>1, <2>2, <2>3, <2>4, <2>5, <2>6 DEF StepKeeps, FateStep, SendBegins
<1>11. CASE /\ ~stopSending /\ workerAt = "waiting"
            /\ outage' = Enqueued(outage, item)
            /\ workerAt' = "replaying"
            /\ UNCHANGED <<inFlight, destroyed>>
  <2>1. item \in Item /\ item.batch = b
    <3>1. Larger(0, NewSend.attempt - 1) \in Nat
      BY <1>7 DEF NewSend, Larger
    <3>2. now \in 1..MaxTime /\ nextSend \in Nat
      BY <1>0, TypesNow
    <3> QED
      BY <1>1, <3>1, <3>2 DEF RetryBatch, NewSend, Item
  <2> HIDE DEF item
  <2>2. /\ Follows(outage, outage', {b})
        /\ OldestGo(outage, outage')
        /\ recovery /\ outage.queue # << >> => outage'.queue # << >>
    <3>1. Good(outage) /\ now \in Int /\ recovery \in BOOLEAN
      BY <1>0, TypesNow DEF BufferGood
    <3>2. outage' = Enqueued(outage, item)
      BY <1>11
    <3> HIDE DEF b
    <3> QED
      BY <1>6, <2>1, <3>1, <3>2, EnqueuedGood
  <2>3. Good(outage') /\ outage' \in BufferRecord
    BY <2>2 DEF Follows, Good
  <2>4. ~Sending' /\ InFlight' = {} /\ Buffered' = InBuffer(outage') /\ Held' = InBuffer(outage')
    BY <1>3, <1>11 DEF Sending, InFlight, Held, Buffered, InBuffer, BatchesOf
  <2>5. TypeOK'
    BY <1>0, <1>3, <1>8, <1>11, <2>3, <2>4 DEF WorkerPlaces, SendingPlaces, TypeOK
  <2>6. BufferGood' /\ NotBoth'
    BY <2>3, <2>4 DEF BufferGood, NotBoth
  <2>7. PlacesAgree' /\ BacklogKept'
    BY <1>0, <1>4, <1>11, <2>2, <2>4 DEF PlacesAgree, BacklogKept
  <2>8. Builds
    <3>1. HoldsSomeOf(Held \cup {built'})
      <4>1. Held = InBuffer(outage)
        BY <1>0, <1>3, TypesNow
      <4>2. Held' \in SUBSET (Held \cup {b})
        BY <2>2, <2>4, <4>1 DEF Follows
      <4>3. outage'.dropped = outage.dropped + Total(EventCount, (Held \cup {b}) \ Held')
        BY <2>2, <2>4, <4>1 DEF Follows
      <4>4. Total(EventCount, (Held \cup {b}) \ Held') \in Nat
        <5>1. EventCount \in [Batches -> Nat]
          BY BufferAssumption
        <5>2. (Held \cup {b}) \ Held' \in SUBSET Batches
          BY <1>0, <1>1, <4>1, TypesNow
        <5> HIDE DEF b
        <5> QED
          BY <5>1, <5>2, TotalMinus
      <4>5. outage.dropped \in Nat /\ sendDropped \in Nat
        BY <1>0, TypesNow
      <4>6. Counted' = Counted + Total(EventCount, (Held \cup {b}) \ Held')
        <5> DEFINE t == Total(EventCount, (Held \cup {b}) \ Held')
        <5>1. outage'.dropped = outage.dropped + t /\ t \in Nat
          BY <4>3, <4>4
        <5> HIDE DEF t
        <5>2. Counted' = Counted + t
          BY <1>4, <4>5, <5>1 DEF Counted
        <5> QED
          BY <5>2 DEF t
      <4> QED
        BY <1>1, <4>2, <4>6 DEF HoldsSomeOf
    <3> QED
      BY <1>1, <1>4, <1>11, <3>1 DEF Builds
  <2> QED
    BY <1>9, <2>2, <2>4, <2>5, <2>6, <2>7, <2>8 DEF StepKeeps, FateStep, SendBegins
<1>12. CASE /\ ~stopSending
            /\ \/ workerAt = "waiting" /\ ~BackingOff /\ workerAt' = "sending"
               \/ workerAt = "draining" /\ workerAt' = "drainSending"
            /\ inFlight' = NewSend
            /\ UNCHANGED <<outage, destroyed>>
  <2>1. Sending' /\ InFlight' = {b} /\ Buffered' = Buffered /\ Held' = Held \cup {b}
    <3>1. Sending'
      BY <1>7, <1>12 DEF Sending, Idle
    <3>2. InFlight' = {b} /\ Buffered' = Buffered
      BY <1>7, <1>12, <3>1 DEF InFlight, Buffered
    <3> QED
      BY <1>3, <3>1, <3>2 DEF Held
  <2>2. TypeOK'
    BY <1>0, <1>7, <1>8, <1>12, <2>1, TypesNow DEF WorkerPlaces, SendingPlaces, TypeOK
  <2>3. BufferGood' /\ NotBoth'
    BY <1>0, <1>3, <1>6, <1>12, <2>1 DEF BufferGood, NotBoth
  <2>4. PlacesAgree' /\ BacklogKept'
    BY <1>0, <1>4, <1>12, <2>1 DEF PlacesAgree, BacklogKept
  <2>5. Builds
    <3>1. (Held \cup {b}) \ Held' = {} /\ Held' \in SUBSET (Held \cup {b})
      BY <2>1
    <3>2. Counted' = Counted /\ Counted \in Nat
      BY <1>0, <1>4, <1>12, TypesNow DEF Counted
    <3>3. Total(EventCount, {}) = 0
      BY SumEmpty DEF Total
    <3>4. Counted' = Counted + Total(EventCount, (Held \cup {b}) \ Held')
      BY <3>1, <3>2, <3>3
    <3> QED
      BY <1>1, <1>4, <1>12, <3>1, <3>4 DEF Builds, HoldsSomeOf
  <2>6. SendBegins /\ ~closing => now >= heldUntil
    <3>1. workerAt = "draining" => closing
      BY <1>0 DEF PlacesAgree
    <3>2. ~closing => ~BackingOff
      BY <1>12, <3>1
    <3>3. /\ nextSend \in Nat /\ heldUntil \in Nat /\ now \in Int /\ now \in 1..MaxTime
          /\ heldUntil <= nextSend
      BY <1>0, TypesNow DEF HeldBack
    <3>4. MaxTime \in Nat
      BY BufferAssumption
    <3> QED
      BY <3>2, <3>3, <3>4 DEF BackingOff
  <2> QED
    BY <1>2, <1>9, <2>1, <2>2, <2>3, <2>4, <2>5, <2>6 DEF StepKeeps, FateStep, SendBegins
<1>13. \/ /\ stopSending /\ destroyed' = destroyed \cup {b}
          /\ workerAt' \in {"replaying", "draining"}
          /\ workerAt' = "draining" => workerAt = "draining"
          /\ UNCHANGED <<outage, inFlight>>
       \/ /\ ~stopSending /\ workerAt = "waiting"
          /\ outage' = Enqueued(outage, item)
          /\ workerAt' = "replaying"
          /\ UNCHANGED <<inFlight, destroyed>>
       \/ /\ ~stopSending
          /\ \/ workerAt = "waiting" /\ ~BackingOff /\ workerAt' = "sending"
             \/ workerAt = "draining" /\ workerAt' = "drainSending"
          /\ inFlight' = NewSend
          /\ UNCHANGED <<outage, destroyed>>
  <2>1. CASE workerAt = "waiting" /\ SendPayload(NewSend, FALSE, "sending", "replaying")
    BY <1>7, <2>1 DEF SendPayload
  <2>2. CASE workerAt = "draining" /\ SendPayload(NewSend, TRUE, "drainSending", "draining")
    BY <1>7, <2>2 DEF SendPayload
  <2> QED
    BY <1>5, <2>1, <2>2
<1> HIDE DEF item, b
<1> QED
  BY <1>10, <1>11, <1>12, <1>13

(***************************************************************************)
(* A buffer that follows another, with what was in flight, has lost only   *)
(* what it counted.                                                        *)
(***************************************************************************)
LEMMA LosesAfter ==
    ASSUME TypeOK, BufferGood, NEW came \in SUBSET Batches,
           Follows(outage, outage', came),
           Held = InBuffer(outage) \cup came, Held' = InBuffer(outage'),
           UNCHANGED <<built, delivered, destroyed, sendDropped, stopSending>>
    PROVE  Loses
<1> DEFINE t == Total(EventCount, Held \ Held')
<1>1. Held' \in SUBSET Held /\ outage'.dropped = outage.dropped + t
  BY DEF Follows
<1>2. t \in Nat
  <2>1. EventCount \in [Batches -> Nat]
    BY BufferAssumption
  <2>2. Held \ Held' \in SUBSET Batches
    BY TypesNow
  <2> QED
    BY <2>1, <2>2, TotalMinus
<1>3. outage.dropped \in Nat /\ sendDropped \in Nat
  BY TypesNow
<1> HIDE DEF t
<1>4. Counted' = Counted + t
  BY <1>1, <1>2, <1>3 DEF Counted
<1> QED
  BY <1>1, <1>4 DEF Loses, HoldsSomeOf, t

LEMMA AgingSteps ==
    ASSUME IInv, NothingToReplay \/ DrainNext
    PROVE  StepKeeps
<1>0. TypeOK /\ BufferGood /\ NotBoth /\ OneFate /\ PlacesAgree /\ BacklogKept /\ HeldBack
  BY DEF IInv
<1>1. Good(outage) /\ now \in Int /\ recovery \in BOOLEAN
  BY <1>0, TypesNow DEF BufferGood
<1>2. workerAt \in {"replaying", "drainingBuffer"} /\ ~Sending
  BY <1>0, TypesNow DEF NothingToReplay, DrainNext, SendingPlaces
<1>3. inFlight = Idle /\ InFlight = {} /\ Held = InBuffer(outage)
  BY <1>0, <1>2, TypesNow
<1>4. /\ UNCHANGED <<now, deadline, closing, closeReport, built, inFlight>>
      /\ UNCHANGED <<transientAttempt, nextSend, refusalPending, heldUntil, nextReplay>>
      /\ UNCHANGED <<sendDropped, stopSending, delivered, destroyed>>
  BY DEF NothingToReplay, DrainNext, clockVars, gateVars, replayVars, lossVars
<1>5. /\ Follows(outage, outage', {})
      /\ OldestGo(outage, outage')
      /\ recovery => outage' = outage
  <2>1. CASE outage' = outage
    <3>1. Follows(outage, outage, {}) /\ OldestGo(outage, outage)
      BY <1>1, FollowsItself DEF OldestGo
    <3> QED
      BY <2>1, <3>1
  <2>2. CASE outage' = Aged(outage)
    BY <1>1, <2>2, AgedGood
  <2> QED
    BY <2>1, <2>2 DEF NothingToReplay, DrainNext, Considered
<1>6. Good(outage') /\ outage' \in BufferRecord
  BY <1>5 DEF Follows, Good
<1>7. ~Sending' /\ InFlight' = {} /\ Buffered' = InBuffer(outage') /\ Held' = InBuffer(outage')
  BY <1>3, <1>4 DEF Sending, InFlight, Held, Buffered, InBuffer, BatchesOf
<1>8. /\ workerAt' \in WorkerPlaces /\ workerAt' \notin SendingPlaces
      /\ recovery' \in BOOLEAN
      /\ \/ workerAt = "replaying" /\ workerAt' = "waiting" /\ recovery' = recovery
         \/ workerAt = "drainingBuffer" /\ workerAt' = "done"
         \/ /\ workerAt = "drainingBuffer" /\ workerAt' = "drainWaiting"
            /\ outage'.queue # << >> /\ ~stopSending
  BY <1>1 DEF NothingToReplay, DrainNext, DrainGoesOn, WorkerPlaces, SendingPlaces, replayVars
<1>9. TypeOK'
  <2> HIDE DEF WorkerPlaces, SendingPlaces
  <2> QED
    BY <1>0, <1>4, <1>6, <1>7, <1>8 DEF TypeOK, BufferRecord
<1>10. BufferGood' /\ NotBoth' /\ HeldBack'
  BY <1>0, <1>4, <1>6, <1>7 DEF BufferGood, NotBoth, HeldBack
<1>11. PlacesAgree' /\ BacklogKept'
  BY <1>0, <1>4, <1>5, <1>7, <1>8 DEF PlacesAgree, BacklogKept
<1>12. Loses
  BY <1>0, <1>3, <1>4, <1>5, <1>7, LosesAfter
<1> QED
  BY <1>5, <1>7, <1>9, <1>10, <1>11, <1>12 DEF StepKeeps, FateStep, SendBegins

(***************************************************************************)
(* A batch is taken out of the buffer to be sent again.                    *)
(***************************************************************************)
LEMMA ReplayBegins ==
    ASSUME IInv, NEW buffer, Follows(outage, buffer, {}),
           NEW item \in Range(buffer.queue),
           outage' = Taken(buffer, item), inFlight' = Replaying(item),
           workerAt \in {"replaying", "drainWaiting"},
           workerAt' \in {"replaySending", "drainReplaySending"},
           workerAt' = "drainReplaySending" => closing,
           ~stopSending,
           ~closing => nextSend <= now,
           UNCHANGED <<clockVars, built, gateVars, replayVars, lossVars>>
    PROVE  StepKeeps
<1>0. TypeOK /\ BufferGood /\ NotBoth /\ OneFate /\ PlacesAgree /\ BacklogKept /\ HeldBack
  BY DEF IInv
<1>1. Good(outage) /\ Good(buffer)
  BY <1>0 DEF BufferGood, Follows
<1>2. workerAt \notin SendingPlaces /\ ~Sending
  BY <1>0, TypesNow DEF SendingPlaces
<1>3. inFlight = Idle /\ InFlight = {} /\ Held = InBuffer(outage)
  BY <1>0, <1>2, TypesNow
<1>4. /\ UNCHANGED <<now, deadline, closing, closeReport, built>>
      /\ UNCHANGED <<transientAttempt, nextSend, refusalPending, heldUntil, nextReplay, recovery>>
      /\ UNCHANGED <<sendDropped, stopSending, delivered, destroyed>>
  BY DEF clockVars, gateVars, replayVars, lossVars
<1>5. /\ Good(outage') /\ outage' \in BufferRecord
      /\ InBuffer(outage') = InBuffer(buffer) \ {item.batch}
      /\ item.batch \in InBuffer(buffer) /\ item \in Item
      /\ outage'.dropped = buffer.dropped
  BY <1>1, TakenGood DEF Good
<1>6. Replaying(item) \in Send /\ Replaying(item).batch = item.batch /\ Replaying(item) # Idle
  <2>1. /\ item.batch \in Batches /\ item.attempts \in Nat /\ item.bufferedAt \in 1..MaxTime
        /\ MaxTime \in Nat
    BY <1>5, BufferAssumption DEF Item
  <2>2. item.bufferedAt \in 0..MaxTime /\ item.bufferedAt # 0
    BY <2>1
  <2>3. Replaying(item) \in Send
    BY <2>1, <2>2 DEF Replaying, Send
  <2>4. Replaying(item).bufferedAt # Idle.bufferedAt
    BY <2>2 DEF Replaying, Idle
  <2> QED
    BY <2>3, <2>4 DEF Replaying
<1>7. Sending' /\ InFlight' = {item.batch}
  BY <1>6 DEF Sending, InFlight, Idle
<1>8. Buffered' = InBuffer(outage') /\ Held' = InBuffer(buffer)
  <2>1. Buffered' = InBuffer(outage')
    BY DEF Buffered, InBuffer, BatchesOf
  <2> QED
    BY <1>5, <1>7, <2>1 DEF Held
<1>9. TypeOK'
  <2>1. workerAt' \in WorkerPlaces /\ workerAt' \in SendingPlaces
    BY DEF WorkerPlaces, SendingPlaces
  <2> HIDE DEF WorkerPlaces, SendingPlaces
  <2>2. inFlight' \in Send
    BY <1>6
  <2> QED
    BY <1>0, <1>4, <1>5, <1>7, <2>1, <2>2 DEF TypeOK, BufferRecord
<1>10. BufferGood' /\ NotBoth' /\ HeldBack'
  BY <1>0, <1>4, <1>5, <1>7, <1>8 DEF BufferGood, NotBoth, HeldBack
<1>11. PlacesAgree' /\ BacklogKept'
  BY <1>0, <1>4 DEF PlacesAgree, BacklogKept
<1>12. Loses
  <2> DEFINE t == Total(EventCount, Held \ Held')
  <2>1. Held' \in SUBSET Held /\ buffer.dropped = outage.dropped + t
    <3>1. /\ InBuffer(buffer) \subseteq InBuffer(outage) \cup {}
          /\ buffer.dropped = outage.dropped
               + Total(EventCount, (InBuffer(outage) \cup {}) \ InBuffer(buffer))
      BY DEF Follows
    <3>2. (InBuffer(outage) \cup {}) \ InBuffer(buffer) = Held \ Held'
      BY <1>3, <1>8
    <3> QED
      BY <1>3, <1>8, <3>1, <3>2
  <2>2. t \in Nat
    <3>1. EventCount \in [Batches -> Nat]
      BY BufferAssumption
    <3>2. Held \ Held' \in SUBSET Batches
      BY <1>0, <1>3, TypesNow
    <3> QED
      BY <3>1, <3>2, TotalMinus
  <2>3. outage.dropped \in Nat /\ sendDropped \in Nat
    BY <1>0, TypesNow
  <2> HIDE DEF t
  <2>4. Counted' = Counted + t
    BY <1>4, <1>5, <2>1, <2>2, <2>3 DEF Counted
  <2> QED
    BY <1>4, <2>1, <2>4 DEF Loses, HoldsSomeOf, t
<1>13. ~closing => now >= heldUntil
  <2>1. /\ nextSend \in Nat /\ heldUntil \in Nat /\ now \in Int /\ heldUntil <= nextSend
    BY <1>0, TypesNow DEF HeldBack
  <2> QED
    BY <2>1
<1> QED
  BY <1>2, <1>7, <1>9, <1>10, <1>11, <1>12, <1>13 DEF StepKeeps, FateStep, SendBegins

LEMMA ReplaySteps ==
    ASSUME IInv, ReplayOne \/ DrainReplay
    PROVE  StepKeeps
<1>0. TypeOK /\ BufferGood /\ PlacesAgree
  BY DEF IInv
<1>1. Good(outage) /\ now \in Int /\ recovery \in BOOLEAN
  BY <1>0, TypesNow DEF BufferGood
<1>2. CASE ReplayOne
  <2> DEFINE item == OldestOf(Considered.queue, Due(Considered))
  <2>1. Follows(outage, Considered, {})
    BY <1>1, FollowsItself, AgedGood DEF Considered
  <2>2. Considered.queue \in Seq(Item) /\ Distinct(Considered.queue)
    BY <2>1, GoodNow DEF Follows, Good
  <2>3. Due(Considered) \in SUBSET Range(Considered.queue) /\ Due(Considered) # {}
    BY <1>2 DEF ReplayOne, MayReplay, Due
  <2>4. item \in Due(Considered)
    <3> HIDE DEF Considered, Due
    <3> QED
      BY <2>2, <2>3, OldestIsOne
  <2>5. /\ outage' = Taken(Considered, item) /\ inFlight' = Replaying(item)
        /\ workerAt = "replaying" /\ workerAt' = "replaySending"
        /\ ~stopSending /\ nextSend <= now
        /\ UNCHANGED <<clockVars, built, gateVars, replayVars, lossVars>>
    BY <1>2 DEF ReplayOne, MayReplay
  <2>6. item \in Range(Considered.queue)
    BY <2>3, <2>4
  <2> HIDE DEF item
  <2> QED
    BY <2>1, <2>5, <2>6, ReplayBegins
<1>3. CASE DrainReplay
  <2>1. Follows(outage, outage, {})
    BY <1>1, FollowsItself
  <2>2. outage.queue \in Seq(Item) /\ Distinct(outage.queue) /\ outage.queue # << >>
    BY <1>0, <1>1, <1>3, GoodNow DEF Good, DrainReplay, PlacesAgree
  <2>3. Range(outage.queue) # {}
    <3>1. Len(outage.queue) = Cardinality(Range(outage.queue))
      BY <2>2, QueueRange
    <3>2. Len(outage.queue) # 0
      BY <2>2, EmptySeq
    <3> QED
      BY <3>1, <3>2, FS_EmptySet
  <2>4. DrainItem \in Range(outage.queue)
    BY <2>2, <2>3, OldestIsOne DEF DrainItem
  <2>5. /\ outage' = Taken(outage, DrainItem) /\ inFlight' = Replaying(DrainItem)
        /\ workerAt = "drainWaiting" /\ workerAt' = "drainReplaySending"
        /\ closing /\ ~stopSending
        /\ UNCHANGED <<clockVars, built, gateVars, replayVars, lossVars>>
    BY <1>0, <1>3 DEF DrainReplay, PlacesAgree
  <2> QED
    BY <2>1, <2>4, <2>5, ReplayBegins
<1> QED
  BY <1>2, <1>3

(***************************************************************************)
(* The answers of a request.                                               *)
(***************************************************************************)
LEMMA AnswerOver ==
    ASSUME IInv, Sending, NEW accepted \in BOOLEAN, SendOver(accepted),
           Good(outage'), recovery /\ outage.queue # << >> => outage'.queue # << >>,
           UNCHANGED <<clockVars, built>>,
           transientAttempt' \in Nat, nextSend' \in Nat, heldUntil' \in Nat, sendDropped' \in Nat,
           refusalPending' \in BOOLEAN, stopSending' \in BOOLEAN,
           delivered' \in SUBSET Batches, destroyed' \in SUBSET Batches
    PROVE  /\ ~Sending' /\ Held' = InBuffer(outage')
           /\ TypeOK' /\ BufferGood' /\ NotBoth' /\ PlacesAgree' /\ BacklogKept'
<1>0. TypeOK /\ PlacesAgree /\ BacklogKept
  BY DEF IInv
<1>1. UNCHANGED <<now, deadline, closing, closeReport, built>>
  BY DEF clockVars
<1>2. inFlight' = Idle /\ ~Sending' /\ InFlight' = {}
  BY DEF SendOver, Sending, InFlight
<1>3. Buffered' = InBuffer(outage') /\ Held' = InBuffer(outage')
  BY <1>2 DEF Held, Buffered, InBuffer, BatchesOf
<1>4. /\ \/ workerAt = "sending" /\ workerAt' = "replaying" /\ UNCHANGED replayVars
         \/ workerAt = "drainSending" /\ workerAt' = "draining" /\ UNCHANGED replayVars
         \/ workerAt = "replaySending" /\ workerAt' = "waiting"
            /\ nextReplay' = now + ReplayInterval
            /\ recovery' = RecoveryAfter(accepted, outage')
         \/ workerAt = "drainReplaySending" /\ workerAt' = "drainingBuffer"
            /\ nextReplay' = now + ReplayInterval
            /\ recovery' = TRUE
         \/ workerAt = "drainReplaySending" /\ workerAt' = "done" /\ UNCHANGED replayVars
  BY DEF SendOver
<1>5. nextReplay' \in Nat /\ recovery' \in BOOLEAN
  <2>1. nextReplay \in Nat /\ recovery \in BOOLEAN
    BY <1>0 DEF TypeOK
  <2>2. now + ReplayInterval \in Nat
    <3>1. now \in 1..MaxTime /\ MaxTime \in Nat /\ ReplayInterval \in Nat
      BY <1>0, BufferAssumption DEF TypeOK
    <3> QED
      BY <3>1
  <2>3. RecoveryAfter(accepted, outage') \in BOOLEAN
    BY DEF RecoveryAfter
  <2> QED
    BY <1>4, <2>1, <2>2, <2>3 DEF replayVars
<1>6. workerAt' \in WorkerPlaces /\ workerAt' \notin SendingPlaces
  BY <1>4 DEF WorkerPlaces, SendingPlaces
<1>7. TypeOK'
  <2>1. outage' \in BufferRecord
    BY DEF Good
  <2> HIDE DEF WorkerPlaces, SendingPlaces
  <2> QED
    BY <1>0, <1>1, <1>2, <1>5, <1>6, <2>1 DEF TypeOK, BufferRecord
<1>8. BufferGood' /\ NotBoth'
  BY <1>2 DEF BufferGood, NotBoth
<1>9. PlacesAgree'
  BY <1>0, <1>1, <1>2, <1>4 DEF PlacesAgree
<1>10. BacklogKept'
  BY <1>0, <1>4 DEF BacklogKept, replayVars, RecoveryAfter
<1> QED
  BY <1>2, <1>3, <1>7, <1>8, <1>9, <1>10

\* What is sent again, and when, is well typed.
LEMMA RetryItem ==
    ASSUME TypeOK, BufferGood, Sending, NEW next \in Nat
    PROVE  /\ RetryBatch(inFlight, inFlight.attempt, next) \in Item
           /\ RetryBatch(inFlight, inFlight.attempt, next).batch = inFlight.batch
<1>1. /\ inFlight.batch \in Batches /\ inFlight.attempt \in Nat /\ inFlight.bufferedAt \in 0..MaxTime
      /\ now \in 1..MaxTime /\ MaxTime \in Nat
  BY TypesNow, BufferAssumption DEF Send
<1>2. (IF inFlight.bufferedAt > 0 THEN inFlight.bufferedAt ELSE now) \in 1..MaxTime
  BY <1>1
<1> QED
  BY <1>1, <1>2 DEF RetryBatch, Item

LEMMA PutBack ==
    ASSUME IInv, Sending, NEW next \in Nat, SendOver(FALSE),
           outage' = Enqueued(outage, RetryBatch(inFlight, inFlight.attempt, next)),
           UNCHANGED <<clockVars, built, lossVars>>,
           transientAttempt' \in Nat, nextSend' \in Nat, heldUntil' \in Nat,
           refusalPending' \in BOOLEAN, heldUntil' <= nextSend'
    PROVE  StepKeeps
<1> DEFINE item == RetryBatch(inFlight, inFlight.attempt, next)
           b    == inFlight.batch
<1>0. TypeOK /\ BufferGood /\ NotBoth
  BY DEF IInv
<1>1. item \in Item /\ item.batch = b /\ outage' = Enqueued(outage, item)
  BY <1>0, RetryItem
<1> HIDE DEF item
<1>2. /\ InFlight = {b} /\ b \in Batches /\ Held = InBuffer(outage) \cup {b}
      /\ Good(outage) /\ now \in Int /\ recovery \in BOOLEAN
  BY <1>0, TypesNow DEF BufferGood
<1>3. b \notin InBuffer(outage)
  BY <1>0, <1>2, TypesNow DEF NotBoth
<1>4. /\ Follows(outage, outage', {b})
      /\ OldestGo(outage, outage')
      /\ recovery /\ outage.queue # << >> => outage'.queue # << >>
  <2> HIDE DEF b
  <2> QED
    BY <1>1, <1>2, <1>3, EnqueuedGood
<1>5. Good(outage')
  BY <1>4 DEF Follows
<1>6. UNCHANGED <<sendDropped, stopSending, delivered, destroyed, built>>
  BY DEF lossVars
<1>7. /\ sendDropped' \in Nat /\ stopSending' \in BOOLEAN
      /\ delivered' \in SUBSET Batches /\ destroyed' \in SUBSET Batches
  BY <1>0, <1>6 DEF TypeOK
<1>8. /\ ~Sending' /\ Held' = InBuffer(outage')
      /\ TypeOK' /\ BufferGood' /\ NotBoth' /\ PlacesAgree' /\ BacklogKept'
  BY <1>4, <1>5, <1>7, AnswerOver
<1>9. Loses
  <2> HIDE DEF b
  <2> QED
    BY <1>0, <1>2, <1>4, <1>6, <1>8, LosesAfter
<1>10. HeldBack'
  BY DEF HeldBack
<1> QED
  BY <1>4, <1>8, <1>9, <1>10 DEF StepKeeps, FateStep, SendBegins

\* A delay drawn is a natural number.
LEMMA DelaysNat ==
    ASSUME NEW attempt \in Nat
    PROVE  RetryDelays(attempt) \in SUBSET Nat /\ BackoffDelays(attempt) \in SUBSET Nat
<1>1. /\ RetryMaxDelay \in Nat /\ BackoffMaxDelay \in Nat /\ RetryJitter \in Nat
      /\ RecoveryJitter \in Nat /\ BackoffJitter \in Nat
  BY BufferAssumption
<1>2. Doubled(attempt, RetryMaxDelay) \in Nat /\ Doubled(attempt, BackoffMaxDelay) \in Nat
  BY <1>1, DoubledNat
<1>3. RetryDelays(attempt) \in SUBSET Nat
  BY <1>1, <1>2 DEF RetryDelays
<1>4. BackoffDelays(attempt) \in SUBSET Nat
  BY <1>1, <1>2 DEF BackoffDelays, Smaller
<1> QED
  BY <1>3, <1>4

LEMMA RetrySteps ==
    ASSUME IInv, NEW after \in RetryAfters, TransientFailure(after) \/ RefusedInGrace(after)
    PROVE  StepKeeps
<1>0. TypeOK /\ BufferGood
  BY DEF IInv
<1>1. after \in Nat /\ GraceRetryInterval \in Nat /\ now \in Nat
  BY <1>0, TypesNow, BufferAssumption DEF TypeOK
<1>2. \A d \in Nat : Larger(d, after) \in Nat /\ after <= Larger(d, after)
  BY <1>1 DEF Larger
<1>3. transientAttempt \in Nat /\ refusalPending \in BOOLEAN
  BY <1>0 DEF TypeOK
<1>4. CASE TransientFailure(after)
  <2>1. transientAttempt' \in Nat /\ refusalPending' \in BOOLEAN
    BY <1>3, <1>4 DEF TransientFailure
  <2>2. PICK d \in BackoffDelays(transientAttempt + 1) : nextSend' = now + Larger(d, after)
    BY <1>4 DEF TransientFailure
  <2>3. PICK e \in RetryDelays(inFlight.attempt) :
           outage' = Enqueued(outage, RetryBatch(inFlight, inFlight.attempt, now + Larger(e, after)))
    BY <1>4 DEF TransientFailure
  <2>4. heldUntil' = now + after
    BY <1>4 DEF TransientFailure
  <2>5. inFlight.attempt \in Nat
    BY <1>0, <1>4, TypesNow DEF TransientFailure, Send
  <2>6. d \in Nat /\ e \in Nat
    <3>1. transientAttempt + 1 \in Nat
      BY <1>3
    <3> QED
      BY <2>5, <3>1, DelaysNat
  <2>7. now + Larger(e, after) \in Nat /\ heldUntil' \in Nat /\ nextSend' \in Nat
    BY <1>1, <1>2, <2>2, <2>4, <2>6
  <2>8. heldUntil' <= nextSend'
    BY <1>1, <1>2, <2>2, <2>4, <2>6
  <2>9. Sending /\ SendOver(FALSE) /\ UNCHANGED <<clockVars, built, lossVars>>
    BY <1>4 DEF TransientFailure
  <2> QED
    BY <2>1, <2>3, <2>7, <2>8, <2>9, PutBack
<1>5. CASE RefusedInGrace(after)
  <2> DEFINE next == now + Larger(GraceRetryInterval, after)
  <2>1. next \in Nat
    BY <1>1, <1>2
  <2>2. /\ Sending /\ nextSend' = next /\ heldUntil' = next /\ refusalPending' = TRUE
        /\ outage' = Enqueued(outage, RetryBatch(inFlight, inFlight.attempt, next))
        /\ SendOver(FALSE)
        /\ UNCHANGED <<clockVars, built, transientAttempt, lossVars>>
    BY <1>5 DEF RefusedInGrace
  <2> HIDE DEF next
  <2>3. /\ transientAttempt' \in Nat /\ nextSend' \in Nat /\ heldUntil' \in Nat
        /\ refusalPending' \in BOOLEAN /\ heldUntil' <= nextSend'
    BY <1>3, <2>1, <2>2
  <2>4. UNCHANGED <<clockVars, built, lossVars>>
    BY <2>2
  <2> QED
    BY <2>1, <2>2, <2>3, <2>4, PutBack
<1> QED
  BY <1>4, <1>5

\* The answers after which the batch does not come back.
LEMMA LastAnswers ==
    ASSUME IInv, Accepted \/ (\E aboutKey \in BOOLEAN : Stopped(aboutKey)) \/ PermanentFailure
    PROVE  StepKeeps
<1> DEFINE b == inFlight.batch
<1>0. TypeOK /\ BufferGood /\ NotBoth /\ PlacesAgree /\ HeldBack
  BY DEF IInv
<1>1. /\ Sending /\ UNCHANGED outage
      /\ UNCHANGED <<clockVars, built>>
      /\ \E accepted \in BOOLEAN : SendOver(accepted)
  BY DEF Accepted, Stopped, PermanentFailure
<1>2. /\ b \in Batches /\ Held = InBuffer(outage) \cup {b} /\ Good(outage)
      /\ Buffered = InBuffer(outage) /\ InFlight = {b}
  BY <1>0, <1>1, TypesNow DEF BufferGood
<1>3. b \notin InBuffer(outage) /\ b \in Held /\ InBuffer(outage) = Held \ {b}
  BY <1>0, <1>2 DEF NotBoth
<1>4. ~stopSending
  BY <1>0, <1>1 DEF PlacesAgree
<1>5. EventCount[b] \in Nat /\ Total(EventCount, {b}) = EventCount[b]
  <2> HIDE DEF b
  <2> QED
    BY <1>2, TotalOne
<1>6. /\ transientAttempt \in Nat /\ nextSend \in Nat /\ heldUntil \in Nat /\ sendDropped \in Nat
      /\ refusalPending \in BOOLEAN /\ stopSending \in BOOLEAN
      /\ delivered \in SUBSET Batches /\ destroyed \in SUBSET Batches
      /\ outage.dropped \in Nat
  BY <1>0, TypesNow DEF TypeOK
<1>7. /\ transientAttempt' \in Nat /\ nextSend' \in Nat /\ heldUntil' \in Nat
      /\ sendDropped' \in Nat
      /\ refusalPending' \in BOOLEAN /\ stopSending' \in BOOLEAN
      /\ delivered' \in SUBSET Batches /\ destroyed' \in SUBSET Batches
      /\ heldUntil' <= nextSend'
  <2>1. heldUntil <= nextSend
    BY <1>0 DEF HeldBack
  <2>2. CASE Accepted
    <3>1. /\ transientAttempt' = 0 /\ nextSend' = 0 /\ heldUntil' = 0 /\ refusalPending' = FALSE
          /\ delivered' = delivered \cup {b}
          /\ UNCHANGED <<sendDropped, stopSending, destroyed>>
      BY <2>2 DEF Accepted, StillRefused
    <3>2. refusalPending' \in BOOLEAN /\ stopSending' \in BOOLEAN
      BY <1>6, <3>1
    <3>3. /\ sendDropped' \in Nat /\ delivered' \in SUBSET Batches
          /\ destroyed' \in SUBSET Batches
      BY <1>2, <1>6, <3>1
    <3>4. transientAttempt' \in Nat /\ nextSend' \in Nat /\ heldUntil' \in Nat
          /\ heldUntil' <= nextSend'
      BY <3>1
    <3> QED
      BY <3>2, <3>3, <3>4
  <2>3. CASE \E aboutKey \in BOOLEAN : Stopped(aboutKey)
    BY <1>2, <1>6, <2>1, <2>3 DEF Stopped, gateVars
  <2>4. CASE PermanentFailure
    <3>1. sendDropped' = sendDropped + EventCount[b]
      BY <2>4 DEF PermanentFailure
    <3>2. sendDropped' \in Nat
      BY <1>5, <1>6, <3>1
    <3> QED
      BY <1>6, <2>1, <2>4, <3>2 DEF PermanentFailure, gateVars
  <2> QED
    BY <2>2, <2>3, <2>4
<1>8. /\ ~Sending' /\ Held' = InBuffer(outage')
      /\ TypeOK' /\ BufferGood' /\ NotBoth' /\ PlacesAgree' /\ BacklogKept'
  <2>1. Good(outage') /\ (recovery /\ outage.queue # << >> => outage'.queue # << >>)
    BY <1>1, <1>2
  <2>2. PICK accepted \in BOOLEAN : SendOver(accepted)
    BY <1>1
  <2> QED
    BY <1>1, <1>7, <2>1, <2>2, AnswerOver
<1>9. Held' = Held \ {b}
  BY <1>1, <1>3, <1>8
<1>10. FateStep
  <2>1. CASE Accepted
    <3>1. /\ delivered' = delivered \cup {b}
          /\ UNCHANGED <<built, destroyed, outage, sendDropped, stopSending>>
      BY <2>1 DEF Accepted
    <3> QED
      BY <1>3, <1>4, <1>9, <3>1 DEF FateStep, Delivers, Counted
  <2>2. CASE \E aboutKey \in BOOLEAN : Stopped(aboutKey)
    <3>1. /\ destroyed' = destroyed \cup {b} /\ stopSending' = TRUE
          /\ UNCHANGED <<built, delivered, outage, sendDropped>>
      BY <2>2 DEF Stopped
    <3> QED
      BY <1>3, <1>4, <1>9, <3>1 DEF FateStep, Stops, Counted
  <2>3. CASE PermanentFailure
    <3>1. /\ sendDropped' = sendDropped + EventCount[b]
          /\ UNCHANGED <<built, delivered, destroyed, outage, stopSending>>
      BY <2>3 DEF PermanentFailure
    <3>2. Held \ Held' = {b}
      BY <1>3, <1>9
    <3>3. Total(EventCount, Held \ Held') = EventCount[b]
      BY <1>5, <3>2
    <3>4. Counted' = Counted + EventCount[b]
      BY <1>5, <1>6, <3>1 DEF Counted
    <3> QED
      BY <1>9, <3>1, <3>3, <3>4 DEF FateStep, Loses, HoldsSomeOf
  <2> QED
    BY <2>1, <2>2, <2>3
<1>11. HeldBack' /\ OldestGo(outage, outage')
  BY <1>1, <1>7 DEF HeldBack, OldestGo
<1> QED
  BY <1>8, <1>10, <1>11 DEF StepKeeps, SendBegins

(***************************************************************************)
(* The invariant holds in every reachable state.                           *)
(***************************************************************************)
LEMMA FateKept ==
    ASSUME TypeOK, BufferGood, OneFate, FateStep
    PROVE  OneFate'
<1> DEFINE U     == 1..built
           gone  == U \ (Held \cup delivered \cup destroyed)
           goneP == (1..built') \ (Held' \cup delivered' \cup destroyed')
<1>1. built \in Nat /\ U \in SUBSET Batches
  BY TypesNow
<1>2. EventCount \in [Batches -> Nat]
  BY BufferAssumption
<1>3. /\ Held \cap delivered = {} /\ Held \cap destroyed = {} /\ delivered \cap destroyed = {}
      /\ Held \cup delivered \cup destroyed \subseteq U
      /\ Counted = Total(EventCount, gone)
  BY DEF OneFate
<1>4. built' = built + 1 => 1..built' = U \cup {built'} /\ built' \notin U
  BY <1>1
<1>5. built' = built => 1..built' = U
  OBVIOUS
\* Batches lost are counted, so the count stays that of the batches gone.
<1>6. ASSUME NEW lost, lost \cap gone = {}, goneP = gone \cup lost, goneP \in SUBSET Batches,
             Counted' = Counted + Total(EventCount, lost)
      PROVE  Counted' = Total(EventCount, goneP)
  <2>1. gone \in SUBSET goneP /\ goneP \ gone = lost
    BY <1>6
  <2> HIDE DEF gone, goneP
  <2>2. /\ Total(EventCount, goneP) \in Nat /\ Total(EventCount, gone) \in Nat
        /\ Total(EventCount, goneP \ gone) \in Nat
        /\ Total(EventCount, goneP \ gone) = Total(EventCount, goneP) - Total(EventCount, gone)
    BY <1>2, <1>6, <2>1, TotalMinus
  <2> DEFINE a == Total(EventCount, goneP)
             c == Total(EventCount, gone)
             l == Total(EventCount, lost)
  <2>3. a \in Nat /\ c \in Nat /\ l \in Nat /\ l = a - c
    BY <2>1, <2>2
  <2>4. Counted' = c + l
    BY <1>3, <1>6
  <2> HIDE DEF a, c, l
  <2>5. Counted' = a
    BY <2>3, <2>4
  <2> QED
    BY <2>5 DEF a
<1>7. SUFFICES /\ Held' \cap delivered' = {} /\ Held' \cap destroyed' = {}
               /\ delivered' \cap destroyed' = {}
               /\ Held' \cup delivered' \cup destroyed' \subseteq 1..built'
               /\ Counted' = Total(EventCount, goneP)
  BY DEF OneFate
<1> HIDE DEF U
<1>8. CASE Builds
  <2>1. /\ built' = built + 1 /\ built' \in Batches
        /\ Held' \in SUBSET (Held \cup {built'})
        /\ Counted' = Counted + Total(EventCount, (Held \cup {built'}) \ Held')
        /\ UNCHANGED <<delivered, destroyed>>
    BY <1>8 DEF Builds, HoldsSomeOf
  <2> DEFINE lost == (Held \cup {built'}) \ Held'
  <2>2. /\ Held' \cap delivered' = {} /\ Held' \cap destroyed' = {}
        /\ delivered' \cap destroyed' = {}
        /\ Held' \cup delivered' \cup destroyed' \subseteq 1..built'
    BY <1>3, <1>4, <2>1
  <2>3. lost \cap gone = {} /\ goneP = gone \cup lost /\ goneP \in SUBSET Batches
    BY <1>1, <1>3, <1>4, <2>1
  <2>4. Counted' = Counted + Total(EventCount, lost)
    BY <2>1
  <2> HIDE DEF gone, goneP, lost
  <2>5. Counted' = Total(EventCount, goneP)
    BY <1>6, <2>3, <2>4
  <2> QED
    BY <2>2, <2>5
<1>9. CASE Loses
  <2>1. /\ built' = built
        /\ Held' \in SUBSET Held
        /\ Counted' = Counted + Total(EventCount, Held \ Held')
        /\ UNCHANGED <<delivered, destroyed>>
    BY <1>9 DEF Loses, HoldsSomeOf
  <2> DEFINE lost == Held \ Held'
  <2>2. /\ Held' \cap delivered' = {} /\ Held' \cap destroyed' = {}
        /\ delivered' \cap destroyed' = {}
        /\ Held' \cup delivered' \cup destroyed' \subseteq 1..built'
    BY <1>3, <1>5, <2>1
  <2>3. lost \cap gone = {} /\ goneP = gone \cup lost /\ goneP \in SUBSET Batches
    BY <1>1, <1>3, <1>5, <2>1
  <2>4. Counted' = Counted + Total(EventCount, lost)
    BY <2>1
  <2> HIDE DEF gone, goneP, lost
  <2>5. Counted' = Total(EventCount, goneP)
    BY <1>6, <2>3, <2>4
  <2> QED
    BY <2>2, <2>5
<1>10. CASE GivesUp
  <2>1. /\ built' = built + 1
        /\ destroyed' = destroyed \cup {built'}
        /\ UNCHANGED <<Held, delivered, Counted>>
    BY <1>10 DEF GivesUp
  <2>2. goneP = gone
    BY <1>3, <1>4, <2>1
  <2> HIDE DEF gone, goneP
  <2> QED
    BY <1>3, <1>4, <2>1, <2>2
<1>11. CASE Delivers
  <2>1. /\ built' = built
        /\ \E b \in Held : Held' = Held \ {b} /\ delivered' = delivered \cup {b}
        /\ UNCHANGED <<destroyed, Counted>>
    BY <1>11 DEF Delivers
  <2>2. goneP = gone
    BY <1>3, <1>5, <2>1
  <2> HIDE DEF gone, goneP
  <2> QED
    BY <1>3, <1>5, <2>1, <2>2
<1>12. CASE Stops
  <2>1. /\ built' = built
        /\ \E b \in Held : Held' = Held \ {b} /\ destroyed' = destroyed \cup {b}
        /\ UNCHANGED <<delivered, Counted>>
    BY <1>12 DEF Stops
  <2>2. goneP = gone
    BY <1>3, <1>5, <2>1
  <2> HIDE DEF gone, goneP
  <2> QED
    BY <1>3, <1>5, <2>1, <2>2
<1> QED
  BY <1>8, <1>9, <1>10, <1>11, <1>12 DEF FateStep

\* A refusal that is pending is of a batch that is not delivered.
LEMMA RefusalKept ==
    ASSUME IInv, Next
    PROVE  Refused'
<1>0. TypeOK /\ BufferGood /\ OneFate /\ Refused
  BY DEF IInv
<1>1. CASE Accepted
  BY <1>1 DEF Accepted, StillRefused, Refused
<1>2. CASE \E after \in RetryAfters : RefusedInGrace(after)
  <2>1. Sending /\ UNCHANGED <<delivered, built>>
    BY <1>2 DEF RefusedInGrace, lossVars
  <2>2. inFlight.batch \in Held
    BY <1>0, <2>1, TypesNow
  <2>3. inFlight.batch \notin delivered /\ inFlight.batch \in 1..built
    BY <1>0, <2>2 DEF OneFate
  <2> QED
    BY <2>1, <2>3 DEF Refused
<1>3. CASE FlushOneBatch \/ DrainOneBatch
  <2>1. built' = built + 1 /\ delivered' = delivered
    BY <1>3 DEF FlushOneBatch, DrainOneBatch, BuildBatch
  <2>2. built \in Nat /\ delivered \subseteq 1..built
    BY <1>0, TypesNow DEF OneFate
  <2>3. built' \in 1..built' /\ built' \notin delivered'
    BY <2>1, <2>2
  <2> QED
    BY <2>3 DEF Refused
<1>4. CASE /\ ~Accepted /\ ~(\E after \in RetryAfters : RefusedInGrace(after))
           /\ ~(FlushOneBatch \/ DrainOneBatch)
  <2>1. UNCHANGED <<refusalPending, delivered, built>>
    BY <1>4 DEF Next, WorkerStep, Answer, CloserStep, NothingToFlush, ReplayOne, NothingToReplay, StartDraining,
       QueueDrained, DrainNext, DrainDone, DrainReplay, DrainGivesUp, TransientFailure, Stopped,
       PermanentFailure, Close, ReportStep, JoinEnds, ReadsRefusal, ReportsRefusal, Tick, gateVars, lossVars
  <2> QED
    BY <1>0, <2>1 DEF Refused
<1> QED
  BY <1>1, <1>2, <1>3, <1>4

LEMMA StepsKeep ==
    ASSUME IInv, Next
    PROVE  StepKeeps
<1>1. ASSUME NEW after \in RetryAfters, TransientFailure(after) \/ RefusedInGrace(after)
      PROVE  StepKeeps
  BY <1>1, RetrySteps
<1>2. CASE FlushOneBatch \/ DrainOneBatch
  BY <1>2, BuildSteps
<1>3. CASE NothingToReplay \/ DrainNext
  BY <1>3, AgingSteps
<1>4. CASE ReplayOne \/ DrainReplay
  BY <1>4, ReplaySteps
<1>5. CASE \/ NothingToFlush \/ StartDraining \/ QueueDrained \/ DrainDone \/ DrainGivesUp
           \/ Close \/ ReportStep \/ Tick
  BY <1>5, QuietSteps
<1>6. CASE Accepted \/ (\E aboutKey \in BOOLEAN : Stopped(aboutKey)) \/ PermanentFailure
  BY <1>6, LastAnswers
<1> QED
  BY <1>1, <1>2, <1>3, <1>4, <1>5, <1>6 DEF Next, WorkerStep, Answer, CloserStep, ReportStep

LEMMA InitHolds ==
    ASSUME Init
    PROVE  IInv
<1>1. /\ Cardinality(Batches) \in Nat /\ RetryQueueSize \in Nat /\ RetryQueueSize # 0
      /\ BufferMaxEvents \in Nat /\ BufferMaxBytes \in Nat /\ MaxTime \in Nat /\ MaxTime # 0
  <2>1. Cardinality(Batches) \in Nat
    BY BufferAssumption, FS_CardinalityType
  <2> QED
    BY <2>1, BufferAssumption
<1>2. << >> \in Seq(Item) /\ Len(<< >>) = 0 /\ DOMAIN << >> = {} /\ Range(<< >>) = {}
  <2>1. << >> \in Seq(Item) /\ Len(<< >>) = 0 /\ DOMAIN << >> = {}
    OBVIOUS
  <2> QED
    BY <2>1 DEF Range
<1>3. /\ outage.queue = << >> /\ outage.events = 0 /\ outage.bytes = 0 /\ outage.dropped = 0
      /\ outage \in BufferRecord
  BY <1>2 DEF Init, BufferRecord
<1>4. InBuffer(outage) = {} /\ Buffered = {} /\ ~Sending /\ InFlight = {} /\ Held = {}
  <2>1. InBuffer(outage) = {} /\ Buffered = {}
    BY <1>2, <1>3 DEF InBuffer, BatchesOf, Buffered
  <2>2. ~Sending /\ InFlight = {}
    BY DEF Init, Sending, InFlight
  <2> QED
    BY <2>1, <2>2 DEF Held
<1>5. Total(EventCount, {}) = 0 /\ Total(EstimatedBytes, {}) = 0
  BY SumEmpty DEF Total
<1>6. BufferGood
  <2>1. Distinct(outage.queue) /\ Within(outage)
    BY <1>1, <1>2, <1>3 DEF Distinct, Within
  <2> QED
    BY <1>3, <1>4, <1>5, <2>1 DEF BufferGood, Good, InBuffer
<1>7. TypeOK
  <2>1. now \in 1..MaxTime /\ built \in 0..Cardinality(Batches)
    BY <1>1 DEF Init
  <2>2. workerAt \in WorkerPlaces /\ workerAt \notin SendingPlaces
    BY DEF Init, WorkerPlaces, SendingPlaces
  <2>3. closeReport \in Report
    BY DEF Init, NotReturned, Report
  <2> HIDE DEF WorkerPlaces, SendingPlaces
  <2>4. {recovery, stopSending, refusalPending, closing} \subseteq BOOLEAN
    BY DEF Init
  <2>5. {transientAttempt, nextSend, nextReplay, sendDropped, deadline, heldUntil} \subseteq Nat
    BY DEF Init
  <2>6. inFlight \in Send \cup {Idle} /\ delivered \subseteq Batches /\ destroyed \subseteq Batches
    BY DEF Init
  <2> QED
    BY <1>3, <1>4, <2>1, <2>2, <2>3, <2>4, <2>5, <2>6 DEF TypeOK, BufferRecord, Report
<1>8. OneFate
  <2>1. built = 0 /\ delivered = {} /\ destroyed = {} /\ sendDropped = 0
    BY DEF Init
  <2>2. 1..built = {}
    BY <2>1
  <2>3. Counted = 0
    BY <1>3, <2>1 DEF Counted
  <2> QED
    BY <1>4, <1>5, <2>1, <2>2, <2>3 DEF OneFate
<1>9. NotBoth /\ PlacesAgree /\ BacklogKept /\ HeldBack /\ Refused
  BY <1>4 DEF Init, NotBoth, PlacesAgree, BacklogKept, HeldBack, Refused
<1> QED
  BY <1>6, <1>7, <1>8, <1>9 DEF IInv

LEMMA StepHolds ==
    ASSUME IInv, [Next]_vars
    PROVE  IInv'
<1>1. CASE Next
  <2>1. StepKeeps
    BY <1>1, StepsKeep
  <2>2. OneFate'
    BY <2>1, FateKept DEF StepKeeps, IInv
  <2>3. Refused'
    BY <1>1, RefusalKept
  <2> QED
    BY <2>1, <2>2, <2>3 DEF StepKeeps, IInv
<1>2. CASE UNCHANGED vars
  <2>1. /\ UNCHANGED <<now, deadline, closing, closeReport, built, outage, workerAt, inFlight>>
        /\ UNCHANGED <<transientAttempt, nextSend, refusalPending, heldUntil>>
        /\ UNCHANGED <<nextReplay, recovery, sendDropped, stopSending, delivered, destroyed>>
    BY <1>2 DEF vars, clockVars, gateVars, replayVars, lossVars
  <2>2. Sending' = Sending /\ Buffered' = Buffered /\ InFlight' = InFlight
    BY <2>1 DEF Sending, Buffered, InFlight
  <2>3. Held' = Held /\ Counted' = Counted
    BY <2>1, <2>2 DEF Held, Counted
  <2>4. TypeOK'
    BY <2>1, <2>2 DEF IInv, TypeOK
  <2>5. BufferGood' /\ NotBoth' /\ OneFate' /\ PlacesAgree' /\ BacklogKept' /\ HeldBack' /\ Refused'
    BY <2>1, <2>2, <2>3
       DEF IInv, BufferGood, NotBoth, OneFate, PlacesAgree, BacklogKept, HeldBack, Refused
  <2> QED
    BY <2>4, <2>5 DEF IInv
<1> QED
  BY <1>1, <1>2

LEMMA AlwaysIInv == Spec => []IInv
<1>1. Init => IInv
  BY InitHolds
<1>2. IInv /\ [Next]_vars => IInv'
  BY StepHolds
<1> QED
  BY <1>1, <1>2, PTL DEF Spec

-----------------------------------------------------------------------------
(***************************************************************************)
(* The theorems.                                                           *)
(***************************************************************************)
\* Every variable keeps its type; a clock that stops at MaxTime included.
THEOREM TypeCorrect == Spec => []TypeOK
<1>1. IInv => TypeOK
  BY DEF IInv
<1> QED
  BY <1>1, AlwaysIInv, PTL

\* The totals kept by _retry_append, _retry_take and _prune_expired are those of the
\* buffered batches, and the three bounds of the buffer hold, whatever expires, is
\* evicted or comes back.
THEOREM TotalsInStep == Spec => []BufferInStep
<1>1. IInv => BufferInStep
  <2> SUFFICES ASSUME IInv
               PROVE  BufferInStep
    OBVIOUS
  <2>1. Good(outage) /\ outage.queue \in Seq(Item) /\ Distinct(outage.queue)
    BY GoodNow DEF IInv, BufferGood, Good
  <2>2. /\ Range(outage.queue) \in SUBSET Item /\ IsFiniteSet(Range(outage.queue))
        /\ Apart(Range(outage.queue))
        /\ Len(outage.queue) = Cardinality(BatchesOf(Range(outage.queue)))
    BY <2>1, QueueRange
  <2>3. /\ EventsIn(Range(outage.queue)) = Total(EventCount, BatchesOf(Range(outage.queue)))
        /\ BytesIn(Range(outage.queue)) = Total(EstimatedBytes, BatchesOf(Range(outage.queue)))
    BY <2>2, ItemsWeigh
  <2>4. Buffered = BatchesOf(Range(outage.queue))
    BY DEF Buffered, BatchesOf
  <2> QED
    BY <2>1, <2>2, <2>3, <2>4 DEF BufferInStep, Good, Within
<1> QED
  BY <1>1, AlwaysIInv, PTL

\* When the worker is back at its wait, a confirmed recovery has a backlog.
THEOREM RecoveryHasBacklog == Spec => []RecoveryMeansBacklog
<1>1. IInv => RecoveryMeansBacklog
  BY DEF IInv, BacklogKept, RecoveryMeansBacklog
<1> QED
  BY <1>1, AlwaysIInv, PTL

\* Outside a close no request begins before the moment the last answer asked for.
THEOREM AnswersWaitedOut == Spec => WaitsAsAsked
<1>1. IInv /\ [Next]_vars => [SendBegins /\ ~closing => now >= heldUntil]_vars
  BY StepsKeep DEF StepKeeps
<1> QED
  BY <1>1, AlwaysIInv, PTL DEF Spec, WaitsAsAsked

\* What a step drops from the buffer is no younger than what it leaves there.
THEOREM OldestEvicted == Spec => EvictsOldest
<1>1. IInv /\ [Next]_vars =>
         [~SendBegins =>
            \A x \in Range(outage.queue) \ Range(outage'.queue),
               y \in Range(outage.queue) \cap Range(outage'.queue) :
                   x.bufferedAt <= y.bufferedAt]_vars
  BY StepsKeep DEF StepKeeps, OldestGo
<1> QED
  BY <1>1, AlwaysIInv, PTL DEF Spec, EvictsOldest

\* What is buffered is what was built, less the delivered, the given up, the one in
\* flight and those counted as dropped.
LEMMA BufferedIsRest ==
    ASSUME IInv
    PROVE  outage.events = CountOf(1..built) - CountOf(delivered \cup destroyed \cup InFlight)
                               - outage.dropped - sendDropped
<1> DEFINE U    == 1..built
           D    == delivered \cup destroyed \cup InFlight
           gone == U \ (Held \cup delivered \cup destroyed)
<1>0. TypeOK /\ BufferGood /\ NotBoth /\ OneFate
  BY DEF IInv
<1>1. U \in SUBSET Batches /\ outage.dropped \in Nat /\ sendDropped \in Nat
  BY <1>0, TypesNow
<1>2. EventCount \in [Batches -> Nat]
  BY BufferAssumption
<1>3. outage.events = Total(EventCount, Buffered)
  BY <1>0, TypesNow DEF BufferGood, Good, InBuffer
<1>4. /\ D \in SUBSET U /\ gone \in SUBSET (U \ D)
      /\ (U \ D) \ gone = Buffered
      /\ Counted = Total(EventCount, gone)
  BY <1>0 DEF OneFate, NotBoth, Held
<1>5. CountOf(U) = Total(EventCount, U) /\ CountOf(D) = Total(EventCount, D)
  BY CountIsTotal
<1> DEFINE rest == U \ D
<1> HIDE DEF U, D, gone
<1>6. /\ Total(EventCount, U) \in Nat /\ Total(EventCount, D) \in Nat
      /\ Total(EventCount, rest) \in Nat
      /\ Total(EventCount, rest) = Total(EventCount, U) - Total(EventCount, D)
  BY <1>1, <1>2, <1>4, TotalMinus
<1>7. /\ Total(EventCount, gone) \in Nat /\ Total(EventCount, Buffered) \in Nat
      /\ Total(EventCount, Buffered) = Total(EventCount, rest) - Total(EventCount, gone)
  <2>1. rest \in SUBSET Batches /\ gone \in SUBSET rest /\ rest \ gone = Buffered
    BY <1>1, <1>4
  <2> HIDE DEF rest
  <2> QED
    BY <1>2, <2>1, TotalMinus
<1>8. outage.dropped + sendDropped = Total(EventCount, gone)
  BY <1>4 DEF Counted
<1> DEFINE u == Total(EventCount, U)
           d == Total(EventCount, D)
           r == Total(EventCount, rest)
           g == Total(EventCount, gone)
           e == Total(EventCount, Buffered)
<1>9. /\ u \in Nat /\ d \in Nat /\ r \in Nat /\ r = u - d /\ g \in Nat /\ e \in Nat /\ e = r - g
      /\ outage.dropped + sendDropped = g /\ outage.events = e
      /\ CountOf(U) = u /\ CountOf(D) = d
  BY <1>3, <1>5, <1>6, <1>7, <1>8
<1> HIDE DEF u, d, r, g, e
<1>10. outage.events = CountOf(U) - CountOf(D) - outage.dropped - sendDropped
  BY <1>1, <1>9
<1> QED
  BY <1>10 DEF U, D

\* A worker that was done at the join is done for good, and so the flag that close has
\* read stays as it was.
Joined ==
    closeReport.drained => /\ workerAt = "done"
                           /\ closeReport.stage = "reporting" => refusalPending

LEMMA JoinedKept ==
    ASSUME IInv, Joined, [Next]_vars
    PROVE  Joined'
<1>0. TypeOK
  BY DEF IInv
<1>1. CASE JoinEnds
  <2>1. closeReport'.stage = "joined" /\ closeReport'.drained = (workerAt = "done")
    BY <1>0, <1>1 DEF JoinEnds, TypeOK
  <2>2. workerAt' = workerAt
    BY <1>1 DEF JoinEnds
  <2> QED
    BY <2>1, <2>2 DEF Joined
<1>2. CASE ReadsRefusal
  <2>1. closeReport'.stage = (IF refusalPending THEN "reporting" ELSE "returned")
    BY <1>0, <1>2 DEF ReadsRefusal, TypeOK
  <2>2. closeReport'.drained = closeReport.drained
    BY <1>0, <1>2 DEF ReadsRefusal, TypeOK
  <2>3. workerAt' = workerAt /\ refusalPending' = refusalPending
    BY <1>2 DEF ReadsRefusal, gateVars
  <2>4. closeReport'.stage = "reporting" => refusalPending'
    BY <2>1, <2>3
  <2> QED
    BY <2>2, <2>3, <2>4 DEF Joined
<1>3. CASE ReportsRefusal
  <2>1. closeReport'.stage = "returned" /\ closeReport'.drained = closeReport.drained
    BY <1>0, <1>3 DEF ReportsRefusal, TypeOK
  <2>2. workerAt' = workerAt
    BY <1>3 DEF ReportsRefusal
  <2> QED
    BY <2>1, <2>2 DEF Joined
<1>4. CASE Close \/ Tick \/ UNCHANGED vars
  <2>1. UNCHANGED <<closeReport, workerAt, refusalPending>>
    BY <1>4 DEF Close, Tick, vars, clockVars, gateVars
  <2> QED
    BY <2>1 DEF Joined
<1>5. CASE WorkerStep \/ Answer
  <2>1. workerAt # "done"
    <3>1. CASE WorkerStep
      BY <3>1 DEF WorkerStep, FlushOneBatch, NothingToFlush, ReplayOne, NothingToReplay,
         StartDraining, DrainOneBatch, QueueDrained, DrainNext, DrainDone, DrainReplay, DrainGivesUp
    <3>2. CASE Answer
      <4>1. Sending
        BY <3>2 DEF Answer, Accepted, TransientFailure, RefusedInGrace, Stopped, PermanentFailure
      <4> QED
        BY <1>0, <4>1 DEF TypeOK, SendingPlaces
    <3> QED
      BY <1>5, <3>1, <3>2
  <2>2. closeReport' = closeReport
    BY <1>5 DEF WorkerStep, Answer, FlushOneBatch, NothingToFlush, ReplayOne, NothingToReplay,
       StartDraining, DrainOneBatch, QueueDrained, DrainNext, DrainDone, DrainReplay, DrainGivesUp,
       Accepted, TransientFailure, RefusedInGrace, Stopped, PermanentFailure, clockVars
  <2> QED
    BY <2>1, <2>2 DEF Joined
<1> QED
  BY <1>1, <1>2, <1>3, <1>4, <1>5 DEF Next, CloserStep

LEMMA AlwaysJoined == Spec => [](IInv /\ Joined)
<1>1. Init => IInv /\ Joined
  <2>1. Init => Joined
    BY DEF Init, NotReturned, Joined
  <2> QED
    BY <2>1, InitHolds
<1>2. IInv /\ Joined /\ [Next]_vars => (IInv /\ Joined)'
  BY StepHolds, JoinedKept
<1> QED
  BY <1>1, <1>2, PTL DEF Spec

\* When close() has waited for the worker to its end and says that the key was never
\* accepted, not all that was built got through, and the number it gives is right.
THEOREM ReportIsRight == Spec => UndeliveredNamed
<1>1. ASSUME IInv, Joined, [Next]_vars, closeReport'.said, ~closeReport.said, closeReport.drained
      PROVE  /\ delivered # 1..built
             /\ closeReport'.undelivered =
                    CountOf(1..built) - CountOf(delivered \cup destroyed)
                        - outage.dropped - sendDropped
  <2>0. TypeOK
    BY <1>1 DEF IInv
  <2>1. closeReport' # closeReport
    BY <1>1
  <2>2. ReportStep
    BY <1>1, <2>1 DEF Next, WorkerStep, Answer, CloserStep, FlushOneBatch, NothingToFlush,
       ReplayOne, NothingToReplay, StartDraining, DrainOneBatch, QueueDrained, DrainNext, DrainDone,
       DrainReplay, DrainGivesUp, Accepted, TransientFailure, RefusedInGrace, Stopped,
       PermanentFailure, Close, Tick, clockVars, vars, ReportStep
  <2>3. ReportsRefusal
    <3>1. ~JoinEnds
      <4>1. JoinEnds => closeReport'.said = closeReport.said
        BY <2>0 DEF JoinEnds, TypeOK
      <4> QED
        BY <1>1, <4>1
    <3>2. ~ReadsRefusal
      <4>1. ReadsRefusal => closeReport'.said = closeReport.said
        BY <2>0 DEF ReadsRefusal, TypeOK
      <4> QED
        BY <1>1, <4>1
    <3> QED
      BY <2>2, <3>1, <3>2 DEF ReportStep
  <2>4. closeReport.stage = "reporting" /\ closeReport'.undelivered = outage.events
    BY <2>0, <2>3 DEF ReportsRefusal, TypeOK
  <2>5. workerAt = "done" /\ refusalPending
    BY <1>1, <2>4 DEF Joined
  <2>6. delivered # 1..built
    BY <1>1, <2>5 DEF IInv, Refused
  <2>7. InFlight = {}
    BY <2>0, <2>5 DEF TypeOK, SendingPlaces, InFlight
  <2>8. delivered \cup destroyed \cup InFlight = delivered \cup destroyed
    BY <2>7
  <2> QED
    BY <1>1, <2>4, <2>6, <2>8, BufferedIsRest
<1>2. IInv /\ Joined /\ [Next]_vars =>
         [closeReport'.said /\ ~closeReport.said /\ closeReport.drained =>
             /\ delivered # 1..built
             /\ closeReport'.undelivered =
                    CountOf(1..built) - CountOf(delivered \cup destroyed)
                        - outage.dropped - sendDropped]_vars
  BY <1>1
<1> QED
  BY <1>2, AlwaysJoined, PTL DEF Spec, UndeliveredNamed

(***************************************************************************)
(* OutageBuffer implements BatchCustody.                                   *)
(***************************************************************************)
LEMMA CustodyCounts ==
    ASSUME NEW inHand
    PROVE  Custody!HoldSomeOf(inHand) <=> HoldsSomeOf(inHand)
BY DEF Custody!HoldSomeOf, Custody!MapThenSumSet, Custody!MapThenFoldSet, HoldsSomeOf, Held,
       Counted, Total, SumFunctionOnSet, FoldFunctionOnSet, MapThenFoldSet

LEMMA FateIsCustody ==
    ASSUME FateStep
    PROVE  Custody!Next
<1>1. CASE Builds
  BY <1>1, CustodyCounts DEF Builds, Custody!Next, Custody!Build, Custody!Batches, Batches, Held, Counted
<1>2. CASE GivesUp
  BY <1>2 DEF GivesUp, Custody!Next, Custody!GiveUp, Custody!Batches, Batches, Held, Counted
<1>3. CASE Loses
  BY <1>3, CustodyCounts DEF Loses, Custody!Next, Custody!Lose, Held, Counted
<1>4. CASE Delivers
  BY <1>4 DEF Delivers, Custody!Next, Custody!Deliver, Held, Counted
<1>5. CASE Stops
  BY <1>5 DEF Stops, Custody!Next, Custody!Stop, Held, Counted
<1> QED
  BY <1>1, <1>2, <1>3, <1>4, <1>5 DEF FateStep

\* A batch has one fate, its loss is counted once, and nothing is delivered once the
\* endpoint has turned sending off.
THEOREM ImplementsBatchCustody == Spec => KeepsCustody
<1>1. Init => Custody!Init
  <2> SUFFICES ASSUME Init
               PROVE  Custody!Init
    OBVIOUS
  <2>1. Range(outage.queue) = {}
    <3>1. outage.queue = << >> /\ DOMAIN << >> = {}
      BY DEF Init
    <3> QED
      BY <3>1 DEF Range
  <2>2. Buffered = {} /\ InFlight = {}
    BY <2>1 DEF Init, Buffered, InFlight, Sending
  <2>3. outage.dropped + sendDropped = 0
    BY DEF Init
  <2> QED
    BY <2>2, <2>3 DEF Init, Custody!Init
<1>2. IInv /\ [Next]_vars => [Custody!Next]_(Custody!vars)
  <2> SUFFICES ASSUME IInv, [Next]_vars
               PROVE  [Custody!Next]_(Custody!vars)
    OBVIOUS
  <2>1. CASE Next
    BY <2>1, StepsKeep, FateIsCustody DEF StepKeeps
  <2>2. CASE UNCHANGED vars
    <3>1. UNCHANGED <<built, outage, inFlight, delivered, destroyed, sendDropped, stopSending>>
      BY <2>2 DEF vars, lossVars
    <3>2. Buffered' = Buffered /\ InFlight' = InFlight
      BY <3>1 DEF Buffered, InFlight, Sending
    <3> QED
      BY <3>1, <3>2 DEF Custody!vars
  <2> QED
    BY <2>1, <2>2
<1> QED
  BY <1>1, <1>2, AlwaysIInv, PTL DEF Spec, KeepsCustody, Custody!Spec

=============================================================================
