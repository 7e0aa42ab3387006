-------------------------------- MODULE Sums --------------------------------
(***************************************************************************)
(* Facts about the sums of the community modules, SumFunctionOnSet and     *)
(* SumFunction, over finite sets.  Such a sum is a fold in an order that   *)
(* CHOOSE fixes; what is proved here is that the order does not matter.    *)
(* At the end, facts about the members of a finite set of numbers in their *)
(* order.                                                                  *)
(*                                                                         *)
(* Induction is over the subsets of a finite set, by a smallest one for    *)
(* which a statement fails.                                                *)
(***************************************************************************)
EXTENDS Integers, FiniteSets, FiniteSetsExt, Functions, FiniteSetTheorems, TLAPS

LEMMA SmallestSubset ==
    ASSUME NEW S, IsFiniteSet(S), NEW Bad \in SUBSET SUBSET S, Bad # {}
    PROVE  \E T \in Bad : \A U \in SUBSET T : U # T => U \notin Bad
<1>1. IsWellFoundedOn(StrictSubsetOrdering(S), SUBSET S)
  BY FS_StrictSubsetOrderingWellFounded, FS_FiniteSubsetsOfFinite
<1>2. PICK T \in Bad : \A U \in Bad : <<U, T>> \notin StrictSubsetOrdering(S)
  BY <1>1, WFMin
<1>3. ASSUME NEW U \in SUBSET T, U # T, U \in Bad
      PROVE  FALSE
  BY <1>2, <1>3 DEF StrictSubsetOrdering
<1> QED
  BY <1>3

(***************************************************************************)
(* The recursion of a sum, and that it has exactly one solution.           *)
(***************************************************************************)
Chosen(s) == CHOOSE x \in s : TRUE

FoldOf(f, S, g) ==
    [s \in SUBSET S |-> IF s = {} THEN 0 ELSE f[Chosen(s)] + g[s \ {Chosen(s)}]]

Solves(f, S, g) == g = FoldOf(f, S, g)

LEMMA ChosenIn == \A s : s # {} => Chosen(s) \in s
BY DEF Chosen

LEMMA SumIsFold ==
    ASSUME NEW f, NEW S
    PROVE  SumFunctionOnSet(f, S) = (CHOOSE g : Solves(f, S, g))[S]
BY DEF SumFunctionOnSet, FoldFunctionOnSet, MapThenFoldSet, FoldOf, Solves, Chosen

\* Two solutions agree where both are defined.
LEMMA SolutionsAgree ==
    ASSUME NEW f, NEW f2, NEW S, IsFiniteSet(S), NEW S1, NEW S2, S \subseteq S1, S \subseteq S2,
           \A x \in S : f[x] = f2[x],
           NEW g, Solves(f, S1, g), NEW h, Solves(f2, S2, h)
    PROVE  g[S] = h[S]
<1> DEFINE Bad == {s \in SUBSET S : g[s] # h[s]}
<1>1. ASSUME Bad # {} PROVE FALSE
  <2>1. PICK s \in Bad : \A u \in SUBSET s : u # s => u \notin Bad
    <3> HIDE DEF Bad
    <3>1. Bad \in SUBSET SUBSET S
      BY DEF Bad
    <3> QED
      BY <1>1, <3>1, SmallestSubset
  <2>2. /\ g[s] = IF s = {} THEN 0 ELSE f[Chosen(s)] + g[s \ {Chosen(s)}]
        /\ h[s] = IF s = {} THEN 0 ELSE f2[Chosen(s)] + h[s \ {Chosen(s)}]
    <3>1. s \in SUBSET S1 /\ s \in SUBSET S2
      OBVIOUS
    <3>2. \A t \in SUBSET S1 :
              g[t] = IF t = {} THEN 0 ELSE f[Chosen(t)] + g[t \ {Chosen(t)}]
      BY Zenon DEF Solves, FoldOf
    <3>3. \A t \in SUBSET S2 :
              h[t] = IF t = {} THEN 0 ELSE f2[Chosen(t)] + h[t \ {Chosen(t)}]
      BY Zenon DEF Solves, FoldOf
    <3> QED
      BY <3>1, <3>2, <3>3
  <2>3. CASE s = {}
    BY <2>2, <2>3
  <2>4. CASE s # {}
    <3>1. Chosen(s) \in s
      BY <2>4, ChosenIn
    <3>2. s \ {Chosen(s)} \in SUBSET s /\ s \ {Chosen(s)} # s
      BY <3>1
    <3>3. g[s \ {Chosen(s)}] = h[s \ {Chosen(s)}]
      BY <2>1, <3>2
    <3>4. f[Chosen(s)] = f2[Chosen(s)]
      BY <3>1
    <3> QED
      BY <2>2, <2>4, <3>3, <3>4
  <2> QED
    BY <2>3, <2>4
<1> QED
  BY <1>1

LEMMA SolutionExists ==
    ASSUME NEW f, NEW S, IsFiniteSet(S)
    PROVE  \E g : Solves(f, S, g)
<1> DEFINE Solved(T) == \E g : Solves(f, T, g)
           Bad == {T \in SUBSET S : ~Solved(T)}
<1>1. ASSUME Bad # {} PROVE FALSE
  <2>1. PICK T \in Bad : \A U \in SUBSET T : U # T => U \notin Bad
    <3> HIDE DEF Bad
    <3>1. Bad \in SUBSET SUBSET S
      BY DEF Bad
    <3> QED
      BY <1>1, <3>1, SmallestSubset
  <2> DEFINE Sol(U) == CHOOSE g : Solves(f, U, g)
             Rest(s) == s \ {Chosen(s)}
             Value(s) == IF s = {} THEN 0 ELSE f[Chosen(s)] + Sol(Rest(s))[Rest(s)]
             new == [s \in SUBSET T |-> Value(s)]
  <2>2. ASSUME NEW U \in SUBSET T, U # T
        PROVE  Solves(f, U, Sol(U))
    <3>1. \E g : Solves(f, U, g)
      BY <2>1, <2>2
    <3> QED
      BY <3>1
  <2>3. ASSUME NEW s \in SUBSET T, s # T
        PROVE  Sol(s)[s] = Value(s)
    <3>1. Sol(s) = FoldOf(f, s, Sol(s))
      BY <2>2, <2>3 DEF Solves
    <3> DEFINE sol == Sol(s)
    <3>2. sol[s] = IF s = {} THEN 0 ELSE f[Chosen(s)] + sol[Rest(s)]
      <4> HIDE DEF sol
      <4>1. sol = FoldOf(f, s, sol)
        BY <3>1 DEF sol
      <4> QED
        BY <4>1, Zenon DEF FoldOf
    <3>3. CASE s = {}
      BY <3>2, <3>3
    <3>4. CASE s # {}
      <4>1. Chosen(s) \in s
        BY <3>4, ChosenIn
      <4>2. Rest(s) \in SUBSET T /\ Rest(s) # T /\ Rest(s) \subseteq s
        BY <4>1, <2>3
      <4>3. IsFiniteSet(Rest(s))
        BY <4>2, FS_Subset
      <4>4. Solves(f, Rest(s), Sol(Rest(s))) /\ Solves(f, s, Sol(s))
        BY <4>2, <2>2, <2>3
      <4>5. Sol(s)[Rest(s)] = Sol(Rest(s))[Rest(s)]
        <5> HIDE DEF Sol, Rest
        <5> QED
          BY <4>2, <4>3, <4>4, SolutionsAgree
      <4> QED
        BY <3>2, <3>4, <4>5
    <3> QED
      BY <3>3, <3>4
  <2>4. \A s \in SUBSET T : new[s] = IF s = {} THEN 0 ELSE f[Chosen(s)] + new[Rest(s)]
    <3> SUFFICES ASSUME NEW s \in SUBSET T
                 PROVE  new[s] = IF s = {} THEN 0 ELSE f[Chosen(s)] + new[Rest(s)]
      <4> HIDE DEF new, Rest
      <4> QED
        OBVIOUS
    <3>0. CASE s = {}
      BY <3>0
    <3>1. CASE s # {}
      <4>1. Rest(s) \in SUBSET T /\ Rest(s) # T
        BY <3>1, ChosenIn
      <4>2. Sol(Rest(s))[Rest(s)] = Value(Rest(s))
        <5> HIDE DEF Sol, Rest, Value
        <5> QED
          BY <4>1, <2>3
      <4>3. new[Rest(s)] = Value(Rest(s)) /\ new[s] = Value(s)
        <5> HIDE DEF Value, Rest
        <5> QED
          BY <4>1
      <4>4. Value(s) = f[Chosen(s)] + Sol(Rest(s))[Rest(s)]
        BY <3>1
      <4> HIDE DEF new, Sol, Rest, Value
      <4> QED
        BY <3>1, <4>2, <4>3, <4>4
    <3> QED
      BY <3>0, <3>1
  <2>5. Solves(f, T, new)
    <3>1. new = [s \in SUBSET T |-> IF s = {} THEN 0 ELSE f[Chosen(s)] + new[Rest(s)]]
      <4>1. new = [s \in SUBSET T |-> new[s]]
        <5> HIDE DEF Value
        <5> QED OBVIOUS
      <4> HIDE DEF new, Rest
      <4> QED
        BY <2>4, <4>1
    <3> QED
      BY <3>1 DEF Solves, FoldOf
  <2> QED
    BY <2>1, <2>5
<1> QED
  BY <1>1

(***************************************************************************)
(* The sum as a fold: empty, one element less, and in any order.           *)
(***************************************************************************)
LEMMA SumUnfold ==
    ASSUME NEW f, NEW S, IsFiniteSet(S)
    PROVE  /\ SumFunctionOnSet(f, {}) = 0
           /\ S # {} => SumFunctionOnSet(f, S) =
                            f[Chosen(S)] + SumFunctionOnSet(f, S \ {Chosen(S)})
<1> DEFINE Sol(T) == CHOOSE g : Solves(f, T, g)
<1>1. ASSUME NEW T, IsFiniteSet(T)
      PROVE  Solves(f, T, Sol(T)) /\ SumFunctionOnSet(f, T) = Sol(T)[T]
  <2>1. \E g : Solves(f, T, g)
    BY <1>1, SolutionExists
  <2>2. SumFunctionOnSet(f, T) = Sol(T)[T]
    BY SumIsFold
  <2> QED
    BY <2>1, <2>2
<1>2. ASSUME NEW T, NEW g, Solves(f, T, g)
      PROVE  g[T] = IF T = {} THEN 0 ELSE f[Chosen(T)] + g[T \ {Chosen(T)}]
  BY <1>2, Zenon DEF Solves, FoldOf
<1>3. SumFunctionOnSet(f, {}) = 0
  <2> HIDE DEF Sol
  <2> QED
    BY <1>1, <1>2, FS_EmptySet
<1>4. ASSUME NEW R \in SUBSET S
      PROVE  Sol(S)[R] = Sol(R)[R]
  <2>1. IsFiniteSet(R)
    BY FS_Subset
  <2>2. Solves(f, S, Sol(S)) /\ Solves(f, R, Sol(R))
    BY <1>1, <2>1
  <2> QED
    BY <2>1, <2>2, SolutionsAgree
<1>5. ASSUME S # {}
      PROVE  SumFunctionOnSet(f, S) = f[Chosen(S)] + SumFunctionOnSet(f, S \ {Chosen(S)})
  <2> DEFINE R == S \ {Chosen(S)}
  <2>1. IsFiniteSet(R) /\ R \subseteq S
    BY FS_Subset
  <2>2. Sol(S)[S] = f[Chosen(S)] + Sol(S)[R]
    BY <1>1, <1>2, <1>5
  <2>3. SumFunctionOnSet(f, S) = Sol(S)[S] /\ SumFunctionOnSet(f, R) = Sol(R)[R]
    BY <1>1, <2>1
  <2> HIDE DEF Sol
  <2> QED
    BY <1>4, <2>1, <2>2, <2>3
<1> QED
  BY <1>3, <1>5

LEMMA SumInt ==
    ASSUME NEW f, NEW S, IsFiniteSet(S), \A x \in S : f[x] \in Int
    PROVE  SumFunctionOnSet(f, S) \in Int
<1> DEFINE Bad == {T \in SUBSET S : SumFunctionOnSet(f, T) \notin Int}
<1>1. ASSUME Bad # {} PROVE FALSE
  <2>1. PICK T \in Bad : \A U \in SUBSET T : U # T => U \notin Bad
    <3> HIDE DEF Bad
    <3>1. Bad \in SUBSET SUBSET S
      BY DEF Bad
    <3> QED
      BY <1>1, <3>1, SmallestSubset
  <2>2. T # {}
    <3>1. SumFunctionOnSet(f, {}) = 0
      BY SumUnfold, FS_EmptySet
    <3> QED
      BY <3>1
  <2>3. Chosen(T) \in T
    BY <2>2, ChosenIn
  <2>4. SumFunctionOnSet(f, T \ {Chosen(T)}) \in Int
    BY <2>1, <2>3
  <2>5. IsFiniteSet(T)
    BY FS_Subset
  <2>6. f[Chosen(T)] \in Int
    BY <2>3
  <2>7. SumFunctionOnSet(f, T) = f[Chosen(T)] + SumFunctionOnSet(f, T \ {Chosen(T)})
    BY <2>2, <2>5, SumUnfold
  <2> QED
    BY <2>4, <2>6, <2>7
<1> QED
  BY <1>1

LEMMA SumAdd ==
    ASSUME NEW f, NEW S, IsFiniteSet(S), NEW e, e \notin S, f[e] \in Int,
           \A x \in S : f[x] \in Int
    PROVE  SumFunctionOnSet(f, S \cup {e}) = SumFunctionOnSet(f, S) + f[e]
<1> DEFINE Whole == S \cup {e}
           Sum(T) == SumFunctionOnSet(f, T)
           Right(T) == \A x \in Whole \ T : Sum(T \cup {x}) = Sum(T) + f[x]
           Bad == {T \in SUBSET Whole : ~Right(T)}
<1>0. IsFiniteSet(Whole)
  BY FS_AddElement
<1>1. ASSUME Bad # {} PROVE FALSE
  <2>1. PICK T \in Bad : \A U \in SUBSET T : U # T => U \notin Bad
    <3> HIDE DEF Bad
    <3>1. Bad \in SUBSET SUBSET Whole
      BY DEF Bad
    <3> QED
      BY <1>0, <1>1, <3>1, SmallestSubset
  <2>2. PICK x \in Whole \ T : Sum(T \cup {x}) # Sum(T) + f[x]
    BY <2>1
  <2> DEFINE W == T \cup {x}
             c == Chosen(W)
  <2>3. IsFiniteSet(W) /\ IsFiniteSet(T)
    BY <1>0, FS_Subset
  <2>4. c \in W
    BY ChosenIn
  <2>5. Sum(W) = f[c] + Sum(W \ {c})
    <3> HIDE DEF W
    <3>1. W # {}
      BY DEF W
    <3> QED
      BY <2>3, <3>1, SumUnfold
  <2>6. \A y \in Whole : f[y] \in Int
    OBVIOUS
  <2>7. CASE c = x
    <3>1. W \ {c} = T
      BY <2>7
    <3>2. Sum(T) \in Int /\ f[x] \in Int
      BY <2>3, <2>6, SumInt
    <3>3. Sum(W) = f[x] + Sum(T)
      <4> HIDE DEF Sum, c, W
      <4> QED
        BY <2>5, <2>7, <3>1
    <3> HIDE DEF Sum
    <3> QED
      BY <2>2, <3>2, <3>3
  <2>8. CASE c # x
    <3> DEFINE R == T \ {c}
    <3>1. c \in T
      BY <2>4, <2>8
    <3>2. R \in SUBSET T /\ R # T
      BY <3>1
    <3>3. Right(R)
      BY <2>1, <3>2
    <3>4. Sum(R \cup {x}) = Sum(R) + f[x] /\ Sum(R \cup {c}) = Sum(R) + f[c]
      <4>1. x \in Whole \ R /\ c \in Whole \ R
        BY <3>1
      <4> HIDE DEF R, Sum, c
      <4> QED
        BY <3>3, <4>1
    <3>5. W \ {c} = R \cup {x} /\ R \cup {c} = T
      BY <2>8, <3>1
    <3>6. Sum(R) \in Int /\ f[x] \in Int /\ f[c] \in Int
      <4>1. IsFiniteSet(R)
        BY <2>3, FS_Subset
      <4> QED
        BY <2>6, <3>1, <4>1, SumInt
    <3>7. Sum(W) = f[c] + (Sum(R) + f[x]) /\ Sum(T) = Sum(R) + f[c]
      <4> HIDE DEF Sum, c, W, R
      <4> QED
        BY <2>5, <3>4, <3>5
    <3> HIDE DEF Sum, c, W, R
    <3> QED
      BY <2>2, <3>6, <3>7 DEF W
  <2> QED
    BY <2>7, <2>8
<1>2. S \in SUBSET Whole /\ S \notin Bad /\ e \in Whole \ S
  BY <1>1
<1> QED
  BY <1>2

LEMMA SumRemove ==
    ASSUME NEW f, NEW S, IsFiniteSet(S), NEW e \in S, \A x \in S : f[x] \in Int
    PROVE  SumFunctionOnSet(f, S) = SumFunctionOnSet(f, S \ {e}) + f[e]
<1>1. IsFiniteSet(S \ {e}) /\ (S \ {e}) \cup {e} = S
  BY FS_Subset
<1> QED
  BY <1>1, SumAdd

LEMMA SumEmpty == \A f : SumFunctionOnSet(f, {}) = 0
BY SumUnfold, FS_EmptySet

LEMMA SumAgree ==
    ASSUME NEW S, IsFiniteSet(S), NEW f, NEW f2, \A x \in S : f[x] = f2[x]
    PROVE  SumFunctionOnSet(f, S) = SumFunctionOnSet(f2, S)
<1>1. PICK g : Solves(f, S, g)
  BY SolutionExists
<1>2. PICK h : Solves(f2, S, h)
  BY SolutionExists
<1>3. ASSUME NEW g1, Solves(f, S, g1), NEW h1, Solves(f2, S, h1)
      PROVE  g1[S] = h1[S]
  BY <1>3, SolutionsAgree
<1> DEFINE sol  == CHOOSE g1 : Solves(f, S, g1)
           sol2 == CHOOSE h1 : Solves(f2, S, h1)
<1>4. Solves(f, S, sol) /\ Solves(f2, S, sol2)
  BY <1>1, <1>2
<1>5. sol[S] = sol2[S]
  BY <1>3, <1>4
<1> QED
  BY <1>5, SumIsFold

\* One term changes.
LEMMA SumExcept ==
    ASSUME NEW S, IsFiniteSet(S), NEW f \in [S -> Int], NEW e \in S, NEW v \in Int
    PROVE  SumFunction([f EXCEPT ![e] = v]) = SumFunction(f) - f[e] + v
<1> DEFINE f2 == [f EXCEPT ![e] = v]
           R  == S \ {e}
<1>1. IsFiniteSet(R)
  BY FS_Subset
<1>2. SumFunctionOnSet(f, S) = SumFunctionOnSet(f, R) + f[e]
  BY SumRemove
<1>3. f2 \in [S -> Int] /\ f2[e] = v /\ \A x \in R : f2[x] = f[x]
  OBVIOUS
<1>4. SumFunctionOnSet(f2, S) = SumFunctionOnSet(f2, R) + v
  <2> HIDE DEF f2
  <2> QED
    BY <1>3, SumRemove
<1>5. SumFunctionOnSet(f2, R) = SumFunctionOnSet(f, R)
  <2> HIDE DEF f2, R
  <2> QED
    BY <1>1, <1>3, SumAgree
<1>6. SumFunctionOnSet(f, R) \in Int
  BY <1>1, SumInt
<1>7. SumFunction(f) = SumFunctionOnSet(f, S) /\ SumFunction(f2) = SumFunctionOnSet(f2, S)
  <2>1. DOMAIN f = S /\ DOMAIN f2 = S
    BY <1>3
  <2> HIDE DEF f2
  <2> QED
    BY <2>1 DEF SumFunction
<1>8. f[e] \in Int
  OBVIOUS
<1> HIDE DEF f2
<1> QED
  BY <1>2, <1>4, <1>5, <1>6, <1>7, <1>8 DEF f2

\* Terms that are natural numbers: so is the sum, and it grows with the set.
LEMMA SumNat ==
    ASSUME NEW f, NEW S, IsFiniteSet(S), \A x \in S : f[x] \in Nat
    PROVE  SumFunctionOnSet(f, S) \in Nat
<1> DEFINE Bad == {T \in SUBSET S : SumFunctionOnSet(f, T) \notin Nat}
<1>1. ASSUME Bad # {} PROVE FALSE
  <2>1. PICK T \in Bad : \A U \in SUBSET T : U # T => U \notin Bad
    <3> HIDE DEF Bad
    <3>1. Bad \in SUBSET SUBSET S
      BY DEF Bad
    <3> QED
      BY <1>1, <3>1, SmallestSubset
  <2>2. T # {}
    BY SumEmpty
  <2>3. Chosen(T) \in T
    BY <2>2, ChosenIn
  <2>4. SumFunctionOnSet(f, T \ {Chosen(T)}) \in Nat
    BY <2>1, <2>3
  <2>5. IsFiniteSet(T)
    BY FS_Subset
  <2>6. f[Chosen(T)] \in Nat
    BY <2>3
  <2>7. SumFunctionOnSet(f, T) = f[Chosen(T)] + SumFunctionOnSet(f, T \ {Chosen(T)})
    BY <2>2, <2>5, SumUnfold
  <2> QED
    BY <2>4, <2>6, <2>7
<1> QED
  BY <1>1

LEMMA SumZero ==
    ASSUME NEW f, NEW S, IsFiniteSet(S), \A x \in S : f[x] = 0
    PROVE  SumFunctionOnSet(f, S) = 0
<1> DEFINE Bad == {T \in SUBSET S : SumFunctionOnSet(f, T) # 0}
<1>1. ASSUME Bad # {} PROVE FALSE
  <2>1. PICK T \in Bad : \A U \in SUBSET T : U # T => U \notin Bad
    <3> HIDE DEF Bad
    <3>1. Bad \in SUBSET SUBSET S
      BY DEF Bad
    <3> QED
      BY <1>1, <3>1, SmallestSubset
  <2>2. T # {}
    BY SumEmpty
  <2>3. Chosen(T) \in T
    BY <2>2, ChosenIn
  <2>4. SumFunctionOnSet(f, T \ {Chosen(T)}) = 0
    BY <2>1, <2>3
  <2>5. IsFiniteSet(T)
    BY FS_Subset
  <2>6. f[Chosen(T)] = 0
    BY <2>3
  <2>7. SumFunctionOnSet(f, T) = f[Chosen(T)] + SumFunctionOnSet(f, T \ {Chosen(T)})
    BY <2>2, <2>5, SumUnfold
  <2> QED
    BY <2>4, <2>6, <2>7
<1> QED
  BY <1>1

\* Terms that differ by little: so do the sums, by as much for each term.
LEMMA SumNear ==
    ASSUME NEW S, IsFiniteSet(S), NEW f, NEW g, NEW u \in Nat,
           \A x \in S : f[x] \in Int /\ g[x] \in Int /\ 2 * (g[x] - f[x]) \in -u..u
    PROVE  2 * (SumFunctionOnSet(g, S) - SumFunctionOnSet(f, S))
              \in -(u * Cardinality(S))..(u * Cardinality(S))
<1> DEFINE Near(T) == 2 * (SumFunctionOnSet(g, T) - SumFunctionOnSet(f, T))
                         \in -(u * Cardinality(T))..(u * Cardinality(T))
           Bad == {T \in SUBSET S : ~Near(T)}
<1>1. ASSUME Bad # {} PROVE FALSE
  <2>1. PICK T \in Bad : \A U \in SUBSET T : U # T => U \notin Bad
    <3> HIDE DEF Bad
    <3>1. Bad \in SUBSET SUBSET S
      BY DEF Bad
    <3> QED
      BY <1>1, <3>1, SmallestSubset
  <2>2. T # {}
    <3>1. SumFunctionOnSet(g, {}) = 0 /\ SumFunctionOnSet(f, {}) = 0 /\ Cardinality({}) = 0
      BY SumEmpty, FS_EmptySet
    <3>2. Near({})
      BY <3>1
    <3> HIDE DEF Near
    <3> QED
      BY <2>1, <3>2
  <2> DEFINE c == Chosen(T)
             U == T \ {c}
  <2>3. c \in T
    BY <2>2, ChosenIn
  <2>4. Near(U)
    <3> HIDE DEF Near
    <3> QED
      BY <2>1, <2>3
  <2>5. IsFiniteSet(T) /\ IsFiniteSet(U)
    BY FS_Subset
  <2>6. /\ SumFunctionOnSet(f, T) = SumFunctionOnSet(f, U) + f[c]
        /\ SumFunctionOnSet(g, T) = SumFunctionOnSet(g, U) + g[c]
    BY <2>3, <2>5, SumRemove
  <2>7. Cardinality(T) = Cardinality(U) + 1 /\ Cardinality(U) \in Nat
    <3>1. Cardinality(U) = Cardinality(T) - 1
      BY <2>3, <2>5, FS_RemoveElement
    <3>2. Cardinality(T) \in Nat /\ Cardinality(U) \in Nat
      BY <2>5, FS_CardinalityType
    <3> QED
      BY <3>1, <3>2
  <2>8. /\ f[c] \in Int /\ g[c] \in Int /\ 2 * (g[c] - f[c]) \in -u..u
        /\ SumFunctionOnSet(f, U) \in Int /\ SumFunctionOnSet(g, U) \in Int
    BY <2>3, <2>5, SumInt
  <2> DEFINE n == Cardinality(U)
             F == SumFunctionOnSet(f, U)
             G == SumFunctionOnSet(g, U)
             p == u * n
  <2>9. u * Cardinality(T) = p + u /\ p \in Int
    BY <2>7
  <2>10. 2 * (G - F) \in -p..p
    BY <2>4
  <2>11. 2 * (SumFunctionOnSet(g, T) - SumFunctionOnSet(f, T)) = 2 * (G - F) + 2 * (g[c] - f[c])
    <3> HIDE DEF c, U
    <3> QED
      BY <2>6, <2>8
  <2>12. 2 * (G - F) + 2 * (g[c] - f[c]) \in -(p + u)..(p + u)
    <3> HIDE DEF p, G, F, c, U
    <3>1. G \in Int /\ F \in Int
      BY <2>8 DEF G, F
    <3> QED
      BY <2>8, <2>9, <2>10, <3>1
  <2>13. Near(T)
    BY <2>9, <2>11, <2>12
  <2> QED
    BY <2>1, <2>13
<1>2. S \notin Bad
  BY <1>1
<1> QED
  BY <1>2

\* Two sets without a common element.
LEMMA SumUnion ==
    ASSUME NEW f, NEW S, IsFiniteSet(S), NEW R, IsFiniteSet(R), S \cap R = {},
           \A x \in S \cup R : f[x] \in Int
    PROVE  SumFunctionOnSet(f, S \cup R) = SumFunctionOnSet(f, S) + SumFunctionOnSet(f, R)
<1> DEFINE Right(T) == SumFunctionOnSet(f, S \cup T)
                          = SumFunctionOnSet(f, S) + SumFunctionOnSet(f, T)
           Bad == {T \in SUBSET R : ~Right(T)}
<1>1. ASSUME Bad # {} PROVE FALSE
  <2>1. PICK T \in Bad : \A U \in SUBSET T : U # T => U \notin Bad
    <3> HIDE DEF Bad
    <3>1. Bad \in SUBSET SUBSET R
      BY DEF Bad
    <3> QED
      BY <1>1, <3>1, SmallestSubset
  <2>2. SumFunctionOnSet(f, S) \in Int
    BY SumInt
  <2>3. T # {}
    <3>1. S \cup {} = S
      OBVIOUS
    <3>2. Right({})
      BY <2>2, <3>1, SumEmpty
    <3> HIDE DEF Right
    <3> QED
      BY <2>1, <3>2
  <2> DEFINE c == Chosen(T)
             U == T \ {c}
  <2>4. c \in T
    BY <2>3, ChosenIn
  <2>5. Right(U)
    BY <2>1, <2>4
  <2>6. IsFiniteSet(T) /\ IsFiniteSet(U) /\ IsFiniteSet(S \cup U)
    BY FS_Subset, FS_Union
  <2>7. SumFunctionOnSet(f, T) = SumFunctionOnSet(f, U) + f[c]
    BY <2>4, <2>6, SumRemove
  <2>8. SumFunctionOnSet(f, S \cup T) = SumFunctionOnSet(f, S \cup U) + f[c]
    <3>1. c \notin S \cup U /\ (S \cup U) \cup {c} = S \cup T
      BY <2>4
    <3>2. f[c] \in Int /\ \A x \in S \cup U : f[x] \in Int
      BY <2>4
    <3> HIDE DEF c, U
    <3>3. SumFunctionOnSet(f, (S \cup U) \cup {c}) = SumFunctionOnSet(f, S \cup U) + f[c]
      BY <2>6, <3>1, <3>2, SumAdd
    <3> QED
      BY <3>1, <3>3
  <2>9. SumFunctionOnSet(f, U) \in Int /\ f[c] \in Int
    BY <2>4, <2>6, SumInt
  <2>10. SumFunctionOnSet(f, S \cup T) = SumFunctionOnSet(f, S) + SumFunctionOnSet(f, T)
    <3> HIDE DEF c, U
    <3> QED
      BY <2>2, <2>5, <2>7, <2>8, <2>9 DEF Right
  <2> QED
    BY <2>10
<1>2. R \notin Bad
  BY <1>1
<1> QED
  BY <1>2

\* The sum grows with the set.
LEMMA SumSubset ==
    ASSUME NEW f, NEW S, IsFiniteSet(S), NEW T \in SUBSET S, \A x \in S : f[x] \in Nat
    PROVE  SumFunctionOnSet(f, T) <= SumFunctionOnSet(f, S)
<1>1. IsFiniteSet(T) /\ IsFiniteSet(S \ T) /\ T \cap (S \ T) = {} /\ T \cup (S \ T) = S
  BY FS_Subset
<1>2. SumFunctionOnSet(f, S) = SumFunctionOnSet(f, T) + SumFunctionOnSet(f, S \ T)
  BY <1>1, SumUnion
<1>3. SumFunctionOnSet(f, T) \in Nat /\ SumFunctionOnSet(f, S \ T) \in Nat
  BY <1>1, SumNat
<1> QED
  BY <1>2, <1>3

(***************************************************************************)
(* The members of a finite set of numbers in their order.                  *)
(***************************************************************************)
LEMMA UpToFinite ==
    ASSUME NEW n \in Nat
    PROVE  IsFiniteSet(1..n) /\ Cardinality(1..n) = n
<1>1. 1 \in Int /\ n \in Int
  OBVIOUS
<1>2. IsFiniteSet(1..n) /\ Cardinality(1..n) = IF 1 > n THEN 0 ELSE n - 1 + 1
  BY <1>1, FS_Interval
<1>3. (IF 1 > n THEN 0 ELSE n - 1 + 1) = n
  OBVIOUS
<1> QED
  BY <1>2, <1>3

\* How many members there are up to i.
Rank(kept, i) == Cardinality({j \in kept : j <= i})

LEMMA RankIsBijective ==
    ASSUME NEW kept \in SUBSET Nat, IsFiniteSet(kept)
    PROVE  /\ Cardinality(kept) \in Nat
           /\ \A i \in kept : Rank(kept, i) \in 1..Cardinality(kept)
           /\ \A i, j \in kept : Rank(kept, i) = Rank(kept, j) => i = j
           /\ \A n \in 1..Cardinality(kept) : \E i \in kept : Rank(kept, i) = n
<1> DEFINE k == Cardinality(kept)
           UpTo(i) == {j \in kept : j <= i}
<1>1. k \in Nat
  BY FS_CardinalityType
<1>2. \A i \in kept : IsFiniteSet(UpTo(i)) /\ Cardinality(UpTo(i)) \in Nat /\ Cardinality(UpTo(i)) <= k
  BY FS_Subset, FS_CardinalityType
<1>3. \A i \in kept : Rank(kept, i) \in 1..k
  <2> SUFFICES ASSUME NEW i \in kept
               PROVE  Rank(kept, i) \in 1..k
    OBVIOUS
  <2>1. i \in UpTo(i)
    OBVIOUS
  <2>2. Cardinality(UpTo(i)) # 0
    BY <1>2, <2>1, FS_EmptySet
  <2> HIDE DEF k
  <2> QED
    BY <1>1, <1>2, <2>2 DEF Rank
<1>4. ASSUME NEW i \in kept, NEW j \in kept, i < j
      PROVE  Rank(kept, i) # Rank(kept, j)
  <2>1. UpTo(i) \in SUBSET UpTo(j) /\ UpTo(i) # UpTo(j)
    <3>1. i \in Nat /\ j \in Nat /\ \A x \in kept : x \in Nat
      OBVIOUS
    <3>2. \A x \in UpTo(i) : x \in UpTo(j)
      BY <1>4, <3>1
    <3>3. j \in UpTo(j) /\ j \notin UpTo(i)
      BY <1>4, <3>1
    <3> HIDE DEF UpTo
    <3> QED
      BY <3>2, <3>3
  <2>2. IsFiniteSet(UpTo(j))
    BY <1>2
  <2>3. Cardinality(UpTo(j)) # Cardinality(UpTo(i))
    <3> HIDE DEF UpTo
    <3> QED
      BY <2>1, <2>2, FS_Subset
  <2> QED
    BY <2>3 DEF Rank
<1>5. \A i, j \in kept : Rank(kept, i) = Rank(kept, j) => i = j
  <2> SUFFICES ASSUME NEW i \in kept, NEW j \in kept, i # j
               PROVE  Rank(kept, i) # Rank(kept, j)
    OBVIOUS
  <2>1. i < j \/ j < i
    OBVIOUS
  <2> QED
    BY <1>4, <2>1
<1>6. \A n \in 1..k : \E i \in kept : Rank(kept, i) = n
  <2> DEFINE rank == [i \in kept |-> Rank(kept, i)]
  <2>1. rank \in Injection(kept, 1..k)
    <3> HIDE DEF k
    <3> QED
      BY <1>3, <1>5 DEF Injection, IsInjective
  <2>2. IsFiniteSet(1..k) /\ Cardinality(1..k) = k
    <3> HIDE DEF k
    <3> QED
      BY <1>1, UpToFinite
  <2>3. rank \in Surjection(kept, 1..k)
    <3>1. Cardinality(kept) = Cardinality(1..k)
      BY <2>2
    <3> HIDE DEF rank, k
    <3> QED
      BY <2>1, <2>2, <3>1, FS_Injection
  <2> HIDE DEF k
  <2> QED
    BY <2>3 DEF Surjection
<1> QED
  BY <1>1, <1>3, <1>5, <1>6

=============================================================================
