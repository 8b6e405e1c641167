----------------------------- MODULE SumTheorems -----------------------------
(***************************************************************************)
(* Sums over finite sets, SumFunction of the module Functions: what they   *)
(* are when everything is zero, and what one changed entry does to them.   *)
(* The library's sum is a fold that picks one element after the other;     *)
(* induction over it goes through the least counterexample. And what else  *)
(* several proofs need: powers of ten, sequences in which nothing occurs   *)
(* twice, and finite sets in a line.                                       *)
(***************************************************************************)
EXTENDS Decimals, FiniteSets, Functions, FiniteSetTheorems, SequenceTheorems,
        WellFoundedInduction, TLAPS

\* The element the fold takes out of a set first.
Picked(s) == CHOOSE x \in s : TRUE

\* The subsets of S with n elements at most.
UpTo(S, n) == {s \in SUBSET S : Cardinality(s) <= n}

\* g is the fold of f for the sets of D.
Folds(f, g, D) ==
    \A s \in D : g[s] = IF s = {} THEN 0 ELSE f[Picked(s)] + g[s \ {Picked(s)}]

LEMMA LeastNumber ==
    ASSUME NEW S \in SUBSET Nat, S # {}
    PROVE  \E n \in S : \A m \in S : n <= m
<1> DEFINE R == OpToRel(<, Nat)
<1>1. IsWellFoundedOn(R, Nat)
  BY NatLessThanWellFounded
<1>2. \A m, n \in Nat : m < n => <<m, n>> \in R
  BY DEF OpToRel
<1> HIDE DEF R
<1>3. PICK n \in S : \A m \in S : ~ (<<m, n>> \in R)
  BY <1>1, WFMin
<1>4. \A m \in S : n <= m
  <2> TAKE m \in S
  <2>1. m \in Nat /\ n \in Nat
    OBVIOUS
  <2>2. ~ (m < n)
    BY <1>2, <1>3, <2>1
  <2> QED BY <2>1, <2>2
<1> QED BY <1>4

\* A set of subsets of S that holds the empty set, and each subset whose rest
\* it holds, holds them all.
LEMMA PickedInduction ==
    ASSUME NEW S, IsFiniteSet(S), NEW B, {} \in B,
           \A s \in SUBSET S : s # {} /\ s \ {Picked(s)} \in B => s \in B
    PROVE  SUBSET S \subseteq B
<1> DEFINE Sizes == {Cardinality(s) : s \in (SUBSET S) \ B}
<1>1. \A s \in SUBSET S : IsFiniteSet(s) /\ Cardinality(s) \in Nat
  BY FS_Subset, FS_CardinalityType
<1>2. SUFFICES ASSUME Sizes # {} PROVE FALSE
  OBVIOUS
<1>3. Sizes \in SUBSET Nat
  BY <1>1
<1>4. PICK n \in Sizes : \A m \in Sizes : n <= m
  BY <1>2, <1>3, LeastNumber
<1>5. PICK s \in (SUBSET S) \ B : n = Cardinality(s)
  BY <1>4
<1>6. Picked(s) \in s
  BY <1>5 DEF Picked
<1>7. Cardinality(s \ {Picked(s)}) = n - 1 /\ n \in Nat
  BY <1>1, <1>5, <1>6, FS_RemoveElement
<1>8. s \ {Picked(s)} \in (SUBSET S) \ B
  BY <1>5, <1>6
<1>9. n <= n - 1
  BY <1>4, <1>7, <1>8
<1> QED BY <1>7, <1>9

\* The fold of nothing.
LEMMA FoldOfNothing ==
    ASSUME NEW S, NEW f, NEW g, Folds(f, g, SUBSET S)
    PROVE  g[{}] = 0
BY DEF Folds

LEMMA UpToSteps ==
    ASSUME NEW S, IsFiniteSet(S), NEW n \in Nat
    PROVE  /\ \A s \in UpTo(S, 0) : s = {}
           /\ \A s \in UpTo(S, n + 1) : s # {} =>
                Picked(s) \in S /\ s \ {Picked(s)} \in UpTo(S, n)
           /\ UpTo(S, n) \subseteq UpTo(S, n + 1)
           /\ {} \in UpTo(S, n)
<1>1. \A s \in SUBSET S : IsFiniteSet(s) /\ Cardinality(s) \in Nat
  BY FS_Subset, FS_CardinalityType
<1>2. \A s \in UpTo(S, 0) : s = {}
  BY <1>1, FS_EmptySet DEF UpTo
<1>3. ASSUME NEW s \in UpTo(S, n + 1), s # {}
      PROVE Picked(s) \in S /\ s \ {Picked(s)} \in UpTo(S, n)
  <2>1. Picked(s) \in s
    BY <1>3 DEF Picked
  <2>2. Cardinality(s \ {Picked(s)}) = Cardinality(s) - 1
    BY <1>1, <2>1, FS_RemoveElement DEF UpTo
  <2> QED BY <1>1, <2>1, <2>2 DEF UpTo
<1>4. UpTo(S, n) \subseteq UpTo(S, n + 1)
  BY <1>1 DEF UpTo
<1>5. {} \in UpTo(S, n)
  BY FS_EmptySet DEF UpTo
<1> QED BY <1>2, <1>3, <1>4, <1>5

\* The fold exists for the subsets of any size, and so for all.
LEMMA FoldUpTo ==
    ASSUME NEW S, IsFiniteSet(S), NEW f \in [S -> Int], NEW n \in Nat
    PROVE  \E g \in [UpTo(S, n) -> Int] : Folds(f, g, UpTo(S, n))
<1> DEFINE Good(k) == \E g \in [UpTo(S, k) -> Int] : Folds(f, g, UpTo(S, k))
           Bad == {k \in Nat : ~Good(k)}
<1>1. Good(0)
  <2> DEFINE g == [s \in UpTo(S, 0) |-> 0]
  <2>1. g \in [UpTo(S, 0) -> Int] /\ Folds(f, g, UpTo(S, 0))
    BY UpToSteps DEF Folds
  <2> QED BY <2>1
<1>2. ASSUME NEW k \in Nat, Good(k) PROVE Good(k + 1)
  <2>1. PICK g \in [UpTo(S, k) -> Int] : Folds(f, g, UpTo(S, k))
    BY <1>2
  <2> DEFINE h == [s \in UpTo(S, k + 1) |->
                     IF s = {} THEN 0 ELSE f[Picked(s)] + g[s \ {Picked(s)}]]
  <2>2. h \in [UpTo(S, k + 1) -> Int]
    BY UpToSteps
  <2>3. \A t \in UpTo(S, k) : h[t] = g[t]
    BY <2>1, UpToSteps DEF Folds
  <2>4. Folds(f, h, UpTo(S, k + 1))
    BY <2>3, UpToSteps DEF Folds
  <2> QED BY <2>2, <2>4
<1>3. Bad = {}
  <2> SUFFICES ASSUME Bad # {} PROVE FALSE
    OBVIOUS
  <2>1. Bad \in SUBSET Nat
    OBVIOUS
  <2>2. PICK m \in Bad : \A k \in Bad : m <= k
    <3> HIDE DEF Bad
    <3> QED BY <2>1, LeastNumber
  <2>3. m - 1 \in Nat /\ m - 1 \notin Bad
    BY <1>1, <2>2
  <2>4. Good(m - 1)
    BY <2>3
  <2> QED BY <1>2, <2>2, <2>3, <2>4
<1> QED BY <1>3

\* What the library's sum is.
LEMMA SumIsAFold ==
    ASSUME NEW S, IsFiniteSet(S), NEW f \in [S -> Int]
    PROVE  \E g \in [SUBSET S -> Int] : Folds(f, g, SUBSET S) /\ SumFunction(f) = g[S]
<1>1. Cardinality(S) \in Nat /\ UpTo(S, Cardinality(S)) = SUBSET S
  BY FS_Subset, FS_CardinalityType DEF UpTo
<1>2. \E g \in [SUBSET S -> Int] : Folds(f, g, SUBSET S)
  <2>1. \E g \in [UpTo(S, Cardinality(S)) -> Int] : Folds(f, g, UpTo(S, Cardinality(S)))
    BY <1>1, FoldUpTo
  <2> QED BY <1>1, <2>1
<1>3. PICK g0 \in [SUBSET S -> Int] : Folds(f, g0, SUBSET S)
  BY <1>2
<1> DEFINE Is(iter) == iter = [s \in SUBSET S |->
                         IF s = {} THEN 0
                         ELSE f[CHOOSE x \in s : TRUE] + iter[s \ {CHOOSE x \in s : TRUE}]]
           it == CHOOSE iter : Is(iter)
<1>4. DOMAIN f = S /\ SumFunction(f) = it[S]
  BY DEF SumFunction, SumFunctionOnSet, FoldFunctionOnSet, MapThenFoldSet
<1>5. Is(g0)
  BY <1>3 DEF Folds, Picked
<1>6. Is(it)
  <2> HIDE DEF Is
  <2> QED BY <1>5
<1>7. Folds(f, it, SUBSET S)
  BY <1>6 DEF Folds, Picked
<1>8. it \in [SUBSET S -> Int]
  <2> DEFINE B == {s \in SUBSET S : it[s] \in Int}
  <2> HIDE DEF it
  <2>1. {} \in B
    BY <1>7, FoldOfNothing
  <2>2. ASSUME NEW s \in SUBSET S, s # {}, s \ {Picked(s)} \in B
        PROVE  s \in B
    <3>1. Picked(s) \in S
      BY <2>2 DEF Picked
    <3>2. it[s] = f[Picked(s)] + it[s \ {Picked(s)}]
      BY <1>7, <2>2 DEF Folds
    <3>3. f[Picked(s)] \in Int /\ it[s \ {Picked(s)}] \in Int
      BY <2>2, <3>1
    <3> QED BY <3>2, <3>3
  <2>3. SUBSET S \subseteq B
    <3> HIDE DEF B
    <3> QED BY <2>1, <2>2, PickedInduction
  <2>4. it = [s \in SUBSET S |-> it[s]]
    BY <1>6
  <2> QED BY <2>3, <2>4
<1> QED BY <1>4, <1>7, <1>8

\* Sums are integers, a sum of zeros is zero, and a sum of naturals natural.
LEMMA SumType ==
    ASSUME NEW S, IsFiniteSet(S), NEW f \in [S -> Int]
    PROVE  /\ SumFunction(f) \in Int
           /\ (\A x \in S : f[x] = 0) => SumFunction(f) = 0
           /\ (\A x \in S : f[x] \in Nat) => SumFunction(f) \in Nat
<1>1. PICK g \in [SUBSET S -> Int] : Folds(f, g, SUBSET S) /\ SumFunction(f) = g[S]
  BY SumIsAFold
<1>2. ASSUME \A x \in S : f[x] = 0
      PROVE  g[S] = 0
  <2> DEFINE B == {s \in SUBSET S : g[s] = 0}
  <2>1. {} \in B
    BY <1>1, FoldOfNothing
  <2>2. \A s \in SUBSET S : s # {} /\ s \ {Picked(s)} \in B => s \in B
    BY <1>1, <1>2 DEF Folds, Picked
  <2>3. SUBSET S \subseteq B
    <3> HIDE DEF B
    <3> QED BY <2>1, <2>2, PickedInduction
  <2> QED BY <2>3
<1>3. ASSUME \A x \in S : f[x] \in Nat
      PROVE  g[S] \in Nat
  <2> DEFINE B == {s \in SUBSET S : g[s] \in Nat}
  <2>1. {} \in B
    BY <1>1, FoldOfNothing
  <2>2. ASSUME NEW s \in SUBSET S, s # {}, s \ {Picked(s)} \in B
        PROVE  s \in B
    <3>1. Picked(s) \in S
      BY <2>2 DEF Picked
    <3> QED BY <1>1, <1>3, <2>2, <3>1 DEF Folds
  <2>3. SUBSET S \subseteq B
    <3> HIDE DEF B
    <3> QED BY <2>1, <2>2, PickedInduction
  <2> QED BY <2>3
<1> QED BY <1>1, <1>2, <1>3

\* One entry changes, and the sum by as much.
LEMMA SumChanges ==
    ASSUME NEW S, IsFiniteSet(S), NEW f \in [S -> Int], NEW h \in [S -> Int],
           NEW k \in S, \A x \in S : x # k => h[x] = f[x]
    PROVE  SumFunction(h) = SumFunction(f) + (h[k] - f[k])
<1>1. PICK F \in [SUBSET S -> Int] : Folds(f, F, SUBSET S) /\ SumFunction(f) = F[S]
  BY SumIsAFold
<1>2. PICK H \in [SUBSET S -> Int] : Folds(h, H, SUBSET S) /\ SumFunction(h) = H[S]
  BY SumIsAFold
<1> DEFINE B == {s \in SUBSET S : H[s] = F[s] + (IF k \in s THEN h[k] - f[k] ELSE 0)}
<1>3. {} \in B
  BY <1>1, <1>2, FoldOfNothing
<1>4. ASSUME NEW s \in SUBSET S, s # {}, s \ {Picked(s)} \in B
      PROVE  s \in B
  <2> DEFINE x == Picked(s)
  <2>1. x \in s /\ x \in S /\ s \ {x} \in SUBSET S
    BY <1>4 DEF Picked
  <2>2. F[s] = f[x] + F[s \ {x}] /\ H[s] = h[x] + H[s \ {x}]
    BY <1>1, <1>2, <1>4 DEF Folds
  <2>3. H[s \ {x}] = F[s \ {x}] + (IF k \in s \ {x} THEN h[k] - f[k] ELSE 0)
    BY <1>4
  <2>4. f[x] \in Int /\ h[x] \in Int /\ F[s \ {x}] \in Int
    BY <2>1
  <2> HIDE DEF x
  <2>5. CASE x = k
    BY <2>1, <2>2, <2>3, <2>4, <2>5
  <2>6. CASE x # k
    BY <2>1, <2>2, <2>3, <2>4, <2>6
  <2> QED BY <2>5, <2>6
<1>5. SUBSET S \subseteq B
  <2> HIDE DEF B
  <2> QED BY <1>3, <1>4, PickedInduction
<1> QED BY <1>1, <1>2, <1>5

\* The same, of a function written as an update of another.
LEMMA SumUpdate ==
    ASSUME NEW S, IsFiniteSet(S), NEW f \in [S -> Int], NEW k \in S,
           NEW v \in Int, NEW h, h = [f EXCEPT ![k] = v]
    PROVE  SumFunction(h) = SumFunction(f) + (v - f[k])
<1>1. h \in [S -> Int] /\ h[k] = v
  OBVIOUS
<1>2. \A x \in S : x # k => h[x] = f[x]
  OBVIOUS
<1>3. SumFunction(h) = SumFunction(f) + (h[k] - f[k])
  <2>1. \A g \in [S -> Int] : (\A x \in S : x # k => g[x] = f[x])
          => SumFunction(g) = SumFunction(f) + (g[k] - f[k])
    BY SumChanges
  <2> QED BY <1>1, <1>2, <2>1
<1> QED BY <1>1, <1>3

\* Whichever element is taken out first, the fold is the same.
LEMMA AnyOrder ==
    ASSUME NEW S, IsFiniteSet(S), NEW f \in [S -> Int], NEW g \in [SUBSET S -> Int],
           Folds(f, g, SUBSET S), NEW t \in SUBSET S, NEW z \in t
    PROVE  g[t] - f[z] = g[t \ {z}]
<1> DEFINE Bad == {s \in SUBSET S : \E x \in s : g[s] # g[s \ {x}] + f[x]}
           Sizes == {Cardinality(s) : s \in Bad}
<1>1. \A s \in SUBSET S : IsFiniteSet(s) /\ Cardinality(s) \in Nat
  BY FS_Subset, FS_CardinalityType
<1>2. SUFFICES ASSUME Sizes # {} PROVE FALSE
  <2>1. t \notin Bad => g[t] = g[t \ {z}] + f[z]
    OBVIOUS
  <2>2. f[z] \in Int /\ g[t \ {z}] \in Int
    OBVIOUS
  <2> HIDE DEF Bad
  <2> QED BY <2>1, <2>2
<1>3. Sizes \in SUBSET Nat
  BY <1>1
<1>4. PICK n \in Sizes : \A m \in Sizes : n <= m
  BY <1>2, <1>3, LeastNumber
<1>5. PICK s \in SUBSET S : s \in Bad /\ n = Cardinality(s)
  BY <1>4
<1>6. PICK x \in s : g[s] # g[s \ {x}] + f[x]
  BY <1>5
<1>7. \A y \in s : s \ {y} \in SUBSET S /\ Cardinality(s \ {y}) = n - 1
  BY <1>1, <1>5, FS_RemoveElement
<1>8. \A y \in s : s \ {y} \notin Bad
  <2>1. n \in Nat
    BY <1>1, <1>5
  <2>2. \A u \in Bad : n <= Cardinality(u)
    BY <1>4
  <2> HIDE DEF Bad
  <2> QED BY <1>7, <2>1, <2>2
<1>9. \A u \in SUBSET S : u \notin Bad => \A y \in u : g[u] = g[u \ {y}] + f[y]
  OBVIOUS
<1> DEFINE k == Picked(s)
<1>10. k \in s
  BY <1>6 DEF Picked
<1>11. g[s] = f[k] + g[s \ {k}]
  BY <1>5, <1>6 DEF Folds
<1> HIDE DEF k, Bad, Sizes
<1>12. x \in S /\ k \in S /\ f[x] \in Int /\ f[k] \in Int /\ g[s \ {k}] \in Int
  BY <1>7, <1>10
<1>13. x # k
  <2>1. f[k] + g[s \ {k}] = g[s \ {k}] + f[k]
    BY <1>12
  <2>2. g[s] = g[s \ {k}] + f[k]
    BY <1>11, <2>1
  <2> QED BY <1>6, <2>2, Zenon
<1>14. g[s \ {k}] = g[(s \ {k}) \ {x}] + f[x]
  BY <1>7, <1>8, <1>9, <1>10, <1>13
<1>15. g[s \ {x}] = g[(s \ {x}) \ {k}] + f[k]
  BY <1>7, <1>8, <1>9, <1>10, <1>13
<1>16. (s \ {k}) \ {x} = (s \ {x}) \ {k} /\ g[(s \ {k}) \ {x}] \in Int
  OBVIOUS
<1>17. g[s] = (g[(s \ {k}) \ {x}] + f[k]) + f[x]
  BY <1>11, <1>12, <1>14, <1>16
<1>18. g[s \ {x}] = g[(s \ {k}) \ {x}] + f[k]
  BY <1>15, <1>16
<1> QED BY <1>6, <1>17, <1>18

\* The fold of a set has the sum of each of its subsets.
LEMMA SumOfPart ==
    ASSUME NEW S, IsFiniteSet(S), NEW f \in [S -> Int], NEW g \in [SUBSET S -> Int],
           Folds(f, g, SUBSET S), NEW T \in SUBSET S
    PROVE  SumFunction([x \in T |-> f[x]]) = g[T]
<1> DEFINE h == [x \in T |-> f[x]]
<1>1. h \in [T -> Int] /\ IsFiniteSet(T)
  BY FS_Subset
<1> HIDE DEF h
<1>2. PICK H \in [SUBSET T -> Int] : Folds(h, H, SUBSET T) /\ SumFunction(h) = H[T]
  BY <1>1, SumIsAFold
<1> DEFINE B == {s \in SUBSET T : H[s] = g[s]}
<1>3. {} \in B
  BY <1>2, FoldOfNothing
<1>4. ASSUME NEW s \in SUBSET T, s # {}, s \ {Picked(s)} \in B
      PROVE  s \in B
  <2>1. Picked(s) \in T
    BY <1>4 DEF Picked
  <2>2. H[s] = h[Picked(s)] + H[s \ {Picked(s)}]
    BY <1>2, <1>4 DEF Folds
  <2>3. g[s] = f[Picked(s)] + g[s \ {Picked(s)}]
    BY <1>4 DEF Folds
  <2>4. h[Picked(s)] = f[Picked(s)]
    BY <2>1 DEF h
  <2> QED BY <1>4, <2>2, <2>3, <2>4
<1>5. SUBSET T \subseteq B
  <2> HIDE DEF B
  <2> QED BY <1>1, <1>3, <1>4, PickedInduction
<1> QED BY <1>2, <1>5 DEF h

\* A sum is one of its terms and the sum of the others.
LEMMA SumOneMore ==
    ASSUME NEW S, IsFiniteSet(S), NEW f \in [S -> Int], NEW x \in S
    PROVE  SumFunction(f) = SumFunction([y \in S \ {x} |-> f[y]]) + f[x]
<1>1. PICK g \in [SUBSET S -> Int] : Folds(f, g, SUBSET S) /\ SumFunction(f) = g[S]
  BY SumIsAFold
<1>2. g[S] - f[x] = g[S \ {x}]
  <2>1. S \in SUBSET S
    OBVIOUS
  <2> QED BY <1>1, <2>1, AnyOrder
<1>3. SumFunction([y \in S \ {x} |-> f[y]]) = g[S \ {x}]
  <2>1. S \ {x} \in SUBSET S
    OBVIOUS
  <2> QED BY <1>1, <2>1, SumOfPart
<1> QED BY <1>1, <1>2, <1>3

\* Sums keep the order of their terms, and add up.
LEMMA SumOfSums ==
    ASSUME NEW S, IsFiniteSet(S), NEW f \in [S -> Int], NEW h \in [S -> Int]
    PROVE  /\ (\A x \in S : f[x] <= h[x]) => SumFunction(f) <= SumFunction(h)
           /\ SumFunction([x \in S |-> f[x] + h[x]]) = SumFunction(f) + SumFunction(h)
<1> DEFINE j == [x \in S |-> f[x] + h[x]]
<1>1. j \in [S -> Int]
  OBVIOUS
<1>2. PICK F \in [SUBSET S -> Int] : Folds(f, F, SUBSET S) /\ SumFunction(f) = F[S]
  BY SumIsAFold
<1>3. PICK H \in [SUBSET S -> Int] : Folds(h, H, SUBSET S) /\ SumFunction(h) = H[S]
  BY SumIsAFold
<1>4. PICK J \in [SUBSET S -> Int] : Folds(j, J, SUBSET S) /\ SumFunction(j) = J[S]
  <2> HIDE DEF j
  <2> QED BY <1>1, SumIsAFold
<1>5. ASSUME NEW s \in SUBSET S, s # {}
      PROVE  /\ Picked(s) \in S /\ s \ {Picked(s)} \in SUBSET S
             /\ F[s] = f[Picked(s)] + F[s \ {Picked(s)}]
             /\ H[s] = h[Picked(s)] + H[s \ {Picked(s)}]
             /\ J[s] = (f[Picked(s)] + h[Picked(s)]) + J[s \ {Picked(s)}]
  <2>1. Picked(s) \in S
    BY <1>5 DEF Picked
  <2> QED BY <1>2, <1>3, <1>4, <1>5, <2>1 DEF Folds
<1>6. F[{}] = 0 /\ H[{}] = 0 /\ J[{}] = 0
  BY <1>2, <1>3, <1>4, FoldOfNothing
<1>7. ASSUME \A x \in S : f[x] <= h[x]
      PROVE  F[S] <= H[S]
  <2> DEFINE B == {s \in SUBSET S : F[s] <= H[s]}
  <2>1. {} \in B
    BY <1>6
  <2>2. ASSUME NEW s \in SUBSET S, s # {}, s \ {Picked(s)} \in B
        PROVE  s \in B
    BY <1>5, <1>7, <2>2
  <2>3. SUBSET S \subseteq B
    <3> HIDE DEF B
    <3> QED BY <2>1, <2>2, PickedInduction
  <2> QED BY <2>3
<1>8. J[S] = F[S] + H[S]
  <2> DEFINE B == {s \in SUBSET S : J[s] = F[s] + H[s]}
  <2>1. {} \in B
    BY <1>6
  <2>2. ASSUME NEW s \in SUBSET S, s # {}, s \ {Picked(s)} \in B
        PROVE  s \in B
    <3>1. /\ f[Picked(s)] \in Int /\ h[Picked(s)] \in Int
          /\ F[s \ {Picked(s)}] \in Int /\ H[s \ {Picked(s)}] \in Int
      BY <1>5, <2>2
    <3>2. J[s \ {Picked(s)}] = F[s \ {Picked(s)}] + H[s \ {Picked(s)}]
      BY <2>2
    <3>3. J[s] = F[s] + H[s]
      BY <1>5, <2>2, <3>1, <3>2
    <3> QED BY <3>3
  <2>3. SUBSET S \subseteq B
    <3> HIDE DEF B
    <3> QED BY <2>1, <2>2, PickedInduction
  <2> QED BY <2>3
<1> QED BY <1>2, <1>3, <1>4, <1>7, <1>8

\* Terms that are zero may be left out of a sum.
LEMMA SumWithoutZeros ==
    ASSUME NEW S, IsFiniteSet(S), NEW f \in [S -> Int], NEW T \in SUBSET S,
           \A x \in S \ T : f[x] = 0
    PROVE  SumFunction([x \in T |-> f[x]]) = SumFunction(f)
<1>1. PICK g \in [SUBSET S -> Int] : Folds(f, g, SUBSET S) /\ SumFunction(f) = g[S]
  BY SumIsAFold
<1>2. SumFunction([x \in T |-> f[x]]) = g[T]
  BY <1>1, SumOfPart
<1>3. ASSUME NEW u \in SUBSET S, NEW z \in u PROVE g[u] - f[z] = g[u \ {z}]
  BY <1>1, AnyOrder
<1> DEFINE B == {s \in SUBSET (S \ T) : g[T \cup s] = g[T]}
<1>4. {} \in B
  OBVIOUS
<1>5. ASSUME NEW s \in SUBSET (S \ T), s # {}, s \ {Picked(s)} \in B
      PROVE  s \in B
  <2> DEFINE x == Picked(s)
  <2>1. x \in s /\ x \notin T /\ f[x] = 0
    BY <1>5 DEF Picked
  <2>2. (T \cup s) \ {x} = T \cup (s \ {x}) /\ T \cup s \in SUBSET S
        /\ x \in T \cup s
    BY <2>1
  <2>3. g[T \cup s] - f[x] = g[(T \cup s) \ {x}]
    BY <1>3, <2>2
  <2>4. g[(T \cup s) \ {x}] = g[T]
    BY <1>5, <2>2
  <2> QED BY <2>1, <2>2, <2>3, <2>4
<1>6. SUBSET (S \ T) \subseteq B
  <2>1. IsFiniteSet(S \ T)
    BY FS_Subset
  <2> HIDE DEF B
  <2> QED BY <1>4, <1>5, <2>1, PickedInduction
<1>7. T \cup (S \ T) = S /\ S \ T \in B
  BY <1>6
<1> QED BY <1>1, <1>2, <1>7

\* A sum of naturals is no less than each of them.
LEMMA SumHoldsEach ==
    ASSUME NEW S, IsFiniteSet(S), NEW f \in [S -> Nat], NEW k \in S
    PROVE  f[k] <= SumFunction(f)
<1> DEFINE rest == [x \in S \ {k} |-> f[x]]
<1>1. f \in [S -> Int] /\ rest \in [S \ {k} -> Int] /\ \A x \in S \ {k} : rest[x] \in Nat
  OBVIOUS
<1>2. SumFunction(f) = SumFunction(rest) + f[k]
  BY <1>1, SumOneMore
<1>3. SumFunction(rest) \in Nat
  <2>1. IsFiniteSet(S \ {k})
    BY FS_Subset
  <2> HIDE DEF rest
  <2> QED BY <1>1, <2>1, SumType
<1>4. f[k] \in Nat
  OBVIOUS
<1> HIDE DEF rest
<1> QED BY <1>2, <1>3, <1>4

-----------------------------------------------------------------------------
(* Powers of ten. *)

\* P is the table of the powers of ten up to n.
PowersUpTo(P, n) ==
    \A k \in 0 .. n : P[k] = IF k = 0 THEN 1 ELSE 10 * P[k - 1]

\* A set of numbers with zero and with the next of each of its members.
LEMMA StepByStep ==
    ASSUME NEW B, 0 \in B, \A n \in Nat : n \in B => n + 1 \in B
    PROVE  Nat \subseteq B
<1> DEFINE Bad == {n \in Nat : n \notin B}
<1>1. SUFFICES ASSUME Bad # {} PROVE FALSE
  OBVIOUS
<1>2. PICK n \in Bad : \A m \in Bad : n <= m
  BY <1>1, LeastNumber
<1>3. n \in Nat /\ n # 0 /\ n - 1 \in Nat
  BY <1>2
<1>4. n - 1 \in B
  BY <1>2, <1>3
<1>5. (n - 1) + 1 \in B
  BY <1>3, <1>4
<1> QED BY <1>2, <1>3, <1>5

\* The table exists, as a function on the natural numbers.
LEMMA PowersExist ==
    \E P : P = [k \in Nat |-> IF k = 0 THEN 1 ELSE 10 * P[k - 1]]
<1> DEFINE B == {n \in Nat : \E P \in [0 .. n -> Nat] : PowersUpTo(P, n)}
<1>1. 0 \in B
  <2> DEFINE P == [k \in 0 .. 0 |-> 1]
  <2>1. P \in [0 .. 0 -> Nat] /\ PowersUpTo(P, 0)
    BY DEF PowersUpTo
  <2> QED BY <2>1
<1>2. ASSUME NEW n \in Nat, n \in B PROVE n + 1 \in B
  <2>1. PICK P \in [0 .. n -> Nat] : PowersUpTo(P, n)
    BY <1>2
  <2> DEFINE Q == [k \in 0 .. n + 1 |-> IF k = n + 1 THEN 10 * P[n] ELSE P[k]]
  <2>2. Q \in [0 .. n + 1 -> Nat]
    BY <2>1
  <2>3. PowersUpTo(Q, n + 1)
    BY <2>1, <2>2 DEF PowersUpTo
  <2> QED BY <2>2, <2>3
<1>3. Nat \subseteq B
  <2> HIDE DEF B
  <2> QED BY <1>1, <1>2, StepByStep
<1> DEFINE Table(n) == CHOOSE P \in [0 .. n -> Nat] : PowersUpTo(P, n)
<1>4. \A n \in Nat : Table(n) \in [0 .. n -> Nat] /\ PowersUpTo(Table(n), n)
  BY <1>3
<1>5. ASSUME NEW n \in Nat PROVE \A k \in 0 .. n : Table(n)[k] = Table(k)[k]
  <2>1. \A k \in Nat : Table(k)[0] = 1
    BY <1>4 DEF PowersUpTo
  <2> HIDE DEF Table
  <2> DEFINE D == {k \in Nat : \A m, l \in Nat : k <= m /\ k <= l => Table(m)[k] = Table(l)[k]}
  <2>2. 0 \in D
    BY <2>1
  <2>3. ASSUME NEW k \in Nat, k \in D PROVE k + 1 \in D
    <3>1. \A m \in Nat : k + 1 <= m => Table(m)[k + 1] = 10 * Table(m)[k]
      BY <1>4 DEF PowersUpTo
    <3> QED BY <2>3, <3>1
  <2>4. Nat \subseteq D
    <3> HIDE DEF D
    <3> QED BY <2>2, <2>3, StepByStep
  <2> QED BY <2>4
<1> DEFINE T == [k \in Nat |-> Table(k)[k]]
<1>6. \A k \in Nat : T[k] = IF k = 0 THEN 1 ELSE 10 * T[k - 1]
  <2> TAKE k \in Nat
  <2>1. T[k] = Table(k)[k] /\ \A j \in Nat : T[j] = Table(j)[j]
    OBVIOUS
  <2>2. PowersUpTo(Table(k), k)
    BY <1>4
  <2> HIDE DEF Table, T
  <2>3. CASE k = 0
    BY <2>1, <2>2, <2>3 DEF PowersUpTo
  <2>4. CASE k # 0
    <3>1. k - 1 \in Nat /\ k - 1 \in 0 .. k
      BY <2>4
    <3>2. Table(k)[k] = 10 * Table(k)[k - 1]
      BY <2>2, <2>4 DEF PowersUpTo
    <3>3. Table(k)[k - 1] = Table(k - 1)[k - 1]
      BY <1>5, <3>1
    <3> QED BY <2>1, <2>4, <3>1, <3>2, <3>3
  <2> QED BY <2>3, <2>4
<1>7. T = [k \in Nat |-> IF k = 0 THEN 1 ELSE 10 * T[k - 1]]
  <2> HIDE DEF Table
  <2> QED BY <1>6
<1> QED BY <1>7

\* Ten to the power of zero is one, and each power is ten times the one before.
LEMMA TensStep ==
    /\ Tens[0] = 1
    /\ \A k \in Nat : Tens[k + 1] = 10 * Tens[k]
<1> DEFINE Is(P) == P = [k \in Nat |-> IF k = 0 THEN 1 ELSE 10 * P[k - 1]]
           it == CHOOSE P : Is(P)
<1>1. Tens = it
  BY DEF Tens
<1>2. Is(it)
  <2>1. \E P : Is(P)
    BY PowersExist
  <2> HIDE DEF Is
  <2> QED BY <2>1
<1>3. Is(Tens)
  BY <1>1, <1>2
<1>4. \A k \in Nat : Tens[k] = IF k = 0 THEN 1 ELSE 10 * Tens[k - 1]
  BY <1>3
<1> QED BY <1>4

\* Powers of ten are positive.
LEMMA TensType == \A k \in Nat : Tens[k] \in Nat \ {0}
<1> DEFINE B == {k \in Nat : Tens[k] \in Nat \ {0}}
<1>1. 0 \in B
  BY TensStep
<1>2. \A k \in Nat : k \in B => k + 1 \in B
  BY TensStep
<1>3. Nat \subseteq B
  <2> HIDE DEF B
  <2> QED BY <1>1, <1>2, StepByStep
<1> QED BY <1>3

\* Exponents add up.
LEMMA TensAdd == \A k, l \in Nat : Tens[k + l] = Tens[k] * Tens[l]
<1> SUFFICES ASSUME NEW k \in Nat PROVE \A l \in Nat : Tens[k + l] = Tens[k] * Tens[l]
  OBVIOUS
<1> DEFINE B == {l \in Nat : Tens[k + l] = Tens[k] * Tens[l]}
<1>1. 0 \in B
  BY TensStep, TensType
<1>2. ASSUME NEW l \in Nat, l \in B PROVE l + 1 \in B
  <2>1. Tens[k + (l + 1)] = 10 * Tens[k + l]
    <3>1. k + (l + 1) = (k + l) + 1 /\ k + l \in Nat
      OBVIOUS
    <3> QED BY <3>1, TensStep
  <2>2. Tens[l + 1] = 10 * Tens[l]
    BY TensStep
  <2>3. Tens[k + l] = Tens[k] * Tens[l]
    BY <1>2
  <2>4. Tens[k] \in Int /\ Tens[l] \in Int
    BY TensType
  <2>5. 10 * (Tens[k] * Tens[l]) = Tens[k] * (10 * Tens[l])
    BY <2>4
  <2> QED BY <2>1, <2>2, <2>3, <2>5
<1>3. Nat \subseteq B
  <2> HIDE DEF B
  <2> QED BY <1>1, <1>2, StepByStep
<1> QED BY <1>3

-----------------------------------------------------------------------------
(***************************************************************************)
(* Sequences in which nothing occurs twice.                                *)
(***************************************************************************)
Elems(s) == {s[i] : i \in 1 .. Len(s)}

Once(s) == \A i, j \in 1 .. Len(s) : s[i] = s[j] => i = j

Line(A) == {s \in Seq(A) : Once(s)}

LEMMA LineFacts ==
    ASSUME NEW A, NEW s \in Line(A)
    PROVE  /\ s \in Seq(A) /\ Once(s) /\ Len(s) \in Nat /\ DOMAIN s = 1 .. Len(s)
           /\ \A i \in 1 .. Len(s) : s[i] \in A
           /\ Elems(s) \subseteq A
BY LenProperties, ElementOfSeq DEF Line, Elems

\* The empty line.
LEMMA EmptyLine ==
    ASSUME NEW A
    PROVE  <<>> \in Line(A) /\ Elems(<<>>) = {} /\ Len(<<>>) = 0
BY EmptySeq DEF Line, Once, Elems

LEMMA NobodyInLine ==
    ASSUME NEW A, NEW s \in Line(A)
    PROVE  /\ Elems(s) = {} <=> s = <<>>
           /\ Len(s) = 0 <=> s = <<>>
<1>1. Len(s) \in Nat /\ s \in Seq(A)
  BY LineFacts
<1>2. Len(s) = 0 <=> s = <<>>
  BY <1>1, EmptySeq
<1>3. Len(s) = 0 <=> Elems(s) = {}
  <2>1. ASSUME Len(s) # 0 PROVE s[1] \in Elems(s)
    BY <1>1, <2>1 DEF Elems
  <2>2. ASSUME Len(s) = 0 PROVE Elems(s) = {}
    <3>1. \A i \in 1 .. Len(s) : FALSE
      BY <2>2
    <3> QED BY <3>1 DEF Elems
  <2> QED BY <2>1, <2>2
<1> QED BY <1>2, <1>3

\* Who joins stands at the end.
LEMMA JoinLine ==
    ASSUME NEW A, NEW s \in Line(A), NEW x \in A, x \notin Elems(s)
    PROVE  /\ Append(s, x) \in Line(A) /\ Len(Append(s, x)) = Len(s) + 1
           /\ Elems(Append(s, x)) = Elems(s) \cup {x}
<1> DEFINE t == Append(s, x)
<1>1. /\ t \in Seq(A) /\ Len(t) = Len(s) + 1 /\ Len(s) \in Nat
      /\ \A i \in 1 .. Len(s) : t[i] = s[i]
      /\ t[Len(s) + 1] = x
  BY LineFacts, AppendProperties
<1> HIDE DEF t
<1>2. Once(s)
  BY LineFacts
<1>3. \A i \in 1 .. Len(t) : i \in 1 .. Len(s) \/ i = Len(s) + 1
  BY <1>1
<1>4. Once(t)
  <2> SUFFICES ASSUME NEW i \in 1 .. Len(t), NEW j \in 1 .. Len(t), t[i] = t[j] PROVE i = j
    BY DEF Once
  <2>1. CASE i \in 1 .. Len(s) /\ j \in 1 .. Len(s)
    BY <1>1, <1>2, <2>1 DEF Once
  <2>2. CASE i \in 1 .. Len(s) /\ j = Len(s) + 1
    <3>1. s[i] = x
      BY <1>1, <2>2
    <3> QED BY <2>2, <3>1 DEF Elems
  <2>3. CASE i = Len(s) + 1 /\ j \in 1 .. Len(s)
    <3>1. s[j] = x
      BY <1>1, <2>3
    <3> QED BY <2>3, <3>1 DEF Elems
  <2> QED BY <1>3, <2>1, <2>2, <2>3
<1>5. Elems(t) = Elems(s) \cup {x}
  <2>1. ASSUME NEW y \in Elems(t) PROVE y \in Elems(s) \cup {x}
    <3>1. PICK i \in 1 .. Len(t) : y = t[i]
      BY DEF Elems
    <3> QED BY <1>1, <1>3, <3>1 DEF Elems
  <2>2. ASSUME NEW y \in Elems(s) PROVE y \in Elems(t)
    <3>1. PICK i \in 1 .. Len(s) : y = s[i]
      BY DEF Elems
    <3>2. i \in 1 .. Len(t) /\ t[i] = y
      BY <1>1, <3>1
    <3> QED BY <3>2 DEF Elems
  <2>3. x \in Elems(t)
    <3>1. Len(s) + 1 \in 1 .. Len(t)
      BY <1>1
    <3> QED BY <1>1, <3>1 DEF Elems
  <2> QED BY <2>1, <2>2, <2>3
<1> QED BY <1>1, <1>4, <1>5 DEF Line, t

\* One line behind another.
LEMMA LinesJoin ==
    ASSUME NEW A, NEW s \in Line(A), NEW t \in Line(A), Elems(s) \cap Elems(t) = {}
    PROVE  /\ s \o t \in Line(A) /\ Len(s \o t) = Len(s) + Len(t)
           /\ Elems(s \o t) = Elems(s) \cup Elems(t)
<1> DEFINE u == s \o t
<1>1. /\ u \in Seq(A) /\ Len(u) = Len(s) + Len(t) /\ Len(s) \in Nat /\ Len(t) \in Nat
      /\ \A i \in 1 .. Len(s) + Len(t) : u[i] = IF i <= Len(s) THEN s[i] ELSE t[i - Len(s)]
  BY LineFacts, ConcatProperties
<1> HIDE DEF u
<1>2. Once(s) /\ Once(t)
  BY LineFacts
<1>3. ASSUME NEW i \in 1 .. Len(u)
      PROVE \/ i \in 1 .. Len(s) /\ u[i] = s[i]
            \/ i \notin 1 .. Len(s) /\ i - Len(s) \in 1 .. Len(t) /\ u[i] = t[i - Len(s)]
  BY <1>1
<1>4. Once(u)
  <2> SUFFICES ASSUME NEW i \in 1 .. Len(u), NEW j \in 1 .. Len(u), u[i] = u[j] PROVE i = j
    BY DEF Once
  <2>1. CASE i \in 1 .. Len(s) /\ j \in 1 .. Len(s)
    BY <1>2, <1>3, <2>1 DEF Once
  <2>2. CASE i \in 1 .. Len(s) /\ j \notin 1 .. Len(s)
    <3>1. u[i] \in Elems(s) /\ u[j] \in Elems(t)
      BY <1>3, <2>2 DEF Elems
    <3> QED BY <3>1
  <2>3. CASE i \notin 1 .. Len(s) /\ j \in 1 .. Len(s)
    <3>1. u[j] \in Elems(s) /\ u[i] \in Elems(t)
      BY <1>3, <2>3 DEF Elems
    <3> QED BY <3>1
  <2>4. CASE i \notin 1 .. Len(s) /\ j \notin 1 .. Len(s)
    <3>1. i - Len(s) = j - Len(s)
      BY <1>2, <1>3, <2>4 DEF Once
    <3> QED BY <1>1, <3>1
  <2> QED BY <2>1, <2>2, <2>3, <2>4
<1>5. Elems(u) = Elems(s) \cup Elems(t)
  <2>1. ASSUME NEW y \in Elems(u) PROVE y \in Elems(s) \cup Elems(t)
    <3>1. PICK i \in 1 .. Len(u) : y = u[i]
      BY DEF Elems
    <3> QED BY <1>3, <3>1 DEF Elems
  <2>2. ASSUME NEW y \in Elems(s) PROVE y \in Elems(u)
    <3>1. PICK i \in 1 .. Len(s) : y = s[i]
      BY DEF Elems
    <3>2. i \in 1 .. Len(u) /\ u[i] = y
      BY <1>1, <3>1
    <3> QED BY <3>2 DEF Elems
  <2>3. ASSUME NEW y \in Elems(t) PROVE y \in Elems(u)
    <3>1. PICK i \in 1 .. Len(t) : y = t[i]
      BY DEF Elems
    <3>2. Len(s) + i \in 1 .. Len(u) /\ (Len(s) + i) - Len(s) = i /\ ~(Len(s) + i <= Len(s))
      BY <1>1
    <3>3. u[Len(s) + i] = y
      BY <1>1, <3>1, <3>2
    <3> QED BY <3>2, <3>3 DEF Elems
  <2> QED BY <2>1, <2>2, <2>3
<1> QED BY <1>1, <1>4, <1>5 DEF Line, u

\* A piece of a line.
LEMMA PieceOfLine ==
    ASSUME NEW A, NEW s \in Line(A), NEW m \in Nat \ {0}, NEW n \in 0 .. Len(s)
    PROVE  /\ SubSeq(s, m, n) \in Line(A)
           /\ Len(SubSeq(s, m, n)) = IF m <= n THEN n - m + 1 ELSE 0
           /\ Elems(SubSeq(s, m, n)) = {s[i] : i \in m .. n}
<1> DEFINE t == SubSeq(s, m, n)
<1>1. Len(s) \in Nat /\ n \in Nat /\ n <= Len(s) /\ m >= 1
  BY LineFacts
<1>2. \A i \in m .. n : i \in 1 .. Len(s) /\ s[i] \in A
  BY <1>1, LineFacts
<1>3. /\ t \in Seq(A) /\ Len(t) = IF m <= n THEN n - m + 1 ELSE 0
      /\ \A i \in 1 .. n - m + 1 : t[i] = s[m + i - 1]
  BY <1>1, <1>2, SubSeqProperties
<1> HIDE DEF t
<1>4. \A i \in 1 .. Len(t) : t[i] = s[m + i - 1] /\ m + i - 1 \in m .. n
  BY <1>1, <1>3
<1>5. Once(t)
  <2> SUFFICES ASSUME NEW i \in 1 .. Len(t), NEW j \in 1 .. Len(t), t[i] = t[j] PROVE i = j
    BY DEF Once
  <2>1. /\ m + i - 1 \in m .. n /\ m + j - 1 \in m .. n
        /\ s[m + i - 1] = s[m + j - 1]
    BY <1>4
  <2>2. PICK k, l \in 1 .. Len(s) : k = m + i - 1 /\ l = m + j - 1
    BY <1>2, <2>1
  <2>3. Once(s)
    BY LineFacts
  <2>4. k = l
    BY <2>1, <2>2, <2>3 DEF Once
  <2>5. m \in Int /\ i \in Int /\ j \in Int
    BY <1>1
  <2> QED BY <2>2, <2>4, <2>5
<1>6. Elems(t) = {s[i] : i \in m .. n}
  <2>1. ASSUME NEW y \in Elems(t) PROVE y \in {s[i] : i \in m .. n}
    BY <1>4 DEF Elems
  <2>2. ASSUME NEW i \in m .. n PROVE s[i] \in Elems(t)
    <3>1. i - m + 1 \in 1 .. Len(t) /\ m + (i - m + 1) - 1 = i
      BY <1>1, <1>3
    <3> QED BY <1>4, <3>1 DEF Elems
  <2> QED BY <2>1, <2>2
<1> QED BY <1>3, <1>5, <1>6 DEF Line, t

\* The first in line, and the others.
LEMMA FirstInLine ==
    ASSUME NEW A, NEW s \in Line(A), s # <<>>
    PROVE  /\ Head(s) \in A /\ Head(s) \in Elems(s)
           /\ Tail(s) \in Line(A) /\ Elems(Tail(s)) = Elems(s) \ {Head(s)}
<1>1. /\ s \in Seq(A) /\ Len(s) \in Nat /\ Len(s) # 0 /\ Once(s)
  BY LineFacts, NobodyInLine
<1> DEFINE t == Tail(s)
<1>2. /\ Head(s) \in A /\ t \in Seq(A) /\ Len(t) = Len(s) - 1 /\ Head(s) = s[1]
      /\ \A i \in 1 .. Len(t) : t[i] = s[i + 1]
  BY <1>1, HeadTailProperties
<1> HIDE DEF t
<1>3. \A i \in 1 .. Len(t) : i + 1 \in 1 .. Len(s) /\ i + 1 # 1
  BY <1>1, <1>2
<1>4. Once(t)
  <2> SUFFICES ASSUME NEW i \in 1 .. Len(t), NEW j \in 1 .. Len(t), t[i] = t[j] PROVE i = j
    BY DEF Once
  <2>1. i + 1 = j + 1
    BY <1>1, <1>2, <1>3 DEF Once
  <2> QED BY <2>1
<1>5. 1 \in 1 .. Len(s)
  BY <1>1
<1>6. Elems(t) = Elems(s) \ {Head(s)}
  <2>1. ASSUME NEW y \in Elems(t) PROVE y \in Elems(s) \ {Head(s)}
    <3>1. PICK i \in 1 .. Len(t) : y = t[i]
      BY DEF Elems
    <3>2. y = s[i + 1] /\ i + 1 \in 1 .. Len(s) /\ i + 1 # 1
      BY <1>2, <1>3, <3>1
    <3>3. y # s[1]
      BY <1>1, <1>5, <3>2 DEF Once
    <3> QED BY <1>2, <3>2, <3>3 DEF Elems
  <2>2. ASSUME NEW y \in Elems(s) \ {Head(s)} PROVE y \in Elems(t)
    <3>1. PICK i \in 1 .. Len(s) : y = s[i]
      BY DEF Elems
    <3>2. i # 1
      BY <1>2, <2>2, <3>1
    <3>3. i - 1 \in 1 .. Len(t) /\ (i - 1) + 1 = i
      BY <1>1, <1>2, <3>2
    <3> QED BY <1>2, <3>1, <3>3 DEF Elems
  <2> QED BY <2>1, <2>2
<1> QED BY <1>2, <1>4, <1>5, <1>6 DEF Line, Elems, t

\* As many elements as places.
LEMMA LineCount ==
    ASSUME NEW A, NEW s \in Line(A)
    PROVE  IsFiniteSet(Elems(s)) /\ Cardinality(Elems(s)) = Len(s)
<1>1. Len(s) \in Nat /\ Once(s)
  BY LineFacts
<1> DEFINE f == [i \in 1 .. Len(s) |-> s[i]]
<1>2. f \in Bijection(1 .. Len(s), Elems(s))
  BY <1>1 DEF Bijection, Injection, Surjection, IsInjective, Once, Elems
<1>3. ExistsBijection(1 .. Len(s), Elems(s))
  BY <1>2 DEF ExistsBijection
<1>4. IsFiniteSet(1 .. Len(s)) /\ Cardinality(1 .. Len(s)) = Len(s)
  <2>1. PICK n \in Nat : n = Len(s)
    BY <1>1
  <2>2. IsFiniteSet(1 .. n) /\ Cardinality(1 .. n) = IF 1 > n THEN 0 ELSE n - 1 + 1
    BY FS_Interval
  <2>3. (IF 1 > n THEN 0 ELSE n - 1 + 1) = n
    OBVIOUS
  <2> QED BY <2>1, <2>2, <2>3
<1> QED BY <1>3, <1>4, FS_Bijection

\* The table of what the first members of a list have of a set, up to n.
KeptUpTo(K, s, B, n) ==
    \A i \in 0 .. n : K[i] = IF i = 0 THEN <<>>
                             ELSE IF s[i] \in B THEN Append(K[i - 1], s[i]) ELSE K[i - 1]

LEMMA KeptExists ==
    ASSUME NEW A, NEW s \in Line(A), NEW B
    PROVE  \E K \in [0 .. Len(s) -> Seq(A)] : KeptUpTo(K, s, B, Len(s))
<1> DEFINE D == {n \in Nat : n <= Len(s) => \E K \in [0 .. n -> Seq(A)] : KeptUpTo(K, s, B, n)}
<1>0. Len(s) \in Nat
  BY LineFacts
<1>1. 0 \in D
  <2> DEFINE K == [i \in 0 .. 0 |-> <<>>]
  <2>1. K \in [0 .. 0 -> Seq(A)]
    BY EmptySeq
  <2>2. KeptUpTo(K, s, B, 0)
    BY DEF KeptUpTo
  <2> QED BY <2>1, <2>2
<1>2. ASSUME NEW n \in Nat, n \in D PROVE n + 1 \in D
  <2> SUFFICES ASSUME n + 1 <= Len(s)
               PROVE  \E K \in [0 .. n + 1 -> Seq(A)] : KeptUpTo(K, s, B, n + 1)
    OBVIOUS
  <2>1. PICK K \in [0 .. n -> Seq(A)] : KeptUpTo(K, s, B, n)
    BY <1>0, <1>2
  <2>2. s[n + 1] \in A
    BY <1>0, LineFacts
  <2> DEFINE next == IF s[n + 1] \in B THEN Append(K[n], s[n + 1]) ELSE K[n]
             L == [i \in 0 .. n + 1 |-> IF i = n + 1 THEN next ELSE K[i]]
  <2>3. next \in Seq(A)
    <3>1. K[n] \in Seq(A)
      BY <2>1
    <3> QED BY <2>2, <3>1, AppendProperties
  <2>4. L \in [0 .. n + 1 -> Seq(A)]
    <3> HIDE DEF next
    <3> QED BY <2>1, <2>3
  <2>5. KeptUpTo(L, s, B, n + 1)
    <3> SUFFICES ASSUME NEW i \in 0 .. n + 1
                 PROVE  L[i] = IF i = 0 THEN <<>>
                               ELSE IF s[i] \in B THEN Append(L[i - 1], s[i]) ELSE L[i - 1]
      BY DEF KeptUpTo
    <3>1. CASE i = n + 1
      <4>1. i # 0 /\ i - 1 = n /\ n \in 0 .. n + 1 /\ n # n + 1
        BY <3>1
      <4>2. L[i] = next /\ L[i - 1] = K[n]
        BY <3>1, <4>1
      <4> QED BY <3>1, <4>1, <4>2
    <3>2. CASE i # n + 1
      <4>1. i \in 0 .. n /\ (i # 0 => i - 1 \in 0 .. n + 1 /\ i - 1 # n + 1)
        BY <3>2
      <4>2. L[i] = K[i] /\ (i # 0 => L[i - 1] = K[i - 1])
        BY <4>1, <3>2
      <4> QED BY <2>1, <4>1, <4>2 DEF KeptUpTo
    <3> QED BY <3>1, <3>2
  <2> QED BY <2>4, <2>5
<1>3. Len(s) \in D
  <2> HIDE DEF D
  <2>1. Nat \subseteq D
    BY <1>1, <1>2, StepByStep
  <2> QED BY <1>0, <2>1
<1> QED BY <1>0, <1>3

\* What is kept of a line is a line, of what the two have in common.
LEMMA KeptIsALine ==
    ASSUME NEW A, NEW s \in Line(A), NEW B, NEW K, KeptUpTo(K, s, B, Len(s))
    PROVE  K[Len(s)] \in Line(A) /\ Elems(K[Len(s)]) = B \cap Elems(s)
<1> DEFINE First(n) == {s[i] : i \in 1 .. n}
           D == {n \in Nat : n <= Len(s) => K[n] \in Line(A) /\ Elems(K[n]) = B \cap First(n)}
<1>0. Len(s) \in Nat /\ Once(s) /\ \A i \in 1 .. Len(s) : s[i] \in A
  BY LineFacts
<1>1. 0 \in D
  <2>1. K[0] = <<>>
    BY <1>0 DEF KeptUpTo
  <2>2. First(0) = {}
    OBVIOUS
  <2> QED BY <2>1, <2>2, EmptyLine
<1>2. ASSUME NEW n \in Nat, n \in D PROVE n + 1 \in D
  <2> SUFFICES ASSUME n + 1 <= Len(s)
               PROVE  K[n + 1] \in Line(A) /\ Elems(K[n + 1]) = B \cap First(n + 1)
    OBVIOUS
  <2>1. K[n] \in Line(A) /\ Elems(K[n]) = B \cap First(n)
    BY <1>0, <1>2
  <2>2. n + 1 \in 0 .. Len(s) /\ n + 1 # 0 /\ (n + 1) - 1 = n /\ n + 1 \in 1 .. Len(s)
    BY <1>0
  <2>3. K[n + 1] = IF s[n + 1] \in B THEN Append(K[n], s[n + 1]) ELSE K[n]
    BY <2>2 DEF KeptUpTo
  <2>4. First(n + 1) = First(n) \cup {s[n + 1]}
    <3>1. 1 .. n + 1 = (1 .. n) \cup {n + 1}
      OBVIOUS
    <3> QED BY <3>1
  <2>5. s[n + 1] \in A /\ s[n + 1] \notin First(n)
    <3>1. \A i \in 1 .. n : i \in 1 .. Len(s) /\ i # n + 1
      BY <1>0, <2>2
    <3> QED BY <1>0, <2>2, <3>1 DEF Once
  <2>6. CASE s[n + 1] \in B
    <3> HIDE DEF First
    <3>1. s[n + 1] \notin Elems(K[n])
      BY <2>1, <2>5
    <3>2. Append(K[n], s[n + 1]) \in Line(A) /\ Elems(Append(K[n], s[n + 1])) = Elems(K[n]) \cup {s[n + 1]}
      BY <2>1, <2>5, <3>1, JoinLine
    <3> QED BY <2>1, <2>3, <2>4, <2>6, <3>2
  <2>7. CASE s[n + 1] \notin B
    <3> HIDE DEF First
    <3> QED BY <2>1, <2>3, <2>4, <2>7
  <2> QED BY <2>6, <2>7
<1>3. Len(s) \in D
  <2> HIDE DEF D
  <2>1. Nat \subseteq D
    BY <1>1, <1>2, StepByStep
  <2> QED BY <1>0, <2>1
<1>4. K[Len(s)] \in Line(A) /\ Elems(K[Len(s)]) = B \cap First(Len(s))
  <2>1. Len(s) <= Len(s)
    BY <1>0
  <2> QED BY <1>3, <2>1
<1>5. First(Len(s)) = Elems(s)
  BY DEF Elems
<1> QED BY <1>4, <1>5

-----------------------------------------------------------------------------
(* Finite sets in a line. *)

\* Those of X that R puts before x, and the first d of X.
Before(X, R, x) == {y \in X : <<y, x>> \in R}

Foremost(X, R, d) == {x \in X : Cardinality(Before(X, R, x)) < d}

\* R puts the members of X in a line.
Lines(X, R) ==
    /\ \A x \in X : <<x, x>> \notin R
    /\ \A x, y \in X : x # y => <<x, y>> \in R \/ <<y, x>> \in R
    /\ \A x, y, z \in X : <<x, y>> \in R /\ <<y, z>> \in R => <<x, z>> \in R

LEMMA RanksGrow ==
    ASSUME NEW X, IsFiniteSet(X), NEW R, Lines(X, R), NEW x \in X, NEW y \in X, <<x, y>> \in R
    PROVE  /\ Cardinality(Before(X, R, x)) \in Nat /\ Cardinality(Before(X, R, y)) \in Nat
           /\ Cardinality(Before(X, R, x)) < Cardinality(Before(X, R, y))
<1> DEFINE A == Before(X, R, x)
           B == Before(X, R, y)
<1>1. A \in SUBSET B /\ x \in B /\ x \notin A /\ B \in SUBSET X
  BY DEF Before, Lines
<1> HIDE DEF A, B
<1>2. IsFiniteSet(B)
  BY <1>1, FS_Subset
<1>3. IsFiniteSet(A) /\ Cardinality(A) <= Cardinality(B) /\ (Cardinality(B) = Cardinality(A) => B = A)
  BY <1>1, <1>2, FS_Subset
<1>4. Cardinality(A) \in Nat /\ Cardinality(B) \in Nat
  BY <1>2, <1>3, FS_CardinalityType
<1>5. Cardinality(A) # Cardinality(B)
  BY <1>1, <1>3
<1>6. Cardinality(A) < Cardinality(B)
  BY <1>3, <1>4, <1>5
<1> QED BY <1>4, <1>6 DEF A, B

\* Whoever is left out leaves as many in as there was room for.
LEMMA FullWithoutSome ==
    ASSUME NEW X, IsFiniteSet(X), NEW R, Lines(X, R), NEW d \in Nat,
           NEW out \in X, out \notin Foremost(X, R, d)
    PROVE  Cardinality(Foremost(X, R, d)) = d
<1> DEFINE rank(x) == Cardinality(Before(X, R, x))
           F == Foremost(X, R, d)
<1>1. \A x \in X : rank(x) \in Nat
  <2> SUFFICES ASSUME NEW x \in X PROVE rank(x) \in Nat
    OBVIOUS
  <2>1. Before(X, R, x) \in SUBSET X
    BY DEF Before
  <2> QED BY <2>1, FS_Subset, FS_CardinalityType
<1>2. \A x, y \in X : <<x, y>> \in R => rank(x) < rank(y)
  BY RanksGrow
<1>3. F = {x \in X : rank(x) < d}
  BY DEF Foremost
<1> DEFINE Late == {n \in Nat : n >= d /\ \E x \in X : rank(x) = n}
<1>4. PICK m \in Late : \A n \in Late : m <= n
  <2>1. Late # {} /\ Late \in SUBSET Nat
    <3>1. rank(out) \in Nat /\ ~(rank(out) < d)
      BY <1>1, <1>3
    <3>2. rank(out) >= d
      BY <3>1
    <3>3. rank(out) \in Late
      BY <3>1, <3>2
    <3> QED BY <3>3
  <2> HIDE DEF Late
  <2> QED BY <2>1, LeastNumber
<1>5. m \in Nat /\ m >= d
  BY <1>4
<1>6. PICK x \in X : rank(x) = m
  BY <1>4
<1>7. F = Before(X, R, x)
  <2>1. ASSUME NEW y \in X, <<y, x>> \in R PROVE rank(y) < d
    <3>1. rank(y) \in Nat /\ rank(y) < m
      BY <1>1, <1>2, <1>6, <2>1
    <3>2. rank(y) \notin Late
      BY <1>4, <1>5, <3>1
    <3>3. ~(rank(y) >= d)
      BY <3>1, <3>2
    <3> QED BY <3>1, <3>3
  <2>2. ASSUME NEW y \in X, rank(y) < d PROVE <<y, x>> \in R
    <3>1. rank(y) \in Nat
      BY <1>1
    <3>2. rank(y) < m
      BY <1>5, <2>2, <3>1
    <3>3. y # x
      BY <1>6, <3>1, <3>2
    <3>4. <<x, y>> \notin R
      <4>1. <<x, y>> \in R => m < rank(y)
        BY <1>2, <1>6
      <4> QED BY <1>5, <3>1, <3>2, <4>1
    <3> QED BY <3>3, <3>4 DEF Lines
  <2> QED BY <1>3, <2>1, <2>2 DEF Before
<1>8. Cardinality(F) = m
  BY <1>6, <1>7
<1>9. Cardinality(F) <= d
  <2> DEFINE f == [y \in F |-> rank(y)]
  <2>1. f \in Injection(F, 0 .. d - 1)
    <3>1. \A y \in F : rank(y) \in 0 .. d - 1
      <4> SUFFICES ASSUME NEW y \in F PROVE rank(y) \in 0 .. d - 1
        OBVIOUS
      <4>1. y \in X /\ rank(y) < d
        BY <1>3
      <4>2. rank(y) \in Nat
        BY <1>1, <4>1
      <4> QED BY <4>1, <4>2
    <3>2. \A y, z \in F : rank(y) = rank(z) => y = z
      <4> SUFFICES ASSUME NEW y \in F, NEW z \in F, rank(y) = rank(z), y # z PROVE FALSE
        OBVIOUS
      <4>1. y \in X /\ z \in X
        BY <1>3
      <4>2. <<y, z>> \in R \/ <<z, y>> \in R
        BY <4>1 DEF Lines
      <4>3. rank(y) < rank(z) \/ rank(z) < rank(y)
        BY <1>2, <4>1, <4>2
      <4> QED BY <1>1, <4>1, <4>3
    <3> HIDE DEF F, rank
    <3> QED BY <3>1, <3>2 DEF Injection, IsInjective
  <2>2. IsFiniteSet(0 .. d - 1) /\ Cardinality(0 .. d - 1) = d
    <3>1. 0 \in Int /\ d - 1 \in Int
      OBVIOUS
    <3>2. IsFiniteSet(0 .. d - 1) /\ Cardinality(0 .. d - 1) = IF 0 > d - 1 THEN 0 ELSE (d - 1) - 0 + 1
      BY <3>1, FS_Interval
    <3>3. (IF 0 > d - 1 THEN 0 ELSE (d - 1) - 0 + 1) = d
      OBVIOUS
    <3> QED BY <3>2, <3>3
  <2> HIDE DEF f, F
  <2>3. Cardinality(F) <= Cardinality(0 .. d - 1)
    BY <2>1, <2>2, FS_Injection
  <2> QED BY <2>2, <2>3
<1>10. m = d
  BY <1>5, <1>8, <1>9
<1> QED BY <1>8, <1>10

\* Fractions that are compared crosswise are in order.
LEMMA CrosswiseOrder ==
    ASSUME NEW a \in Nat, NEW b \in Nat \ {0}, NEW c \in Nat, NEW d \in Nat \ {0},
           NEW e \in Nat, NEW f \in Nat \ {0},
           a * d <= c * b, c * f <= e * d
    PROVE  /\ a * f <= e * b
           /\ a * f = e * b => a * d = c * b /\ c * f = e * d
<1>1. (a * f) * d = (a * d) * f /\ (c * b) * f = (c * f) * b /\ (e * d) * b = (e * b) * d
  OBVIOUS
<1> DEFINE x == a * d
           y == c * b
           z == c * f
           w == e * d
           u == a * f
           v == e * b
<1>2. x \in Nat /\ y \in Nat /\ z \in Nat /\ w \in Nat /\ u \in Nat /\ v \in Nat
  OBVIOUS
<1>3. x <= y /\ z <= w /\ u * d = x * f /\ y * f = z * b /\ w * b = v * d
  BY <1>1
<1> HIDE DEF x, y, z, w, u, v
<1>4. \A m, n \in Nat : \A k \in Nat \ {0} : (m <= n => m * k <= n * k) /\ (m < n => m * k < n * k)
  OBVIOUS
<1>5. x * f <= y * f /\ z * b <= w * b /\ (x < y => x * f < y * f) /\ (z < w => z * b < w * b)
  BY <1>2, <1>3, <1>4
<1>6. x * f \in Nat /\ y * f \in Nat /\ z * b \in Nat /\ w * b \in Nat /\ u * d \in Nat /\ v * d \in Nat
  BY <1>2
<1>7. u * d <= v * d /\ (x < y \/ z < w => u * d < v * d)
  BY <1>3, <1>5, <1>6
<1>8. u <= v
  <2>1. v < u => v * d < u * d
    BY <1>2, <1>4
  <2> QED BY <1>2, <1>6, <1>7, <2>1
<1>9. u = v => x = y /\ z = w
  <2>1. u = v => ~(u * d < v * d)
    BY <1>6
  <2> QED BY <1>2, <1>3, <1>7, <2>1
<1> QED BY <1>8, <1>9 DEF x, y, z, w, u, v
=============================================================================
