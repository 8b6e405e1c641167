------------------------- MODULE MarketStorageProofs -------------------------
(***************************************************************************)
(* The market store under any number of callers, stopped, retried and      *)
(* landing late, for any jobs and any bounds.  First what one commit makes *)
(* of an envelope: its tables stay sound and within their retention, rows  *)
(* keep their terms and settlement, watermarks go forward, no announcement *)
(* is lost in folding, and a list whose revision did not move is the same  *)
(* list.  Then what the calls make of the store: it changes by one whole   *)
(* job at a time, what a caller is told of its own job is true, and pages  *)
(* read one after the other are of one moment.  At the end the ingestor,   *)
(* which reads the catalog of that store page by page while it changes:    *)
(* its budget holds, and a traversal that is through left nobody out.      *)
(***************************************************************************)
EXTENDS MarketStorage, Ingestor, SumTheorems, SequenceTheorems, TLAPS

-----------------------------------------------------------------------------
(* Finite sets in an order.                                                *)

\* R orders the elements of S, perhaps not all of them.
Orders(R, S) ==
    /\ \A x \in S : <<x, x>> \notin R
    /\ \A x, y, z \in S : <<x, y>> \in R /\ <<y, z>> \in R => <<x, z>> \in R

Rank(S, R, x) == Cardinality(Before(S, R, x))

LEMMA RankGrows ==
    ASSUME NEW S, IsFiniteSet(S), NEW R, Orders(R, S), NEW x \in S
    PROVE  /\ Rank(S, R, x) \in 0..(Cardinality(S) - 1)
           /\ \A y \in S : <<y, x>> \in R => Rank(S, R, y) < Rank(S, R, x)
  <1>1. /\ Before(S, R, x) \in SUBSET S /\ x \notin Before(S, R, x)
        /\ IsFiniteSet(Before(S, R, x))
    BY FS_Subset DEF Before, Orders
  <1>2. Cardinality(S \ {x}) = Cardinality(S) - 1 /\ IsFiniteSet(S \ {x})
    BY FS_RemoveElement
  <1>3. Before(S, R, x) \in SUBSET (S \ {x})
    BY <1>1
  <1>4. Rank(S, R, x) <= Cardinality(S \ {x})
    BY <1>2, <1>3, FS_Subset DEF Rank
  <1>5. Rank(S, R, x) \in Nat /\ Cardinality(S) \in Nat
    BY <1>1, FS_CardinalityType DEF Rank
  <1>6. ASSUME NEW y \in S, <<y, x>> \in R PROVE Rank(S, R, y) < Rank(S, R, x)
    <2>1. Before(S, R, y) \in SUBSET Before(S, R, x)
      BY <1>6 DEF Before, Orders
    <2>2. y \in Before(S, R, x) /\ y \notin Before(S, R, y)
      BY <1>6 DEF Before, Orders
    <2>3. /\ Cardinality(Before(S, R, y)) <= Cardinality(Before(S, R, x))
          /\ Cardinality(Before(S, R, x)) # Cardinality(Before(S, R, y))
      BY <1>1, <2>1, <2>2, FS_Subset
    <2>4. Cardinality(Before(S, R, y)) \in Nat
      BY <1>1, <2>1, FS_Subset, FS_CardinalityType
    <2> QED BY <1>5, <2>3, <2>4 DEF Rank
  <1> QED BY <1>2, <1>4, <1>5, <1>6

\* A set has a first element, whichever it is.
LEMMA FirstOne ==
    ASSUME NEW S, IsFiniteSet(S), NEW R, Orders(R, S), NEW K \in SUBSET S, K # {}
    PROVE  \E m \in K : \A q \in K : <<q, m>> \notin R
  <1> DEFINE Ranks == {Rank(S, R, x) : x \in K}
  <1>1. Ranks \in SUBSET Nat /\ Ranks # {}
    BY RankGrows
  <1>2. PICK n \in Ranks : \A k \in Ranks : n <= k
    BY <1>1, LeastNumber
  <1>3. PICK m \in K : n = Rank(S, R, m)
    BY <1>2
  <1>4. \A q \in K : n <= Rank(S, R, q) /\ Rank(S, R, q) \in Nat
    BY <1>1, <1>2
  <1>5. \A q \in K : <<q, m>> \in R => Rank(S, R, q) < n
    BY <1>3, RankGrows
  <1> QED BY <1>1, <1>3, <1>4, <1>5

\* Taking away all before which there are fewer than the excess leaves no more
\* than the limit.
LEMMA KeptBound ==
    ASSUME NEW S, IsFiniteSet(S), NEW R, Orders(R, S), NEW max \in Nat,
           NEW K, K = {x \in S : ~(Rank(S, R, x) < Cardinality(S) - max)}
    PROVE  Cardinality(K) <= max
  <1>0. IsFiniteSet(K) /\ IsFiniteSet(S \ K) /\ K \in SUBSET S
    BY FS_Subset
  <1>1. CASE K = {}
    BY <1>1, FS_EmptySet
  <1>2. CASE K # {}
    <2>1. PICK m \in K : \A q \in K : <<q, m>> \notin R
      BY <1>0, <1>2, FirstOne
    <2>2. Before(S, R, m) \in SUBSET (S \ K)
      BY <2>1 DEF Before
    <2>3. Rank(S, R, m) <= Cardinality(S \ K)
      BY <1>0, <2>2, FS_Subset DEF Rank
    <2>4. Cardinality(S \ K) = Cardinality(S) - Cardinality(K)
      <3>1. S \cap K = K
        BY <1>0
      <3> QED BY <1>0, <3>1, FS_Difference
    <2>5. ~(Rank(S, R, m) < Cardinality(S) - max) /\ m \in S
      BY <2>1
    <2>6. Rank(S, R, m) \in Nat
      BY <2>5, RankGrows
    <2>7. Cardinality(S) \in Nat /\ Cardinality(K) \in Nat
      BY <1>0, FS_CardinalityType
    <2> QED BY <2>3, <2>4, <2>5, <2>6, <2>7
  <1> QED BY <1>1, <1>2

\* If any two are in order, each place has one element.
LEMMA RanksAreFull ==
    ASSUME NEW S, IsFiniteSet(S), NEW R, Orders(R, S),
           \A x, y \in S : x # y => <<x, y>> \in R \/ <<y, x>> \in R
    PROVE  /\ \A x, y \in S : Rank(S, R, x) = Rank(S, R, y) => x = y
           /\ \A i \in 0..(Cardinality(S) - 1) : \E x \in S : Rank(S, R, x) = i
  <1>1. \A x, y \in S : Rank(S, R, x) = Rank(S, R, y) => x = y
    <2> TAKE x, y \in S
    <2>1. /\ Rank(S, R, x) \in Int /\ Rank(S, R, y) \in Int
          /\ <<x, y>> \in R => Rank(S, R, x) < Rank(S, R, y)
          /\ <<y, x>> \in R => Rank(S, R, y) < Rank(S, R, x)
      BY RankGrows
    <2> QED BY <2>1
  <1> DEFINE f == [x \in S |-> Rank(S, R, x)]
             T == 0..(Cardinality(S) - 1)
  <1>2. f \in [S -> T]
    BY RankGrows
  <1>3. f \in Injection(S, T)
    BY <1>1, <1>2 DEF Injection, IsInjective
  <1>4. Cardinality(S) \in Nat
    BY FS_CardinalityType
  <1>5. IsFiniteSet(T) /\ Cardinality(T) = Cardinality(S)
    BY <1>4, FS_Interval
  <1>6. f \in Surjection(S, T)
    <2> HIDE DEF f, T
    <2> QED BY <1>3, <1>5, FS_Injection
  <1>7. \A i \in T : \E x \in S : f[x] = i
    <2> HIDE DEF f, T
    <2> QED BY <1>6 DEF Surjection
  <1> QED BY <1>1, <1>7

-----------------------------------------------------------------------------
(* How many announcements the rows of the roster stand for.                *)

Rosters == SUBSET Observation

LEMMA SightingsOfNone == Sightings({}) = 0
  <1> DEFINE f == [o \in {} |-> o.count]
  <1>1. f \in [{} -> Int] /\ IsFiniteSet({}) /\ \A x \in {} : f[x] = 0
    BY FS_EmptySet
  <1> HIDE DEF f
  <1>2. SumFunction(f) = 0
    BY <1>1, SumType
  <1> QED BY <1>2 DEF Sightings, f

LEMMA OneMoreSighting ==
    ASSUME NEW rows \in Rosters, IsFiniteSet(rows), NEW o \in rows
    PROVE  /\ Sightings(rows) = Sightings(rows \ {o}) + o.count
           /\ Sightings(rows) \in Int
           /\ (\A q \in rows : q.count >= 1) => Sightings(rows) >= 1
  <1> DEFINE f == [q \in rows |-> q.count]
             rest == [q \in rows \ {o} |-> f[q]]
  <1>1. f \in [rows -> Int] /\ rest \in [rows \ {o} -> Int]
    BY DEF Rosters, Observation
  <1>2. rest = [q \in rows \ {o} |-> q.count]
    OBVIOUS
  <1>3. f[o] = o.count
    OBVIOUS
  <1>4. IsFiniteSet(rows \ {o})
    BY FS_Subset
  <1>5. (\A q \in rows : q.count >= 1) => (\A q \in rows \ {o} : rest[q] \in Nat)
    BY <1>1, <1>2
  <1> HIDE DEF f
  <1>6. SumFunction(f) = SumFunction(rest) + f[o]
    BY <1>1, SumOneMore
  <1> HIDE DEF rest
  <1>7. SumFunction(f) \in Int
    BY <1>1, SumType
  <1>8. (\A q \in rows : q.count >= 1) => SumFunction(rest) \in Nat /\ f[o] >= 1
    BY <1>1, <1>3, <1>4, <1>5, SumType
  <1>9. Sightings(rows) = SumFunction(f) /\ Sightings(rows \ {o}) = SumFunction(rest)
    BY <1>2 DEF Sightings, f
  <1>10. f[o] \in Int
    BY <1>1
  <1> QED BY <1>3, <1>6, <1>7, <1>8, <1>9, <1>10

LEMMA SightingsType ==
    ASSUME NEW rows \in Rosters, IsFiniteSet(rows)
    PROVE  Sightings(rows) \in Int
  <1>1. CASE rows = {}
    BY <1>1, SightingsOfNone
  <1>2. CASE rows # {}
    BY <1>2, OneMoreSighting
  <1> QED BY <1>1, <1>2

\* Two rosters without a common row stand together for what they stand for.
LEMMA SightingsAdd ==
    ASSUME NEW rows \in Rosters, IsFiniteSet(rows),
           NEW more \in Rosters, IsFiniteSet(more), rows \cap more = {}
    PROVE  Sightings(rows \cup more) = Sightings(rows) + Sightings(more)
  <1> DEFINE B == {s \in SUBSET more :
                     Sightings(rows \cup s) = Sightings(rows) + Sightings(s)}
  <1>1. Sightings(rows) \in Int
    BY SightingsType
  <1>2. {} \in B
    <2>1. rows \cup {} = rows
      OBVIOUS
    <2> QED BY <1>1, <2>1, SightingsOfNone
  <1>3. ASSUME NEW s \in SUBSET more, s # {}, s \ {Picked(s)} \in B PROVE s \in B
    <2> DEFINE o == Picked(s)
               t == s \ {o}
    <2>1. o \in s
      BY <1>3 DEF Picked
    <2> HIDE DEF o
    <2>2. /\ s \in Rosters /\ IsFiniteSet(s) /\ t \in Rosters /\ IsFiniteSet(t)
          /\ rows \cup s \in Rosters /\ IsFiniteSet(rows \cup s)
      BY FS_Subset, FS_Union DEF Rosters
    <2>3. (rows \cup s) \ {o} = rows \cup t /\ o \in rows \cup s
      BY <2>1
    <2>4. Sightings(s) = Sightings(t) + o.count
      BY <2>1, <2>2, OneMoreSighting
    <2>5. Sightings(rows \cup s) = Sightings(rows \cup t) + o.count
      BY <2>2, <2>3, OneMoreSighting
    <2>6. Sightings(rows \cup t) = Sightings(rows) + Sightings(t)
      BY <1>3 DEF o
    <2>7. Sightings(t) \in Int /\ o.count \in Int
      BY <2>1, <2>2, SightingsType DEF Rosters, Observation
    <2> HIDE DEF t
    <2>8. Sightings(rows \cup s) = Sightings(rows) + Sightings(s)
      BY <1>1, <2>4, <2>5, <2>6, <2>7
    <2> QED BY <2>8
  <1>4. SUBSET more \subseteq B
    <2> HIDE DEF B
    <2> QED BY <1>2, <1>3, PickedInduction
  <1> QED BY <1>4

-----------------------------------------------------------------------------
(* Folding the roster.                                                     *)

\* A finite set of times has a first and a last.
LEMMA FirstAndLast ==
    ASSUME NEW S \in SUBSET Int, IsFiniteSet(S), S # {}
    PROVE  /\ Min(S) \in S /\ \A y \in S : Min(S) <= y
           /\ Max(S) \in S /\ \A y \in S : y <= Max(S)
  <1> DEFINE R == {p \in S \X S : p[1] < p[2]}
             L == {p \in S \X S : p[2] < p[1]}
  <1>1. \A x, y \in S : (<<x, y>> \in R <=> x < y) /\ (<<x, y>> \in L <=> y < x)
    OBVIOUS
  <1> HIDE DEF R, L
  <1>2. Orders(R, S) /\ Orders(L, S) /\ S \in SUBSET S
    BY <1>1 DEF Orders
  <1>3. PICK m \in S : \A q \in S : <<q, m>> \notin R
    BY <1>2, FirstOne
  <1>4. PICK n \in S : \A q \in S : <<q, n>> \notin L
    BY <1>2, FirstOne
  <1>5. (\A y \in S : m <= y) /\ (\A y \in S : n >= y)
    <2>1. \A y \in S : ~(y < m) /\ ~(n < y)
      BY <1>1, <1>3, <1>4
    <2>2. m \in Int /\ n \in Int /\ \A y \in S : y \in Int
      OBVIOUS
    <2> QED BY <2>1, <2>2
  <1>6. Min(S) \in S /\ \A y \in S : Min(S) <= y
    BY <1>5 DEF Min
  <1>7. Max(S) \in S /\ \A y \in S : Max(S) >= y
    BY <1>5 DEF Max
  <1> QED BY <1>6, <1>7

RowsOf(rows, who) == {o \in rows : o.who = who}

\* What Fold puts in the place of the rows of one participant.
Folded(rows, who) ==
    IF Cardinality(RowsOf(rows, who)) = 1
    THEN CHOOSE o \in RowsOf(rows, who) : TRUE
    ELSE [who |-> who, id |-> Null,
          first |-> Min({o.first : o \in RowsOf(rows, who)}),
          last |-> Max({o.last : o \in RowsOf(rows, who)}),
          count |-> Sightings(RowsOf(rows, who))]

LEMMA FoldIs ==
    ASSUME NEW rows
    PROVE  Fold(rows) = {Folded(rows, who) : who \in {o.who : o \in rows}}
  BY DEF Fold, Folded, RowsOf

LEMMA FoldedIs ==
    ASSUME NEW rows \in Rosters, IsFiniteSet(rows), \A o \in rows : IsObservation(o),
           NEW who \in {o.who : o \in rows}
    PROVE  /\ Folded(rows, who) \in Observation
           /\ Folded(rows, who).who = who
           /\ IsObservation(Folded(rows, who))
           /\ Folded(rows, who).count = Sightings(RowsOf(rows, who))
  <1> DEFINE Own == RowsOf(rows, who)
  <1>1. Own \in Rosters /\ IsFiniteSet(Own) /\ Own # {} /\ \A o \in Own : o.who = who
    <2>1. Own \in SUBSET rows /\ Own # {}
      BY DEF RowsOf
    <2> QED BY <2>1, FS_Subset DEF RowsOf, Rosters
  <1>2. \A o \in Own : IsObservation(o)
    BY DEF RowsOf
  <1> HIDE DEF Own
  <1>3. CASE Cardinality(Own) = 1
    <2>1. PICK o \in Own : Own = {o}
      BY <1>1, <1>3, FS_Singleton
    <2>2. Folded(rows, who) = o
      BY <1>3, <2>1 DEF Folded, Own
    <2>3. Sightings(Own) = Sightings(Own \ {o}) + o.count /\ Own \ {o} = {}
      BY <1>1, <2>1, OneMoreSighting
    <2>4. Sightings(Own) = o.count
      <3>1. o.count \in Int
        BY <1>1, <2>1 DEF Rosters, Observation
      <3>2. Sightings(Own \ {o}) = 0
        BY <2>3, SightingsOfNone
      <3> QED BY <2>3, <3>1, <3>2
    <2> QED BY <1>1, <1>2, <2>2, <2>4 DEF Rosters, Own
  <1>4. CASE Cardinality(Own) # 1
    <2> DEFINE firsts == {o.first : o \in Own}
               lasts == {o.last : o \in Own}
    <2>1. PICK q \in Own : TRUE
      BY <1>1
    <2>2. Folded(rows, who) = [who |-> who, id |-> Null, first |-> Min(firsts),
                               last |-> Max(lasts), count |-> Sightings(Own)]
      BY <1>4 DEF Folded, Own
    <2>3. IsFiniteSet(firsts) /\ IsFiniteSet(lasts)
      <3>1. [o \in Own |-> o.first] \in Surjection(Own, firsts)
        BY DEF Surjection
      <3>2. [o \in Own |-> o.last] \in Surjection(Own, lasts)
        BY DEF Surjection
      <3> HIDE DEF firsts, lasts
      <3> QED BY <1>1, <3>1, <3>2, FS_Surjection
    <2>4. firsts \in SUBSET Int /\ lasts \in SUBSET Int /\ firsts # {} /\ lasts # {}
      BY <1>1 DEF Rosters, Observation
    <2>5. Min(firsts) \in Int /\ Max(lasts) \in Int
      BY <2>3, <2>4, FirstAndLast
    <2>6. Min(firsts) <= Max(lasts)
      <3>1. \A y \in firsts : Min(firsts) <= y
        BY <2>3, <2>4, FirstAndLast
      <3>2. \A y \in lasts : y <= Max(lasts)
        BY <2>3, <2>4, FirstAndLast
      <3>3. Min(firsts) <= q.first /\ q.first <= q.last /\ q.last <= Max(lasts)
        BY <1>2, <2>1, <3>1, <3>2 DEF IsObservation
      <3> QED BY <1>1, <2>1, <2>5, <3>3 DEF Rosters, Observation
    <2>7. Sightings(Own) \in Int /\ Sightings(Own) >= 1
      BY <1>1, <1>2, <2>1, OneMoreSighting DEF IsObservation
    <2>8. who \in Int
      BY <1>1, <2>1 DEF Rosters, Observation
    <2> HIDE DEF firsts, lasts
    <2> QED BY <2>2, <2>5, <2>6, <2>7, <2>8 DEF Observation, IsObservation, Null, Own
  <1> QED BY <1>3, <1>4

LEMMA ImageIsFinite ==
    ASSUME NEW S, IsFiniteSet(S), NEW T, NEW f \in [S -> T]
    PROVE  IsFiniteSet({f[x] : x \in S})
  <1> DEFINE U == {f[x] : x \in S}
  <1>1. f \in Surjection(S, U)
    BY DEF Surjection
  <1> HIDE DEF U
  <1> QED BY <1>1, FS_Surjection DEF U

\* Folding keeps the roster sound and forgets no announcement.
LEMMA FoldKeeps ==
    ASSUME NEW rows \in Rosters, IsFiniteSet(rows), \A o \in rows : IsObservation(o)
    PROVE  /\ Fold(rows) \in Rosters
           /\ IsFiniteSet(Fold(rows))
           /\ \A o \in Fold(rows) : IsObservation(o)
           /\ Sightings(Fold(rows)) = Sightings(rows)
  <1> DEFINE whos == {o.who : o \in rows}
             FoldOf(W) == {Folded(rows, w) : w \in W}
             Those(W) == {o \in rows : o.who \in W}
             B == {W \in SUBSET whos : Sightings(FoldOf(W)) = Sightings(Those(W))}
  <1>1. IsFiniteSet(whos)
    <2> DEFINE f == [o \in rows |-> o.who]
    <2>1. f \in [rows -> Int] /\ whos = {f[o] : o \in rows}
      BY DEF Rosters, Observation
    <2> HIDE DEF f, whos
    <2> QED BY <2>1, ImageIsFinite
  <1>2. \A w \in whos : /\ Folded(rows, w) \in Observation
                        /\ Folded(rows, w).who = w
                        /\ IsObservation(Folded(rows, w))
                        /\ Folded(rows, w).count = Sightings(RowsOf(rows, w))
    BY FoldedIs
  <1>3. \A W \in SUBSET whos :
          /\ FoldOf(W) \in Rosters /\ IsFiniteSet(FoldOf(W))
          /\ Those(W) \in Rosters /\ IsFiniteSet(Those(W))
    <2> TAKE W \in SUBSET whos
    <2> DEFINE f == [w \in W |-> Folded(rows, w)]
    <2> HIDE DEF whos
    <2>1. f \in [W -> Observation] /\ FoldOf(W) = {f[w] : w \in W}
      BY <1>2
    <2>2. IsFiniteSet(W)
      BY <1>1, FS_Subset
    <2> HIDE DEF f
    <2>3. IsFiniteSet({f[w] : w \in W})
      BY <2>1, <2>2, ImageIsFinite
    <2>4. Those(W) \in SUBSET rows
      OBVIOUS
    <2> QED BY <1>2, <2>1, <2>3, <2>4, FS_Subset DEF Rosters
  <1>4. {} \in B
    <2>1. FoldOf({}) = {} /\ Those({}) = {}
      OBVIOUS
    <2> QED BY <2>1
  <1>5. ASSUME NEW W \in SUBSET whos, W # {}, W \ {Picked(W)} \in B PROVE W \in B
    <2> DEFINE w == Picked(W)
               V == W \ {w}
    <2>1. w \in W /\ w \in whos /\ V \in SUBSET whos
      BY <1>5 DEF Picked
    <2>2. Sightings(FoldOf(V)) = Sightings(Those(V))
      BY <1>5
    <2> HIDE DEF w, whos, B
    <2>3. Folded(rows, w) \in FoldOf(W)
      BY <2>1
    <2>4. FoldOf(W) \ {Folded(rows, w)} = FoldOf(V)
      BY <1>2, <2>1
    <2>5. Sightings(FoldOf(W)) = Sightings(FoldOf(V)) + Sightings(RowsOf(rows, w))
      <3> HIDE DEF FoldOf, V
      <3> QED BY <1>2, <1>3, <2>1, <2>3, <2>4, OneMoreSighting
    <2>6. Those(W) = Those(V) \cup RowsOf(rows, w) /\ Those(V) \cap RowsOf(rows, w) = {}
      BY <2>1 DEF RowsOf
    <2>7. RowsOf(rows, w) \in Rosters /\ IsFiniteSet(RowsOf(rows, w))
      <3>1. RowsOf(rows, w) \in SUBSET rows
        BY DEF RowsOf
      <3> QED BY <3>1, FS_Subset DEF Rosters
    <2>8. Sightings(Those(W)) = Sightings(Those(V)) + Sightings(RowsOf(rows, w))
      <3> HIDE DEF Those, V
      <3> QED BY <1>3, <2>1, <2>6, <2>7, SightingsAdd
    <2>9. Sightings(FoldOf(W)) = Sightings(Those(W))
      BY <2>2, <2>5, <2>8
    <2> QED BY <2>9 DEF B
  <1>6. SUBSET whos \subseteq B
    <2> HIDE DEF B, whos
    <2> QED BY <1>1, <1>4, <1>5, PickedInduction
  <1>7. FoldOf(whos) = Fold(rows) /\ Those(whos) = rows /\ whos \in SUBSET whos
    BY FoldIs
  <1>8. \A o \in FoldOf(whos) : IsObservation(o)
    BY <1>2
  <1>9. Sightings(FoldOf(whos)) = Sightings(Those(whos))
    <2>1. whos \in B
      BY <1>6, <1>7
    <2> QED BY <2>1
  <1> HIDE DEF FoldOf, Those, whos, B
  <1> QED BY <1>3, <1>7, <1>8, <1>9

-----------------------------------------------------------------------------
(* Taking in the rows of a page.                                           *)

OffersSound(offers) ==
    /\ offers \in SUBSET Offer
    /\ IsFiniteSet(offers)
    /\ \A o \in offers : IsStoredOffer(o) /\ IsFiniteSet(o.sources)
    /\ \A o, p \in offers : o.hash = p.hash => o = p

\* What may become of a row: its terms stay, and its settlement if it has one,
\* and it was last observed no earlier.
Follows(o, n) ==
    /\ n.hash = o.hash
    /\ n.terms = o.terms
    /\ Settled(o) => n.state = o.state /\ n.by = o.by
    /\ o.last \in Int /\ n.last \in Int /\ o.last <= n.last

CarriedOn(offers, later) == \A o \in offers : \E n \in later : Follows(o, n)

LEMMA CarriedOnTrans ==
    ASSUME NEW first, NEW second, NEW third, CarriedOn(first, second), CarriedOn(second, third)
    PROVE  CarriedOn(first, third)
  BY DEF CarriedOn, Follows, Settled

\* A row of the wire, as a page that is not refused has it.
Welcome(o) == o \in Arriving /\ IsOffer(o)

LEMMA WelcomeIsStored ==
    ASSUME NEW o, Welcome(o)
    PROVE  o \in Offer /\ IsStoredOffer(o) /\ IsFiniteSet(o.sources)
  <1>1. PICK s \in o.sources : o.sources = {s}
    BY DEF Welcome, Arriving
  <1>2. IsFiniteSet(o.sources) /\ Cardinality(o.sources) = 1
    BY <1>1, FS_Singleton
  <1>3. 1 \in 1..MaxSources
    BY RetentionAssumption
  <1> QED BY <1>2, <1>3 DEF Welcome, Arriving, IsStoredOffer

LEMMA LaterOf ==
    ASSUME NEW a \in Int, NEW b \in Int
    PROVE  /\ Max({a, b}) \in {a, b}
           /\ a <= Max({a, b}) /\ b <= Max({a, b})
  <1>1. IsFiniteSet({a}) /\ IsFiniteSet({b}) /\ {a, b} = {a} \cup {b}
    BY FS_Singleton
  <1>2. IsFiniteSet({a, b})
    BY <1>1, FS_Union
  <1>3. {a, b} \in SUBSET Int /\ {a, b} # {}
    OBVIOUS
  <1> QED BY <1>2, <1>3, FirstAndLast

LEMMA MergedIs ==
    ASSUME NEW p \in Offer, IsStoredOffer(p), IsFiniteSet(p.sources),
           NEW o, Welcome(o), o.hash = p.hash, ~Contradicts(p, o),
           ~(Cardinality(Merged(p, o).sources) > MaxSources)
    PROVE  /\ Merged(p, o) \in Offer
           /\ IsStoredOffer(Merged(p, o))
           /\ IsFiniteSet(Merged(p, o).sources)
           /\ Follows(p, Merged(p, o))
  <1> DEFINE base == Lifecycle(p, o)
             m == Merged(p, o)
  <1>1. o \in Offer /\ IsOffer(o) /\ IsOffer(p) /\ IsFiniteSet(o.sources)
    BY WelcomeIsStored DEF Welcome, IsStoredOffer
  <1>2. base \in Offer
    BY <1>1 DEF Lifecycle
  <1>3. /\ base.hash = p.hash /\ base.terms = p.terms
        /\ Settled(p) => base.state = p.state /\ base.by = p.by
        /\ base = p \/ (base = o /\ Settled(o) /\ ~Settled(p))
    BY DEF Lifecycle, Contradicts
  <1> HIDE DEF base
  <1>4. /\ Max({p.settledAt, o.settledAt}) \in Nat
        /\ p.settledAt <= Max({p.settledAt, o.settledAt})
        /\ o.settledAt <= Max({p.settledAt, o.settledAt})
        /\ Max({p.settledAt, o.settledAt}) \in {p.settledAt, o.settledAt}
        /\ Max({p.last, o.last}) \in Int /\ p.last \in Int
        /\ p.last <= Max({p.last, o.last})
    <2>1. p.settledAt \in Nat /\ o.settledAt \in Nat /\ p.last \in Int /\ o.last \in Int
      BY <1>1 DEF Offer
    <2>2. /\ Max({p.settledAt, o.settledAt}) \in {p.settledAt, o.settledAt}
          /\ p.settledAt <= Max({p.settledAt, o.settledAt})
          /\ o.settledAt <= Max({p.settledAt, o.settledAt})
      <3> DEFINE a == p.settledAt
                 b == o.settledAt
      <3>1. a \in Int /\ b \in Int
        BY <2>1
      <3> HIDE DEF a, b
      <3>2. Max({a, b}) \in {a, b} /\ a <= Max({a, b}) /\ b <= Max({a, b})
        BY <3>1, LaterOf
      <3> QED BY <3>2 DEF a, b
    <2>3. Max({p.last, o.last}) \in {p.last, o.last} /\ p.last <= Max({p.last, o.last})
      <3> DEFINE a == p.last
                 b == o.last
      <3>1. a \in Int /\ b \in Int
        BY <2>1
      <3> HIDE DEF a, b
      <3>2. Max({a, b}) \in {a, b} /\ a <= Max({a, b})
        BY <3>1, LaterOf
      <3> QED BY <3>2 DEF a, b
    <2> QED BY <2>1, <2>2, <2>3
  <1>5. m = [base EXCEPT !.sources = p.sources \cup o.sources,
                         !.settledAt = Max({p.settledAt, o.settledAt}),
                         !.last = Max({p.last, o.last})]
    BY DEF Merged, base
  <1>6. /\ m \in Offer
        /\ m.hash = base.hash /\ m.terms = base.terms /\ m.state = base.state /\ m.by = base.by
        /\ m.sources = p.sources \cup o.sources
        /\ m.settledAt = Max({p.settledAt, o.settledAt})
        /\ m.last = Max({p.last, o.last})
    BY <1>1, <1>2, <1>4, <1>5 DEF Offer
  <1> HIDE DEF m
  <1>7. Follows(p, m)
    BY <1>3, <1>4, <1>6 DEF Follows
  <1>8. IsFiniteSet(m.sources) /\ Cardinality(m.sources) \in 1..MaxSources
    <2>1. IsFiniteSet(m.sources)
      BY <1>1, <1>6, FS_Union
    <2>2. m.sources # {}
      <3>1. PICK s \in o.sources : TRUE
        BY DEF Welcome, Arriving
      <3> QED BY <1>6, <3>1
    <2>3. Cardinality(m.sources) \in Nat /\ Cardinality(m.sources) # 0
      BY <2>1, <2>2, FS_CardinalityType, FS_EmptySet
    <2> QED BY <2>1, <2>3, RetentionAssumption DEF m
  <1>9. IsOffer(m)
    <2>1. CASE base = p /\ ~Settled(p) /\ ~Settled(o)
      BY <1>1, <1>4, <1>6, <2>1 DEF IsOffer, Settled, Null
    <2>2. CASE base = p /\ Settled(p)
      <3>1. /\ p.settledAt \in Nat /\ p.settledAt # 0 /\ p.by # Null
            /\ p.state \in {"accepted", "cancelled"}
        BY <1>1, <2>2 DEF IsOffer, Settled, Null, Offer
      <3>2. m.settledAt # 0
        BY <1>4, <1>6, <3>1
      <3> QED BY <1>6, <2>2, <3>1, <3>2 DEF IsOffer, Null
    <2>3. CASE base = o /\ Settled(o)
      <3>1. /\ o.settledAt \in Nat /\ o.settledAt # 0 /\ o.by # Null
            /\ o.state \in {"accepted", "cancelled"}
        BY <1>1, <2>3 DEF IsOffer, Settled, Null, Offer
      <3>2. m.settledAt # 0
        BY <1>4, <1>6, <3>1
      <3> QED BY <1>6, <2>3, <3>1, <3>2 DEF IsOffer, Null
    <2>4. base = p /\ ~Settled(p) /\ Settled(o) => FALSE
      BY DEF base, Lifecycle, Settled
    <2> QED BY <1>3, <2>1, <2>2, <2>3, <2>4
  <1> QED BY <1>6, <1>7, <1>8, <1>9 DEF IsStoredOffer, m

LEMMA ReconcileKeeps ==
    ASSUME NEW offers, OffersSound(offers), NEW o, Welcome(o)
    PROVE  /\ OffersSound(Reconcile(offers, o).offers)
           /\ Reconcile(offers, o).reasons \in Seq(Reasons)
           /\ CarriedOn(offers, Reconcile(offers, o).offers)
  <1> DEFINE known == {p \in offers : p.hash = o.hash}
             r == Reconcile(offers, o)
  <1>1. CarriedOn(offers, offers)
    BY DEF CarriedOn, Follows, OffersSound, Offer
  <1>2. CASE known = {}
    <2>1. r = [offers |-> offers \cup {o}, reasons |-> <<>>]
      BY <1>2 DEF Reconcile
    <2>2. o \in Offer /\ IsStoredOffer(o) /\ IsFiniteSet(o.sources)
      BY WelcomeIsStored
    <2>3. IsFiniteSet(offers \cup {o})
      BY FS_AddElement DEF OffersSound
    <2>4. OffersSound(offers \cup {o})
      BY <1>2, <2>2, <2>3 DEF OffersSound
    <2>5. CarriedOn(offers, offers \cup {o})
      BY DEF CarriedOn, Follows, OffersSound, Offer
    <2> HIDE DEF r
    <2> QED BY <2>1, <2>4, <2>5 DEF r
  <1>3. CASE known # {}
    <2> DEFINE p == CHOOSE q \in known : TRUE
               m == Merged(p, o)
    <2>1. p \in known
      BY <1>3
    <2>2. p \in offers /\ p.hash = o.hash /\ known = {p}
      BY <2>1 DEF OffersSound
    <2>3. \/ r = [offers |-> offers, reasons |-> <<"immutable-conflict">>]
          \/ r = [offers |-> offers, reasons |-> <<"provenance-overflow">>]
          \/ /\ ~Contradicts(p, o) /\ ~(Cardinality(m.sources) > MaxSources)
             /\ r = [offers |-> (offers \ known) \cup {m}, reasons |-> <<>>]
      BY <1>3 DEF Reconcile
    <2> HIDE DEF p, m, r, known
    <2>4. CASE /\ r.offers = offers
               /\ r.reasons \in {<<"immutable-conflict">>, <<"provenance-overflow">>}
      <3>1. <<"immutable-conflict">> \in Seq(Reasons) /\ <<"provenance-overflow">> \in Seq(Reasons)
        BY DEF Reasons
      <3> QED BY <1>1, <2>4, <3>1 DEF r
    <2>5. CASE /\ ~Contradicts(p, o) /\ ~(Cardinality(m.sources) > MaxSources)
               /\ r = [offers |-> (offers \ known) \cup {m}, reasons |-> <<>>]
      <3> DEFINE after == (offers \ {p}) \cup {m}
      <3>1. /\ m \in Offer /\ IsStoredOffer(m) /\ IsFiniteSet(m.sources) /\ Follows(p, m)
        BY <2>2, <2>5, MergedIs DEF OffersSound, m
      <3>2. IsFiniteSet(after)
        BY FS_Subset, FS_AddElement DEF OffersSound
      <3>3. \A q \in offers \ {p} : q.hash # m.hash
        BY <2>2, <3>1 DEF OffersSound, Follows
      <3>4. OffersSound(after)
        BY <3>1, <3>2, <3>3 DEF OffersSound
      <3>5. CarriedOn(offers, after)
        BY <1>1, <3>1 DEF CarriedOn, Follows
      <3> HIDE DEF after
      <3>6. r.offers = after /\ r.reasons = <<>>
        BY <2>2, <2>5 DEF after
      <3> QED BY <3>4, <3>5, <3>6 DEF r
    <2> QED BY <2>3, <2>4, <2>5
  <1> QED BY <1>2, <1>3

\* What taking rows in may have come to.
Takings(offers) ==
    {v \in [offers : SUBSET Offer, reasons : Seq(Reasons)] :
        OffersSound(v.offers) /\ CarriedOn(offers, v.offers)}

\* One more row.
Further(v, o) ==
    [offers |-> Reconcile(v.offers, o).offers,
     reasons |-> v.reasons \o Reconcile(v.offers, o).reasons]

LEMMA FurtherIs ==
    ASSUME NEW offers, NEW v \in Takings(offers), NEW o, Welcome(o)
    PROVE  Further(v, o) \in Takings(offers)
  <1>1. OffersSound(v.offers) /\ CarriedOn(offers, v.offers) /\ v.reasons \in Seq(Reasons)
    BY DEF Takings
  <1> DEFINE r == Reconcile(v.offers, o)
  <1>2. OffersSound(r.offers) /\ r.reasons \in Seq(Reasons) /\ CarriedOn(v.offers, r.offers)
    BY <1>1, ReconcileKeeps
  <1> HIDE DEF r
  <1>3. CarriedOn(offers, r.offers)
    BY <1>1, <1>2, CarriedOnTrans
  <1>4. v.reasons \o r.reasons \in Seq(Reasons)
    BY <1>1, <1>2, ConcatProperties
  <1>5. r.offers \in SUBSET Offer
    BY <1>2 DEF OffersSound
  <1>6. [offers |-> r.offers, reasons |-> v.reasons \o r.reasons] \in Takings(offers)
    BY <1>2, <1>3, <1>4, <1>5 DEF Takings
  <1> QED BY <1>6 DEF Further, r

LEMMA NothingTaken ==
    ASSUME NEW offers, OffersSound(offers)
    PROVE  [offers |-> offers, reasons |-> <<>>] \in Takings(offers)
  <1>1. <<>> \in Seq(Reasons)
    BY EmptySeq
  <1> QED BY <1>1 DEF Takings, OffersSound, CarriedOn, Follows, Offer

LEMMA TakeInKeeps ==
    ASSUME NEW offers, OffersSound(offers), NEW rows \in Seq(Arriving),
           \A i \in DOMAIN rows : IsOffer(rows[i])
    PROVE  TakeIn(offers, rows) \in Takings(offers)
  <1> DEFINE First == [offers |-> offers, reasons |-> <<>>]
             Fn(f, i) == IF i = 0 THEN First ELSE Further(f[i - 1], rows[i])
             T == Takings(offers)
             Long(n) == \E f \in [0..n -> T] : f = [i \in 0..n |-> Fn(f, i)]
             Short == {n \in 0..Len(rows) : ~Long(n)}
  <1>0. Len(rows) \in Nat /\ \A i \in 1..Len(rows) : Welcome(rows[i])
    <2>1. DOMAIN rows = 1..Len(rows) /\ Len(rows) \in Nat
      OBVIOUS
    <2> QED BY <2>1 DEF Welcome
  <1>9. First \in T
    BY NothingTaken
  <1>10. \A v \in T : \A i \in 1..Len(rows) : Further(v, rows[i]) \in T
    BY <1>0, FurtherIs
  <1> HIDE DEF T, First
  <1>1. Long(0)
    <2> DEFINE f == [i \in 0..0 |-> First]
    <2>1. f \in [0..0 -> T] /\ f = [i \in 0..0 |-> Fn(f, i)]
      BY <1>9
    <2> QED BY <2>1
  <1>2. ASSUME NEW n \in 1..Len(rows), Long(n - 1) PROVE Long(n)
    <2>1. PICK f \in [0..n - 1 -> T] : f = [i \in 0..n - 1 |-> Fn(f, i)]
      BY <1>2
    <2>2. Fn(f, n) \in T
      <3>1. f[n - 1] \in T
        BY <1>0, <2>1
      <3> QED BY <1>9, <1>10, <3>1
    <2> DEFINE g == [i \in 0..n |-> IF i = n THEN Fn(f, n) ELSE f[i]]
    <2>3. g \in [0..n -> T]
      <3> HIDE DEF Fn
      <3> QED BY <2>1, <2>2
    <2>4. \A i \in 1..n : g[i - 1] = f[i - 1]
      <3> HIDE DEF Fn
      <3> QED BY <2>1
    <2>5. \A i \in 0..n : Fn(g, i) = Fn(f, i)
      BY <2>4
    <2>6. \A i \in 0..n : g[i] = Fn(g, i)
      <3>1. \A i \in 0..n - 1 : f[i] = Fn(f, i)
        BY <2>1
      <3> TAKE i \in 0..n
      <3>2. CASE i = n
        <4> HIDE DEF Fn
        <4> QED BY <2>5, <3>2
      <3>3. CASE i # n
        <4>1. i \in 0..n - 1
          BY <3>3
        <4> HIDE DEF Fn
        <4> QED BY <2>5, <3>1, <3>3, <4>1
      <3> QED BY <3>2, <3>3
    <2>7. g = [i \in 0..n |-> Fn(g, i)]
      <3> HIDE DEF Fn
      <3> QED BY <2>3, <2>6
    <2> HIDE DEF g
    <2> QED BY <2>3, <2>7
  <1> HIDE DEF Fn, Long
  <1>3. Long(Len(rows))
    <2> SUFFICES ASSUME Short # {} PROVE FALSE
      BY <1>0
    <2>1. Short \in SUBSET Nat
      BY <1>0
    <2>2. PICK n \in Short : \A m \in Short : n <= m
      BY <2>1, LeastNumber
    <2>3. n \in 1..Len(rows) /\ n - 1 \in 0..Len(rows) /\ n - 1 \notin Short
      BY <1>0, <1>1, <2>2
    <2> QED BY <1>2, <2>2, <2>3
  <1> DEFINE g == CHOOSE f : f = [i \in 0..Len(rows) |-> Fn(f, i)]
  <1>4. g = [i \in 0..Len(rows) |-> Fn(g, i)]
    BY <1>3 DEF Long
  <1>5. TakeIn(offers, rows) = g[Len(rows)]
    BY DEF TakeIn, Fn, First, Further
  <1> HIDE DEF g
  <1> DEFINE Bad == {n \in 0..Len(rows) : g[n] \notin T}
  <1>6. Bad = {}
    <2> SUFFICES ASSUME Bad # {} PROVE FALSE
      OBVIOUS
    <2>1. Bad \in SUBSET Nat
      BY <1>0
    <2>2. PICK n \in Bad : \A m \in Bad : n <= m
      BY <2>1, LeastNumber
    <2>3. g[n] = Fn(g, n)
      BY <1>4, <2>2
    <2>4. n # 0
      BY <1>9, <2>2, <2>3 DEF Fn
    <2>5. n - 1 \in 0..Len(rows) /\ g[n - 1] \in T /\ n \in 1..Len(rows)
      BY <1>0, <2>2, <2>4
    <2>6. Further(g[n - 1], rows[n]) \in T
      BY <1>10, <2>5
    <2> QED BY <2>2, <2>3, <2>4, <2>6 DEF Fn
  <1> QED BY <1>0, <1>5, <1>6 DEF T

-----------------------------------------------------------------------------
(* What a job makes of an envelope, before it is compacted.                *)

RosterSound(rows) ==
    /\ rows \in Rosters
    /\ IsFiniteSet(rows)
    /\ \A o \in rows : IsObservation(o)

CheckpointsSound(marks) ==
    /\ marks \in SUBSET Watermark
    /\ IsFiniteSet(marks)
    /\ \A c \in marks : IsCheckpoint(c)
    /\ \A c, d \in marks : c.key = d.key => c = d

TablesSound(env) ==
    /\ env \in Envelope
    /\ OffersSound(env.offers)
    /\ RosterSound(env.observations)
    /\ CheckpointsSound(env.checkpoints)

EnvelopeSound(env) == TablesSound(env) /\ RevisionsInOrder(env) /\ WithinRetention(env)

LEMMA SoundOpens ==
    ASSUME NEW env, EnvelopeSound(env)
    PROVE  Opens(env)
  BY DEF EnvelopeSound, TablesSound, OffersSound, RosterSound, CheckpointsSound, Opens

LEMMA EmptyIsSound ==
    ASSUME NEW key \in Nat
    PROVE  EnvelopeSound(EmptyEnvelope(key))
  <1> DEFINE e == EmptyEnvelope(key)
  <1>1. /\ e.revision = 0 /\ e.catalogRevision = 0 /\ e.offerRevision = 0
        /\ e.observations = {} /\ e.offers = {} /\ e.checkpoints = {} /\ e.quarantine = <<>>
    BY DEF EmptyEnvelope
  <1>2. <<>> \in Seq(Reasons)
    BY EmptySeq
  <1>3. e \in Envelope
    BY <1>2 DEF EmptyEnvelope, Envelope
  <1>4. IsFiniteSet({}) /\ Cardinality({}) = 0
    BY FS_EmptySet
  <1> HIDE DEF e
  <1>5. TablesSound(e)
    BY <1>1, <1>3, <1>4 DEF TablesSound, OffersSound, RosterSound, Rosters, CheckpointsSound
  <1>6. RevisionsInOrder(e) /\ WithinRetention(e)
    BY <1>1, <1>4, RetentionAssumption DEF RevisionsInOrder, WithinRetention
  <1> QED BY <1>5, <1>6 DEF EnvelopeSound, e

\* No watermark of the one set is behind one of the other.
Forward(marks, later) ==
    \A c \in marks, d \in later : c.key = d.key => d = c \/ Newer(d, c)

LEMMA WatermarksKeep ==
    ASSUME NEW marks, CheckpointsSound(marks), NEW c \in Watermark, IsCheckpoint(c)
    PROVE  CheckpointsSound(Watermarks(marks, c)) /\ Forward(marks, Watermarks(marks, c))
  <1> DEFINE prior == {p \in marks : p.key = c.key}
  <1>1. CASE \E p \in prior : ~Newer(c, p)
    <2>1. Watermarks(marks, c) = marks
      BY <1>1 DEF Watermarks
    <2> QED BY <2>1 DEF CheckpointsSound, Forward
  <1>2. CASE \A p \in prior : Newer(c, p)
    <2> DEFINE after == (marks \ prior) \cup {c}
    <2>1. Watermarks(marks, c) = after
      BY <1>2 DEF Watermarks
    <2>2. IsFiniteSet(marks \ prior)
      BY FS_Subset DEF CheckpointsSound
    <2>3. IsFiniteSet(after)
      BY <2>2, FS_AddElement
    <2>4. CheckpointsSound(after)
      BY <2>3 DEF CheckpointsSound
    <2>5. Forward(marks, after)
      BY <1>2 DEF CheckpointsSound, Forward
    <2> HIDE DEF after
    <2> QED BY <2>1, <2>4, <2>5
  <1> QED BY <1>1, <1>2

IsNew(env, job) == job.kind = "announce" /\ ~Replayed(env, job)

FactsOf(offers) == {Facts(o) : o \in offers}

\* How a job may change an envelope.
Develops(env, job, c) ==
    /\ TablesSound(c)
    /\ c.revision = env.revision /\ c.cursorKey = env.cursorKey /\ c.dropped = env.dropped
    /\ c.catalogRevision \in {env.catalogRevision, env.catalogRevision + 1}
    /\ c.offerRevision \in {env.offerRevision, env.offerRevision + 1}
    /\ CarriedOn(env.offers, c.offers)
    /\ Forward(env.checkpoints, c.checkpoints)
    /\ c.catalogRevision = env.catalogRevision => c.observations = env.observations
    /\ c.offerRevision = env.offerRevision => FactsOf(c.offers) = FactsOf(env.offers)
    /\ Sightings(c.observations) =
         Sightings(env.observations) + (IF IsNew(env, job) THEN 1 ELSE 0)

LEMMA SameTables ==
    ASSUME NEW env, EnvelopeSound(env)
    PROVE  /\ CarriedOn(env.offers, env.offers)
           /\ Forward(env.checkpoints, env.checkpoints)
           /\ Sightings(env.observations) \in Int
           /\ env.catalogRevision \in Nat /\ env.offerRevision \in Nat
  BY SightingsType
     DEF EnvelopeSound, TablesSound, RosterSound, CheckpointsSound, CarriedOn, Follows, Forward,
         Envelope, OffersSound, Offer

LEMMA MaterializedDevelops ==
    ASSUME NEW env, EnvelopeSound(env), NEW job \in Job, WellFormed(job),
           job.kind = "materialize"
    PROVE  Develops(env, job, Materialized(env, job))
  <1> DEFINE taken == TakeIn(env.offers, job.offers)
             c == Materialized(env, job)
             marks == Watermarks(env.checkpoints, job.checkpoint)
             rejects == [i \in 1..job.rejected |-> "rejected"]
             new == IF {Facts(o) : o \in taken.offers} # {Facts(o) : o \in env.offers}
                    THEN env.offerRevision + 1 ELSE env.offerRevision
  <1>0. EnvelopeSound(env)
    OBVIOUS
  <1>1. job.offers \in Seq(Arriving) /\ job.rejected \in Nat /\ job.checkpoint \in Watermark
    BY DEF Job
  <1>2. IsCheckpoint(job.checkpoint) /\ \A i \in DOMAIN job.offers : IsOffer(job.offers[i])
    BY DEF WellFormed
  <1>3. taken \in Takings(env.offers)
    BY <1>1, <1>2, TakeInKeeps DEF EnvelopeSound, TablesSound
  <1>4. /\ OffersSound(taken.offers) /\ CarriedOn(env.offers, taken.offers)
        /\ taken.reasons \in Seq(Reasons)
    BY <1>3 DEF Takings
  <1>5. CheckpointsSound(marks) /\ Forward(env.checkpoints, marks)
    BY <1>1, <1>2, WatermarksKeep DEF EnvelopeSound, TablesSound
  <1>6. rejects \in Seq(Reasons)
    <2>1. \A i \in 1..job.rejected : rejects[i] \in Reasons
      BY DEF Reasons
    <2>2. rejects \in [1..job.rejected -> Reasons]
      BY DEF Reasons
    <2> HIDE DEF rejects
    <2> QED BY <1>1, <2>2, SeqDef
  <1>7. c = [env EXCEPT !.offerRevision = new, !.offers = taken.offers,
                        !.checkpoints = marks,
                        !.quarantine = env.quarantine \o taken.reasons \o rejects]
    BY DEF Materialized
  <1> HIDE DEF taken, marks, rejects, c
  <1>8. env \in Envelope /\ env.quarantine \in Seq(Reasons) /\ env.offerRevision \in Nat
    BY <1>0 DEF EnvelopeSound, TablesSound, Envelope
  <1>9. env.quarantine \o taken.reasons \o rejects \in Seq(Reasons)
    <2>1. env.quarantine \o taken.reasons \in Seq(Reasons)
      BY <1>4, <1>8, ConcatProperties
    <2> QED BY <1>6, <2>1, ConcatProperties
  <1>10. /\ new \in {env.offerRevision, env.offerRevision + 1} /\ new \in Nat
         /\ new = env.offerRevision => FactsOf(taken.offers) = FactsOf(env.offers)
    <2> DEFINE changed == {Facts(o) : o \in taken.offers} # {Facts(o) : o \in env.offers}
    <2>1. ~changed => FactsOf(taken.offers) = FactsOf(env.offers)
      BY DEF FactsOf
    <2>2. new = IF changed THEN env.offerRevision + 1 ELSE env.offerRevision
      OBVIOUS
    <2> HIDE DEF changed, new
    <2> QED BY <1>8, <2>1, <2>2
  <1> HIDE DEF new
  <1>11. taken.offers \in SUBSET Offer /\ marks \in SUBSET Watermark
    BY <1>4, <1>5 DEF OffersSound, CheckpointsSound
  <1>12. /\ c \in Envelope /\ c.offerRevision = new /\ c.offers = taken.offers
         /\ c.checkpoints = marks /\ c.revision = env.revision
         /\ c.cursorKey = env.cursorKey /\ c.dropped = env.dropped
         /\ c.catalogRevision = env.catalogRevision /\ c.observations = env.observations
    BY <1>7, <1>8, <1>9, <1>10, <1>11 DEF Envelope
  <1>13. TablesSound(c)
    BY <1>0, <1>4, <1>5, <1>12 DEF TablesSound, EnvelopeSound
  <1>14. ~IsNew(env, job)
    BY DEF IsNew
  <1>15. Sightings(env.observations) = Sightings(env.observations) + 0
    BY <1>0, SameTables
  <1>16. Develops(env, job, c)
    BY <1>4, <1>5, <1>10, <1>12, <1>13, <1>14, <1>15 DEF Develops
  <1> QED BY <1>16 DEF c

LEMMA AnnouncedDevelops ==
    ASSUME NEW env, EnvelopeSound(env), NEW job \in Job, job.kind = "announce"
    PROVE  Develops(env, job, Announced(env, job))
  <1>1. CASE Replayed(env, job)
    <2>1. Announced(env, job) = env /\ ~IsNew(env, job)
      BY <1>1 DEF Announced, IsNew
    <2>2. Sightings(env.observations) = Sightings(env.observations) + 0
      BY SameTables
    <2> QED BY <2>1, <2>2, SameTables DEF Develops, EnvelopeSound
  <1>2. CASE ~Replayed(env, job)
    <2> DEFINE o == [who |-> job.who, id |-> job.id, first |-> job.at, last |-> job.at,
                     count |-> 1]
               rows == env.observations \cup {o}
               c == Announced(env, job)
    <2>1. job.who \in Int /\ job.id \in Int \ {Null} /\ job.at \in Int
      BY DEF Job
    <2>2. o \in Observation /\ IsObservation(o) /\ o.count = 1 /\ o.id = job.id
      BY <2>1 DEF Observation, IsObservation
    <2>3. o \notin env.observations
      BY <1>2, <2>1, <2>2 DEF Replayed, SameId
    <2>4. c = [env EXCEPT !.catalogRevision = env.catalogRevision + 1, !.observations = rows]
      BY <1>2 DEF Announced
    <2>5. /\ env \in Envelope /\ RosterSound(env.observations) /\ env.catalogRevision \in Nat
      BY DEF EnvelopeSound, TablesSound, Envelope
    <2> HIDE DEF o, c
    <2>6. RosterSound(rows)
      <3>1. IsFiniteSet(rows)
        BY <2>5, FS_AddElement DEF RosterSound
      <3> QED BY <2>2, <2>5, <3>1 DEF RosterSound, Rosters
    <2>7. Sightings(rows) = Sightings(env.observations) + 1
      <3>1. rows \ {o} = env.observations /\ o \in rows
        BY <2>3
      <3> HIDE DEF rows
      <3> QED BY <2>2, <2>6, <3>1, OneMoreSighting DEF RosterSound
    <2> HIDE DEF rows
    <2>12. rows \in SUBSET Observation /\ env.catalogRevision + 1 \in Nat
      BY <2>5, <2>6 DEF RosterSound, Rosters
    <2>8. /\ c \in Envelope /\ c.catalogRevision = env.catalogRevision + 1
          /\ c.observations = rows /\ c.offers = env.offers
          /\ c.checkpoints = env.checkpoints /\ c.revision = env.revision
          /\ c.cursorKey = env.cursorKey /\ c.dropped = env.dropped
          /\ c.offerRevision = env.offerRevision
      BY <2>4, <2>5, <2>12 DEF Envelope
    <2>9. TablesSound(c)
      BY <2>6, <2>8 DEF TablesSound, EnvelopeSound
    <2>10. IsNew(env, job)
      BY <1>2 DEF IsNew
    <2>11. Develops(env, job, c)
      BY <2>5, <2>7, <2>8, <2>9, <2>10, SameTables DEF Develops
    <2> QED BY <2>11 DEF c
  <1> QED BY <1>1, <1>2

LEMMA ChangeDevelops ==
    ASSUME NEW env, EnvelopeSound(env), NEW job \in Job, WellFormed(job)
    PROVE  Develops(env, job, Change(env, job))
  <1>1. job.kind \in {"materialize", "announce"}
    BY DEF Job
  <1> QED BY <1>1, MaterializedDevelops, AnnouncedDevelops DEF Change

-----------------------------------------------------------------------------
(* Compaction.                                                             *)

\* What a table is left with: rows of its own, and no more than it may keep.
Trimmed(rows, gone, max) ==
    /\ gone \in SUBSET rows
    /\ Cardinality(rows \ gone) <= max
    /\ Cardinality(rows) <= max => gone = {}

LEMMA TrimmedBy ==
    ASSUME NEW rows, IsFiniteSet(rows), NEW R, Orders(R, rows), NEW max \in Nat,
           NEW gone, gone = {r \in rows : Rank(rows, R, r) < Cardinality(rows) - max}
    PROVE  Trimmed(rows, gone, max)
  <1> DEFINE K == {x \in rows : ~(Rank(rows, R, x) < Cardinality(rows) - max)}
  <1>1. rows \ gone = K /\ gone \in SUBSET rows
    OBVIOUS
  <1>2. Cardinality(K) <= max
    BY KeptBound
  <1>3. Cardinality(rows) <= max => gone = {}
    <2>1. \A r \in rows : Rank(rows, R, r) \in Nat
      BY RankGrows
    <2>2. Cardinality(rows) \in Nat
      BY FS_CardinalityType
    <2> QED BY <2>1, <2>2
  <1> QED BY <1>1, <1>2, <1>3 DEF Trimmed

LEMMA RosterTrimmed ==
    ASSUME NEW rows \in Rosters, IsFiniteSet(rows), NEW max \in Nat
    PROVE  Trimmed(rows, Evicted(rows, max, LessRecent), max)
  <1> DEFINE R == {p \in rows \X rows : LessRecent(p[1], p[2])}
  <1>1. \A x, y \in rows : <<x, y>> \in R <=> LessRecent(x, y)
    OBVIOUS
  <1> HIDE DEF R
  <1>2. \A x \in rows : x.last \in Int /\ x.who \in Int
    BY DEF Rosters, Observation
  <1>3. Orders(R, rows)
    BY <1>1, <1>2 DEF Orders, LessRecent
  <1>4. \A x \in rows : {q \in rows : LessRecent(q, x)} = Before(rows, R, x)
    BY <1>1 DEF Before
  <1>5. Evicted(rows, max, LessRecent)
          = {r \in rows : Rank(rows, R, r) < Cardinality(rows) - max}
    BY <1>4 DEF Evicted, Excess, Rank
  <1> QED BY <1>3, <1>5, TrimmedBy

LEMMA CheckpointsTrimmed ==
    ASSUME NEW rows \in SUBSET Watermark, IsFiniteSet(rows), NEW max \in Nat
    PROVE  Trimmed(rows, Evicted(rows, max, OlderCheckpoint), max)
  <1> DEFINE R == {p \in rows \X rows : OlderCheckpoint(p[1], p[2])}
  <1>1. \A x, y \in rows : <<x, y>> \in R <=> OlderCheckpoint(x, y)
    OBVIOUS
  <1> HIDE DEF R
  <1>2. \A x \in rows : x.at \in Int /\ x.key \in Int
    BY DEF Watermark
  <1>3. Orders(R, rows)
    BY <1>1, <1>2 DEF Orders, OlderCheckpoint
  <1>4. \A x \in rows : {q \in rows : OlderCheckpoint(q, x)} = Before(rows, R, x)
    BY <1>1 DEF Before
  <1>5. Evicted(rows, max, OlderCheckpoint)
          = {r \in rows : Rank(rows, R, r) < Cardinality(rows) - max}
    BY <1>4 DEF Evicted, Excess, Rank
  <1> QED BY <1>3, <1>5, TrimmedBy

LEMMA OffersTrimmed ==
    ASSUME NEW rows \in SUBSET Offer, IsFiniteSet(rows), NEW max \in Nat
    PROVE  Trimmed(rows, Evicted(rows, max, LeavesFirst), max)
  <1> DEFINE R == {p \in rows \X rows : LeavesFirst(p[1], p[2])}
  <1>1. \A x, y \in rows : <<x, y>> \in R <=> LeavesFirst(x, y)
    OBVIOUS
  <1> HIDE DEF R
  <1>2. \A x \in rows : x.last \in Int /\ x.settledAt \in Int /\ x.hash \in Int
    BY DEF Offer
  <1>3. Orders(R, rows)
    <2>1. \A x \in rows : ~LeavesFirst(x, x)
      BY <1>2 DEF LeavesFirst
    <2>2. ASSUME NEW x \in rows, NEW y \in rows, NEW z \in rows,
                 LeavesFirst(x, y), LeavesFirst(y, z)
          PROVE  LeavesFirst(x, z)
      <3>1. CASE Settled(x) = Settled(y) /\ Settled(y) = Settled(z)
        BY <1>2, <2>2, <3>1 DEF LeavesFirst
      <3>2. CASE Settled(x) # Settled(y) \/ Settled(y) # Settled(z)
        <4>1. Settled(x) \in BOOLEAN /\ Settled(y) \in BOOLEAN /\ Settled(z) \in BOOLEAN
          BY DEF Settled
        <4>2. Settled(x) # Settled(y) => Settled(x) /\ ~Settled(y)
          BY <2>2, <4>1 DEF LeavesFirst
        <4>3. Settled(y) # Settled(z) => Settled(y) /\ ~Settled(z)
          BY <2>2, <4>1 DEF LeavesFirst
        <4>4. Settled(x) /\ ~Settled(z)
          BY <3>2, <4>1, <4>2, <4>3
        <4> QED BY <4>4 DEF LeavesFirst
      <3> QED BY <3>1, <3>2
    <2> QED BY <1>1, <2>1, <2>2 DEF Orders
  <1>4. \A x \in rows : {q \in rows : LeavesFirst(q, x)} = Before(rows, R, x)
    BY <1>1 DEF Before
  <1>5. Evicted(rows, max, LeavesFirst)
          = {r \in rows : Rank(rows, R, r) < Cardinality(rows) - max}
    BY <1>4 DEF Evicted, Excess, Rank
  <1> QED BY <1>3, <1>5, TrimmedBy

\* A revision that has not moved is of the same rows.
Named(was, is, same) == is > was \/ (is = was /\ same)

\* What a commit leaves of an envelope.
Commits(env, job, e) ==
    /\ EnvelopeSound(e)
    /\ e.revision = env.revision + 1 /\ e.cursorKey = env.cursorKey
    /\ \A o \in env.offers, n \in e.offers : o.hash = n.hash => Follows(o, n)
    /\ Forward(env.checkpoints, e.checkpoints)
    /\ Named(env.catalogRevision, e.catalogRevision, e.observations = env.observations)
    /\ Named(env.offerRevision, e.offerRevision, FactsOf(e.offers) = FactsOf(env.offers))
    /\ "observations" \notin e.dropped =>
         /\ "observations" \notin env.dropped
         /\ Sightings(e.observations) =
              Sightings(env.observations) + (IF IsNew(env, job) THEN 1 ELSE 0)

LEMMA CompactCommits ==
    ASSUME NEW env, EnvelopeSound(env), NEW job, NEW c, Develops(env, job, c)
    PROVE  Commits(env, job, Compact(c, env.revision + 1))
  <1> DEFINE revision == env.revision + 1
             overfull == Cardinality(c.observations) > MaxObservations
             folded == IF overfull THEN Fold(c.observations) ELSE c.observations
             observations == Evicted(folded, MaxObservations, LessRecent)
             offers == Evicted(c.offers, MaxOffers, LeavesFirst)
             checkpoints == Evicted(c.checkpoints, MaxCheckpoints, OlderCheckpoint)
             excess == Len(c.quarantine) - MaxQuarantine
             quarantine == IF excess > 0
                           THEN SubSeq(c.quarantine, excess + 1, Len(c.quarantine))
                           ELSE c.quarantine
             catalogRevision == IF overfull THEN revision ELSE c.catalogRevision
             offerRevision == IF offers # {} THEN revision ELSE c.offerRevision
             dropped == c.dropped \cup
                (IF observations # {} THEN {"observations"} ELSE {}) \cup
                (IF offers # {} THEN {"offers"} ELSE {}) \cup
                (IF checkpoints # {} THEN {"checkpoints"} ELSE {}) \cup
                (IF excess > 0 THEN {"quarantine"} ELSE {})
             e == Compact(c, revision)
  <1>1. e = [c EXCEPT !.revision = revision, !.catalogRevision = catalogRevision,
                      !.offerRevision = offerRevision,
                      !.observations = folded \ observations,
                      !.offers = c.offers \ offers,
                      !.checkpoints = c.checkpoints \ checkpoints,
                      !.quarantine = quarantine, !.dropped = dropped]
    BY DEF Compact
  <1>2. TablesSound(c) /\ TablesSound(env)
    BY DEF Develops, EnvelopeSound
  <1>3. /\ MaxObservations \in Nat /\ MaxOffers \in Nat /\ MaxCheckpoints \in Nat
        /\ MaxQuarantine \in Nat
    BY RetentionAssumption
  <1>4. /\ folded \in Rosters /\ IsFiniteSet(folded) /\ \A o \in folded : IsObservation(o)
        /\ Sightings(folded) = Sightings(c.observations)
    BY <1>2, FoldKeeps DEF TablesSound, RosterSound
  <1>5. /\ Trimmed(folded, observations, MaxObservations)
        /\ Trimmed(c.offers, offers, MaxOffers)
        /\ Trimmed(c.checkpoints, checkpoints, MaxCheckpoints)
    BY <1>2, <1>3, <1>4, RosterTrimmed, OffersTrimmed, CheckpointsTrimmed
       DEF TablesSound, OffersSound, CheckpointsSound
  <1>6. quarantine \in Seq(Reasons) /\ Len(quarantine) <= MaxQuarantine
    <2>1. c.quarantine \in Seq(Reasons) /\ Len(c.quarantine) \in Nat
      BY <1>2 DEF TablesSound, Envelope
    <2>2. CASE excess > 0
      <3>1. excess + 1 \in 1..Len(c.quarantine) + 1
        BY <1>3, <2>1, <2>2
      <3>2. /\ SubSeq(c.quarantine, excess + 1, Len(c.quarantine)) \in Seq(Reasons)
            /\ Len(SubSeq(c.quarantine, excess + 1, Len(c.quarantine)))
                 = Len(c.quarantine) - (excess + 1) + 1
        BY <1>3, <2>1, <3>1, SubSeqProperties
      <3> QED BY <1>3, <2>1, <2>2, <3>2
    <2>3. CASE ~(excess > 0)
      BY <1>3, <2>1, <2>3
    <2> QED BY <2>2, <2>3
  <1>7. /\ env.revision \in Nat /\ env.catalogRevision \in 0..env.revision
        /\ env.offerRevision \in 0..env.revision
    BY DEF EnvelopeSound, RevisionsInOrder
  <1>8. /\ c.catalogRevision \in {env.catalogRevision, env.catalogRevision + 1}
        /\ c.offerRevision \in {env.offerRevision, env.offerRevision + 1}
        /\ c.cursorKey = env.cursorKey /\ c.dropped = env.dropped
    BY DEF Develops
  <1>9. c \in Envelope /\ c.dropped \in SUBSET Tables
    BY <1>2 DEF TablesSound, Envelope
  <1>10. dropped \in SUBSET Tables
    BY <1>9 DEF Tables
  <1>11. /\ observations # {} => "observations" \in dropped
         /\ c.dropped \subseteq dropped
    OBVIOUS
  <1>12. folded # c.observations => overfull
    OBVIOUS
  <1> HIDE DEF dropped, quarantine, folded, observations, offers, checkpoints, excess, e
  <1>13. /\ revision \in Nat /\ catalogRevision \in 0..revision
         /\ offerRevision \in 0..revision
         /\ catalogRevision \in Nat /\ offerRevision \in Nat
    BY <1>7, <1>8
  <1>14. /\ folded \ observations \in SUBSET Observation
         /\ c.offers \ offers \in SUBSET Offer
         /\ c.checkpoints \ checkpoints \in SUBSET Watermark
    BY <1>2, <1>4 DEF Rosters, TablesSound, OffersSound, CheckpointsSound
  <1>15. /\ e \in Envelope
         /\ e.revision = revision /\ e.catalogRevision = catalogRevision
         /\ e.offerRevision = offerRevision /\ e.cursorKey = c.cursorKey
         /\ e.observations = folded \ observations /\ e.offers = c.offers \ offers
         /\ e.checkpoints = c.checkpoints \ checkpoints
         /\ e.quarantine = quarantine /\ e.dropped = dropped
    <2> HIDE DEF revision, catalogRevision, offerRevision
    <2> QED BY <1>1, <1>6, <1>9, <1>10, <1>13, <1>14 DEF Envelope
  <1>16. EnvelopeSound(e)
    <2>1. OffersSound(e.offers)
      <3>1. IsFiniteSet(c.offers \ offers)
        BY <1>2, FS_Subset DEF TablesSound, OffersSound
      <3> QED BY <1>2, <1>15, <3>1 DEF TablesSound, OffersSound
    <2>2. RosterSound(e.observations)
      <3>1. IsFiniteSet(folded \ observations)
        BY <1>4, FS_Subset
      <3> QED BY <1>4, <1>15, <3>1 DEF RosterSound, Rosters
    <2>3. CheckpointsSound(e.checkpoints)
      <3>1. IsFiniteSet(c.checkpoints \ checkpoints)
        BY <1>2, FS_Subset DEF TablesSound, CheckpointsSound
      <3> QED BY <1>2, <1>15, <3>1 DEF TablesSound, CheckpointsSound
    <2>4. RevisionsInOrder(e)
      BY <1>13, <1>15 DEF RevisionsInOrder
    <2>5. WithinRetention(e)
      BY <1>5, <1>6, <1>15 DEF WithinRetention, Trimmed
    <2> QED BY <1>15, <2>1, <2>2, <2>3, <2>4, <2>5 DEF EnvelopeSound, TablesSound
  <1>17. \A o \in env.offers, n \in e.offers : o.hash = n.hash => Follows(o, n)
    <2> TAKE o \in env.offers, n \in e.offers
    <2>1. PICK m \in c.offers : Follows(o, m)
      BY DEF Develops, CarriedOn
    <2>2. n \in c.offers
      BY <1>15
    <2> QED BY <1>2, <2>1, <2>2 DEF TablesSound, OffersSound, Follows
  <1>18. Forward(env.checkpoints, e.checkpoints)
    BY <1>15 DEF Develops, Forward
  <1>19. Named(env.catalogRevision, e.catalogRevision, e.observations = env.observations)
    <2>1. CASE overfull
      BY <1>7, <1>15, <2>1 DEF Named
    <2>2. CASE ~overfull /\ c.catalogRevision = env.catalogRevision + 1
      BY <1>7, <1>15, <2>2 DEF Named
    <2>3. CASE ~overfull /\ c.catalogRevision = env.catalogRevision
      <3>1. c.observations = env.observations /\ folded = c.observations
        BY <1>12, <2>3 DEF Develops
      <3>2. Cardinality(folded) <= MaxObservations
        BY <3>1 DEF EnvelopeSound, WithinRetention
      <3>3. observations = {}
        BY <1>5, <3>2 DEF Trimmed
      <3> QED BY <1>15, <2>3, <3>1, <3>3 DEF Named
    <2> QED BY <1>8, <2>1, <2>2, <2>3
  <1>20. Named(env.offerRevision, e.offerRevision, FactsOf(e.offers) = FactsOf(env.offers))
    <2>1. CASE offers # {}
      BY <1>7, <1>15, <2>1 DEF Named
    <2>2. CASE offers = {} /\ c.offerRevision = env.offerRevision + 1
      BY <1>7, <1>15, <2>2 DEF Named
    <2>3. CASE offers = {} /\ c.offerRevision = env.offerRevision
      <3>1. e.offers = c.offers /\ FactsOf(c.offers) = FactsOf(env.offers)
        BY <1>15, <2>3 DEF Develops
      <3> QED BY <1>15, <2>3, <3>1 DEF Named
    <2> QED BY <1>8, <2>1, <2>2, <2>3
  <1>21. "observations" \notin e.dropped =>
           /\ "observations" \notin env.dropped
           /\ Sightings(e.observations) =
                Sightings(env.observations) + (IF IsNew(env, job) THEN 1 ELSE 0)
    <2> SUFFICES ASSUME "observations" \notin e.dropped
                 PROVE  /\ "observations" \notin env.dropped
                        /\ Sightings(e.observations) =
                             Sightings(env.observations) + (IF IsNew(env, job) THEN 1 ELSE 0)
      OBVIOUS
    <2>1. observations = {} /\ "observations" \notin env.dropped
      BY <1>8, <1>11, <1>15
    <2>2. e.observations = folded
      BY <1>15, <2>1
    <2> QED BY <1>4, <2>1, <2>2 DEF Develops
  <1>22. e.revision = env.revision + 1 /\ e.cursorKey = env.cursorKey
    BY <1>8, <1>15
  <1>23. Commits(env, job, e)
    BY <1>16, <1>17, <1>18, <1>19, <1>20, <1>21, <1>22 DEF Commits
  <1> QED BY <1>23 DEF e

LEMMA AfterCommits ==
    ASSUME NEW env, EnvelopeSound(env), NEW job \in Job, WellFormed(job)
    PROVE  Commits(env, job, After(env, job))
  BY ChangeDevelops, CompactCommits DEF After

-----------------------------------------------------------------------------
(* Pages.                                                                  *)

BelowIn(rows) == {p \in rows \X rows : Below(p[1].key, p[2].key)}

\* Any two rows are in the order of their keys.
InLine(rows) ==
    /\ IsFiniteSet(rows)
    /\ Orders(BelowIn(rows), rows)
    /\ \A x, y \in rows : x # y => Below(x.key, y.key) \/ Below(y.key, x.key)

LEMMA InOrderIs ==
    ASSUME NEW rows, InLine(rows), NEW T \in SUBSET rows
    PROVE  /\ Cardinality(T) \in Nat
           /\ InOrder(T) \in [1..Cardinality(T) -> T]
           /\ \A i \in 1..Cardinality(T) : Rank(T, BelowIn(rows), InOrder(T)[i]) = i - 1
           /\ \A x, y \in T : Rank(T, BelowIn(rows), x) = Rank(T, BelowIn(rows), y) => x = y
  <1> DEFINE R == BelowIn(rows)
             n == Cardinality(T)
  <1>1. \A x, y \in T : <<x, y>> \in R <=> Below(x.key, y.key)
    BY DEF BelowIn
  <1>2. Orders(R, T)
    BY DEF InLine, Orders
  <1>3. IsFiniteSet(T) /\ n \in Nat
    BY FS_Subset, FS_CardinalityType DEF InLine
  <1> HIDE DEF R
  <1>4. \A x, y \in T : x # y => <<x, y>> \in R \/ <<y, x>> \in R
    BY <1>1 DEF InLine
  <1>5. /\ \A x, y \in T : Rank(T, R, x) = Rank(T, R, y) => x = y
        /\ \A i \in 0..(n - 1) : \E x \in T : Rank(T, R, x) = i
    BY <1>2, <1>3, <1>4, RanksAreFull
  <1>6. \A r \in T : Cardinality({q \in T : Below(q.key, r.key)}) = Rank(T, R, r)
    <2> TAKE r \in T
    <2>1. {q \in T : Below(q.key, r.key)} = Before(T, R, r)
      BY <1>1 DEF Before
    <2> QED BY <2>1 DEF Rank
  <1>7. \A i \in 1..n : InOrder(T)[i] \in T /\ Rank(T, R, InOrder(T)[i]) = i - 1
    <2> TAKE i \in 1..n
    <2> DEFINE P(r) == Cardinality({q \in T : Below(q.key, r.key)}) = i - 1
    <2>1. InOrder(T)[i] = CHOOSE r \in T : P(r)
      BY DEF InOrder
    <2>2. i - 1 \in 0..(n - 1)
      BY <1>3
    <2>3. PICK x \in T : Rank(T, R, x) = i - 1
      BY <1>5, <2>2
    <2>4. P(x)
      BY <1>6, <2>3
    <2>5. (CHOOSE r \in T : P(r)) \in T /\ P(CHOOSE r \in T : P(r))
      <3> HIDE DEF P
      <3> QED BY <2>4
    <2>6. InOrder(T)[i] \in T /\ P(InOrder(T)[i])
      <3> HIDE DEF P
      <3> QED BY <2>1, <2>5
    <2> QED BY <1>6, <2>6
  <1>8. InOrder(T) = [i \in 1..n |-> InOrder(T)[i]]
    <2> DEFINE e(i) == CHOOSE r \in T : Cardinality({q \in T : Below(q.key, r.key)}) = i - 1
    <2>1. InOrder(T) = [i \in 1..n |-> e(i)]
      BY DEF InOrder
    <2> HIDE DEF e, n
    <2> QED BY <2>1
  <1>9. InOrder(T) \in [1..n -> T]
    BY <1>7, <1>8
  <1> QED BY <1>3, <1>5, <1>7, <1>9 DEF R

\* The rows beyond one of a list, in their order, are the rest of the list.
LEMMA BeyondIsTheRest ==
    ASSUME NEW rows, InLine(rows), NEW k \in 1..Cardinality(rows),
           NEW rest, rest = {r \in rows : Below(InOrder(rows)[k].key, r.key)}
    PROVE  /\ Cardinality(rest) = Cardinality(rows) - k
           /\ InOrder(rest) \in [1..(Cardinality(rows) - k) -> rows]
           /\ \A i \in 1..(Cardinality(rows) - k) : InOrder(rows)[k + i] = InOrder(rest)[i]
  <1> DEFINE R == BelowIn(rows)
             n == Cardinality(rows)
             s == InOrder(rows)
             a == s[k]
             Past == Before(rows, R, a) \cup {a}
  <1>1. rows \in SUBSET rows /\ rest \in SUBSET rows /\ IsFiniteSet(rows)
    BY DEF InLine
  <1>2. /\ n \in Nat /\ s \in [1..n -> rows]
        /\ \A i \in 1..n : Rank(rows, R, s[i]) = i - 1
        /\ \A x, y \in rows : Rank(rows, R, x) = Rank(rows, R, y) => x = y
    BY <1>1, InOrderIs
  <1>3. \A x, y \in rows : <<x, y>> \in R <=> Below(x.key, y.key)
    BY DEF BelowIn
  <1>4. a \in rows /\ Rank(rows, R, a) = k - 1
    BY <1>2
  <1>5. Orders(R, rows)
    BY DEF InLine
  <1>0. \A x, y \in rows : x # y => <<x, y>> \in R \/ <<y, x>> \in R
    BY <1>3 DEF InLine
  <1>11. rest = {r \in rows : <<a, r>> \in R}
    BY <1>3, <1>4
  <1> HIDE DEF R, s, a, n
  <1>6. Past \in SUBSET rows /\ IsFiniteSet(Past) /\ Cardinality(Past) = k
    <2>1. Before(rows, R, a) \in SUBSET rows /\ a \notin Before(rows, R, a)
      BY <1>4, <1>5 DEF Before, Orders
    <2>2. IsFiniteSet(Before(rows, R, a)) /\ Cardinality(Before(rows, R, a)) = k - 1
      BY <1>1, <1>4, <2>1, FS_Subset DEF Rank
    <2>3. IsFiniteSet(Past) /\ Cardinality(Past) = k - 1 + 1
      BY <2>1, <2>2, FS_AddElement
    <2> QED BY <1>4, <2>1, <2>3
  <1>7. rest = rows \ Past
    <2>1. \A r \in rows : <<a, r>> \in R <=> r # a /\ <<r, a>> \notin R
      BY <1>0, <1>4, <1>5 DEF Orders
    <2> QED BY <1>11, <2>1 DEF Before
  <1> HIDE DEF Past
  <1>8. Cardinality(rest) = n - k
    <2>1. rows \cap Past = Past
      BY <1>6
    <2> QED BY <1>1, <1>6, <1>7, <2>1, FS_Difference DEF n
  <1>9. \A r \in rest : Rank(rows, R, r) = k + Rank(rest, R, r)
    <2> TAKE r \in rest
    <2>1. Past \cup Before(rest, R, r) = Before(rows, R, r)
      <3>1. \A q \in Past : <<q, r>> \in R
        BY <1>4, <1>5, <1>11 DEF Past, Before, Orders
      <3> QED BY <1>6, <1>7, <3>1 DEF Before
    <2>2. Past \cap Before(rest, R, r) = {}
      BY <1>7 DEF Before
    <2>3. IsFiniteSet(Before(rest, R, r))
      <3>1. Before(rest, R, r) \in SUBSET rows
        BY <1>1 DEF Before
      <3> QED BY <1>1, <3>1, FS_Subset
    <2>4. Cardinality(Past \cup Before(rest, R, r))
            = k + Cardinality(Before(rest, R, r)) - Cardinality({})
      BY <1>6, <2>2, <2>3, FS_Union
    <2>5. Cardinality(Before(rest, R, r)) \in Nat
      BY <2>3, FS_CardinalityType
    <2>6. Rank(rows, R, r) = k + Rank(rest, R, r) - Cardinality({})
      BY <2>1, <2>4 DEF Rank
    <2>7. Rank(rest, R, r) \in Nat /\ Cardinality({}) = 0 /\ k \in Int
      BY <2>5, FS_EmptySet DEF Rank
    <2> QED BY <2>6, <2>7
  <1>10. /\ InOrder(rest) \in [1..(n - k) -> rest]
         /\ \A i \in 1..(n - k) : Rank(rest, R, InOrder(rest)[i]) = i - 1
    BY <1>1, <1>8, InOrderIs DEF R
  <1>12. \A i \in 1..(n - k) : s[k + i] = InOrder(rest)[i]
    <2> TAKE i \in 1..(n - k)
    <2>1. k + i \in 1..n /\ k \in Int /\ i \in Int
      BY <1>2
    <2>2. InOrder(rest)[i] \in rest /\ Rank(rest, R, InOrder(rest)[i]) = i - 1
      BY <1>10
    <2>3. Rank(rows, R, InOrder(rest)[i]) = k + (i - 1)
      BY <1>9, <2>2
    <2>4. Rank(rows, R, s[k + i]) = (k + i) - 1 /\ s[k + i] \in rows
      BY <1>2, <2>1
    <2> QED BY <1>1, <1>2, <2>1, <2>2, <2>3, <2>4
  <1>13. InOrder(rest) \in [1..(n - k) -> rows]
    BY <1>1, <1>10
  <1> QED BY <1>8, <1>12, <1>13 DEF n, s

LEMMA KeyedInLine ==
    ASSUME NEW rows, IsFiniteSet(rows), NEW n \in {1, 2},
           \A r \in rows : Len(r.key) = n /\ r.key[1] \in Int /\ (n = 2 => r.key[2] \in Int),
           \A x, y \in rows : x # y => x.key[1] # y.key[1] \/ (n = 2 /\ x.key[2] # y.key[2])
    PROVE  InLine(rows)
  <1> DEFINE R == BelowIn(rows)
  <1>1. \A x, y \in rows : <<x, y>> \in R <=> Below(x.key, y.key)
    BY DEF BelowIn
  <1>2. \A x, y \in rows : Below(x.key, y.key) <=>
          \/ x.key[1] < y.key[1]
          \/ n = 2 /\ x.key[1] = y.key[1] /\ x.key[2] < y.key[2]
    BY DEF Below
  <1> HIDE DEF R
  <1>3. \A x \in rows : <<x, x>> \notin R
    BY <1>1, <1>2
  <1>4. \A x, y, z \in rows : <<x, y>> \in R /\ <<y, z>> \in R => <<x, z>> \in R
    <2> TAKE x, y, z \in rows
    <2>1. CASE n = 1
      BY <1>1, <1>2, <2>1
    <2>2. CASE n = 2
      BY <1>1, <1>2, <2>2
    <2> QED BY <2>1, <2>2
  <1>5. \A x, y \in rows : x # y => Below(x.key, y.key) \/ Below(y.key, x.key)
    <2> TAKE x, y \in rows
    <2>1. CASE n = 1
      BY <1>2, <2>1
    <2>2. CASE n = 2
      BY <1>2, <2>2
    <2> QED BY <2>1, <2>2
  <1> QED BY <1>3, <1>4, <1>5 DEF InLine, Orders, R

FactRow(f) == [key |-> <<f.hash>>, offer |-> f]
TradeRow(f) == [key |-> <<f.settledAt, f.hash>>, offer |-> f]

\* The pages of offers show their facts and nothing else of them.
LEMMA RowsAreFacts ==
    ASSUME NEW env, env.offers \in SUBSET Offer
    PROVE  /\ Rows("offers", env) = {FactRow(f) : f \in FactsOf(env.offers)}
           /\ Rows("trades", env) =
                {TradeRow(f) : f \in {g \in FactsOf(env.offers) : g.state = "accepted"}}
  <1>1. \A o \in env.offers : /\ Facts(o).hash = o.hash /\ Facts(o).state = o.state
                              /\ Facts(o).settledAt = o.settledAt
    BY DEF Facts, Offer
  <1>2. Rows("offers", env) = {FactRow(f) : f \in FactsOf(env.offers)}
    BY <1>1 DEF Rows, FactRow, FactsOf
  <1>3. Rows("trades", env) =
          {[key |-> <<o.settledAt, o.hash>>, offer |-> Facts(o)] :
             o \in {p \in env.offers : p.state = "accepted"}}
    BY DEF Rows
  <1>4. Rows("trades", env) =
          {TradeRow(f) : f \in {g \in FactsOf(env.offers) : g.state = "accepted"}}
    BY <1>1, <1>3 DEF TradeRow, FactsOf
  <1> QED BY <1>2, <1>4

LEMMA FactsSound ==
    ASSUME NEW offers, OffersSound(offers)
    PROVE  /\ IsFiniteSet(FactsOf(offers))
           /\ \A f \in FactsOf(offers) : f.hash \in Int /\ f.settledAt \in Int
           /\ \A f, g \in FactsOf(offers) : f.hash = g.hash => f = g
  <1>1. \A o \in offers : Facts(o).hash = o.hash /\ Facts(o).settledAt = o.settledAt
    BY DEF Facts, Offer, OffersSound
  <1>2. \A o \in offers : o.hash \in Int /\ o.settledAt \in Int
    BY DEF Offer, OffersSound
  <1>3. IsFiniteSet(FactsOf(offers))
    <2> DEFINE f == [o \in offers |-> Facts(o)]
    <2>1. f \in [offers -> FactsOf(offers)] /\ FactsOf(offers) = {f[o] : o \in offers}
      BY DEF FactsOf
    <2>2. IsFiniteSet(offers)
      BY DEF OffersSound
    <2> HIDE DEF f
    <2>3. IsFiniteSet({f[o] : o \in offers})
      BY <2>1, <2>2, ImageIsFinite
    <2> QED BY <2>1, <2>3
  <1>4. \A f, g \in FactsOf(offers) : f.hash = g.hash => f = g
    BY <1>1 DEF FactsOf, OffersSound
  <1> QED BY <1>1, <1>2, <1>3, <1>4 DEF FactsOf

LEMMA RowsInLine ==
    ASSUME NEW env, EnvelopeSound(env), NEW kind \in Kinds
    PROVE  InLine(Rows(kind, env))
  <1>1. OffersSound(env.offers) /\ RosterSound(env.observations)
    BY DEF EnvelopeSound, TablesSound
  <1>2. env.offers \in SUBSET Offer
    BY <1>1 DEF OffersSound
  <1> DEFINE F == FactsOf(env.offers)
  <1>3. /\ IsFiniteSet(F)
        /\ \A f \in F : f.hash \in Int /\ f.settledAt \in Int
        /\ \A f, g \in F : f.hash = g.hash => f = g
    BY <1>1, FactsSound
  <1> HIDE DEF F
  <1>4. CASE kind = "offers"
    <2> DEFINE rows == Rows(kind, env)
               fn == [f \in F |-> FactRow(f)]
    <2>1. rows = {FactRow(f) : f \in F}
      BY <1>2, <1>4, RowsAreFacts DEF F
    <2>2. fn \in [F -> rows] /\ rows = {fn[f] : f \in F}
      BY <2>1
    <2> HIDE DEF fn, rows
    <2>3. IsFiniteSet(rows)
      <3>1. IsFiniteSet(F)
        BY <1>3
      <3>2. fn \in [F -> rows]
        BY <2>2
      <3>3. IsFiniteSet({fn[x] : x \in F})
        BY <3>1, <3>2, ImageIsFinite
      <3> QED BY <2>2, <3>3
    <2>4. \A f \in F : /\ FactRow(f).key[1] = f.hash /\ Len(FactRow(f).key) = 1
      BY DEF FactRow
    <2>5. \A r \in rows : Len(r.key) = 1 /\ r.key[1] \in Int
      BY <1>3, <2>1, <2>4
    <2>6. \A x, y \in rows : x # y => x.key[1] # y.key[1]
      BY <1>3, <2>1, <2>4
    <2>7. InLine(rows)
      <3>1. IsFiniteSet(rows)
        BY <2>3
      <3>2. 1 \in {1, 2} /\ 1 # 2
        OBVIOUS
      <3> QED BY <2>5, <2>6, <3>1, <3>2, KeyedInLine
    <2> QED BY <2>7 DEF rows
  <1>5. CASE kind = "trades"
    <2> DEFINE rows == Rows(kind, env)
               G == {g \in F : g.state = "accepted"}
               fn == [f \in G |-> TradeRow(f)]
    <2>1. rows = {TradeRow(f) : f \in G}
      BY <1>2, <1>5, RowsAreFacts DEF F
    <2>2. fn \in [G -> rows] /\ rows = {fn[f] : f \in G}
      BY <2>1
    <2>8. IsFiniteSet(G) /\ G \subseteq F
      BY <1>3, FS_Subset
    <2> HIDE DEF fn, rows, G
    <2>3. IsFiniteSet(rows)
      <3>1. IsFiniteSet(G)
        BY <2>8
      <3>2. fn \in [G -> rows]
        BY <2>2
      <3>3. IsFiniteSet({fn[x] : x \in G})
        BY <3>1, <3>2, ImageIsFinite
      <3> QED BY <2>2, <3>3
    <2>4. \A f \in G : /\ TradeRow(f).key[1] = f.settledAt /\ TradeRow(f).key[2] = f.hash
                       /\ Len(TradeRow(f).key) = 2
      BY DEF TradeRow
    <2>5. \A r \in rows : Len(r.key) = 2 /\ r.key[1] \in Int /\ r.key[2] \in Int
      BY <1>3, <2>1, <2>4, <2>8
    <2>6. \A x, y \in rows : x # y => x.key[2] # y.key[2]
      BY <1>3, <2>1, <2>4, <2>8
    <2>7. InLine(rows)
      <3>1. IsFiniteSet(rows)
        BY <2>3
      <3>2. 2 \in {1, 2}
        OBVIOUS
      <3> QED BY <2>5, <2>6, <3>1, <3>2, KeyedInLine
    <2> QED BY <2>7 DEF rows
  <1>6. CASE kind = "participants"
    <2> DEFINE rows == Rows(kind, env)
               fn == [o \in env.observations |-> Participant(env, o.who)]
    <2>1. rows = {Participant(env, o.who) : o \in env.observations}
      BY <1>6 DEF Rows
    <2>2. fn \in [env.observations -> rows] /\ rows = {fn[o] : o \in env.observations}
      BY <2>1
    <2> HIDE DEF fn, rows
    <2>3. IsFiniteSet(rows)
      <3> DEFINE T == env.observations
      <3>1. IsFiniteSet(T)
        BY <1>1 DEF RosterSound
      <3>2. fn \in [T -> rows]
        BY <2>2
      <3> HIDE DEF T
      <3>3. IsFiniteSet({fn[x] : x \in T})
        BY <3>1, <3>2, ImageIsFinite
      <3> QED BY <2>2, <3>3 DEF T
    <2>4. \A o \in env.observations :
            /\ Participant(env, o.who).key[1] = o.who
            /\ Len(Participant(env, o.who).key) = 1
            /\ o.who \in Int
      BY <1>1 DEF Participant, RosterSound, Rosters, Observation
    <2>5. \A r \in rows : Len(r.key) = 1 /\ r.key[1] \in Int
      BY <2>1, <2>4 DEF rows
    <2>6. \A x, y \in rows : x # y => x.key[1] # y.key[1]
      <3> TAKE x, y \in rows
      <3>1. PICK o \in env.observations : x = Participant(env, o.who)
        BY <2>1
      <3>2. PICK p \in env.observations : y = Participant(env, p.who)
        BY <2>1
      <3>3. x.key[1] = o.who /\ y.key[1] = p.who
        BY <2>4, <3>1, <3>2
      <3> QED BY <3>1, <3>2, <3>3
    <2>7. InLine(rows)
      <3>1. IsFiniteSet(rows)
        BY <2>3
      <3>2. 1 \in {1, 2} /\ 1 # 2
        OBVIOUS
      <3> QED BY <2>5, <2>6, <3>1, <3>2, KeyedInLine
    <2> QED BY <2>7 DEF rows
  <1> QED BY <1>4, <1>5, <1>6 DEF Kinds

\* A commit moves the revision of a list, or leaves the list as it was.
LEMMA RowsNamed ==
    ASSUME NEW env, EnvelopeSound(env), NEW e, NEW job, Commits(env, job, e), NEW kind \in Kinds
    PROVE  Named(RevisionOf(kind, env), RevisionOf(kind, e), Rows(kind, e) = Rows(kind, env))
  <1>1. env.offers \in SUBSET Offer /\ e.offers \in SUBSET Offer
    BY DEF Commits, EnvelopeSound, TablesSound, OffersSound
  <1>2. CASE kind = "participants"
    <2>1. e.observations = env.observations => Rows(kind, e) = Rows(kind, env)
      BY <1>2 DEF Rows, Participant
    <2> QED BY <1>2, <2>1 DEF Commits, Named, RevisionOf
  <1>3. CASE kind \in {"offers", "trades"}
    <2>1. FactsOf(e.offers) = FactsOf(env.offers) => Rows(kind, e) = Rows(kind, env)
      BY <1>1, <1>3, RowsAreFacts
    <2> QED BY <1>3, <2>1 DEF Commits, Named, RevisionOf
  <1> QED BY <1>2, <1>3 DEF Kinds

-----------------------------------------------------------------------------
(* A replacement that is on its way is the one its job makes of the        *)
(* envelope it expects, and no other envelope ever has that revision.      *)

Pending == {call[c] : c \in {d \in Callers : call[d].pc = "swapping"}} \cup adrift

Faithful(p) ==
    /\ p.job \in Jobs /\ WellFormed(p.job)
    /\ p.expected # None =>
         stored # None /\ p.expected \in Nat /\ p.expected <= stored.revision
    /\ p.expected = Expected =>
         /\ ~Refuses(Current, p.job)
         /\ p.next = After(Current, p.job)
         /\ p.isNew = IsNew(Current, p.job)

StoreInv ==
    /\ stored # None => EnvelopeSound(stored) /\ stored.cursorKey = life
    /\ life \in 0..MaxClears
    /\ call = [c \in Callers |-> call[c]]
    /\ \A c \in Callers : "pc" \in DOMAIN call[c]
    /\ \A c \in Callers : call[c].pc = "loading" =>
         call[c].job \in Jobs /\ WellFormed(call[c].job)
    /\ \A p \in adrift : p.pc = "swapping"
    /\ \A p \in Pending : Faithful(p)

LEMMA CurrentIsSound ==
    ASSUME StoreInv
    PROVE  /\ EnvelopeSound(Current)
           /\ Current.cursorKey = life
           /\ Current.revision \in Nat
           /\ life \in Nat
  <1>1. life \in Nat
    BY StorageAssumption DEF StoreInv
  <1>2. EnvelopeSound(Current) /\ Current.cursorKey = life
    BY <1>1, EmptyIsSound DEF StoreInv, Current, EmptyEnvelope
  <1>3. Current.revision \in Nat
    BY <1>2 DEF EnvelopeSound, RevisionsInOrder
  <1> QED BY <1>1, <1>2, <1>3

\* The replacement p is made: its job is applied to what is there.
Made(p) ==
    /\ p.job \in Jobs
    /\ ~Refuses(Current, p.job)
    /\ stored' = After(Current, p.job)
    /\ Commits(Current, p.job, stored')
    /\ stored' # None /\ stored' # stored
    /\ landed' = landed \cup {p.id}
    /\ counted' = IF IsNew(Current, p.job) THEN counted + 1 ELSE counted

\* What the adapter may do with a replacement that is on its way.
LEMMA KeepStep ==
    ASSUME StoreInv, NEW p \in Pending, Keep(p), UNCHANGED life
    PROVE  /\ stored' # None => EnvelopeSound(stored') /\ stored'.cursorKey = life
           /\ \A q : Faithful(q) => Faithful(q)'
           /\ UNCHANGED kept \/ Made(p)
  <1>1. CASE UNCHANGED kept
    BY <1>1 DEF StoreInv, Faithful, Current, Expected, kept
  <1>2. CASE /\ Matches(p) /\ stored' = p.next /\ landed' = landed \cup {p.id}
             /\ counted' = IF p.isNew THEN counted + 1 ELSE counted
    <2>1. /\ stored' = p.next /\ landed' = landed \cup {p.id}
          /\ counted' = IF p.isNew THEN counted + 1 ELSE counted
      BY <1>2
    <2>2. /\ p.job \in Jobs /\ WellFormed(p.job) /\ ~Refuses(Current, p.job)
          /\ stored' = After(Current, p.job)
          /\ p.isNew = IsNew(Current, p.job)
      BY <1>2, <2>1 DEF StoreInv, Faithful, Matches
    <2>3. p.job \in Job
      BY <2>2, StorageAssumption
    <2>4. Commits(Current, p.job, stored')
      BY <2>2, <2>3, CurrentIsSound, AfterCommits
    <2>5. /\ EnvelopeSound(stored') /\ stored'.cursorKey = life
          /\ stored'.revision = Current.revision + 1 /\ Current.revision \in Nat
      BY <2>4, CurrentIsSound DEF Commits
    <2>6. stored' # None /\ None \notin Nat
      BY <2>5, StorageAssumption DEF EnvelopeSound, TablesSound
    <2>7. stored' # stored
      BY <2>5, <2>6 DEF Current
    <2>8. Made(p)
      BY <2>1, <2>2, <2>4, <2>6, <2>7 DEF Made
    <2>9. ASSUME NEW q, Faithful(q) PROVE Faithful(q)'
      <3>1. q.expected # None => q.expected \in Nat /\ q.expected <= Current.revision
        BY <2>9 DEF Faithful, Current
      <3>2. Expected' = Current.revision + 1
        BY <2>5, <2>6 DEF Expected
      <3>3. q.expected # Expected'
        BY <2>5, <2>6, <3>1, <3>2
      <3>4. q.expected # None => q.expected <= stored'.revision
        BY <2>5, <3>1
      <3> QED BY <2>6, <2>9, <3>1, <3>3, <3>4 DEF Faithful
    <2> QED BY <2>5, <2>8, <2>9
  <1> QED BY <1>1, <1>2 DEF Keep

LEMMA StoreInvInit == Init => StoreInv
  BY StorageAssumption DEF Init, StoreInv, Pending, Idle

\* What a step does to the store.
Turn ==
    \/ UNCHANGED <<kept, life>>
    \/ UNCHANGED life /\ \E p \in Pending : Made(p)
    \/ stored' = None /\ life' = life + 1 /\ counted' = 0 /\ UNCHANGED landed

\* One step of the callers and of the store is one commit, a clear, or
\* nothing that Atomic sees.
LEMMA StoreStep == StoreInv /\ [Next]_vars => StoreInv' /\ Turn
  <1> SUFFICES ASSUME StoreInv, [Next]_vars PROVE StoreInv' /\ Turn
    OBVIOUS
  <1>1. UNCHANGED <<kept, life>> => Turn
    BY DEF Turn, kept
  <1>2. ASSUME UNCHANGED <<kept, life>>, NEW q, Faithful(q) PROVE Faithful(q)'
    BY <1>2 DEF kept, Faithful, Expected, Current
  <1>3. ASSUME NEW c \in Callers, NEW job \in Jobs, Start(c, job)
        PROVE  StoreInv' /\ Turn
    <2>1. /\ UNCHANGED <<kept, life, adrift>>
          /\ \/ UNCHANGED call
             \/ /\ WellFormed(job)
                /\ call' = [call EXCEPT ![c] = Loading(calls + 1, job, 1)]
      BY <1>3 DEF Start
    <2>2. CASE UNCHANGED call
      BY <1>1, <1>2, <2>1, <2>2 DEF StoreInv, Pending, kept
    <2>3. CASE WellFormed(job) /\ call' = [call EXCEPT ![c] = Loading(calls + 1, job, 1)]
      <3> DEFINE r == Loading(calls + 1, job, 1)
      <3>1. "pc" \in DOMAIN r /\ r.pc = "loading" /\ r.job \in Jobs
            /\ WellFormed(r.job)
        BY <2>3 DEF Loading
      <3>2. call' = [call EXCEPT ![c] = r]
        BY <2>3
      <3> HIDE DEF r
      <3>3. StoreInv'
        BY <1>2, <2>1, <3>1, <3>2 DEF StoreInv, Pending, kept
      <3>4. QED
        BY <1>1, <2>1, <3>3
    <2>4. QED
      BY <2>1, <2>2, <2>3
  <1>4. ASSUME NEW c \in Callers, Load(c)
        PROVE  StoreInv' /\ Turn
    <2>1. UNCHANGED <<kept, life, adrift>> /\ call[c].pc = "loading"
      BY <1>4 DEF Load
    <2>2. CASE call' = [call EXCEPT ![c] = Idle]
      <3>1. StoreInv'
        BY <1>2, <2>1, <2>2 DEF StoreInv, Pending, kept, Idle
      <3>2. QED
        BY <1>1, <2>1, <3>1
    <2>3. CASE /\ ~Refuses(Current, call[c].job)
               /\ call' = [call EXCEPT ![c] =
                     [pc |-> "swapping", id |-> call[c].id, job |-> call[c].job,
                      attempt |-> call[c].attempt, expected |-> Expected,
                      next |-> After(Current, call[c].job),
                      isNew |-> call[c].job.kind = "announce"
                                  /\ ~Replayed(Current, call[c].job)]]
      <3> DEFINE p == [pc |-> "swapping", id |-> call[c].id, job |-> call[c].job,
                      attempt |-> call[c].attempt, expected |-> Expected,
                      next |-> After(Current, call[c].job),
                      isNew |-> call[c].job.kind = "announce"
                                  /\ ~Replayed(Current, call[c].job)]
      <3>1. /\ "pc" \in DOMAIN p /\ p.pc = "swapping" /\ p.job = call[c].job
            /\ p.expected = Expected /\ p.next = After(Current, call[c].job)
            /\ p.isNew = IsNew(Current, call[c].job)
        BY DEF IsNew
      <3>2. call' = [call EXCEPT ![c] = p]
        BY <2>3
      <3> HIDE DEF p
      <3>3. Faithful(p)
        <4>1. stored # None => stored.revision \in Nat
          BY CurrentIsSound DEF Current
        <4> QED BY <2>1, <2>3, <3>1, <4>1 DEF Faithful, StoreInv, Expected
      <3>4. StoreInv'
        BY <1>2, <2>1, <3>1, <3>2, <3>3 DEF StoreInv, Pending, kept
      <3>5. QED
        BY <1>1, <2>1, <3>4
    <2>4. QED
      BY <1>4, <2>2, <2>3 DEF Load, Answer
  <1>5. ASSUME NEW c \in Callers, Swap(c)
        PROVE  StoreInv' /\ Turn
    <2>1. UNCHANGED <<life, adrift>> /\ call[c].pc = "swapping" /\ Keep(call[c])
      BY <1>5 DEF Swap
    <2>2. call[c] \in Pending
      BY <2>1 DEF Pending
    <2>3. /\ stored' # None => EnvelopeSound(stored') /\ stored'.cursorKey = life
          /\ \A q : Faithful(q) => Faithful(q)'
          /\ UNCHANGED kept \/ Made(call[c])
      BY <2>1, <2>2, KeepStep
    <2>4. Turn
      BY <1>1, <2>1, <2>2, <2>3 DEF Turn
    <2>5. \E r : /\ call' = [call EXCEPT ![c] = r]
                 /\ "pc" \in DOMAIN r /\ r.pc # "swapping"
                 /\ r.pc = "loading" => r.job \in Jobs /\ WellFormed(r.job)
      <3>1. CASE call' = [call EXCEPT ![c].pc = "confirming"]
        <4> DEFINE r == [call[c] EXCEPT !.pc = "confirming"]
        <4>1. "pc" \in DOMAIN call[c]
          BY DEF StoreInv
        <4>2. "pc" \in DOMAIN r /\ r.pc = "confirming"
          BY <4>1
        <4>3. call' = [call EXCEPT ![c] = r]
          BY <3>1
        <4> HIDE DEF r
        <4>4. QED
          BY <4>2, <4>3
      <3>2. CASE call' = [call EXCEPT ![c] = Idle]
        <4>1. "pc" \in DOMAIN Idle /\ Idle.pc = "idle"
          BY DEF Idle
        <4>2. QED
          BY <3>2, <4>1
      <3>3. CASE call' = [call EXCEPT ![c] =
                        Loading(call[c].id, call[c].job, call[c].attempt + 1)]
        <4> DEFINE r == Loading(call[c].id, call[c].job, call[c].attempt + 1)
        <4>1. "pc" \in DOMAIN r /\ r.pc = "loading" /\ r.job = call[c].job
          BY DEF Loading
        <4>2. call[c].job \in Jobs /\ WellFormed(call[c].job)
          BY <2>2 DEF StoreInv, Faithful
        <4> HIDE DEF r
        <4>3. call' = [call EXCEPT ![c] = r]
          BY <3>3 DEF r
        <4>4. QED
          BY <4>1, <4>2, <4>3
      <3>4. QED
        BY <1>5, <3>1, <3>2, <3>3 DEF Swap, Answer
    <2>6. StoreInv'
      BY <2>1, <2>3, <2>5 DEF StoreInv, Pending
    <2>7. QED
      BY <2>4, <2>6
  <1>6. ASSUME NEW c \in Callers, Confirm(c)
        PROVE  StoreInv' /\ Turn
    <2>1. UNCHANGED <<kept, life, adrift>> /\ call' = [call EXCEPT ![c] = Idle]
      BY <1>6 DEF Confirm, Answer
    <2>2. StoreInv'
      BY <1>2, <2>1 DEF StoreInv, Pending, Idle, kept
    <2>3. QED
      BY <1>1, <2>1, <2>2
  <1>7. ASSUME NEW c \in Callers, Stop(c)
        PROVE  StoreInv' /\ Turn
    <2>1. /\ UNCHANGED <<kept, life>> /\ call' = [call EXCEPT ![c] = Idle]
          /\ adrift' = IF call[c].pc = "swapping" THEN adrift \cup {call[c]} ELSE adrift
      BY <1>7 DEF Stop, Answer
    <2>2. StoreInv'
      BY <1>2, <2>1 DEF StoreInv, Pending, Idle, kept
    <2>3. QED
      BY <1>1, <2>1, <2>2
  <1>8. ASSUME NEW p \in adrift, Land(p)
        PROVE  StoreInv' /\ Turn
    <2>1. UNCHANGED <<life, call>> /\ adrift' = adrift \ {p} /\ Keep(p)
      BY <1>8 DEF Land
    <2>2. p \in Pending
      BY DEF Pending
    <2>3. /\ stored' # None => EnvelopeSound(stored') /\ stored'.cursorKey = life
          /\ \A q : Faithful(q) => Faithful(q)'
          /\ UNCHANGED kept \/ Made(p)
      BY <2>1, <2>2, KeepStep
    <2>4. Turn
      BY <1>1, <2>1, <2>2, <2>3 DEF Turn
    <2>5. StoreInv'
      BY <2>1, <2>3 DEF StoreInv, Pending
    <2>6. QED
      BY <2>4, <2>5
  <1>9. CASE Clear
    <2>1. /\ stored' = None /\ life' = life + 1 /\ UNCHANGED <<call, adrift>>
          /\ adrift = {} /\ \A c \in Callers : call[c].pc # "swapping"
          /\ life < MaxClears /\ counted' = 0 /\ UNCHANGED landed
      BY <1>9 DEF Clear
    <2>4. life + 1 \in 0..MaxClears
      BY <2>1, StorageAssumption DEF StoreInv
    <2>2. StoreInv'
      BY <2>1, <2>4 DEF StoreInv, Pending
    <2>3. QED
      BY <2>1, <2>2 DEF Turn
  <1>10. CASE UNCHANGED <<kept, life, call, adrift>>
    <2>1. StoreInv'
      BY <1>2, <1>10 DEF StoreInv, Pending, kept
    <2>2. QED
      BY <1>1, <1>10, <2>1
  <1>11. QED
    <2>2. NextPage => UNCHANGED <<kept, life, call, adrift>>
      BY DEF NextPage
    <2>3. ASSUME NEW kind, FirstPage(kind)
          PROVE UNCHANGED <<kept, life, call, adrift>>
      BY <2>3 DEF FirstPage
    <2>4. UNCHANGED vars => UNCHANGED <<kept, life, call, adrift>>
      BY DEF vars, kept
    <2>5. QED
      BY <1>3, <1>4, <1>5, <1>6, <1>7, <1>8, <1>9, <1>10, <2>2, <2>3, <2>4
         DEF Next

\* Callers that overlap, are stopped, retry or land late change the store only
\* by one whole job applied to what it held at that moment.
THEOREM StoreIsAtomic == Spec => ImplementsAtomic
  <1>1. Init => Atomic!Init
    BY DEF Init, Atomic!Init
  <1>2. StoreInv /\ Turn => [Atomic!Next]_<<stored, life>>
    BY StorageAssumption
       DEF Turn, Made, kept, StoreInv, Atomic!Next, Atomic!Commit, Atomic!Clear,
           Atomic!Current, Current
  <1>3. QED
    BY <1>1, <1>2, StoreInvInit, StoreStep, PTL DEF Spec, ImplementsAtomic, Atomic!Spec

-----------------------------------------------------------------------------
(* A call, the replacements that carry its number and the answer to it.    *)

Live(c) == call[c].pc # "idle"

CallsTyped ==
    /\ calls \in Nat /\ calls <= MaxCalls
    /\ told = [id \in 1..MaxCalls |-> told[id]]
    /\ landed \subseteq 1..calls
    /\ \A c \in Callers :
         /\ call[c].pc \in {"idle", "loading", "swapping", "confirming"}
         /\ Live(c) <=> call[c] # Idle
         /\ call[c].pc = "swapping" => {"id", "next"} \subseteq DOMAIN call[c]

\* Until a call is answered its number is its own; once it was stopped, what
\* it left behind may still land.
NumbersKept ==
    /\ \A id \in 1..MaxCalls : id > calls => told[id] = "nothing"
    /\ \A c \in Callers : Live(c) =>
         call[c].id \in 1..calls /\ told[call[c].id] = "nothing"
    /\ \A c, d \in Callers : Live(c) /\ Live(d) /\ c # d => call[c].id # call[d].id
    /\ \A p \in adrift : p.id \in 1..calls /\ told[p.id] = "stopped" /\ p.id \notin landed
    /\ \A p, q \in adrift : p # q => p.id # q.id
    /\ \A c \in Callers : call[c].pc \in {"loading", "swapping"} => call[c].id \notin landed

\* What was acknowledged and dropped is of a revision that the store has not
\* reached, or that another call's commit has been given since.
Overdue(id, next) ==
    /\ durable
    /\ [id |-> id, revision |-> next.revision] \in lost
    /\ next.revision \in Nat /\ Current.revision < next.revision

AcknowledgedKept ==
    \A c \in Callers : call[c].pc = "confirming" =>
        call[c].id \in landed \/ call[c].id \in outrun \/ Overdue(call[c].id, call[c].next)

AnswerInv == CallsTyped /\ NumbersKept /\ AcknowledgedKept /\ AnswersAreTrue

LEMMA AnswerInit == Init => AnswerInv
  <1> SUFFICES ASSUME Init PROVE AnswerInv
    OBVIOUS
  <1>1. MaxCalls \in Nat
    BY StorageAssumption
  <1>2. CallsTyped
    BY <1>1 DEF Init, CallsTyped, Live, Idle
  <1>3. NumbersKept /\ AcknowledgedKept
    BY DEF Init, NumbersKept, AcknowledgedKept, Live, Idle
  <1>4. AnswersAreTrue
    BY DEF Init, AnswersAreTrue
  <1>5. QED
    BY <1>2, <1>3, <1>4 DEF AnswerInv

\* The same, as it is after a step.
OverdueThen(id, next) ==
    /\ durable'
    /\ [id |-> id, revision |-> next.revision] \in lost'
    /\ next.revision \in Nat /\ Current'.revision < next.revision

\* What a step does not take back of the writes that were dropped.
Retained ==
    /\ outrun \subseteq outrun'
    /\ \A id : \A next : Overdue(id, next) => id \in outrun' \/ Overdue(id, next)'

LEMMA NothingDropped ==
    ASSUME UNCHANGED <<durable, stored, life, losses>>
    PROVE  Retained
  BY DEF Retained, Overdue, Current, losses

\* A replacement the adapter would take is of the next revision.
LEMMA SwapIsNext ==
    ASSUME StoreInv, NEW p \in Pending, Matches(p)
    PROVE  /\ Current.revision \in Nat /\ p.next.revision = Current.revision + 1
           /\ p.next # None
  <1>1. p.job \in Job /\ WellFormed(p.job) /\ p.next = After(Current, p.job)
    BY StorageAssumption DEF StoreInv, Faithful, Matches
  <1>2. Commits(Current, p.job, p.next)
    BY <1>1, CurrentIsSound, AfterCommits
  <1>3. p.next # None
    BY <1>2, StorageAssumption DEF Commits, EnvelopeSound, TablesSound
  <1> QED BY <1>2, <1>3, CurrentIsSound DEF Commits

LEMMA KeepRetains ==
    ASSUME StoreInv, NEW p \in Pending, Keep(p), UNCHANGED <<durable, life>>
    PROVE  Retained
  <1>1. CASE UNCHANGED <<kept, losses>>
    BY <1>1, NothingDropped DEF kept
  <1>2. CASE Matches(p) /\ stored' = p.next /\ UNCHANGED lost
             /\ outrun' = outrun \cup Under(p.next.revision)
    <2>1. /\ Current.revision \in Nat /\ p.next.revision = Current.revision + 1
          /\ Current' = p.next
      BY <1>2, SwapIsNext DEF Current
    <2> SUFFICES ASSUME NEW id, NEW next, Overdue(id, next)
                 PROVE  id \in outrun' \/ Overdue(id, next)'
      BY <1>2 DEF Retained
    <2>2. CASE next.revision = p.next.revision
      <3>1. id \in Under(p.next.revision)
        BY <2>2 DEF Overdue, Under
      <3> QED BY <1>2, <3>1
    <2>3. CASE next.revision # p.next.revision
      <3>1. next.revision \in Nat /\ Current'.revision < next.revision
        BY <2>1, <2>3 DEF Overdue
      <3> QED BY <1>2, <3>1 DEF Overdue
    <2> QED BY <2>2, <2>3
  <1>3. CASE /\ UNCHANGED <<kept, outrun>>
             /\ lost' = lost \cup {[id |-> p.id, revision |-> p.next.revision]}
    <2>1. Current' = Current
      BY <1>3 DEF Current, kept
    <2> QED BY <1>3, <2>1 DEF Retained, Overdue
  <1> QED BY <1>1, <1>2, <1>3 DEF Keep

\* A call begins, or goes on, under the number it has.
LEMMA GoesOn ==
    ASSUME AnswerInv, NEW c \in Callers, NEW r,
           call = [d \in Callers |-> call[d]],
           call' = [call EXCEPT ![c] = r],
           r.pc \in {"loading", "swapping", "confirming"}, r # Idle,
           r.pc = "swapping" => {"id", "next"} \subseteq DOMAIN r,
           Live(c), r.id = call[c].id,
           r.pc \in {"loading", "swapping"} => r.id \notin landed',
           r.pc = "confirming" =>
             r.id \in landed' \/ r.id \in outrun' \/ OverdueThen(r.id, r.next),
           landed \subseteq landed', landed' \subseteq landed \cup {r.id}, Retained,
           UNCHANGED <<durable, adrift, calls, told>>
    PROVE  AnswerInv'
  <1>1. \A d \in Callers : d # c => call'[d] = call[d]
    OBVIOUS
  <1>2. call'[c] = r
    OBVIOUS
  <1>3. r.id \in 1..calls /\ told[r.id] = "nothing"
    BY DEF AnswerInv, NumbersKept
  <1>4. \A d \in Callers : Live(d)' <=> Live(d)
    BY <1>1, <1>2 DEF Live
  <1>5. CallsTyped'
    BY <1>1, <1>2, <1>3, <1>4 DEF AnswerInv, CallsTyped, Live
  <1>6. NumbersKept'
    BY <1>1, <1>2, <1>3, <1>4 DEF AnswerInv, NumbersKept, Live
  <1>7. AcknowledgedKept'
    BY <1>1, <1>2 DEF AnswerInv, AcknowledgedKept, Retained, Overdue, OverdueThen
  <1>8. AnswersAreTrue'
    BY <1>3 DEF AnswerInv, AnswersAreTrue, Retained
  <1>9. QED
    BY <1>5, <1>6, <1>7, <1>8 DEF AnswerInv

\* A call ends with an answer that is true of its number.
LEMMA Ends ==
    ASSUME AnswerInv, NEW c \in Callers, NEW answer, Live(c),
           call = [d \in Callers |-> call[d]], Answer(c, answer),
           landed \subseteq landed', landed' \subseteq landed \cup {call[c].id},
           answer = "done" => call[c].id \in landed' \/ call[c].id \in outrun',
           answer \in {"refused", "conflict"} => call[c].id \notin landed',
           \/ UNCHANGED adrift
           \/ /\ adrift' = adrift \cup {call[c]} /\ answer = "stopped"
              /\ call[c].id \notin landed',
           Retained, UNCHANGED <<durable, calls>>
    PROVE  AnswerInv'
  <1>0. call' = [call EXCEPT ![c] = Idle] /\ told' = [told EXCEPT ![call[c].id] = answer]
    BY DEF Answer
  <1>1. \A d \in Callers : d # c => call'[d] = call[d]
    BY <1>0
  <1>2. call'[c] = Idle /\ Idle.pc = "idle"
    BY <1>0 DEF Idle
  <1>3. /\ call[c].id \in 1..calls /\ told[call[c].id] = "nothing"
        /\ call[c].id \in 1..MaxCalls
    BY StorageAssumption DEF AnswerInv, NumbersKept, CallsTyped
  <1>4. /\ told'[call[c].id] = answer
        /\ \A id \in 1..MaxCalls : id # call[c].id => told'[id] = told[id]
        /\ told' = [id \in 1..MaxCalls |-> told'[id]]
    BY <1>0, <1>3 DEF AnswerInv, CallsTyped
  <1>5. \A d \in Callers : Live(d)' <=> d # c /\ Live(d)
    BY <1>1, <1>2 DEF Live
  <1>6. 1..calls \subseteq 1..MaxCalls
    BY StorageAssumption DEF AnswerInv, CallsTyped
  <1>7. CallsTyped'
    BY <1>1, <1>2, <1>3, <1>4, <1>5 DEF AnswerInv, CallsTyped, Live
  <1>8. NumbersKept'
    <2>1. \A id \in 1..MaxCalls : id > calls => id # call[c].id
      BY <1>3 DEF AnswerInv, CallsTyped
    <2>2. \A id \in 1..MaxCalls : id > calls => told'[id] = "nothing"
      BY <1>4, <2>1 DEF AnswerInv, NumbersKept
    <2>3. \A d \in Callers : Live(d)' =>
            call'[d].id \in 1..calls /\ told'[call'[d].id] = "nothing"
      BY <1>1, <1>4, <1>5, <1>6 DEF AnswerInv, NumbersKept
    <2>4. \A d, e \in Callers : Live(d)' /\ Live(e)' /\ d # e => call'[d].id # call'[e].id
      BY <1>1, <1>5 DEF AnswerInv, NumbersKept
    <2>5. \A p \in adrift' :
            p.id \in 1..calls /\ told'[p.id] = "stopped" /\ p.id \notin landed'
      BY <1>3, <1>4, <1>6 DEF AnswerInv, NumbersKept
    <2>8. \A p, q \in adrift' : p # q => p.id # q.id
      BY <1>3 DEF AnswerInv, NumbersKept
    <2>6. \A d \in Callers :
            call'[d].pc \in {"loading", "swapping"} => call'[d].id \notin landed'
      <3>1. SUFFICES ASSUME NEW d \in Callers, call'[d].pc \in {"loading", "swapping"}
                     PROVE  call'[d].id \notin landed'
        OBVIOUS
      <3>2. d # c /\ call'[d] = call[d]
        BY <1>1, <1>2, <3>1
      <3>3. Live(d) /\ call[d].id # call[c].id /\ call[d].id \notin landed
        BY <3>1, <3>2 DEF AnswerInv, NumbersKept, Live
      <3>4. QED
        BY <3>2, <3>3
    <2>7. QED
      BY <2>2, <2>3, <2>4, <2>5, <2>6, <2>8 DEF NumbersKept, Live
  <1>9. AcknowledgedKept'
    BY <1>1, <1>2 DEF AnswerInv, AcknowledgedKept, Retained
  <1>10. AnswersAreTrue'
    <2> SUFFICES ASSUME NEW id \in 1..MaxCalls
                 PROVE  /\ told'[id] = "done" => id \in landed' \/ id \in outrun'
                        /\ told'[id] \in {"refused", "conflict"} =>
                             id \notin landed' /\ \A p \in adrift' : p.id # id
      BY DEF AnswersAreTrue
    <2>1. CASE id = call[c].id
      BY <1>3, <1>4, <2>1 DEF AnswerInv, NumbersKept
    <2>2. CASE id # call[c].id
      BY <1>4, <2>2 DEF AnswerInv, AnswersAreTrue, Retained
    <2>3. QED
      BY <2>1, <2>2
  <1>11. QED
    BY <1>7, <1>8, <1>9, <1>10 DEF AnswerInv

LEMMA AnswerStep == StoreInv /\ AnswerInv /\ [Next]_vars => AnswerInv'
  <1> SUFFICES ASSUME StoreInv, AnswerInv, [Next]_vars PROVE AnswerInv'
    OBVIOUS
  <1>1. call = [d \in Callers |-> call[d]]
    BY DEF StoreInv
  <1>2. MaxCalls \in Nat /\ calls \in Nat /\ calls <= MaxCalls
    BY StorageAssumption DEF AnswerInv, CallsTyped
  <1>3. CASE UNCHANGED <<stored, call, adrift, calls, landed, losses, told, durable, life>>
    BY <1>3 DEF AnswerInv, CallsTyped, NumbersKept, AcknowledgedKept, AnswersAreTrue, Live,
                Overdue, Current, losses
  <1>4. ASSUME NEW c \in Callers, NEW job \in Jobs, Start(c, job) PROVE AnswerInv'
    <2> DEFINE n == calls + 1
    <2>1. /\ call[c] = Idle /\ calls' = n /\ n \in 1..MaxCalls /\ n \notin 1..calls
          /\ UNCHANGED <<stored, landed, losses, life, durable, adrift>> /\ Retained
      BY <1>2, <1>4, NothingDropped DEF Start, kept
    <2>2. ~Live(c) /\ 1..calls \subseteq 1..n /\ n \in 1..n /\ n \in Nat /\ n <= MaxCalls
      BY <1>2, <2>1 DEF AnswerInv, CallsTyped
    <2> HIDE DEF n
    <2>3. CASE call' = [call EXCEPT ![c] = Loading(n, job, 1)] /\ UNCHANGED told
      <3> DEFINE r == Loading(n, job, 1)
      <3>1. told[n] = "nothing"
        BY <1>2, <2>1, n > calls DEF AnswerInv, NumbersKept, n
      <3>2. /\ r.pc = "loading" /\ r.id = n /\ r # Idle
            /\ call' = [call EXCEPT ![c] = r]
        BY <2>3 DEF Loading, Idle
      <3> HIDE DEF r
      <3>3. /\ call'[c] = r /\ \A d \in Callers : d # c => call'[d] = call[d]
        BY <1>1, <3>2
      <3>4. \A d \in Callers : Live(d)' <=> d = c \/ Live(d)
        BY <3>2, <3>3 DEF Live
      <3>5. \A id \in 1..MaxCalls : id > n => id > calls
        BY <1>2 DEF n
      <3>6. CallsTyped'
        BY <2>1, <2>2, <2>3, <3>2, <3>3, <3>4 DEF AnswerInv, CallsTyped, Live
      <3>7. NumbersKept'
        BY <2>1, <2>2, <2>3, <3>1, <3>2, <3>3, <3>4, <3>5
           DEF AnswerInv, CallsTyped, NumbersKept, Live
      <3>8. AcknowledgedKept'
        BY <2>1, <3>2, <3>3 DEF AnswerInv, AcknowledgedKept, Retained
      <3>9. AnswersAreTrue'
        BY <2>1, <2>3 DEF AnswerInv, AnswersAreTrue, Retained
      <3>10. QED
        BY <3>6, <3>7, <3>8, <3>9 DEF AnswerInv
    <2>4. CASE told' = [told EXCEPT ![n] = "refused"] /\ UNCHANGED call
      <3>1. CallsTyped'
        BY <2>1, <2>2, <2>4 DEF AnswerInv, CallsTyped, Live
      <3>0. \A id \in 1..MaxCalls : id > n => id > calls
        BY <1>2 DEF n
      <3>2. NumbersKept'
        BY <2>1, <2>2, <2>4, <3>0 DEF AnswerInv, CallsTyped, NumbersKept, Live
      <3>3. AcknowledgedKept'
        BY <2>1, <2>4 DEF AnswerInv, AcknowledgedKept, Retained
      <3>4. AnswersAreTrue'
        BY <2>1, <2>2, <2>4 DEF AnswerInv, CallsTyped, NumbersKept, AnswersAreTrue, Retained
      <3>5. QED
        BY <3>1, <3>2, <3>3, <3>4 DEF AnswerInv
    <2>5. QED
      BY <1>4, <2>3, <2>4 DEF Start, n
  <1>5. ASSUME NEW c \in Callers, Load(c) PROVE AnswerInv'
    <2>1. /\ call[c].pc = "loading" /\ Live(c)
          /\ UNCHANGED <<stored, landed, durable, adrift, calls>> /\ Retained
      BY <1>5, NothingDropped DEF Load, kept, asked, Live
    <2>2. call[c].id \notin landed
      BY <2>1 DEF AnswerInv, NumbersKept
    <2>3. CASE Answer(c, "refused")
      BY <1>1, <2>1, <2>2, <2>3, Ends
    <2>4. ASSUME NEW r, call' = [call EXCEPT ![c] = r], r.pc = "swapping",
                 r # Idle, r.id = call[c].id, {"id", "next"} \subseteq DOMAIN r,
                 UNCHANGED told
          PROVE  AnswerInv'
      BY <1>1, <2>1, <2>2, <2>4, GoesOn
    <2>5. CASE /\ UNCHANGED told
               /\ call' = [call EXCEPT ![c] =
                     [pc |-> "swapping", id |-> call[c].id, job |-> call[c].job,
                      attempt |-> call[c].attempt, expected |-> Expected,
                      next |-> After(Current, call[c].job),
                      isNew |-> call[c].job.kind = "announce"
                                  /\ ~Replayed(Current, call[c].job)]]
      <3> DEFINE r == [pc |-> "swapping", id |-> call[c].id, job |-> call[c].job,
                      attempt |-> call[c].attempt, expected |-> Expected,
                      next |-> After(Current, call[c].job),
                      isNew |-> call[c].job.kind = "announce"
                                  /\ ~Replayed(Current, call[c].job)]
      <3>1. /\ r.pc = "swapping" /\ r.id = call[c].id
            /\ {"id", "next"} \subseteq DOMAIN r /\ r # Idle
        BY DEF Idle
      <3>2. call' = [call EXCEPT ![c] = r]
        BY <2>5
      <3> HIDE DEF r
      <3>3. QED
        BY <2>4, <2>5, <3>1, <3>2
    <2>6. QED
      BY <1>5, <2>3, <2>5 DEF Load
  <1>6. ASSUME NEW c \in Callers, Swap(c) PROVE AnswerInv'
    <2>1. /\ call[c].pc = "swapping" /\ Live(c) /\ Keep(call[c])
          /\ UNCHANGED <<durable, life, adrift, calls>>
      BY <1>6 DEF Swap, asked, Live
    <2>0. call[c] \in Pending
      BY <2>1 DEF Pending
    <2>2. /\ call[c].id \notin landed
          /\ {"id", "next"} \subseteq DOMAIN call[c]
      BY <2>1 DEF AnswerInv, NumbersKept, CallsTyped
    <2>3. /\ landed \subseteq landed' /\ landed' \subseteq landed \cup {call[c].id}
          /\ Matches(call[c]) /\ ~durable => call[c].id \in landed'
          /\ Retained
      BY <2>0, <2>1, KeepRetains DEF Keep, kept
    <2>4. CASE Matches(call[c]) /\ ~durable /\ Answer(c, "done")
      BY <1>1, <2>1, <2>2, <2>3, <2>4, Ends
    <2>5. CASE /\ Matches(call[c]) /\ UNCHANGED told
               /\ call' = [call EXCEPT ![c].pc = "confirming"]
      <3> DEFINE r == [call[c] EXCEPT !.pc = "confirming"]
      <3>1. "pc" \in DOMAIN call[c]
        BY DEF StoreInv
      <3>2. /\ r.pc = "confirming" /\ r.id = call[c].id /\ r.next = call[c].next
        BY <2>2, <3>1
      <3>3. r # Idle
        BY <3>2 DEF Idle
      <3>4. call' = [call EXCEPT ![c] = r]
        BY <2>5
      <3>5. r.id \in landed' \/ OverdueThen(r.id, r.next)
        <4>1. /\ Current.revision \in Nat /\ r.next.revision = Current.revision + 1
          BY <2>0, <2>5, <3>2, SwapIsNext
        <4>2. CASE call[c].id \in landed'
          BY <3>2, <4>2
        <4>3. CASE /\ durable /\ UNCHANGED kept
                   /\ lost' = lost \cup {[id |-> call[c].id,
                                          revision |-> call[c].next.revision]}
          <5>1. Current' = Current
            BY <2>1, <4>3 DEF Current, kept
          <5> QED BY <2>1, <3>2, <4>1, <4>3, <5>1 DEF OverdueThen
        <4> QED BY <2>1, <2>5, <4>2, <4>3 DEF Keep
      <3> HIDE DEF r
      <3>6. QED
        BY <1>1, <2>1, <2>3, <2>5, <3>2, <3>3, <3>4, <3>5, GoesOn
    <2>6. CASE /\ ~Matches(call[c]) /\ UNCHANGED told
               /\ call' = [call EXCEPT ![c] =
                        Loading(call[c].id, call[c].job, call[c].attempt + 1)]
      <3> DEFINE r == Loading(call[c].id, call[c].job, call[c].attempt + 1)
      <3>1. r.pc = "loading" /\ r.id = call[c].id /\ r # Idle
        BY DEF Loading, Idle
      <3>2. call' = [call EXCEPT ![c] = r]
        BY <2>6
      <3> HIDE DEF r
      <3>3. QED
        <4>1. /\ Live(c) /\ call[c].id \notin landed
              /\ UNCHANGED <<stored, landed, durable, adrift, calls, told>> /\ Retained
          <5>1. ~Matches(call[c])
            BY <2>6
          <5>2. landed' = landed /\ stored' = stored
            BY <2>1, <5>1 DEF Keep, kept
          <5>3. QED
            BY <2>1, <2>2, <2>3, <2>6, <5>2
        <4>2. QED
          BY <1>1, <3>1, <3>2, <4>1, GoesOn
    <2>7. CASE ~Matches(call[c]) /\ Answer(c, "conflict")
      <3>0. ~Matches(call[c])
        BY <2>7
      <3>1. landed' = landed /\ stored' = stored
        BY <2>1, <3>0 DEF Keep, kept
      <3>3. Live(c) /\ call[c].id \notin landed
        BY <2>1, <2>2
      <3>4. UNCHANGED <<durable, adrift, calls>> /\ Retained
        BY <2>1, <2>3
      <3>5. Answer(c, "conflict")
        BY <2>7
      <3>2. QED
        BY <1>1, <3>1, <3>3, <3>4, <3>5, Ends
    <2>8. QED
      BY <1>6, <2>4, <2>5, <2>6, <2>7 DEF Swap
  <1>7. ASSUME NEW c \in Callers, Confirm(c) PROVE AnswerInv'
    <2>1. /\ call[c].pc = "confirming" /\ Live(c)
          /\ UNCHANGED <<stored, landed, durable, losses, adrift, calls>> /\ Retained
          /\ Answer(c, IF Confirms(call[c]) THEN "done" ELSE "unconfirmed")
      BY <1>7, NothingDropped DEF Confirm, kept, asked, Live
    <2>2. Confirms(call[c]) => call[c].id \in landed \/ call[c].id \in outrun'
      <3>1. Confirms(call[c]) => ~Overdue(call[c].id, call[c].next)
        BY CurrentIsSound DEF Confirms, Overdue, Current
      <3> QED BY <2>1, <3>1 DEF AnswerInv, AcknowledgedKept, losses
    <2>3. CASE Confirms(call[c])
      BY <1>1, <2>1, <2>2, <2>3, Ends
    <2>4. CASE ~Confirms(call[c])
      BY <1>1, <2>1, <2>4, Ends
    <2>5. QED
      BY <2>3, <2>4
  <1>8. ASSUME NEW c \in Callers, Stop(c) PROVE AnswerInv'
    <2>1. /\ Live(c) /\ Answer(c, "stopped")
          /\ UNCHANGED <<stored, landed, durable, calls>> /\ Retained
          /\ \/ UNCHANGED adrift
             \/ adrift' = adrift \cup {call[c]} /\ call[c].id \notin landed
      BY <1>8, NothingDropped DEF Stop, kept, AnswerInv, CallsTyped, NumbersKept
    <2>2. QED
      BY <1>1, <2>1, Ends
  <1>9. ASSUME NEW p \in adrift, Land(p) PROVE AnswerInv'
    <2>0. p \in Pending
      BY DEF Pending
    <2>1. /\ adrift' = adrift \ {p} /\ UNCHANGED <<call, calls, told, durable>>
          /\ landed \subseteq landed' /\ landed' \subseteq landed \cup {p.id}
          /\ Retained
      BY <1>9, <2>0, KeepRetains DEF Land, Keep, kept, asked
    <2>2. p.id \in 1..calls /\ told[p.id] = "stopped" /\ p.id \notin landed
      BY DEF AnswerInv, NumbersKept
    <2>3. CallsTyped'
      BY <2>1, <2>2 DEF AnswerInv, CallsTyped, Live
    <2>4. NumbersKept'
      BY <2>1, <2>2 DEF AnswerInv, NumbersKept, Live
    <2>5. AcknowledgedKept'
      BY <2>1 DEF AnswerInv, AcknowledgedKept, Retained
    <2>6. AnswersAreTrue'
      BY <2>1, <2>2 DEF AnswerInv, AnswersAreTrue, Retained
    <2>7. QED
      BY <2>3, <2>4, <2>5, <2>6 DEF AnswerInv
  <1>10. CASE Clear
    <2>1. /\ ~durable /\ UNCHANGED <<call, adrift, calls, told, durable, losses, landed>>
      BY <1>10 DEF Clear, asked
    <2>2. QED
      BY <2>1 DEF AnswerInv, CallsTyped, NumbersKept, AcknowledgedKept,
                  AnswersAreTrue, Live, Overdue, losses
  <1>11. QED
    <2>2. NextPage => UNCHANGED <<stored, call, adrift, calls, landed, losses, told, durable, life>>
      BY DEF NextPage, kept, asked
    <2>3. ASSUME NEW kind, FirstPage(kind)
          PROVE  UNCHANGED <<stored, call, adrift, calls, landed, losses, told, durable, life>>
      BY <2>3 DEF FirstPage, kept, asked
    <2>4. UNCHANGED vars
            => UNCHANGED <<stored, call, adrift, calls, landed, losses, told, durable, life>>
      BY DEF vars, losses
    <2>5. QED
      BY <1>3, <1>4, <1>5, <1>6, <1>7, <1>8, <1>9, <1>10, <2>2, <2>3, <2>4 DEF Next

\* A call that was answered `done' has been committed, unless its adapter
\* dropped the write and another's commit has taken the revision it was to have;
\* one reported as refused or lost to its competitors never was and never will
\* be.  Whatever the adapter drops, and however calls overlap.
THEOREM AnswersHold == Spec => []AnswersAreTrue
  <1>1. AnswerInv => AnswersAreTrue
    BY DEF AnswerInv
  <1>2. QED
    BY <1>1, StoreInvInit, StoreStep, AnswerInit, AnswerStep, PTL DEF Spec

-----------------------------------------------------------------------------
(* What has been told of the market is not taken back.                     *)

LEMMA TurnTakesNothingBack ==
    ASSUME StoreInv, Turn, stored # None, stored' # None, stored' # stored
    PROVE  /\ \A o \in stored.offers, n \in stored'.offers :
                 o.hash = n.hash =>
                     /\ n.terms = o.terms
                     /\ Settled(o) => n.state = o.state /\ n.by = o.by
           /\ \A c \in stored.checkpoints, d \in stored'.checkpoints :
                 c.key = d.key => d = c \/ Newer(d, c)
  <1>1. PICK p \in Pending : Commits(Current, p.job, stored')
    BY DEF Turn, kept, Made
  <1>2. Current = stored
    BY DEF Current
  <1> QED BY <1>1, <1>2 DEF Commits, Follows, Forward

\* Whatever stale, fresh or contradicting pages are committed, in whatever
\* order, the terms and the settlement of a row and the watermark of an
\* account are never taken back while the store has them.
THEOREM SettlementsStand == Spec => NothingTakenBack
  <1>1. StoreInv /\ Turn =>
          [stored # None /\ stored' # None =>
             \A o \in stored.offers, n \in stored'.offers :
                o.hash = n.hash =>
                    /\ n.terms = o.terms
                    /\ Settled(o) => n.state = o.state /\ n.by = o.by]_stored
    BY TurnTakesNothingBack
  <1>2. StoreInv /\ Turn =>
          [stored # None /\ stored' # None =>
             \A c \in stored.checkpoints, d \in stored'.checkpoints :
                c.key = d.key => d = c \/ Newer(d, c)]_stored
    BY TurnTakesNothingBack
  <1>3. Spec => SettledStays
    BY <1>1, StoreInvInit, StoreStep, PTL DEF Spec, SettledStays
  <1>4. Spec => WatermarksForward
    BY <1>2, StoreInvInit, StoreStep, PTL DEF Spec, WatermarksForward
  <1> QED BY <1>3, <1>4, PTL DEF NothingTakenBack

-----------------------------------------------------------------------------
(* No announcement is forgotten.                                           *)

CountInv ==
    /\ counted \in Nat
    /\ counted <= Cardinality(landed)
    /\ stored = None => counted = 0
    /\ NothingForgotten

LEMMA CountInit == Init => CountInv
  BY FS_EmptySet DEF Init, CountInv, NothingForgotten

LEMMA CountStep ==
    ASSUME StoreInv, AnswerInv, CountInv, Turn
    PROVE  CountInv'
  <1>1. IsFiniteSet(landed) /\ Cardinality(landed) \in Nat
    <2>1. IsFiniteSet(1..calls)
      BY FS_Interval DEF AnswerInv, CallsTyped
    <2> QED BY <2>1, FS_Subset, FS_CardinalityType DEF AnswerInv, CallsTyped
  <1>2. CASE UNCHANGED <<kept, life>>
    BY <1>2 DEF CountInv, NothingForgotten, kept
  <1>3. CASE stored' = None /\ counted' = 0 /\ UNCHANGED landed
    BY <1>1, <1>3 DEF CountInv, NothingForgotten
  <1>4. ASSUME NEW p \in Pending, Made(p) PROVE CountInv'
    <2>1. p.id \notin landed
      BY DEF Pending, AnswerInv, NumbersKept
    <2>2. Cardinality(landed') = Cardinality(landed) + 1
      BY <1>1, <1>4, <2>1, FS_AddElement DEF Made
    <2>3. /\ counted' \in Nat /\ counted' <= Cardinality(landed')
          /\ counted' = counted + (IF IsNew(Current, p.job) THEN 1 ELSE 0)
      BY <1>1, <1>4, <2>2 DEF Made, CountInv
    <2>4. stored' # None /\ Commits(Current, p.job, stored')
      BY <1>4 DEF Made
    <2>5. "observations" \notin stored'.dropped => Sightings(stored'.observations) = counted'
      <3> SUFFICES ASSUME "observations" \notin stored'.dropped
                   PROVE  Sightings(stored'.observations) = counted'
        OBVIOUS
      <3>1. /\ "observations" \notin Current.dropped
            /\ Sightings(stored'.observations) =
                 Sightings(Current.observations) + (IF IsNew(Current, p.job) THEN 1 ELSE 0)
        BY <2>4 DEF Commits
      <3>2. CASE stored = None
        BY <2>3, <3>1, <3>2, SightingsOfNone DEF Current, EmptyEnvelope, CountInv
      <3>3. CASE stored # None
        BY <2>3, <3>1, <3>3 DEF Current, CountInv, NothingForgotten
      <3> QED BY <3>2, <3>3
    <2>6. NothingForgotten'
      BY <2>5 DEF NothingForgotten
    <2> QED BY <2>3, <2>4, <2>6 DEF CountInv
  <1> QED BY <1>2, <1>3, <1>4 DEF Turn

-----------------------------------------------------------------------------
(* The rest of the types.                                                  *)

Answers == {"nothing", "done", "refused", "conflict", "unconfirmed", "stopped"}

TypesInv ==
    /\ durable \in BOOLEAN
    /\ stops \in 0..MaxStops
    /\ told \in [1..MaxCalls -> Answers]

LEMMA TypesInit == Init => TypesInv
  <1>1. 0 \in 0..MaxStops
    BY StorageAssumption
  <1>2. Init => told \in [1..MaxCalls -> Answers]
    BY DEF Init, Answers
  <1> QED BY <1>1, <1>2 DEF Init, TypesInv

LEMMA TypesStep == TypesInv /\ [Next]_vars => TypesInv'
  <1> SUFFICES ASSUME TypesInv, [Next]_vars PROVE TypesInv'
    OBVIOUS
  <1>1. ASSUME NEW c \in Callers, NEW job \in Jobs, Start(c, job) PROVE TypesInv'
    BY <1>1 DEF Start, TypesInv, Answers
  <1>2. ASSUME NEW c \in Callers, Load(c) PROVE TypesInv'
    BY <1>2 DEF Load, Answer, TypesInv, Answers, asked
  <1>3. ASSUME NEW c \in Callers, Swap(c) PROVE TypesInv'
    BY <1>3 DEF Swap, Answer, TypesInv, Answers, asked
  <1>4. ASSUME NEW c \in Callers, Confirm(c) PROVE TypesInv'
    BY <1>4 DEF Confirm, Answer, TypesInv, Answers, asked
  <1>5. ASSUME NEW c \in Callers, Stop(c) PROVE TypesInv'
    <2>1. /\ stops < MaxStops /\ stops' = stops + 1 /\ UNCHANGED durable
          /\ told' = [told EXCEPT ![call[c].id] = "stopped"]
      BY <1>5 DEF Stop, Answer
    <2>2. MaxStops \in Nat
      BY StorageAssumption
    <2>3. stops' \in 0..MaxStops
      BY <2>1, <2>2 DEF TypesInv
    <2>4. told' \in [1..MaxCalls -> Answers]
      BY <2>1 DEF TypesInv, Answers
    <2> QED BY <2>1, <2>3, <2>4 DEF TypesInv
  <1>6. ASSUME NEW p \in adrift, Land(p) PROVE TypesInv'
    BY <1>6 DEF Land, TypesInv, asked
  <1>7. CASE Clear \/ NextPage \/ UNCHANGED vars
    BY <1>7 DEF Clear, NextPage, vars, TypesInv, asked
  <1>8. ASSUME NEW kind, FirstPage(kind) PROVE TypesInv'
    BY <1>8 DEF FirstPage, TypesInv, asked
  <1> QED BY <1>1, <1>2, <1>3, <1>4, <1>5, <1>6, <1>7, <1>8 DEF Next

-----------------------------------------------------------------------------
(* One read, page after page, of one snapshot.                             *)

LEMMA PartOfAll ==
    ASSUME NEW T, NEW shot \in Seq(T), NEW k \in 1..Len(shot)
    PROVE  /\ SubSeq(shot, 1, k) \in Seq(T)
           /\ Len(SubSeq(shot, 1, k)) = k
           /\ \A i \in 1..k : SubSeq(shot, 1, k)[i] = shot[i]
           /\ IsPrefix(SubSeq(shot, 1, k), shot)
           /\ k = Len(shot) => SubSeq(shot, 1, k) = shot
  <1> DEFINE part == SubSeq(shot, 1, k)
  <1>1. part \in Seq(T) /\ Len(part) = k /\ \A i \in 1..k : part[i] = shot[i]
    BY SubSeqProperties
  <1>2. SubSeq(part, 1, k) = part
    OBVIOUS
  <1>3. IsPrefix(part, shot)
    BY <1>1, <1>2 DEF IsPrefix
  <1>4. k = Len(shot) => part = shot
    BY <1>1
  <1> QED BY <1>1, <1>3, <1>4

\* A page takes a read further along the same list.
LEMMA NextPart ==
    ASSUME NEW T, NEW shot \in Seq(T), NEW k \in 1..Len(shot),
           NEW rest \in Seq(T), Len(rest) = Len(shot) - k,
           \A i \in 1..(Len(shot) - k) : shot[k + i] = rest[i],
           NEW n \in 1..Len(rest)
    PROVE  SubSeq(shot, 1, k) \o SubSeq(rest, 1, n) = SubSeq(shot, 1, k + n)
  <1> DEFINE a == SubSeq(shot, 1, k)
             b == SubSeq(rest, 1, n)
             c == SubSeq(shot, 1, k + n)
  <1>1. k + n \in 1..Len(shot)
    OBVIOUS
  <1>2. a \in Seq(T) /\ Len(a) = k /\ \A i \in 1..k : a[i] = shot[i]
    BY PartOfAll
  <1>3. b \in Seq(T) /\ Len(b) = n /\ \A i \in 1..n : b[i] = rest[i]
    BY PartOfAll
  <1>4. c \in Seq(T) /\ Len(c) = k + n /\ \A i \in 1..(k + n) : c[i] = shot[i]
    BY <1>1, PartOfAll
  <1>0. k \in Nat /\ n \in Nat /\ k \in Int /\ n \in Int
    OBVIOUS
  <1> HIDE DEF a, b, c
  <1>5. /\ a \o b \in Seq(T) /\ Len(a \o b) = k + n
        /\ \A i \in 1..(k + n) : (a \o b)[i] = IF i <= k THEN a[i] ELSE b[i - k]
    <2>1. /\ a \o b \in Seq(T) /\ Len(a \o b) = Len(a) + Len(b)
          /\ \A i \in 1..(Len(a) + Len(b)) :
                (a \o b)[i] = IF i <= Len(a) THEN a[i] ELSE b[i - Len(a)]
      BY <1>2, <1>3, ConcatProperties
    <2>2. Len(a) = k /\ Len(b) = n
      BY <1>2, <1>3
    <2> QED BY <2>1, <2>2
  <1>6. \A i \in 1..(k + n) : (a \o b)[i] = c[i]
    <2> TAKE i \in 1..(k + n)
    <2>1. CASE i <= k
      <3>1. i \in 1..k
        BY <1>0, <2>1
      <3>2. (a \o b)[i] = a[i]
        BY <1>5, <2>1
      <3>3. a[i] = shot[i]
        BY <1>2, <3>1
      <3>4. c[i] = shot[i]
        BY <1>4
      <3> QED BY <3>2, <3>3, <3>4
    <2>2. CASE i > k
      <3>1. i - k \in 1..n /\ i - k \in 1..(Len(shot) - k) /\ k + (i - k) = i
        BY <2>2
      <3>2. shot[i] = rest[i - k]
        BY <3>1
      <3>3. ~(i <= k)
        BY <1>0, <2>2
      <3>4. (a \o b)[i] = b[i - k]
        BY <1>5, <3>3
      <3>5. b[i - k] = rest[i - k]
        BY <1>3, <3>1
      <3>6. c[i] = shot[i]
        BY <1>4
      <3> QED BY <3>2, <3>4, <3>5, <3>6
    <2>3. i <= k \/ i > k
      BY <1>0
    <2> QED BY <2>1, <2>2, <2>3
  <1>7. a \o b = c
    BY <1>4, <1>5, <1>6, SeqEqual
  <1> QED BY <1>7 DEF a, b, c

\* A list in its order is a sequence of its rows, each of them once.
LEMMA ViewIs ==
    ASSUME NEW env, EnvelopeSound(env), NEW kind \in Kinds
    PROVE  /\ InLine(Rows(kind, env))
           /\ Len(View(kind, env)) = Cardinality(Rows(kind, env))
           /\ View(kind, env) \in Seq(Rows(kind, env))
           /\ View(kind, env) = InOrder(Rows(kind, env))
  <1> DEFINE rows == Rows(kind, env)
  <1>1. InLine(rows)
    BY RowsInLine
  <1>2. rows \in SUBSET rows
    OBVIOUS
  <1> HIDE DEF rows
  <1>3. Cardinality(rows) \in Nat /\ InOrder(rows) \in [1..Cardinality(rows) -> rows]
    BY <1>1, <1>2, InOrderIs
  <1>4. InOrder(rows) \in Seq(rows) /\ Len(InOrder(rows)) = Cardinality(rows)
    BY <1>3
  <1> QED BY <1>1, <1>4 DEF rows, View

\* A cursor stands at row k of a list.
StandsAt(shot, at, k) == k \in 1..Len(shot) /\ at.after = shot[k].key

\* The n rows of a page are the ones that follow the first k of a list.
Prolongs(shot, rest, k, n) ==
    /\ SubSeq(shot, 1, k) \o SubSeq(rest, 1, n) = SubSeq(shot, 1, k + n)
    /\ k + n \in 1..Len(shot)
    /\ n = Len(rest) <=> k + n = Len(shot)
    /\ rest[n] = shot[k + n]

LEMMA PageProlongs ==
    ASSUME NEW env, EnvelopeSound(env), NEW kind \in Kinds, NEW at, NEW k,
           StandsAt(View(kind, env), at, k),
           NEW n \in 1..Len(Beyond(kind, env, at))
    PROVE  Prolongs(View(kind, env), Beyond(kind, env, at), k, n)
  <1> DEFINE rows == Rows(kind, env)
             left == {r \in rows : Below(at.after, r.key)}
             shot == View(kind, env)
             rest == Beyond(kind, env, at)
             N == Cardinality(rows)
  <1>0. k \in 1..Len(shot) /\ at.after = shot[k].key
    BY DEF StandsAt
  <1>1. InLine(rows) /\ shot \in Seq(rows) /\ Len(shot) = N /\ shot = InOrder(rows)
    BY ViewIs
  <1>2. N \in Nat
    BY <1>1, FS_CardinalityType DEF InLine
  <1>3. left = {r \in rows : Below(InOrder(rows)[k].key, r.key)} /\ k \in 1..N
    BY <1>0, <1>1
  <1>4. rest = InOrder(left)
    BY DEF Beyond
  <1> HIDE DEF rows, left, shot
  <1>5. /\ Cardinality(left) = N - k
        /\ InOrder(left) \in [1..(N - k) -> rows]
        /\ \A i \in 1..(N - k) : InOrder(rows)[k + i] = InOrder(left)[i]
    <2>1. k \in 1..Cardinality(rows) /\ InLine(rows)
      BY <1>1, <1>3
    <2>2. left = {r \in rows : Below(InOrder(rows)[k].key, r.key)}
      BY <1>3
    <2> QED BY <2>1, <2>2, BeyondIsTheRest
  <1> HIDE DEF N, rest
  <1>6. InOrder(left) \in Seq(rows) /\ Len(InOrder(left)) = N - k
    <2>1. N - k \in Nat
      BY <1>2, <1>3
    <2> QED BY <1>5, <2>1
  <1>7. /\ rest \in Seq(rows) /\ Len(rest) = Len(shot) - k
        /\ \A i \in 1..(Len(shot) - k) : shot[k + i] = rest[i]
    BY <1>1, <1>4, <1>5, <1>6
  <1>8. n \in 1..Len(rest) /\ k \in 1..Len(shot)
    BY <1>0 DEF rest
  <1>9. SubSeq(shot, 1, k) \o SubSeq(rest, 1, n) = SubSeq(shot, 1, k + n)
    BY <1>1, <1>7, <1>8, NextPart
  <1>10. /\ k + n \in 1..Len(shot)
         /\ n = Len(rest) <=> k + n = Len(shot)
         /\ rest[n] = shot[k + n]
    BY <1>1, <1>2, <1>7, <1>8
  <1>11. Prolongs(shot, rest, k, n)
    BY <1>9, <1>10 DEF Prolongs
  <1> QED BY <1>11 DEF rest, shot

\* An accepted cursor is of this life and of this revision of the list, so the
\* list is the one the read began with, and the cursor stands where it is.
Times == [hash : Int, last : Int]

\* What is there was last observed no earlier than when the read began.
Behind(kind, since) ==
    kind # "participants" => NeverEarlier(Sights(Current.offers), since)

Stands(k) ==
    LET shot == View(reading.kind, Current)
    IN  /\ reading.shot = shot
        /\ reading.got = SubSeq(shot, 1, k)
        /\ reading.cursor.after = shot[k].key
        /\ Behind(reading.kind, reading.since)

Resumable ==
    /\ reading.cursor.revision <= RevisionOf(reading.kind, Current)
    /\ reading.cursor.revision = RevisionOf(reading.kind, Current) =>
         \E k \in 1..Len(View(reading.kind, Current)) : Stands(k)

ReadInv ==
    /\ reading.pc \in {"idle", "paging", "complete", "refused"}
    /\ reading.pc = "complete" =>
         reading.got = reading.shot /\ NeverEarlier(reading.sights, reading.since)
    /\ reading.pc = "paging" =>
         /\ reading.kind \in Kinds
         /\ reading.since \subseteq Times /\ NeverEarlier(reading.sights, reading.since)
         /\ IsPrefix(reading.got, reading.shot)
         /\ reading.cursor.key \in Nat /\ reading.cursor.key <= life
         /\ reading.cursor.revision \in Nat
         /\ reading.cursor.key = life => Resumable

LEMMA ReadInit == Init => ReadInv
  BY DEF Init, ReadInv, Idle

LEMMA RevisionIs ==
    ASSUME NEW env, EnvelopeSound(env), NEW kind \in Kinds
    PROVE  RevisionOf(kind, env) \in Nat
  BY DEF EnvelopeSound, RevisionsInOrder, RevisionOf

\* What is read by now is a part of what the list was, and is of this moment.
LEMMA PageKeeps ==
    ASSUME StoreInv, UNCHANGED <<stored, life>>, NEW kind \in Kinds,
           NEW rest, NEW n, NEW read, Page(kind, rest, n, read),
           read.shot = View(kind, Current), read.since \subseteq Times,
           NeverEarlier(read.sights, read.since), Behind(kind, read.since),
           NEW k \in 1..Len(View(kind, Current)),
           read.got \o SubSeq(rest, 1, n) = SubSeq(View(kind, Current), 1, k),
           n = Len(rest) <=> k = Len(View(kind, Current)),
           rest[n] = View(kind, Current)[k]
    PROVE  ReadInv'
  <1> DEFINE shot == View(kind, Current)
             row == shot[k]
  <1>1. /\ EnvelopeSound(Current) /\ Current.cursorKey = life /\ life \in Nat
        /\ RevisionOf(kind, Current) \in Nat
    BY CurrentIsSound, RevisionIs
  <1>2. Current' = Current
    BY DEF Current
  <1>3. shot \in Seq(Rows(kind, Current))
    BY <1>1, ViewIs
  <1> HIDE DEF shot
  <1>4. /\ IsPrefix(SubSeq(shot, 1, k), shot)
        /\ k = Len(shot) => SubSeq(shot, 1, k) = shot
    <2>1. k \in 1..Len(shot)
      BY DEF shot
    <2> QED BY <1>3, <2>1, PartOfAll
  <1> DEFINE more == Sights(Shown(kind, Current, SubSeq(rest, 1, n)))
  <1>7. NeverEarlier(read.sights \cup more, read.since)
    <2>1. kind # "participants" => more \subseteq Sights(Current.offers)
      BY DEF Sights, Shown
    <2>2. kind = "participants" => more = {}
      BY DEF Sights, Shown
    <2> HIDE DEF more
    <2> QED BY <2>1, <2>2 DEF Behind, NeverEarlier
  <1>8. reading'.since = read.since /\ reading'.sights = read.sights \cup more
    BY DEF Page
  <1> HIDE DEF more
  <1>5. CASE k = Len(shot)
    <2>1. reading'.pc = "complete" /\ reading'.got = SubSeq(shot, 1, k) /\ reading'.shot = shot
      BY <1>5 DEF Page, shot
    <2> QED BY <1>4, <1>5, <1>7, <1>8, <2>1 DEF ReadInv
  <1>6. CASE k # Len(shot)
    <2>1. /\ reading'.pc = "paging" /\ reading'.kind = kind /\ reading'.shot = shot
          /\ reading'.got = SubSeq(shot, 1, k)
          /\ reading'.cursor = Cursor(kind, Current, row)
      BY <1>6 DEF Page, shot
    <2>2. /\ reading'.cursor.key = life /\ reading'.cursor.revision = RevisionOf(kind, Current)
          /\ reading'.cursor.after = row.key
      BY <1>1, <2>1 DEF Cursor
    <2>3. Stands(k)'
      <3>1. Behind(kind, read.since)'
        BY <1>2 DEF Behind
      <3> QED BY <1>2, <1>8, <2>1, <2>2, <3>1 DEF Stands, Behind, shot
    <2>4. Resumable'
      BY <1>1, <1>2, <2>1, <2>2, <2>3 DEF Resumable
    <2> QED BY <1>1, <1>4, <1>7, <1>8, <2>1, <2>2, <2>4 DEF ReadInv
  <1> QED BY <1>5, <1>6

LEMMA FirstPageKeeps ==
    ASSUME StoreInv, NEW kind \in Kinds, FirstPage(kind)
    PROVE  ReadInv'
  <1> DEFINE shot == View(kind, Current)
  <1>1. EnvelopeSound(Current) /\ UNCHANGED <<stored, life>>
    BY CurrentIsSound DEF FirstPage, kept
  <1>2. shot \in Seq(Rows(kind, Current))
    BY <1>1, ViewIs
  <1>3. PICK n \in (IF shot = <<>> THEN {0} ELSE 1..Len(shot)) :
          Page(kind, shot, n, Begun(kind))
    BY DEF FirstPage
  <1>6. /\ Begun(kind).shot = shot /\ Begun(kind).got = <<>> /\ Begun(kind).sights = {}
        /\ Begun(kind).since = Sights(Current.offers)
    BY DEF Begun
  <1>7. /\ Begun(kind).since \subseteq Times /\ Behind(kind, Begun(kind).since)
        /\ NeverEarlier(Begun(kind).sights, Begun(kind).since)
    <2>1. /\ \A o \in Current.offers : o \in Offer
          /\ \A o, p \in Current.offers : o.hash = p.hash => o = p
      BY <1>1 DEF EnvelopeSound, TablesSound, OffersSound
    <2>2. Sights(Current.offers) \subseteq Times
      BY <2>1 DEF Sights, Times, Offer
    <2>3. \A s, f \in Sights(Current.offers) : s.hash = f.hash => s.last >= f.last
      <3> SUFFICES ASSUME NEW o \in Current.offers, NEW p \in Current.offers, o.hash = p.hash
                   PROVE  o.last >= p.last
        BY DEF Sights
      <3> QED BY <2>1 DEF Offer
    <2> QED BY <1>6, <2>2, <2>3 DEF Behind, NeverEarlier
  <1>4. CASE shot = <<>>
    <2>1. n = 0 /\ Len(shot) = 0
      BY <1>3, <1>4
    <2>2. <<>> \o SubSeq(shot, 1, n) = <<>>
      BY <1>4, <2>1
    <2>3. reading'.pc = "complete" /\ reading'.got = shot /\ reading'.shot = shot
      BY <1>3, <1>4, <1>6, <2>1, <2>2 DEF Page
    <2>4. reading'.sights = {}
      <3>1. Shown(kind, Current, SubSeq(shot, 1, n)) = {}
        BY <1>4, <2>1 DEF Shown
      <3> QED BY <1>3, <1>6, <3>1 DEF Page, Sights
    <2> QED BY <2>3, <2>4 DEF ReadInv, NeverEarlier
  <1>5. CASE shot # <<>>
    <2>1. n \in 1..Len(shot)
      BY <1>3, <1>5
    <2>2. SubSeq(shot, 1, n) \in Seq(Rows(kind, Current))
      BY <1>2, <2>1, PartOfAll
    <2>3. <<>> \o SubSeq(shot, 1, n) = SubSeq(shot, 1, n)
      BY <2>2, ConcatEmptySeq
    <2> QED BY <1>1, <1>3, <1>6, <1>7, <2>1, <2>3, PageKeeps
  <1> QED BY <1>4, <1>5

LEMMA NextPageKeeps ==
    ASSUME StoreInv, ReadInv, NextPage
    PROVE  ReadInv'
  <1> DEFINE kind == reading.kind
             shot == View(kind, Current)
             rest == Beyond(kind, Current, reading.cursor)
  <1>1. /\ EnvelopeSound(Current) /\ Current.cursorKey = life
        /\ UNCHANGED <<stored, life>> /\ reading.pc = "paging" /\ kind \in Kinds
    BY CurrentIsSound DEF NextPage, kept, ReadInv
  <1>2. CASE ~Accepts(kind, Current, reading.cursor)
    <2>1. reading' = [pc |-> "refused"]
      BY <1>2 DEF NextPage
    <2> QED BY <2>1 DEF ReadInv
  <1>3. CASE Accepts(kind, Current, reading.cursor)
    <2>1. PICK n \in 1..Len(rest) : Page(kind, rest, n, reading)
      BY <1>3 DEF NextPage
    <2>2. PICK k \in 1..Len(shot) : Stands(k)
      BY <1>1, <1>3 DEF Accepts, ReadInv, Resumable
    <2>3. /\ reading.shot = shot /\ reading.got = SubSeq(shot, 1, k)
          /\ reading.cursor.after = shot[k].key /\ Behind(kind, reading.since)
      BY <2>2 DEF Stands
    <2>9. reading.since \subseteq Times /\ NeverEarlier(reading.sights, reading.since)
      BY <1>1 DEF ReadInv
    <2>4. StandsAt(View(kind, Current), reading.cursor, k)
      BY <2>3 DEF StandsAt
    <2>5. n \in 1..Len(Beyond(kind, Current, reading.cursor))
      BY <2>1
    <2>6. Prolongs(View(kind, Current), Beyond(kind, Current, reading.cursor), k, n)
      <3> HIDE DEF kind
      <3> QED BY <1>1, <2>4, <2>5, PageProlongs
    <2>7. /\ SubSeq(shot, 1, k) \o SubSeq(rest, 1, n) = SubSeq(shot, 1, k + n)
          /\ k + n \in 1..Len(shot)
          /\ n = Len(rest) <=> k + n = Len(shot)
          /\ rest[n] = shot[k + n]
      BY <2>6 DEF Prolongs
    <2> HIDE DEF shot, rest
    <2> HIDE DEF kind
    <2>8. /\ Page(kind, rest, n, reading) /\ reading.shot = shot
          /\ reading.got \o SubSeq(rest, 1, n) = SubSeq(shot, 1, k + n)
      BY <2>1, <2>3, <2>7
    <2> QED BY <1>1, <2>3, <2>7, <2>8, <2>9, PageKeeps DEF shot
  <1> QED BY <1>2, <1>3

\* Whatever is committed or cleared meanwhile, an accepted cursor goes on
\* where the read stopped.
LEMMA TurnKeepsReads ==
    ASSUME StoreInv, StoreInv', ReadInv, Turn, UNCHANGED reading
    PROVE  ReadInv'
  <1>1. CASE reading.pc # "paging"
    BY <1>1 DEF ReadInv
  <1>2. CASE reading.pc = "paging"
    <2>1. /\ reading.kind \in Kinds /\ IsPrefix(reading.got, reading.shot)
          /\ reading.cursor.key \in Nat /\ reading.cursor.key <= life
          /\ reading.cursor.revision \in Nat
          /\ reading.cursor.key = life => Resumable
          /\ life \in Nat /\ reading.since \subseteq Times
          /\ NeverEarlier(reading.sights, reading.since)
      BY <1>2, CurrentIsSound DEF ReadInv
    <2>2. CASE UNCHANGED <<kept, life>>
      BY <1>2, <2>1, <2>2 DEF ReadInv, Resumable, Stands, Behind, Current, kept
    <2>3. CASE life' = life + 1
      BY <1>2, <2>1, <2>3 DEF ReadInv
    <2>4. ASSUME UNCHANGED life, NEW p \in Pending, Made(p) PROVE ReadInv'
      <3> DEFINE kind == reading.kind
                 was == RevisionOf(kind, Current)
                 is == RevisionOf(kind, stored')
      <3>1. Current' = stored' /\ Commits(Current, p.job, stored')
        BY <2>4 DEF Made, Current
      <3>2. EnvelopeSound(Current) /\ EnvelopeSound(stored')
        BY <3>1, CurrentIsSound DEF Commits
      <3>3. Named(was, is, Rows(kind, stored') = Rows(kind, Current))
        BY <2>1, <3>1, <3>2, RowsNamed
      <3>4. was \in Nat /\ is \in Nat
        BY <2>1, <3>2, RevisionIs
      <3>5. was <= is /\ (was = is => View(kind, stored') = View(kind, Current))
        BY <3>3, <3>4 DEF Named, View
      <3>6. reading.cursor.key = life => Resumable'
        <4> SUFFICES ASSUME Resumable PROVE Resumable'
          BY <2>1
        <4>1. reading.cursor.revision <= is
          BY <2>1, <3>4, <3>5 DEF Resumable
        <4>2. ASSUME reading.cursor.revision = is
              PROVE  \E k \in 1..Len(View(kind, stored')) : Stands(k)'
          <5>1. was = is /\ reading.cursor.revision = was
            BY <2>1, <3>4, <3>5, <4>2 DEF Resumable
          <5>2. PICK k \in 1..Len(View(kind, Current)) : Stands(k)
            BY <5>1 DEF Resumable
          <5>4. Behind(kind, reading.since)'
            <6> SUFFICES ASSUME kind # "participants", NEW n \in stored'.offers,
                                NEW f \in reading.since, n.hash = f.hash
                         PROVE  n.last >= f.last
              BY <3>1 DEF Behind, NeverEarlier, Sights
            <6>1. FactsOf(stored'.offers) = FactsOf(Current.offers)
              BY <3>1, <3>2, <3>4, <5>1 DEF Commits, Named, RevisionOf
            <6>2. PICK o \in Current.offers : Facts(o) = Facts(n)
              BY <6>1 DEF FactsOf
            <6>3. o \in Offer /\ n \in Offer
              BY <3>2 DEF EnvelopeSound, TablesSound, OffersSound
            <6>4. o.hash = n.hash
              <7>1. Facts(o).hash = o.hash /\ Facts(n).hash = n.hash
                BY <6>3 DEF Facts, Offer
              <7> QED BY <6>2, <7>1
            <6>5. o.last \in Int /\ n.last \in Int /\ o.last <= n.last
              BY <3>1, <6>4 DEF Commits, Follows
            <6>6. o.last >= f.last
              <7>1. Behind(kind, reading.since)
                BY <5>2 DEF Stands
              <7>2. [hash |-> o.hash, last |-> o.last] \in Sights(Current.offers)
                BY DEF Sights
              <7> QED BY <6>4, <7>1, <7>2 DEF Behind, NeverEarlier
            <6>7. f.last \in Int
              BY <2>1 DEF Times
            <6> QED BY <6>5, <6>6, <6>7
          <5>3. Stands(k)'
            BY <3>1, <3>5, <5>1, <5>2, <5>4 DEF Stands
          <5> QED BY <3>5, <5>1, <5>2, <5>3
        <4> QED BY <3>1, <4>1, <4>2 DEF Resumable
      <3> QED BY <1>2, <2>1, <2>4, <3>6 DEF ReadInv
    <2> QED BY <2>2, <2>3, <2>4 DEF Turn
  <1> QED BY <1>1, <1>2

LEMMA ReadStep ==
    ASSUME StoreInv, StoreInv', ReadInv, [Next]_vars, Turn
    PROVE  ReadInv'
  <1>1. CASE UNCHANGED reading
    BY <1>1, TurnKeepsReads
  <1>2. CASE NextPage
    BY <1>2, NextPageKeeps
  <1>3. ASSUME NEW kind \in Kinds, FirstPage(kind) PROVE ReadInv'
    BY <1>3, FirstPageKeeps
  <1>4. ASSUME NEW c \in Callers, NEW job \in Jobs, Start(c, job) PROVE UNCHANGED reading
    BY <1>4 DEF Start
  <1>5. ASSUME NEW c \in Callers, Load(c) \/ Swap(c) \/ Confirm(c) \/ Stop(c)
        PROVE  UNCHANGED reading
    BY <1>5 DEF Load, Swap, Confirm, Stop
  <1>6. ASSUME NEW p \in adrift, Land(p) PROVE UNCHANGED reading
    BY <1>6 DEF Land
  <1>7. Clear \/ UNCHANGED vars => UNCHANGED reading
    BY DEF Clear, vars
  <1> QED BY <1>1, <1>2, <1>3, <1>4, <1>5, <1>6, <1>7 DEF Next

-----------------------------------------------------------------------------
(* What a caller of the store may rely on, in one.                         *)

StoreWholeInv == StoreInv /\ AnswerInv /\ CountInv /\ TypesInv /\ ReadInv

LEMMA StoreWholeStep == StoreWholeInv /\ [Next]_vars => StoreWholeInv'
  <1> SUFFICES ASSUME StoreWholeInv, [Next]_vars PROVE StoreWholeInv'
    OBVIOUS
  <1>1. StoreInv /\ AnswerInv /\ CountInv /\ TypesInv /\ ReadInv
    BY DEF StoreWholeInv
  <1>2. StoreInv' /\ Turn
    BY <1>1, StoreStep
  <1>3. AnswerInv'
    BY <1>1, AnswerStep
  <1>4. CountInv'
    BY <1>1, <1>2, CountStep
  <1>5. TypesInv'
    BY <1>1, TypesStep
  <1>6. ReadInv'
    BY <1>1, <1>2, ReadStep
  <1> QED BY <1>2, <1>3, <1>4, <1>5, <1>6 DEF StoreWholeInv

LEMMA StoreTypes ==
    ASSUME StoreWholeInv
    PROVE  TypeOK
  <1>0. StoreInv /\ AnswerInv /\ CountInv /\ TypesInv /\ ReadInv
    BY DEF StoreWholeInv
  <1>1. stored # None => Opens(stored) /\ stored.cursorKey = life
    BY <1>0, SoundOpens DEF StoreInv
  <1>2. /\ \A c \in Callers : call[c].pc \in {"idle", "loading", "swapping", "confirming"}
        /\ \A p \in adrift : p.pc = "swapping"
        /\ calls \in 0..MaxCalls
        /\ landed \subseteq 1..calls
    BY <1>0, StorageAssumption DEF AnswerInv, CallsTyped, StoreInv
  <1>3. counted \in 0..calls
    <2>1. calls \in Nat /\ landed \in SUBSET (1..calls) /\ counted \in Nat
      BY <1>0 DEF AnswerInv, CallsTyped, CountInv
    <2>2. IsFiniteSet(1..calls) /\ Cardinality(1..calls) = calls
      BY <2>1, FS_Interval
    <2>3. Cardinality(landed) <= calls /\ Cardinality(landed) \in Nat
      BY <2>1, <2>2, FS_Subset, FS_CardinalityType
    <2> QED BY <1>0, <2>1, <2>3 DEF CountInv
  <1>4. \A id \in 1..MaxCalls :
          told[id] \in {"nothing", "done", "refused", "conflict", "unconfirmed", "stopped"}
    BY <1>0 DEF TypesInv, Answers
  <1> QED BY <1>0, <1>1, <1>2, <1>3, <1>4 DEF TypeOK, StoreInv, TypesInv, ReadInv

LEMMA StoreWords ==
    ASSUME StoreWholeInv
    PROVE  StoreKeepsItsWord
  <1>1. AnswersAreTrue /\ NothingForgotten
    BY DEF StoreWholeInv, AnswerInv, CountInv
  <1>2. OneSnapshot
    BY DEF StoreWholeInv, ReadInv, OneSnapshot
  <1> QED BY <1>1, <1>2, StoreTypes DEF StoreKeepsItsWord

\* Whatever callers overlap, are stopped, retry or land late, the store opens
\* again, answers truly, forgets no announcement and shows one snapshot to a
\* read, whatever was committed, compacted or cleared between its pages.
THEOREM StoreStaysTrue == Spec => []StoreKeepsItsWord
  <1>1. Init => StoreWholeInv
    BY StoreInvInit, AnswerInit, CountInit, TypesInit, ReadInit DEF StoreWholeInv
  <1>2. StoreWholeInv => StoreKeepsItsWord
    BY StoreWords
  <1>3. QED
    BY <1>1, <1>2, StoreWholeStep, PTL DEF Spec

-----------------------------------------------------------------------------
(* The ingestor.  First the catalog it reads.                              *)

WhosOf(rows) == {o.who : o \in rows}

LEMMA FoldKeepsWhos ==
    ASSUME NEW rows, RosterSound(rows)
    PROVE  WhosOf(Fold(rows)) = WhosOf(rows)
  <1>1. \A who \in WhosOf(rows) : Folded(rows, who).who = who
    BY FoldedIs DEF RosterSound, WhosOf
  <1>2. Fold(rows) = {Folded(rows, who) : who \in WhosOf(rows)}
    BY FoldIs DEF WhosOf
  <1> QED BY <1>1, <1>2 DEF WhosOf

\* Committing a page leaves the catalog as it is; an announcement adds nobody
\* but the announced.
LEMMA CatalogAfter ==
    ASSUME NEW env, EnvelopeSound(env), NEW job \in Job, WellFormed(job)
    PROVE  /\ job.kind = "materialize" =>
                /\ After(env, job).observations = env.observations
                /\ After(env, job).catalogRevision = env.catalogRevision
           /\ job.kind = "announce" =>
                WhosOf(After(env, job).observations)
                  \subseteq WhosOf(env.observations) \cup {job.who}
  <1> DEFINE c == Change(env, job)
             e == After(env, job)
             overfull == Cardinality(c.observations) > MaxObservations
             folded == IF overfull THEN Fold(c.observations) ELSE c.observations
             gone == Evicted(folded, MaxObservations, LessRecent)
  <1>1. Develops(env, job, c)
    BY ChangeDevelops
  <1>2. RosterSound(c.observations) /\ c \in Envelope
    BY <1>1 DEF Develops, TablesSound
  <1>3. /\ e.observations = folded \ gone
        /\ ~overfull => e.catalogRevision = c.catalogRevision
    BY <1>2 DEF After, Compact, Envelope
  <1>4. MaxObservations \in Nat
    BY RetentionAssumption
  <1>5. ASSUME job.kind = "materialize"
        PROVE  /\ e.observations = env.observations
               /\ e.catalogRevision = env.catalogRevision
    <2>1. c.observations = env.observations /\ c.catalogRevision = env.catalogRevision
      BY <1>5 DEF EnvelopeSound, TablesSound, Envelope, Change, Materialized
    <2>2. Cardinality(env.observations) <= MaxObservations
      BY DEF EnvelopeSound, WithinRetention
    <2>3. ~overfull /\ folded = env.observations
      <3>1. Cardinality(env.observations) \in Nat
        BY <1>2, <2>1, FS_CardinalityType DEF RosterSound
      <3> QED BY <1>4, <2>1, <2>2, <3>1
    <2>4. gone = {}
      <3> HIDE DEF gone, overfull
      <3>1. Trimmed(folded, gone, MaxObservations)
        BY <1>2, <1>4, <2>1, <2>3, RosterTrimmed DEF RosterSound, gone
      <3> QED BY <2>2, <2>3, <3>1 DEF Trimmed
    <2> QED BY <1>3, <2>1, <2>3, <2>4
  <1>6. ASSUME job.kind = "announce"
        PROVE  WhosOf(e.observations) \subseteq WhosOf(env.observations) \cup {job.who}
    <2>1. c.observations = env.observations
          \/ c.observations = env.observations \cup
                {[who |-> job.who, id |-> job.id, first |-> job.at,
                  last |-> job.at, count |-> 1]}
      BY <1>6 DEF EnvelopeSound, TablesSound, Envelope, Change, Announced
    <2>2. WhosOf(c.observations) \subseteq WhosOf(env.observations) \cup {job.who}
      BY <2>1 DEF WhosOf
    <2>3. WhosOf(folded) = WhosOf(c.observations)
      BY <1>2, FoldKeepsWhos
    <2>4. WhosOf(e.observations) \subseteq WhosOf(folded)
      BY <1>3 DEF WhosOf
    <2> QED BY <2>2, <2>3, <2>4
  <1> QED BY <1>5, <1>6

\* Rows in the order of their addresses, each address once.
Ascends(rows) ==
    \A i, j \in 1..Len(rows) : i < j => rows[i].key[1] < rows[j].key[1]

CatalogRow == [key : Seq(Int), first : Int, last : Int, count : Int]

Addressed == {rows \in Seq(CatalogRow) :
                \A i \in 1..Len(rows) : Len(rows[i].key) = 1 /\ rows[i].key[1] \in Int}

\* The addresses beyond a cursor.
Past(env, at) ==
    {who \in WhosOf(env.observations) : at # Absent => at.after[1] < who}

\* A cursor into the catalog.
OfCatalog(env, at) ==
    at # Absent => /\ at \in CursorRecord /\ Len(at.after) = 1
                   /\ at.revision <= env.catalogRevision

\* Of two rising lists the one with more addresses is behind the other nowhere.
LEMMA MoreIsNoLater ==
    ASSUME NEW S, NEW T, NEW s \in Seq(S), NEW p \in Seq(T),
           \A i \in 1..Len(s) : s[i].key[1] \in Int,
           \A i \in 1..Len(p) : p[i].key[1] \in Int,
           Ascends(s), Ascends(p), AddressesOf(p) \subseteq AddressesOf(s)
    PROVE  \A k \in 1..Len(p) : k <= Len(s) /\ s[k].key[1] <= p[k].key[1]
  <1> DEFINE Late == {k \in 1..Len(p) : ~(k <= Len(s) /\ s[k].key[1] <= p[k].key[1])}
  <1>1. SUFFICES ASSUME Late # {} PROVE FALSE
    OBVIOUS
  <1>2. PICK k \in Late : \A m \in Late : k <= m
    <2>1. Late \in SUBSET Nat
      OBVIOUS
    <2> HIDE DEF Late
    <2> QED BY <1>1, <2>1, LeastNumber
  <1>3. k \in 1..Len(p) /\ Len(p) \in Nat /\ Len(s) \in Nat
    OBVIOUS
  <1>4. PICK j \in 1..Len(s) : s[j].key[1] = p[k].key[1]
    <2>1. p[k].key[1] \in AddressesOf(p)
      BY <1>3 DEF AddressesOf
    <2>2. DOMAIN s = 1..Len(s)
      OBVIOUS
    <2>3. \A x \in AddressesOf(s) : \E j \in 1..Len(s) : s[j].key[1] = x
      BY <2>2 DEF AddressesOf
    <2> QED BY <2>1, <2>3
  <1>5. j < k
    <2>1. CASE k > Len(s)
      BY <1>3, <2>1
    <2>2. CASE k <= Len(s)
      <3>1. s[k].key[1] > p[k].key[1] /\ k \in 1..Len(s)
        BY <1>3, <2>2
      <3>2. j # k /\ ~(k < j)
        BY <1>4, <3>1 DEF Ascends
      <3> QED BY <1>3, <3>2
    <2> QED BY <1>3, <2>1, <2>2
  <1>6. j \in 1..Len(p) /\ j \notin Late
    BY <1>2, <1>3, <1>5
  <1>7. s[j].key[1] <= p[j].key[1]
    BY <1>6
  <1>8. p[j].key[1] < p[k].key[1]
    BY <1>3, <1>5, <1>6 DEF Ascends
  <1>9. s[j].key[1] \in Int /\ p[j].key[1] \in Int /\ p[k].key[1] \in Int
    BY <1>3, <1>6
  <1> QED BY <1>4, <1>7, <1>8, <1>9

-----------------------------------------------------------------------------
(* What a page of the catalog holds.                                       *)

LEMMA ParticipantIs ==
    ASSUME NEW env, EnvelopeSound(env), NEW who \in WhosOf(env.observations)
    PROVE  /\ Participant(env, who).key = <<who>>
           /\ Participant(env, who) \in CatalogRow
  <1> DEFINE rows == {o \in env.observations : o.who = who}
             firsts == {o.first : o \in rows}
             lasts == {o.last : o \in rows}
  <1>1. RosterSound(env.observations)
    BY DEF EnvelopeSound, TablesSound
  <1>2. rows \in Rosters /\ IsFiniteSet(rows) /\ rows # {}
    BY <1>1, FS_Subset DEF RosterSound, Rosters, WhosOf
  <1>3. who \in Int
    BY <1>1 DEF RosterSound, Rosters, Observation, WhosOf
  <1>4. Sightings(rows) \in Int
    BY <1>2, OneMoreSighting
  <1>5. firsts \in SUBSET Int /\ lasts \in SUBSET Int /\ firsts # {} /\ lasts # {}
    BY <1>2 DEF Rosters, Observation
  <1>6. IsFiniteSet(firsts) /\ IsFiniteSet(lasts)
    <2> DEFINE f == [o \in rows |-> o.first]
               g == [o \in rows |-> o.last]
    <2>1. f \in [rows -> Int] /\ g \in [rows -> Int]
      BY <1>2 DEF Rosters, Observation
    <2>2. firsts = {f[o] : o \in rows} /\ lasts = {g[o] : o \in rows}
      OBVIOUS
    <2> HIDE DEF f, g, rows, firsts, lasts
    <2>3. IsFiniteSet({f[o] : o \in rows}) /\ IsFiniteSet({g[o] : o \in rows})
      BY <1>2, <2>1, ImageIsFinite
    <2> QED BY <2>2, <2>3
  <1>7. Participant(env, who) = [key |-> <<who>>, first |-> Min(firsts),
                                 last |-> Max(lasts), count |-> Sightings(rows)]
    BY DEF Participant
  <1> HIDE DEF rows, firsts, lasts
  <1>8. Min(firsts) \in Int /\ Max(lasts) \in Int
    BY <1>5, <1>6, FirstAndLast
  <1>9. <<who>> \in Seq(Int)
    BY <1>3
  <1> QED BY <1>4, <1>7, <1>8, <1>9 DEF CatalogRow

LEMMA ListOfParticipants ==
    ASSUME NEW env, EnvelopeSound(env), NEW T \in SUBSET Rows("participants", env)
    PROVE  /\ InOrder(T) \in Addressed
           /\ Ascends(InOrder(T))
           /\ AddressesOf(InOrder(T)) = {r.key[1] : r \in T}
  <1> DEFINE rows == Rows("participants", env)
             R == BelowIn(rows)
             s == InOrder(T)
             n == Cardinality(T)
  <1>1. InLine(rows) /\ T \in SUBSET rows
    BY RowsInLine DEF Kinds
  <1>2. \A r \in rows : /\ r \in CatalogRow
                        /\ Len(r.key) = 1 /\ r.key[1] \in Int
    <2>1. \A r \in rows : \E who \in WhosOf(env.observations) : r = Participant(env, who)
      BY DEF Rows, WhosOf
    <2>2. \A who \in WhosOf(env.observations) :
            /\ Participant(env, who).key = <<who>>
            /\ Participant(env, who) \in CatalogRow
      BY ParticipantIs
    <2>3. ASSUME NEW r \in rows PROVE Len(r.key) = 1 /\ r.key[1] \in Int
      <3>1. PICK who \in WhosOf(env.observations) : r = Participant(env, who)
        BY <2>1
      <3>2. r.key = <<who>> /\ r.key \in Seq(Int)
        BY <2>2, <3>1 DEF CatalogRow
      <3> QED BY <3>2
    <2> QED BY <2>1, <2>2, <2>3
  <1>3. \A x, y \in rows : Below(x.key, y.key) <=> x.key[1] < y.key[1]
    BY <1>2 DEF Below
  <1> HIDE DEF rows
  <1>4. /\ n \in Nat /\ s \in [1..n -> T]
        /\ \A i \in 1..n : Rank(T, R, s[i]) = i - 1
        /\ \A x, y \in T : Rank(T, R, x) = Rank(T, R, y) => x = y
    BY <1>1, InOrderIs
  <1>5. \A x, y \in rows : <<x, y>> \in R <=> Below(x.key, y.key)
    BY DEF BelowIn
  <1>6. IsFiniteSet(T) /\ Orders(R, T)
    BY <1>1, FS_Subset DEF InLine, Orders
  <1> HIDE DEF R, s, n
  <1>7. s \in Seq(T) /\ Len(s) = n /\ DOMAIN s = 1..n
    BY <1>4
  <1>8. s \in Addressed
    <2>1. s \in Seq(CatalogRow)
      BY <1>1, <1>2, <1>7
    <2>2. \A i \in 1..Len(s) : s[i] \in rows
      BY <1>1, <1>4, <1>7
    <2> QED BY <1>2, <2>1, <2>2 DEF Addressed
  <1>9. Ascends(s)
    <2> SUFFICES ASSUME NEW i \in 1..n, NEW j \in 1..n, i < j
                 PROVE  s[i].key[1] < s[j].key[1]
      BY <1>7 DEF Ascends
    <2>1. s[i] \in T /\ s[j] \in T /\ Rank(T, R, s[i]) < Rank(T, R, s[j])
      BY <1>4
    <2>2. Rank(T, R, s[i]) \in Int /\ Rank(T, R, s[j]) \in Int
      BY <1>4
    <2>3. <<s[j], s[i]>> \in R => Rank(T, R, s[j]) < Rank(T, R, s[i])
      BY <1>6, <2>1, RankGrows
    <2>4. s[i] # s[j] /\ <<s[j], s[i]>> \notin R
      BY <2>1, <2>2, <2>3
    <2> QED BY <1>1, <1>3, <1>5, <2>1, <2>4 DEF InLine
  <1>10. AddressesOf(s) = {r.key[1] : r \in T}
    <2>1. ASSUME NEW r \in T PROVE \E i \in 1..n : s[i] = r
      <3>1. Rank(T, R, r) \in 0..(Cardinality(T) - 1)
        BY <1>6, RankGrows
      <3>2. PICK i \in 1..n : Rank(T, R, s[i]) = Rank(T, R, r)
        <4>1. Rank(T, R, r) + 1 \in 1..n /\ (Rank(T, R, r) + 1) - 1 = Rank(T, R, r)
          BY <1>4, <3>1 DEF n
        <4> QED BY <1>4, <4>1
      <3> QED BY <1>4, <3>2
    <2>2. \A i \in 1..n : s[i] \in T
      BY <1>4
    <2> QED BY <1>7, <2>1, <2>2 DEF AddressesOf
  <1> QED BY <1>8, <1>9, <1>10 DEF s

\* What is read from a cursor on.
LEMMA FromIs ==
    ASSUME NEW at, EnvelopeSound(Store!Current), OfCatalog(Store!Current, at)
    PROVE  /\ From(at) \in Addressed
           /\ Ascends(From(at))
           /\ AddressesOf(From(at)) = Past(Store!Current, at)
  <1> DEFINE env == Store!Current
             rows == Rows("participants", env)
             T == IF at = Absent THEN rows ELSE {r \in rows : Below(at.after, r.key)}
  <1>1. T \in SUBSET rows /\ From(at) = InOrder(T)
    BY DEF From, Roster, View, Beyond
  <1>2. rows = {Participant(env, who) : who \in WhosOf(env.observations)}
    BY DEF Rows, WhosOf
  <1>3. \A who \in WhosOf(env.observations) : Participant(env, who).key = <<who>>
    BY ParticipantIs
  <1>4. \A who \in WhosOf(env.observations) : at # Absent =>
          (Below(at.after, <<who>>) <=> at.after[1] < who)
    BY DEF OfCatalog, Below
  <1>5. {r.key[1] : r \in T} = Past(env, at)
    <2>1. T = {Participant(env, who) : who \in Past(env, at)}
      BY <1>2, <1>3, <1>4 DEF Past
    <2>2. \A who \in Past(env, at) : Participant(env, who).key[1] = who
      BY <1>3 DEF Past
    <2> HIDE DEF T, env
    <2> QED BY <2>1, <2>2
  <1> HIDE DEF T
  <1>6. /\ InOrder(T) \in Addressed /\ Ascends(InOrder(T))
        /\ AddressesOf(InOrder(T)) = {r.key[1] : r \in T}
    BY <1>1, ListOfParticipants
  <1> QED BY <1>1, <1>5, <1>6

-----------------------------------------------------------------------------
(* The catalog meanwhile.                                                  *)

CatalogSound ==
    /\ EnvelopeSound(Store!Current)
    /\ epoch \in Nat
    /\ announcements \in Nat
    /\ WhosOf(Store!Current.observations) \subseteq Accounts

\* A list whose revision has not moved is the same list.
CatalogMoves ==
    /\ Store!Current'.cursorKey = Store!Current.cursorKey
    /\ Store!Current'.catalogRevision >= Store!Current.catalogRevision
    /\ Store!Current'.catalogRevision = Store!Current.catalogRevision =>
         Store!Current'.observations = Store!Current.observations

LEMMA EnvelopeIsFound ==
    ASSUME CatalogSound
    PROVE  envelope # Absent => Opens(envelope)
  BY SoundOpens DEF CatalogSound, Store!Current

LEMMA CatalogCommits ==
    ASSUME CatalogSound, NEW job \in Job, WellFormed(job), Store!Commit(job)
    PROVE  /\ EnvelopeSound(Store!Current') /\ epoch' \in Nat
           /\ Store!Current' = envelope'
           /\ CatalogMoves
           /\ job.kind = "materialize" => /\ Store!Current'.observations = Store!Current.observations
                                          /\ Store!Current'.catalogRevision = Store!Current.catalogRevision
           /\ job.kind = "announce" =>
                WhosOf(Store!Current'.observations)
                  \subseteq WhosOf(Store!Current.observations) \cup {job.who}
  <1> DEFINE env == Store!Current
             e == After(env, job)
  <1>1. EnvelopeSound(env)
    BY DEF CatalogSound
  <1>2. envelope' = e /\ epoch' = epoch
    BY DEF Store!Commit
  <1> HIDE DEF env
  <1>3. Commits(env, job, e)
    BY <1>1, AfterCommits
  <1>4. e \in Envelope /\ EnvelopeSound(e)
    BY <1>3 DEF Commits, EnvelopeSound, TablesSound
  <1>5. e # Absent
    BY <1>4, IngestAssumption
  <1>6. Store!Current' = e
    BY <1>2, <1>5 DEF Store!Current
  <1>7. /\ e.cursorKey = env.cursorKey
        /\ Named(env.catalogRevision, e.catalogRevision, e.observations = env.observations)
    BY <1>3 DEF Commits
  <1>8. env.catalogRevision \in Nat /\ e.catalogRevision \in Nat
    BY <1>1, <1>4 DEF EnvelopeSound, RevisionsInOrder
  <1>9. /\ e.catalogRevision >= env.catalogRevision
        /\ e.catalogRevision = env.catalogRevision => e.observations = env.observations
    BY <1>7, <1>8 DEF Named
  <1>10. /\ job.kind = "materialize" => /\ e.observations = env.observations
                                        /\ e.catalogRevision = env.catalogRevision
         /\ job.kind = "announce" =>
              WhosOf(e.observations) \subseteq WhosOf(env.observations) \cup {job.who}
    BY <1>1, CatalogAfter
  <1> HIDE DEF e
  <1> QED BY <1>2, <1>4, <1>6, <1>7, <1>9, <1>10 DEF CatalogMoves, CatalogSound, env

LEMMA CatalogStands ==
    ASSUME CatalogSound, UNCHANGED <<envelope, epoch>>
    PROVE  Store!Current' = Store!Current /\ CatalogMoves
  <1>1. Store!Current' = Store!Current
    BY DEF Store!Current
  <1>2. Store!Current.catalogRevision \in Nat
    BY DEF CatalogSound, EnvelopeSound, RevisionsInOrder
  <1> QED BY <1>1, <1>2 DEF CatalogMoves

\* The page of an account is what a store takes in.
LEMMA PageIsAJob ==
    ASSUME CatalogSound, NEW a \in Accounts, Brought(a) \in Nat
    PROVE  /\ PageOf(a) \in Job /\ WellFormed(PageOf(a))
           /\ PageOf(a).kind = "materialize"
  <1> DEFINE gens == {0} \cup {c.gen : c \in Prior(a)}
             row(i) == Observed(10 * a + i, 1, "open", Null, Null, 1, 1)
             rows == [i \in 1..Brought(a) |-> row(i)]
             mark == [key |-> a, at |-> 1, newest |-> 0, source |-> 1,
                      gen |-> 1 + Max(gens)]
  <1>1. a \in Nat
    BY IngestAssumption
  <1>2. CheckpointsSound(Store!Current.checkpoints)
    BY DEF CatalogSound, EnvelopeSound, TablesSound
  <1>3. gens \in SUBSET Int /\ IsFiniteSet(gens) /\ gens # {} /\ 0 \in gens
    <2> DEFINE prior == Prior(a)
               f == [c \in prior |-> c.gen]
    <2>1. prior \in SUBSET Watermark /\ IsFiniteSet(prior)
      BY <1>2, FS_Subset DEF Prior, CheckpointsSound
    <2>2. f \in [prior -> Int] /\ {c.gen : c \in Prior(a)} = {f[c] : c \in prior}
      BY <2>1 DEF Watermark
    <2> HIDE DEF f, prior
    <2>3. PICK g \in [prior -> Int] : g = f
      BY <2>2
    <2>4. IsFiniteSet({g[c] : c \in prior})
      BY <2>1, ImageIsFinite
    <2> DEFINE image == {f[c] : c \in prior}
    <2>5. IsFiniteSet(image)
      BY <2>3, <2>4
    <2>6. image \in SUBSET Int
      BY <2>2
    <2>7. gens = image \cup {0}
      BY <2>2
    <2> HIDE DEF gens, image
    <2>8. IsFiniteSet(image \cup {0})
      BY <2>5, FS_AddElement
    <2> QED BY <2>6, <2>7, <2>8
  <1> HIDE DEF gens
  <1>4. Max(gens) \in Int /\ 0 <= Max(gens)
    BY <1>3, FirstAndLast
  <1>5. mark \in Watermark /\ IsCheckpoint(mark) /\ mark.source = 1
    BY <1>1, <1>4 DEF Watermark, IsCheckpoint
  <1>6. ASSUME NEW i \in 1..Brought(a)
        PROVE  row(i) \in Arriving /\ IsOffer(row(i)) /\ 1 \in row(i).sources
    <2>1. row(i) \in Offer /\ row(i).sources = {1}
      BY <1>1, <1>6 DEF Observed, Offer, Null
    <2>2. row(i).state = "open" /\ row(i).by = Null /\ row(i).settledAt = Null
      BY DEF Observed
    <2> QED BY <2>1, <2>2 DEF Arriving, IsOffer
  <1> HIDE DEF row, mark
  <1>7. /\ rows \in Seq(Arriving)
        /\ \A i \in DOMAIN rows : IsOffer(rows[i]) /\ 1 \in rows[i].sources
    BY <1>6
  <1>8. PageOf(a) = [kind |-> "materialize", offers |-> rows, rejected |-> 0,
                     checkpoint |-> mark]
    BY DEF PageOf, Materialize, row, mark, gens
  <1> HIDE DEF rows
  <1> QED BY <1>5, <1>7, <1>8 DEF Job, WellFormed

LEMMA AnnouncementIsAJob ==
    ASSUME CatalogSound, NEW a \in Accounts
    PROVE  /\ Announce(a, announcements + 1, announcements) \in Job
           /\ Announce(a, announcements + 1, announcements).kind = "announce"
           /\ Announce(a, announcements + 1, announcements).who = a
  BY IngestAssumption DEF CatalogSound, Announce, Job, Null

-----------------------------------------------------------------------------
(* Numbers and pages of one call.                                          *)

Least(m, a, b, c) == m \in {a, b, c} /\ m <= a /\ m <= b /\ m <= c

LEMMA LeastOfThree ==
    ASSUME NEW a \in Int, NEW b \in Int, NEW c \in Int
    PROVE  Min({a, b, c}) \in Int /\ Least(Min({a, b, c}), a, b, c)
  <1> DEFINE S == {a, b, c}
  <1>1. S \in SUBSET Int /\ S # {} /\ IsFiniteSet(S)
    <2>1. IsFiniteSet({}) /\ IsFiniteSet({} \cup {a}) /\ {} \cup {a} = {a}
      BY FS_EmptySet, FS_AddElement
    <2>2. IsFiniteSet({a} \cup {b})
      BY <2>1, FS_AddElement
    <2>3. IsFiniteSet(({a} \cup {b}) \cup {c}) /\ ({a} \cup {b}) \cup {c} = S
      BY <2>2, FS_AddElement
    <2> QED BY <2>3
  <1>2. a \in S /\ b \in S /\ c \in S
    OBVIOUS
  <1>3. \A x \in S : x \in {a, b, c}
    OBVIOUS
  <1> HIDE DEF S
  <1>4. Min(S) \in S /\ \A y \in S : Min(S) <= y
    BY <1>1, FirstAndLast
  <1>5. Least(Min(S), a, b, c) /\ Min(S) \in Int
    BY <1>1, <1>2, <1>3, <1>4 DEF Least
  <1> QED BY <1>5 DEF S

LEMMA LeastOfTwo ==
    ASSUME NEW a \in Int, NEW b \in Int
    PROVE  /\ Min({a, b}) \in {a, b} /\ Min({a, b}) <= a /\ Min({a, b}) <= b
  <1>1. {a, b} = {a, b, b}
    OBVIOUS
  <1>2. Least(Min({a, b, b}), a, b, b)
    BY LeastOfThree
  <1> QED BY <1>1, <1>2 DEF Least

LEMMA PageHolds ==
    ASSUME NEW rest \in Addressed, Ascends(rest), NEW n \in Nat \ {0}
    PROVE  /\ FirstOf(n, rest) \in Addressed
           /\ Ascends(FirstOf(n, rest))
           /\ Len(FirstOf(n, rest)) <= n
           /\ AddressesOf(FirstOf(n, rest)) \subseteq AddressesOf(rest)
           /\ \A x \in AddressesOf(rest) :
                \/ x \in AddressesOf(FirstOf(n, rest))
                \/ n < Len(rest) /\ rest[n].key[1] < x
  <1> DEFINE m == Min({n, Len(rest)})
             p == SubSeq(rest, 1, m)
  <1>1. rest \in Seq(CatalogRow) /\ Len(rest) \in Nat /\ DOMAIN rest = 1..Len(rest)
    BY DEF Addressed
  <1>0. n \in Int /\ n > 0 /\ Len(rest) \in Int
    BY <1>1
  <1>2. m \in {n, Len(rest)} /\ m <= n /\ m <= Len(rest)
    BY <1>0, LeastOfTwo
  <1>3. FirstOf(n, rest) = p
    BY DEF FirstOf
  <1> HIDE DEF m
  <1>4. m \in 0..Len(rest) /\ m \in Nat
    <2>1. ASSUME NEW k \in Nat, NEW x \in {n, k}, x <= k PROVE x \in 0..k /\ x \in Nat
      BY <2>1
    <2>2. Len(rest) \in Nat
      BY <1>1
    <2> QED BY <1>2, <2>1, <2>2
  <1>5. p \in Seq(CatalogRow) /\ Len(p) = m /\ DOMAIN p = 1..m /\ \A i \in 1..m : p[i] = rest[i]
    <2>1. CASE m = 0
      <3>1. p = <<>>
        BY <1>1, <2>1
      <3> QED BY <2>1, <3>1
    <2>2. CASE m # 0
      <3>1. m \in 1..Len(rest)
        BY <1>4, <2>2
      <3>2. p \in Seq(CatalogRow) /\ Len(p) = m /\ \A i \in 1..m : p[i] = rest[i]
        BY <1>1, <3>1, PartOfAll
      <3> QED BY <3>2
    <2> QED BY <2>1, <2>2
  <1> HIDE DEF p
  <1>6. \A i \in 1..m : i \in 1..Len(rest)
    BY <1>1, <1>4
  <1>7. p \in Addressed
    BY <1>5, <1>6 DEF Addressed
  <1>8. Ascends(p)
    BY <1>5, <1>6 DEF Ascends
  <1>9. AddressesOf(p) \subseteq AddressesOf(rest)
    BY <1>1, <1>5, <1>6 DEF AddressesOf
  <1>10. ASSUME NEW x \in AddressesOf(rest)
         PROVE  x \in AddressesOf(p) \/ (n < Len(rest) /\ rest[n].key[1] < x)
    <2>1. PICK i \in 1..Len(rest) : x = rest[i].key[1]
      BY <1>1 DEF AddressesOf
    <2>2. CASE i \in 1..m
      <3>1. p[i] = rest[i] /\ i \in DOMAIN p
        BY <1>5, <2>2
      <3> QED BY <2>1, <3>1 DEF AddressesOf
    <2>3. CASE i \notin 1..m
      <3>0. i \in Int /\ i >= 1 /\ i <= Len(rest) /\ m \in Nat /\ ~(i <= m)
        BY <1>4, <2>3
      <3>1. m < i /\ m = n /\ n < i
        BY <1>0, <1>2, <3>0
      <3>3. n \in 1..Len(rest)
        BY <1>0, <3>0, <3>1
      <3>2. rest[n].key[1] < rest[i].key[1] /\ n < Len(rest)
        BY <1>0, <3>0, <3>1, <3>3 DEF Ascends
      <3> QED BY <2>1, <3>2
    <2> QED BY <2>2, <2>3
  <1> QED BY <1>2, <1>3, <1>5, <1>7, <1>8, <1>9, <1>10

\* The addresses of the page that are not done.
Left == {page[i].key[1] : i \in (index + 1)..Len(page)}

LEMMA LeftIs ==
    ASSUME page \in Addressed, index \in 0..Len(page)
    PROVE  /\ AddressesOf(SubSeq(page, index + 1, Len(page))) = Left
           /\ Left \subseteq AddressesOf(page)
  <1> DEFINE n == Len(page)
             s == SubSeq(page, index + 1, n)
  <1>1. page \in Seq(CatalogRow) /\ n \in Nat /\ DOMAIN page = 1..n /\ index \in Nat
    BY DEF Addressed
  <1>0. n \in Nat /\ index \in 0..n
    BY <1>1
  <1>2. Left \subseteq AddressesOf(page)
    BY <1>1 DEF Left, AddressesOf
  <1>3. CASE index = n
    <2>1. s = <<>>
      BY <1>1, <1>3
    <2>2. DOMAIN s = {} /\ (index + 1)..n = {}
      BY <1>1, <1>3, <2>1
    <2> HIDE DEF s
    <2> QED BY <1>2, <2>2 DEF s, AddressesOf, Left
  <1>4. CASE index # n
    <2>1. /\ s \in Seq(CatalogRow) /\ Len(s) = n - index
          /\ \A i \in 1..(n - index) : s[i] = page[index + i]
      <3>0. \A i \in 1..n : page[i] \in CatalogRow
        BY <1>1
      <3> HIDE DEF n
      <3>1. /\ index + 1 \in Int /\ n \in Int /\ index + 1 <= n
            /\ \A i \in (index + 1)..n : page[i] \in CatalogRow
        BY <1>0, <1>4, <3>0
      <3>2. n - (index + 1) + 1 = n - index /\ \A i \in Int : (index + 1) + i - 1 = index + i
        BY <1>0
      <3>3. /\ s \in Seq(CatalogRow)
            /\ Len(s) = IF index + 1 <= n THEN n - (index + 1) + 1 ELSE 0
            /\ \A i \in 1..(n - (index + 1) + 1) : s[i] = page[(index + 1) + i - 1]
        BY <3>1, SubSeqProperties
      <3> HIDE DEF s
      <3>4. Len(s) = n - index
        BY <3>1, <3>2, <3>3
      <3>5. \A i \in 1..(n - index) : s[i] = page[index + i]
        <4> TAKE i \in 1..(n - index)
        <4>1. i \in 1..(n - (index + 1) + 1) /\ i \in Int
          BY <3>2
        <4>2. s[i] = page[(index + 1) + i - 1]
          BY <3>3, <4>1
        <4>3. (index + 1) + i - 1 = index + i
          BY <3>2, <4>1
        <4> QED BY <4>2, <4>3
      <3> QED BY <3>3, <3>4, <3>5
    <2>2. DOMAIN s = 1..(n - index)
      BY <2>1
    <2> HIDE DEF s, n
    <2>3. \A i \in 1..(n - index) : index + i \in (index + 1)..n
      BY <1>1
    <2>4. \A j \in (index + 1)..n : j - index \in 1..(n - index) /\ index + (j - index) = j
      BY <1>1
    <2>5. AddressesOf(s) \subseteq Left
      BY <2>1, <2>2, <2>3 DEF AddressesOf, Left, n
    <2>6. Left \subseteq AddressesOf(s)
      <3> SUFFICES ASSUME NEW j \in (index + 1)..n
                   PROVE  page[j].key[1] \in AddressesOf(s)
        BY DEF Left, n
      <3>1. s[j - index] = page[j] /\ j - index \in DOMAIN s
        BY <2>1, <2>2, <2>4
      <3> QED BY <3>1 DEF AddressesOf
    <2> QED BY <1>2, <2>5, <2>6 DEF s, n
  <1> QED BY <1>3, <1>4

-----------------------------------------------------------------------------
(* The invariant of the ingestor.                                          *)

Shape ==
    /\ pc \in {"idle", "loop", "rows", "cursor"}
    /\ outcome \in {"none", "more", "traversed", "threw"}
    /\ page \in Addressed /\ Ascends(page) /\ AddressesOf(page) \subseteq Accounts
    /\ index \in 0..Len(page) /\ resumeAfter \in 0..Len(page)
    /\ owed \subseteq Accounts /\ cutOff \subseteq Accounts

CursorsSound ==
    /\ OfCatalog(Store!Current, request)
    /\ OfCatalog(Store!Current, cursor)
    /\ OfCatalog(Store!Current, pageNext)

Usage == [accounts : Nat, requests : Nat, pages : Nat, rows : Nat,
          scanned : Nat, bytes : Nat]

\* The page at hand asks for no more than is left of the budget.
Afforded ==
    /\ used \in Usage
    /\ WithinBudget
    /\ pc = "rows" => /\ used.accounts + (Len(page) - index) <= MaxAccounts
                      /\ used.requests + (Len(page) - index) <= MaxRequests

\* What the traversal still has to attempt.
Due == owed \ cutOff

Ahead(at) == at # Absent => \A who \in Due : at.after[1] < who

\* Whatever is due is in the rest of the page or beyond its next cursor, and a
\* page that can be replayed holds no address the catalog has forgotten.
Covered == \A who \in Due : who \in Left \/ (pageNext # Absent /\ pageNext.after[1] < who)

Replayable ==
    /\ cursor # Absent /\ Readable(cursor) =>
         AddressesOf(page) \subseteq Past(Store!Current, cursor)
    /\ cursor = Absent /\ pageNext = Absent /\ Due # {} =>
         AddressesOf(page) \subseteq WhosOf(Store!Current.observations)

OnPage ==
    pc \in {"rows", "cursor"} =>
        /\ resumeAfter = index
        /\ Covered
        /\ Replayable
        /\ pc = "cursor" => Ahead(pageNext)

OnCourse ==
    /\ owed \subseteq WhosOf(Store!Current.observations)
    /\ pc # "idle" => Ahead(request) /\ Ahead(cursor) /\ outcome = "none"
    /\ outcome = "more" => Ahead(cursor)
    /\ NobodySkipped

IngestInv ==
    CatalogSound /\ Shape /\ CursorsSound /\ Afforded /\ OnPage /\ OnCourse

LEMMA IngestBegins == IngestInit => IngestInv
  <1> SUFFICES ASSUME IngestInit PROVE IngestInv
    OBVIOUS
  <1> USE DEF IngestInit
  <1>1. Store!Current = EmptyEnvelope(0) /\ epoch = 0
    BY DEF Store!Init, Store!Current
  <1>2. EnvelopeSound(EmptyEnvelope(0)) /\ EmptyEnvelope(0).observations = {}
    BY EmptyIsSound DEF EmptyEnvelope
  <1>3. CatalogSound
    BY <1>1, <1>2 DEF CatalogSound, WhosOf
  <1>4. Shape
    <2>1. page = <<>> /\ <<>> \in Seq(CatalogRow) /\ Len(<<>>) = 0 /\ DOMAIN <<>> = {}
      OBVIOUS
    <2> QED BY <2>1 DEF Shape, Addressed, Ascends, AddressesOf
  <1>5. CursorsSound
    BY DEF CursorsSound, OfCatalog
  <1>6. Afforded
    BY IngestAssumption DEF Afforded, WithinBudget, Nothing, Usage
  <1>7. OnPage /\ OnCourse
    BY DEF OnPage, OnCourse, Ahead, NobodySkipped
  <1> QED BY <1>3, <1>4, <1>5, <1>6, <1>7 DEF IngestInv

LEMMA AnnounceKeeps ==
    ASSUME IngestInv, NEW a \in Accounts, AnnounceAccount(a)
    PROVE  IngestInv'
  <1> DEFINE job == Announce(a, announcements + 1, announcements)
             was == Store!Current
             is == Store!Current'
  <1>1. /\ CatalogSound /\ Shape /\ CursorsSound /\ Afforded /\ OnPage /\ OnCourse
        /\ Store!Commit(job) /\ announcements' = announcements + 1
        /\ UNCHANGED <<pc, request, cursor, page, pageNext, index, resumeAfter, used,
                       stop, pageFailed, outcome, ingests, faults>>
        /\ owed' = owed \cap Remaining
        /\ cutOff' = IF Overtaken THEN cutOff \cup AddressesOf(page) ELSE cutOff
    BY DEF IngestInv, AnnounceAccount
  <1>2. job \in Job /\ job.kind = "announce" /\ job.who = a
    BY <1>1, AnnouncementIsAJob
  <1>3. WellFormed(job)
    BY <1>2 DEF WellFormed
  <1> HIDE DEF job
  <1>4. /\ EnvelopeSound(is) /\ epoch' \in Nat /\ is = envelope' /\ CatalogMoves
        /\ WhosOf(is.observations) \subseteq WhosOf(was.observations) \cup {a}
    BY <1>1, <1>2, <1>3, CatalogCommits
  <1>5. CatalogSound'
    <2>1. announcements' \in Nat
      BY <1>1 DEF CatalogSound
    <2>2. WhosOf(is.observations) \subseteq Accounts
      BY <1>1, <1>4 DEF CatalogSound
    <2> QED BY <1>4, <2>1, <2>2 DEF CatalogSound
  <1>6. Remaining = WhosOf(is.observations)
    BY <1>4 DEF Remaining, WhosOf
  <1>7. Shape'
    BY <1>1 DEF Shape
  <1>8. /\ is.cursorKey = was.cursorKey
        /\ is.catalogRevision >= was.catalogRevision
        /\ is.catalogRevision = was.catalogRevision => is.observations = was.observations
        /\ is.catalogRevision \in Nat /\ was.catalogRevision \in Nat
    BY <1>1, <1>4 DEF CatalogMoves, CatalogSound, EnvelopeSound, RevisionsInOrder
  <1>9. CursorsSound'
    BY <1>1, <1>8 DEF CursorsSound, OfCatalog, CursorRecord
  <1>10. Afforded'
    BY <1>1 DEF Afforded, WithinBudget
  <1>11. Due' \subseteq Due
    BY <1>1 DEF Due
  <1>12. OnPage'
    <2> SUFFICES ASSUME pc \in {"rows", "cursor"}
                 PROVE  /\ resumeAfter = index /\ Covered' /\ Replayable'
                        /\ pc = "cursor" => Ahead(pageNext)'
      BY <1>1 DEF OnPage
    <2>1. /\ resumeAfter = index /\ Covered /\ Replayable
          /\ pc = "cursor" => Ahead(pageNext)
      BY <1>1 DEF OnPage
    <2>2. Covered' /\ (pc = "cursor" => Ahead(pageNext)')
      BY <1>1, <1>11, <2>1 DEF Covered, Left, Ahead
    <2>3. ASSUME cursor # Absent, Readable(cursor)'
          PROVE  AddressesOf(page) \subseteq Past(is, cursor)
      <3>1. /\ cursor.key = is.cursorKey /\ cursor.revision = is.catalogRevision
            /\ cursor.revision <= was.catalogRevision
        BY <1>1, <2>3 DEF Readable, Accepts, RevisionOf, CursorsSound, OfCatalog
      <3>2. is.catalogRevision = was.catalogRevision
        BY <1>8, <3>1
      <3>3. Readable(cursor) /\ Past(is, cursor) = Past(was, cursor)
        BY <1>8, <3>1, <3>2 DEF Readable, Accepts, RevisionOf, Past
      <3> QED BY <2>1, <2>3, <3>3 DEF Replayable
    <2>4. ASSUME cursor = Absent, pageNext = Absent, Due' # {}
          PROVE  AddressesOf(page) \subseteq WhosOf(is.observations)
      <3>1. Due \subseteq Left
        BY <2>1, <2>4 DEF Covered
      <3>2. Left \subseteq AddressesOf(page)
        BY <1>1, LeftIs DEF Shape
      <3>3. ~Overtaken
        BY <1>1, <2>4, <3>1, <3>2 DEF Due
      <3> QED BY <1>6, <2>4, <3>3 DEF Overtaken
    <2>5. Replayable'
      BY <1>1, <2>3, <2>4 DEF Replayable
    <2> QED BY <2>1, <2>2, <2>5
  <1>13. OnCourse'
    <2>1. owed' \subseteq WhosOf(is.observations)
      BY <1>1, <1>6
    <2>2. /\ Ahead(request) => Ahead(request)'
          /\ Ahead(cursor) => Ahead(cursor)'
      BY <1>1, <1>11 DEF Ahead
    <2>3. NobodySkipped'
      BY <1>1 DEF OnCourse, NobodySkipped
    <2> QED BY <1>1, <2>1, <2>2, <2>3 DEF OnCourse
  <1> QED BY <1>5, <1>7, <1>9, <1>10, <1>12, <1>13 DEF IngestInv

LEMMA CatalogStays ==
    ASSUME IngestInv, UNCHANGED <<envelope, epoch, announcements>>
    PROVE  CatalogSound' /\ Store!Current' = Store!Current
  <1>1. Store!Current' = Store!Current
    BY CatalogStands DEF IngestInv
  <1> QED BY <1>1 DEF IngestInv, CatalogSound

LEMMA EmptyPage ==
    /\ <<>> \in Addressed /\ Ascends(<<>>) /\ AddressesOf(<<>>) = {} /\ Len(<<>>) = 0
  <1>1. <<>> \in Seq(CatalogRow) /\ Len(<<>>) = 0 /\ DOMAIN <<>> = {}
    OBVIOUS
  <1> QED BY <1>1 DEF Addressed, Ascends, AddressesOf

LEMMA IngestKeeps ==
    ASSUME IngestInv, Ingest
    PROVE  IngestInv'
  <1> USE DEF Ingest
  <1>1. /\ CatalogSound /\ Shape /\ CursorsSound /\ Afforded /\ OnCourse
        /\ CatalogSound' /\ Store!Current' = Store!Current
    BY CatalogStays DEF IngestInv
  <1>2. AddressesOf(Roster) = WhosOf(Store!Current.observations)
    <2>1. AddressesOf(From(Absent)) = Past(Store!Current, Absent)
      BY <1>1, FromIs DEF CatalogSound, OfCatalog
    <2> QED BY <2>1 DEF From, Past
  <1>3. Shape'
    BY <1>1, <1>2, EmptyPage DEF Shape, CatalogSound
  <1>4. CursorsSound'
    BY <1>1 DEF CursorsSound, OfCatalog
  <1>5. Afforded'
    BY IngestAssumption DEF Afforded, WithinBudget, Nothing, Usage
  <1>6. OnPage'
    BY DEF OnPage
  <1>7. OnCourse'
    <2>1. CASE outcome = "more"
      <3>1. Ahead(cursor) /\ request' = cursor /\ cursor' = cursor /\ Due' = Due
        BY <1>1, <2>1 DEF OnCourse, Due
      <3>2. Ahead(cursor)' /\ Ahead(request)'
        BY <3>1 DEF Ahead
      <3> QED BY <1>1, <2>1, <3>2 DEF OnCourse, NobodySkipped
    <2>2. CASE outcome # "more"
      <3>1. request' = Absent /\ cursor' = Absent /\ owed' = WhosOf(Store!Current.observations)
        BY <1>2, <2>2
      <3> QED BY <1>1, <3>1 DEF OnCourse, Ahead, NobodySkipped
    <2> QED BY <2>1, <2>2
  <1> QED BY <1>1, <1>3, <1>4, <1>5, <1>6, <1>7 DEF IngestInv

LEMMA RoomIs ==
    ASSUME Afforded
    PROVE  /\ Room \in Int /\ Room <= MaxAccounts - used.accounts
           /\ Room <= MaxRequests - used.requests
           /\ Room <= MaxResultRows - used.rows
  <1>1. /\ MaxAccounts - used.accounts \in Int /\ MaxRequests - used.requests \in Int
        /\ MaxResultRows - used.rows \in Int
    BY IngestAssumption DEF Afforded, Usage
  <1> QED BY <1>1, LeastOfThree DEF Room, Least

LEMMA RequestLimitIs ==
    ASSUME Afforded
    PROVE  /\ RequestLimit \in Int
           /\ RequestLimit <= MaxResultRows - used.rows
           /\ RequestLimit <= MaxScanned - used.scanned
  <1>1. /\ PerRequest \in Int /\ MaxResultRows - used.rows \in Int
        /\ MaxScanned - used.scanned \in Int
    BY IngestAssumption DEF Afforded, Usage
  <1> QED BY <1>1, LeastOfThree DEF RequestLimit, Least

\* The cursor behind row n of what is read from a cursor on.
LEMMA NextIs ==
    ASSUME CatalogSound, NEW rest \in Addressed, NEW n \in Nat \ {0},
           n < Len(rest)
    PROVE  /\ NextOf(n, rest) # Absent
           /\ OfCatalog(Store!Current, NextOf(n, rest))
           /\ NextOf(n, rest).after[1] = rest[n].key[1]
  <1> DEFINE at == NextOf(n, rest)
             env == Store!Current
  <1>1. n \in 1..Len(rest) /\ rest[n] \in CatalogRow /\ Len(rest[n].key) = 1
    <2>1. rest \in Seq(CatalogRow) /\ Len(rest) \in Nat
      BY DEF Addressed
    <2>2. n \in 1..Len(rest)
      BY <2>1
    <2> QED BY <2>1, <2>2 DEF Addressed
  <1>2. /\ at.key = env.cursorKey /\ at.revision = env.catalogRevision
        /\ at.after = rest[n].key
        /\ at = [key |-> env.cursorKey, revision |-> env.catalogRevision, after |-> rest[n].key]
    BY DEF NextOf, Cursor, RevisionOf
  <1>3. env.cursorKey \in Nat /\ env.catalogRevision \in Nat
    BY DEF CatalogSound, EnvelopeSound, TablesSound, Envelope, RevisionsInOrder
  <1> HIDE DEF at, env
  <1>4. at \in CursorRecord
    BY <1>1, <1>2, <1>3 DEF CursorRecord, CatalogRow
  <1>5. at # Absent
    BY <1>4, IngestAssumption
  <1> QED BY <1>1, <1>2, <1>3, <1>4, <1>5 DEF OfCatalog, at, env

LEMMA ReadPageKeeps ==
    ASSUME IngestInv, ReadPage
    PROVE  IngestInv'
  <1> DEFINE rest == From(cursor)
             env == Store!Current
  <1>1. /\ CatalogSound /\ Shape /\ CursorsSound /\ Afforded /\ OnCourse
        /\ CatalogSound' /\ Store!Current' = Store!Current
    BY CatalogStays DEF IngestInv, ReadPage, bounds
  <1>2. CASE ~Readable(cursor)
    <2>1. /\ pc' = "idle" /\ cursor' = Absent /\ outcome' = "threw"
          /\ index' = 0 /\ resumeAfter' = 0
          /\ UNCHANGED <<page, pageNext, used, request, owed, cutOff>>
      BY <1>2 DEF ReadPage, Throw
    <2>2. Shape' /\ CursorsSound' /\ Afforded'
      BY <1>1, <2>1 DEF Shape, CursorsSound, OfCatalog, Afforded, WithinBudget
    <2>3. OnPage' /\ OnCourse'
      BY <1>1, <2>1 DEF OnPage, OnCourse, NobodySkipped
    <2> QED BY <1>1, <2>2, <2>3 DEF IngestInv
  <1>3. CASE Readable(cursor)
    <2>1. /\ pc = "loop" /\ Room > 0 /\ MayReadPage
          /\ page' = FirstOf(Room, rest) /\ pageNext' = NextOf(Room, rest)
          /\ pc' = "rows" /\ used' = [used EXCEPT !.pages = @ + 1]
          /\ index' = 0 /\ resumeAfter' = 0
          /\ UNCHANGED <<cursor, outcome, request, owed, cutOff>>
      BY <1>3 DEF ReadPage
    <2>2. /\ rest \in Addressed /\ Ascends(rest)
          /\ AddressesOf(rest) = Past(env, cursor)
      BY <1>1, FromIs DEF CatalogSound, CursorsSound
    <2>3. Room \in Nat \ {0}
      BY <1>1, <2>1, RoomIs
    <2> HIDE DEF rest
    <2>4. /\ page' \in Addressed /\ Ascends(page') /\ Len(page') <= Room
          /\ AddressesOf(page') \subseteq AddressesOf(rest)
          /\ \A x \in AddressesOf(rest) :
                \/ x \in AddressesOf(page')
                \/ Room < Len(rest) /\ rest[Room].key[1] < x
      BY <2>1, <2>2, <2>3, PageHolds
    <2>5. Len(page') \in Nat
      BY <2>4 DEF Addressed
    <2>6. Past(env, cursor) \subseteq WhosOf(env.observations)
      BY DEF Past
    <2>7. Shape'
      <3>1. AddressesOf(page') \subseteq Accounts
        BY <1>1, <2>2, <2>4, <2>6 DEF CatalogSound
      <3>2. index' \in 0..Len(page') /\ resumeAfter' \in 0..Len(page')
        BY <2>1, <2>5
      <3> QED BY <1>1, <2>1, <2>4, <3>1, <3>2 DEF Shape
    <2>8. /\ Room < Len(rest) => /\ pageNext' # Absent /\ OfCatalog(env, pageNext')
                                 /\ pageNext'.after[1] = rest[Room].key[1]
          /\ ~(Room < Len(rest)) => pageNext' = Absent
      BY <1>1, <2>1, <2>2, <2>3, NextIs DEF NextOf
    <2>9. CursorsSound'
      <3>1. OfCatalog(env, pageNext')
        BY <2>8 DEF OfCatalog
      <3> QED BY <1>1, <2>1, <3>1 DEF CursorsSound
    <2>10. Afforded'
      <3>1. /\ used' \in Usage /\ used'.pages = used.pages + 1
            /\ used'.accounts = used.accounts /\ used'.requests = used.requests
            /\ used'.rows = used.rows /\ used'.scanned = used.scanned
            /\ used'.bytes = used.bytes
        BY <1>1, <2>1 DEF Afforded, Usage
      <3>2. used'.pages <= MaxPages
        BY <1>1, <2>1, <3>1, IngestAssumption DEF MayReadPage, Afforded, Usage
      <3>3. WithinBudget'
        BY <1>1, <3>1, <3>2 DEF WithinBudget, Afforded
      <3>4. /\ used.accounts + (Len(page') - 0) <= MaxAccounts
            /\ used.requests + (Len(page') - 0) <= MaxRequests
        BY <1>1, <2>3, <2>4, <2>5, RoomIs, IngestAssumption DEF Afforded, Usage
      <3> QED BY <2>1, <3>1, <3>3, <3>4 DEF Afforded
    <2>11. Left' = AddressesOf(page')
      <3>1. page' \in Seq(CatalogRow) /\ DOMAIN page' = 1..Len(page') /\ index' + 1 = 1
        BY <2>1, <2>4 DEF Addressed
      <3> QED BY <3>1 DEF Left, AddressesOf
    <2>12. Due' = Due /\ Due \subseteq owed
      BY <2>1 DEF Due
    <2>13. Covered'
      <3> SUFFICES ASSUME NEW who \in Due
                   PROVE  who \in Left' \/ (pageNext' # Absent /\ pageNext'.after[1] < who)
        BY <2>12 DEF Covered
      <3>1. who \in Past(env, cursor)
        BY <1>1, <2>1, <2>12 DEF OnCourse, Ahead, Past
      <3> QED BY <2>2, <2>4, <2>8, <2>11, <3>1
    <2>14. Replayable'
      BY <1>1, <2>1, <2>2, <2>4, <2>6 DEF Replayable
    <2>15. OnPage'
      BY <2>1, <2>13, <2>14 DEF OnPage
    <2>16. OnCourse'
      BY <1>1, <2>1, <2>12 DEF OnCourse, Ahead, NobodySkipped
    <2> QED BY <1>1, <2>7, <2>9, <2>10, <2>15, <2>16 DEF IngestInv
  <1> QED BY <1>2, <1>3

LEMMA LeaveLoopKeeps ==
    ASSUME IngestInv, LeaveLoop
    PROVE  IngestInv'
  <1>1. /\ CatalogSound /\ Shape /\ CursorsSound /\ Afforded /\ OnCourse
        /\ CatalogSound' /\ Store!Current' = Store!Current
    BY CatalogStays DEF IngestInv, LeaveLoop, bounds
  <1>2. /\ pc = "loop" /\ pc' = "idle" /\ outcome' = "more"
        /\ cursor' = IF cursor = Absent THEN request ELSE cursor
        /\ UNCHANGED <<request, page, pageNext, index, resumeAfter, used, owed, cutOff>>
    BY DEF LeaveLoop, Return
  <1>3. Shape' /\ CursorsSound' /\ Afforded'
    BY <1>1, <1>2 DEF Shape, CursorsSound, OfCatalog, Afforded, WithinBudget
  <1>4. OnPage'
    BY <1>2 DEF OnPage
  <1>5. OnCourse'
    BY <1>1, <1>2 DEF OnCourse, Ahead, Due, NobodySkipped
  <1> QED BY <1>1, <1>3, <1>4, <1>5 DEF IngestInv

LEMMA InterruptedKeeps ==
    ASSUME IngestInv, Interrupted
    PROVE  IngestInv'
  <1>1. /\ CatalogSound /\ Shape /\ CursorsSound /\ Afforded /\ OnCourse
        /\ CatalogSound' /\ Store!Current' = Store!Current
    BY CatalogStays DEF IngestInv, Interrupted
  <1>2. /\ pc' = "idle" /\ outcome' = "threw" /\ cursor' = Absent
        /\ UNCHANGED <<request, page, pageNext, index, resumeAfter, used, owed, cutOff>>
    BY DEF Interrupted, Throw
  <1>3. Shape' /\ CursorsSound' /\ Afforded'
    BY <1>1, <1>2 DEF Shape, CursorsSound, OfCatalog, Afforded, WithinBudget
  <1>4. OnPage' /\ OnCourse'
    BY <1>1, <1>2 DEF OnPage, OnCourse, NobodySkipped
  <1> QED BY <1>1, <1>3, <1>4 DEF IngestInv

\* A stop within the page cuts off the rest of it if it has a next one.
LEMMA BreakKeeps ==
    ASSUME IngestInv, OnRow, NEW reason, Break(reason), resumeAfter' = index,
           used' \in Usage, WithinBudget',
           UNCHANGED <<envelope, epoch, announcements, request, cursor, page, pageNext,
                       index, owed, outcome>>
    PROVE  IngestInv'
  <1>1. /\ CatalogSound /\ Shape /\ CursorsSound /\ Afforded /\ OnPage /\ OnCourse
        /\ CatalogSound' /\ Store!Current' = Store!Current
    BY CatalogStays DEF IngestInv
  <1>2. Left \subseteq AddressesOf(page)
        /\ AddressesOf(SubSeq(page, index + 1, Len(page))) = Left
    BY <1>1, LeftIs DEF Shape
  <1>3. /\ pc = "rows" /\ pc' = "cursor"
        /\ cutOff' = IF pageNext = Absent THEN cutOff ELSE cutOff \cup Left
    BY <1>2 DEF OnRow, Break
  <1>4. Shape'
    BY <1>1, <1>2, <1>3 DEF Shape
  <1>5. CursorsSound'
    BY <1>1 DEF CursorsSound, OfCatalog
  <1>6. Afforded'
    BY <1>3 DEF Afforded
  <1>7. Due' \subseteq Due /\ (pageNext # Absent => Due' \cap Left = {})
    BY <1>3 DEF Due
  <1>8. OnPage'
    <2>1. Covered /\ Replayable
      BY <1>1, <1>3 DEF OnPage
    <2>2. Left' = Left
      BY DEF Left
    <2>3. Covered'
      BY <1>7, <2>1, <2>2 DEF Covered
    <2>4. Ahead(pageNext)'
      BY <1>7, <2>1 DEF Covered, Ahead
    <2>5. Replayable'
      BY <1>1, <1>7, <2>1 DEF Replayable, Readable
    <2> QED BY <2>3, <2>4, <2>5 DEF OnPage
  <1>9. OnCourse'
    BY <1>1, <1>3, <1>7 DEF OnCourse, Ahead, NobodySkipped
  <1> QED BY <1>1, <1>4, <1>5, <1>6, <1>8, <1>9 DEF IngestInv

LEMMA BudgetSpentKeeps ==
    ASSUME IngestInv, BudgetSpent
    PROVE  IngestInv'
  <1>1. used' \in Usage /\ WithinBudget'
    BY DEF IngestInv, Afforded, WithinBudget, BudgetSpent
  <1> QED BY <1>1, BreakKeeps DEF BudgetSpent, bounds

\* The account on turn is one of the accounts, and may be asked.
LEMMA OnTurn ==
    ASSUME IngestInv, OnRow
    PROVE  /\ Account \in Accounts /\ Account = page[index + 1].key[1]
           /\ index + 1 \in 1..Len(page) /\ index \in Nat /\ Len(page) \in Nat
           /\ Asked \in Usage
           /\ Asked.accounts = used.accounts + 1 /\ Asked.requests = used.requests + 1
           /\ Asked.pages = used.pages /\ Asked.rows = used.rows
           /\ Asked.scanned = used.scanned /\ Asked.bytes = used.bytes
           /\ Asked.accounts + (Len(page) - (index + 1)) <= MaxAccounts
           /\ Asked.requests + (Len(page) - (index + 1)) <= MaxRequests
           /\ Asked.accounts <= MaxAccounts /\ Asked.requests <= MaxRequests
  <1>1. /\ page \in Addressed /\ AddressesOf(page) \subseteq Accounts
        /\ index \in 0..Len(page) /\ index < Len(page) /\ pc = "rows"
        /\ used \in Usage
        /\ used.accounts + (Len(page) - index) <= MaxAccounts
        /\ used.requests + (Len(page) - index) <= MaxRequests
    BY DEF IngestInv, Shape, Afforded, OnRow
  <1>2. Len(page) \in Nat /\ DOMAIN page = 1..Len(page)
    BY <1>1 DEF Addressed
  <1>3. index + 1 \in 1..Len(page) /\ index \in Nat
    BY <1>1, <1>2
  <1>4. Account \in Accounts
    BY <1>1, <1>2, <1>3 DEF Account, AddressesOf
  <1>5. /\ Asked \in Usage
        /\ Asked.accounts = used.accounts + 1 /\ Asked.requests = used.requests + 1
        /\ Asked.pages = used.pages /\ Asked.rows = used.rows
        /\ Asked.scanned = used.scanned /\ Asked.bytes = used.bytes
    <2>1. PICK u \in Usage : u = used
      BY <1>1
    <2>2. Asked = [u EXCEPT !.accounts = u.accounts + 1, !.requests = u.requests + 1]
      BY <2>1 DEF Asked
    <2>3. Asked \in Usage
      <3>1. [u EXCEPT !.accounts = u.accounts + 1] \in Usage
        BY DEF Usage
      <3>2. PICK v \in Usage : v = [u EXCEPT !.accounts = u.accounts + 1]
        BY <3>1
      <3>3. v.requests = u.requests
        BY <3>2 DEF Usage
      <3>4. [v EXCEPT !.requests = v.requests + 1] \in Usage
        BY DEF Usage
      <3>5. Asked = [v EXCEPT !.requests = v.requests + 1]
        BY <2>2, <3>2, <3>3
      <3> QED BY <3>4, <3>5
    <2>4. Asked.accounts = u.accounts + 1 /\ Asked.requests = u.requests + 1
      BY <2>2 DEF Usage
    <2>5. /\ Asked.pages = u.pages /\ Asked.rows = u.rows
          /\ Asked.scanned = u.scanned /\ Asked.bytes = u.bytes
      BY <2>2 DEF Usage
    <2> QED BY <2>1, <2>2, <2>3, <2>4, <2>5
  <1>6. /\ used.accounts \in Nat /\ used.requests \in Nat
        /\ MaxAccounts \in Nat /\ MaxRequests \in Nat
    BY <1>1, IngestAssumption DEF Usage
  <1>7. /\ Asked.accounts + (Len(page) - (index + 1)) <= MaxAccounts
        /\ Asked.requests + (Len(page) - (index + 1)) <= MaxRequests
        /\ Asked.accounts <= MaxAccounts /\ Asked.requests <= MaxRequests
    <2>1. PICK n \in Nat : n = Len(page)
      BY <1>2
    <2>2. PICK m \in Nat, k \in Nat : m = used.accounts /\ k = used.requests
      BY <1>6
    <2>3. /\ index < n /\ m + (n - index) <= MaxAccounts /\ k + (n - index) <= MaxRequests
          /\ Asked.accounts = m + 1 /\ Asked.requests = k + 1
      BY <1>1, <1>5, <2>1, <2>2
    <2>4. /\ (m + 1) + (n - (index + 1)) <= MaxAccounts
          /\ (k + 1) + (n - (index + 1)) <= MaxRequests
          /\ m + 1 <= MaxAccounts /\ k + 1 <= MaxRequests
      BY <1>3, <1>6, <2>3
    <2> QED BY <2>1, <2>3, <2>4
  <1> QED BY <1>2, <1>3, <1>4, <1>5, <1>7 DEF Account

LEMMA BroughtIs ==
    ASSUME IngestInv, RequestLimit >= 1, NEW a \in Accounts
    PROVE  /\ Brought(a) \in Nat /\ Bytes(a) \in Nat
           /\ used.rows + Brought(a) <= MaxResultRows
           /\ used.scanned + Brought(a) <= MaxScanned
  <1>1. Afforded
    BY DEF IngestInv
  <1>2. /\ RequestLimit \in Int /\ RequestLimit <= MaxResultRows - used.rows
        /\ RequestLimit <= MaxScanned - used.scanned
    BY <1>1, RequestLimitIs
  <1>3. Window[a] \in Int /\ Window[a] >= 0
    BY IngestAssumption
  <1>4. /\ Brought(a) \in {Window[a], RequestLimit}
        /\ Brought(a) <= Window[a] /\ Brought(a) <= RequestLimit
    BY <1>2, <1>3, LeastOfTwo DEF Brought
  <1>5. Brought(a) \in Nat
    BY <1>2, <1>3, <1>4
  <1>6. Bytes(a) \in Nat
    BY <1>5 DEF Bytes
  <1>7. /\ used.rows \in Nat /\ used.scanned \in Nat
        /\ MaxResultRows \in Nat /\ MaxScanned \in Nat
    BY <1>1, IngestAssumption DEF Afforded, Usage
  <1>8. /\ used.rows + Brought(a) <= MaxResultRows
        /\ used.scanned + Brought(a) <= MaxScanned
    BY <1>2, <1>4, <1>5, <1>7
  <1> QED BY <1>5, <1>6, <1>8

LEMMA TooLongKeeps ==
    ASSUME IngestInv, TooLong
    PROVE  IngestInv'
  <1>1. /\ OnRow /\ RequestLimit >= 1
        /\ used' = [Asked EXCEPT !.scanned = @ + Brought(Account)]
    BY DEF TooLong
  <1>2. /\ Account \in Accounts /\ Asked \in Usage
        /\ Asked.pages = used.pages /\ Asked.rows = used.rows
        /\ Asked.scanned = used.scanned /\ Asked.bytes = used.bytes
        /\ Asked.accounts <= MaxAccounts /\ Asked.requests <= MaxRequests
    BY <1>1, OnTurn
  <1>3. Brought(Account) \in Nat /\ used.scanned + Brought(Account) <= MaxScanned
    BY <1>1, <1>2, BroughtIs
  <1>4. PICK n \in Nat : n = Brought(Account)
    BY <1>3
  <1>5. used' = [Asked EXCEPT !.scanned = @ + n]
    BY <1>1, <1>4
  <1>6. /\ used' \in Usage /\ used'.scanned = used.scanned + n
        /\ used'.accounts = Asked.accounts /\ used'.requests = Asked.requests
        /\ used'.pages = used.pages /\ used'.rows = used.rows /\ used'.bytes = used.bytes
    BY <1>2, <1>5 DEF Usage
  <1>7. WithinBudget'
    BY <1>2, <1>3, <1>4, <1>6 DEF IngestInv, Afforded, WithinBudget
  <1> QED BY <1>1, <1>6, <1>7, BreakKeeps DEF TooLong, bounds

LEMMA PollStoppedKeeps ==
    ASSUME IngestInv, PollStopped
    PROVE  IngestInv'
  <1>1. /\ OnRow /\ used' = Asked
    BY DEF PollStopped
  <1>2. /\ Asked \in Usage
        /\ Asked.pages = used.pages /\ Asked.rows = used.rows
        /\ Asked.scanned = used.scanned /\ Asked.bytes = used.bytes
        /\ Asked.accounts <= MaxAccounts /\ Asked.requests <= MaxRequests
    BY <1>1, OnTurn
  <1>3. WithinBudget'
    BY <1>1, <1>2 DEF IngestInv, Afforded, WithinBudget
  <1> QED BY <1>1, <1>2, <1>3, BreakKeeps DEF PollStopped

\* An account is done: it is due no more, and the rest is one row shorter.
LEMMA AdvanceKeeps ==
    ASSUME IngestInv, OnRow, CatalogSound',
           Store!Current'.observations = Store!Current.observations,
           Store!Current'.catalogRevision = Store!Current.catalogRevision,
           Store!Current'.cursorKey = Store!Current.cursorKey,
           index' = index + 1, resumeAfter' = index + 1, owed' = owed \ {Account},
           UNCHANGED <<pc, request, cursor, page, pageNext, cutOff, outcome>>,
           used' \in Usage, WithinBudget',
           used'.accounts = Asked.accounts, used'.requests = Asked.requests
    PROVE  IngestInv'
  <1> DEFINE was == Store!Current
             is == Store!Current'
  <1>1. CatalogSound /\ Shape /\ CursorsSound /\ Afforded /\ OnPage /\ OnCourse
    BY DEF IngestInv
  <1>2. /\ Account = page[index + 1].key[1]
        /\ index + 1 \in 1..Len(page) /\ index \in Nat /\ Len(page) \in Nat
        /\ Asked.accounts + (Len(page) - (index + 1)) <= MaxAccounts
        /\ Asked.requests + (Len(page) - (index + 1)) <= MaxRequests
    BY OnTurn
  <1>3. Shape'
    BY <1>1, <1>2 DEF Shape
  <1>4. CursorsSound'
    BY <1>1 DEF CursorsSound, OfCatalog
  <1>5. Afforded'
    BY <1>2 DEF Afforded
  <1>6. Due' = Due \ {Account}
    BY DEF Due
  <1>7. Left \subseteq Left' \cup {Account}
    <2> SUFFICES ASSUME NEW i \in (index + 1)..Len(page)
                 PROVE  page[i].key[1] \in Left' \cup {Account}
      BY DEF Left
    <2>1. CASE i = index + 1
      BY <1>2, <2>1
    <2>2. CASE i # index + 1
      <3>1. i \in ((index + 1) + 1)..Len(page)
        BY <1>2, <2>2
      <3> QED BY <3>1 DEF Left
    <2> QED BY <2>1, <2>2
  <1>8. OnPage'
    <2>1. Covered /\ Replayable /\ pc = "rows"
      BY <1>1 DEF OnPage, OnRow
    <2>2. Covered'
      BY <1>6, <1>7, <2>1 DEF Covered
    <2>3. /\ Readable(cursor)' <=> Readable(cursor)
          /\ Past(is, cursor) = Past(was, cursor)
      BY DEF Readable, Accepts, RevisionOf, Past
    <2>4. Replayable'
      BY <1>6, <2>1, <2>3 DEF Replayable
    <2> QED BY <2>1, <2>2, <2>4 DEF OnPage
  <1>9. OnCourse'
    BY <1>1, <1>6 DEF OnCourse, Ahead, NobodySkipped
  <1> QED BY <1>3, <1>4, <1>5, <1>8, <1>9 DEF IngestInv

LEMMA PollFailsKeeps ==
    ASSUME IngestInv, PollFails
    PROVE  IngestInv'
  <1>1. /\ OnRow /\ used' = Asked
        /\ index' = index + 1 /\ resumeAfter' = index + 1 /\ owed' = owed \ {Account}
        /\ UNCHANGED <<envelope, epoch, announcements, pc, request, cursor, page, pageNext,
                       cutOff, outcome>>
    BY DEF PollFails
  <1>2. CatalogSound' /\ Store!Current' = Store!Current
    BY <1>1, CatalogStays
  <1>3. /\ Asked \in Usage
        /\ Asked.pages = used.pages /\ Asked.rows = used.rows
        /\ Asked.scanned = used.scanned /\ Asked.bytes = used.bytes
        /\ Asked.accounts <= MaxAccounts /\ Asked.requests <= MaxRequests
    BY <1>1, OnTurn
  <1>4. WithinBudget'
    BY <1>1, <1>3 DEF IngestInv, Afforded, WithinBudget
  <1> QED BY <1>1, <1>2, <1>3, <1>4, AdvanceKeeps

LEMMA PollKeeps ==
    ASSUME IngestInv, Poll
    PROVE  IngestInv'
  <1>1. /\ OnRow /\ RequestLimit >= 1
        /\ used.bytes + Bytes(Account) <= MaxBytes
        /\ used' = [Asked EXCEPT !.rows = @ + Brought(Account),
                                 !.scanned = used.scanned + Brought(Account),
                                 !.bytes = @ + Bytes(Account)]
        /\ Store!Commit(PageOf(Account))
        /\ index' = index + 1 /\ resumeAfter' = index + 1 /\ owed' = owed \ {Account}
        /\ UNCHANGED <<pc, request, cursor, page, pageNext, cutOff, outcome, announcements>>
    BY DEF Poll, bounds
  <1>2. /\ Account \in Accounts /\ Asked \in Usage
        /\ Asked.pages = used.pages /\ Asked.rows = used.rows
        /\ Asked.scanned = used.scanned /\ Asked.bytes = used.bytes
        /\ Asked.accounts <= MaxAccounts /\ Asked.requests <= MaxRequests
    BY <1>1, OnTurn
  <1>3. /\ Brought(Account) \in Nat /\ Bytes(Account) \in Nat
        /\ used.rows + Brought(Account) <= MaxResultRows
        /\ used.scanned + Brought(Account) <= MaxScanned
    BY <1>1, <1>2, BroughtIs
  <1>4. CatalogSound
    BY DEF IngestInv
  <1>5. /\ PageOf(Account) \in Job /\ WellFormed(PageOf(Account))
        /\ PageOf(Account).kind = "materialize"
    BY <1>2, <1>3, <1>4, PageIsAJob
  <1>6. PICK job \in Job : job = PageOf(Account)
    BY <1>5
  <1>7. /\ EnvelopeSound(Store!Current') /\ epoch' \in Nat /\ CatalogMoves
        /\ Store!Current'.observations = Store!Current.observations
        /\ Store!Current'.catalogRevision = Store!Current.catalogRevision
    BY <1>1, <1>4, <1>5, <1>6, CatalogCommits
  <1>8. CatalogSound' /\ Store!Current'.cursorKey = Store!Current.cursorKey
    BY <1>1, <1>4, <1>7 DEF CatalogSound, CatalogMoves
  <1>9. PICK n \in Nat, b \in Nat : n = Brought(Account) /\ b = Bytes(Account)
    BY <1>3
  <1>10. PICK u \in Usage : u = Asked
    BY <1>2
  <1>11. used' = [u EXCEPT !.rows = u.rows + n, !.scanned = u.scanned + n,
                           !.bytes = u.bytes + b]
    BY <1>1, <1>2, <1>9, <1>10
  <1>12. /\ used'.rows = u.rows + n /\ used'.scanned = u.scanned + n
         /\ used'.bytes = u.bytes + b /\ used'.accounts = u.accounts
         /\ used'.requests = u.requests /\ used'.pages = u.pages
    BY <1>11 DEF Usage
  <1>13. used' \in Usage
    <2>1. PICK v \in Usage : v = [u EXCEPT !.rows = u.rows + n]
      <3>1. [u EXCEPT !.rows = u.rows + n] \in Usage
        BY DEF Usage
      <3> QED BY <3>1
    <2>2. v.scanned = u.scanned /\ v.bytes = u.bytes
      BY <2>1 DEF Usage
    <2>3. PICK w \in Usage : w = [v EXCEPT !.scanned = v.scanned + n]
      <3>1. [v EXCEPT !.scanned = v.scanned + n] \in Usage
        BY DEF Usage
      <3> QED BY <3>1
    <2>4. w.bytes = v.bytes
      BY <2>3 DEF Usage
    <2>5. [w EXCEPT !.bytes = w.bytes + b] \in Usage
      BY DEF Usage
    <2> QED BY <1>11, <2>1, <2>2, <2>3, <2>4, <2>5
  <1>14. WithinBudget'
    BY <1>1, <1>2, <1>3, <1>9, <1>10, <1>12 DEF IngestInv, Afforded, WithinBudget
  <1> QED BY <1>1, <1>7, <1>8, <1>10, <1>12, <1>13, <1>14, AdvanceKeeps

LEMMA EndPageKeeps ==
    ASSUME IngestInv, EndPage
    PROVE  IngestInv'
  <1>1. /\ CatalogSound /\ Shape /\ CursorsSound /\ Afforded /\ OnPage /\ OnCourse
        /\ CatalogSound' /\ Store!Current' = Store!Current
    BY CatalogStays DEF IngestInv, EndPage, bounds
  <1>2. /\ pc = "rows" /\ index = Len(page) /\ pc' # "rows"
        /\ UNCHANGED <<request, page, pageNext, index, resumeAfter, used, owed, cutOff>>
        /\ \/ pc' = "cursor" /\ UNCHANGED <<cursor, outcome>>
           \/ pageNext = Absent /\ pc' = "idle" /\ cursor' = request /\ outcome' = "traversed"
           \/ pageNext # Absent /\ pc' = "loop" /\ cursor' = pageNext /\ UNCHANGED outcome
    BY DEF EndPage, Return
  <1>3. Shape'
    BY <1>1, <1>2 DEF Shape
  <1>4. CursorsSound'
    BY <1>1, <1>2 DEF CursorsSound, OfCatalog
  <1>5. Afforded'
    BY <1>1, <1>2 DEF Afforded, WithinBudget
  <1>6. /\ Covered /\ Replayable /\ resumeAfter = index /\ Left = {}
    <2>1. Len(page) \in Nat
      BY <1>1 DEF Shape, Addressed
    <2>2. (index + 1)..Len(page) = {}
      BY <1>2, <2>1
    <2>3. Left = {}
      BY <2>2 DEF Left
    <2> QED BY <1>1, <1>2, <2>3 DEF OnPage
  <1>7. /\ Ahead(pageNext)
        /\ pageNext = Absent => Due = {}
    BY <1>6 DEF Covered, Ahead
  <1>8. Due' = Due
    BY <1>2 DEF Due
  <1>9. OnPage'
    <2>1. CASE pc' = "cursor"
      <3>1. cursor' = cursor
        BY <1>2, <2>1
      <3>2. Covered' /\ Ahead(pageNext)' /\ Replayable'
        BY <1>1, <1>2, <1>6, <1>7, <1>8, <3>1
           DEF Covered, Ahead, Replayable, Readable, Left
      <3> QED BY <1>2, <1>6, <3>2 DEF OnPage
    <2>2. CASE pc' # "cursor"
      BY <1>2, <2>2 DEF OnPage
    <2> QED BY <2>1, <2>2
  <1>10. OnCourse'
    BY <1>1, <1>2, <1>7, <1>8 DEF OnCourse, Ahead, Due, NobodySkipped
  <1> QED BY <1>1, <1>3, <1>4, <1>5, <1>9, <1>10 DEF IngestInv

\* Row k of what is read again is not behind row k of the page that was read.
LEMMA ResumeKeeps ==
    ASSUME IngestInv, Resume
    PROVE  IngestInv'
  <1>1. /\ CatalogSound /\ Shape /\ CursorsSound /\ Afforded /\ OnPage /\ OnCourse
        /\ CatalogSound' /\ Store!Current' = Store!Current
    BY CatalogStays DEF IngestInv, Resume, bounds
  <1>2. /\ pc = "cursor" /\ pc' = "idle"
        /\ UNCHANGED <<request, page, pageNext, index, resumeAfter, used, owed, cutOff>>
        /\ \/ cursor' = Absent /\ outcome' = "threw"
           \/ /\ ~(pageNext = Absent /\ resumeAfter > 0 /\ ~Readable(cursor))
              /\ cursor' = IF ResumeAt = Absent THEN request ELSE ResumeAt
              /\ outcome' = "more"
    BY DEF Resume, Return, Throw
  <1>3. Shape' /\ Afforded' /\ OnPage' /\ Due' = Due
    BY <1>1, <1>2 DEF Shape, Afforded, WithinBudget, OnPage, Due
  <1>4. CASE cursor' = Absent /\ outcome' = "threw"
    <2>1. CursorsSound'
      BY <1>1, <1>2, <1>4 DEF CursorsSound, OfCatalog
    <2>2. OnCourse'
      BY <1>1, <1>2, <1>4 DEF OnCourse, NobodySkipped
    <2> QED BY <1>1, <1>3, <2>1, <2>2 DEF IngestInv
  <1>5. CASE ~(cursor' = Absent /\ outcome' = "threw")
    <2>1. /\ ~(pageNext = Absent /\ resumeAfter > 0 /\ ~Readable(cursor))
          /\ cursor' = IF ResumeAt = Absent THEN request ELSE ResumeAt
          /\ outcome' = "more"
      BY <1>2, <1>5
    <2>2. /\ resumeAfter = index /\ Covered /\ Replayable /\ Ahead(pageNext)
          /\ Ahead(cursor) /\ Ahead(request)
      BY <1>1, <1>2 DEF OnPage, OnCourse
    <2>3. OfCatalog(Store!Current, ResumeAt) /\ Ahead(ResumeAt)
      <3>1. CASE pageNext # Absent
        BY <1>1, <2>2, <3>1 DEF ResumeAt, CursorsSound
      <3>2. CASE pageNext = Absent /\ resumeAfter = 0
        BY <1>1, <2>2, <3>2 DEF ResumeAt, CursorsSound
      <3>3. CASE pageNext = Absent /\ resumeAfter # 0
        <4> DEFINE rest == From(cursor)
                   k == resumeAfter
        <4>1. /\ page \in Addressed /\ Len(page) \in Nat /\ Ascends(page)
              /\ k \in 1..Len(page) /\ k = index
          BY <1>1, <2>2, <3>3 DEF Shape, Addressed
        <4>2. Readable(cursor) /\ ResumeAt = NextOf(k, rest)
          BY <2>1, <3>3, <4>1 DEF ResumeAt
        <4>3. /\ rest \in Addressed /\ Ascends(rest)
              /\ AddressesOf(rest) = Past(Store!Current, cursor)
          BY <1>1, FromIs DEF CatalogSound, CursorsSound
        <4> HIDE DEF rest, k
        <4>4. CASE ~(k < Len(rest))
          BY <4>2, <4>4 DEF NextOf, OfCatalog, Ahead
        <4>5. CASE Due = {} /\ k < Len(rest)
          <5>1. OfCatalog(Store!Current, NextOf(k, rest))
            BY <1>1, <4>1, <4>3, <4>5, NextIs
          <5> QED BY <4>2, <4>5, <5>1 DEF Ahead
        <4>6. CASE Due # {} /\ k < Len(rest)
          <5>1. AddressesOf(page) \subseteq AddressesOf(rest)
            BY <2>2, <3>3, <4>2, <4>3, <4>6 DEF Replayable, Past
          <5>2. /\ rest \in Seq(CatalogRow) /\ page \in Seq(CatalogRow)
                /\ \A i \in 1..Len(rest) : rest[i].key[1] \in Int
                /\ \A i \in 1..Len(page) : page[i].key[1] \in Int
            BY <4>1, <4>3 DEF Addressed
          <5>3. rest[k].key[1] <= page[k].key[1]
            BY <4>1, <4>3, <5>1, <5>2, MoreIsNoLater
          <5>4. k \in 1..Len(rest) /\ k \in Nat \ {0}
            <6>1. Len(rest) \in Nat
              BY <5>2
            <6> QED BY <4>1, <4>6, <6>1
          <5>5. /\ NextOf(k, rest) # Absent
                /\ OfCatalog(Store!Current, NextOf(k, rest))
                /\ NextOf(k, rest).after[1] = rest[k].key[1]
            BY <1>1, <4>3, <4>6, <5>4, NextIs
          <5>6. ASSUME NEW who \in Due PROVE rest[k].key[1] < who
            <6>1. who \in Left
              BY <2>2, <3>3 DEF Covered
            <6>2. PICK i \in (k + 1)..Len(page) : who = page[i].key[1]
              BY <4>1, <6>1 DEF Left
            <6>3. i \in 1..Len(page) /\ k < i
              BY <4>1, <6>2
            <6>4. page[k].key[1] < page[i].key[1]
              BY <4>1, <6>3 DEF Ascends
            <6> QED BY <4>1, <5>2, <5>3, <5>4, <6>2, <6>3, <6>4
          <5> QED BY <4>2, <5>5, <5>6 DEF Ahead
        <4> QED BY <4>4, <4>5, <4>6
      <3> QED BY <3>1, <3>2, <3>3
    <2>4. CursorsSound'
      BY <1>1, <1>2, <2>1, <2>3 DEF CursorsSound, OfCatalog
    <2>5. OnCourse'
      BY <1>1, <1>2, <1>3, <2>1, <2>2, <2>3 DEF OnCourse, Ahead, NobodySkipped
    <2> QED BY <1>1, <1>3, <2>4, <2>5 DEF IngestInv
  <1> QED BY <1>4, <1>5

LEMMA NothingMoves ==
    ASSUME IngestInv, UNCHANGED ingestVars
    PROVE  IngestInv'
  <1>1. /\ CatalogSound /\ Shape /\ CursorsSound /\ Afforded /\ OnPage /\ OnCourse
        /\ CatalogSound' /\ Store!Current' = Store!Current
        /\ UNCHANGED <<envelope, epoch, progress, history, bounds>>
    BY CatalogStays DEF IngestInv, ingestVars, bounds
  <1>2. UNCHANGED <<pc, request, cursor, page, pageNext, index, resumeAfter, used,
                    owed, cutOff, outcome>>
    BY <1>1 DEF progress, history
  <1>3. Shape' /\ CursorsSound' /\ Afforded'
    BY <1>1, <1>2 DEF Shape, CursorsSound, OfCatalog, Afforded, WithinBudget
  <1>4. Due' = Due
    BY <1>2 DEF Due
  <1>5. OnPage'
    BY <1>1, <1>2, <1>4 DEF OnPage, Covered, Left, Replayable, Readable, Ahead
  <1>6. OnCourse'
    BY <1>1, <1>2, <1>4 DEF OnCourse, Ahead, NobodySkipped
  <1> QED BY <1>1, <1>3, <1>5, <1>6 DEF IngestInv

LEMMA IngestStep == IngestInv /\ [IngestNext]_ingestVars => IngestInv'
  <1> SUFFICES ASSUME IngestInv, [IngestNext]_ingestVars PROVE IngestInv'
    OBVIOUS
  <1>1. ASSUME NEW a \in Accounts, AnnounceAccount(a) PROVE IngestInv'
    BY <1>1, AnnounceKeeps
  <1>2. CASE Ingest
    BY <1>2, IngestKeeps
  <1>3. CASE Work
    BY <1>3, ReadPageKeeps, LeaveLoopKeeps, BudgetSpentKeeps, PollKeeps, TooLongKeeps,
       EndPageKeeps, ResumeKeeps DEF Work
  <1>4. CASE PollFails
    BY <1>4, PollFailsKeeps
  <1>5. CASE PollStopped
    BY <1>5, PollStoppedKeeps
  <1>6. CASE Interrupted
    BY <1>6, InterruptedKeeps
  <1>7. CASE UNCHANGED ingestVars
    BY <1>7, NothingMoves
  <1> QED BY <1>1, <1>2, <1>3, <1>4, <1>5, <1>6, <1>7 DEF IngestNext

LEMMA IngestorWords == IngestInv => IngestKeepsItsWord
  <1> SUFFICES ASSUME IngestInv PROVE IngestKeepsItsWord
    OBVIOUS
  <1>1. envelope # Absent => Opens(envelope)
    BY EnvelopeIsFound DEF IngestInv
  <1>2. IngestTypes
    BY <1>1 DEF IngestInv, Shape, IngestTypes
  <1>3. WithinBudget /\ NobodySkipped
    BY DEF IngestInv, Afforded, OnCourse
  <1> QED BY <1>2, <1>3 DEF IngestKeepsItsWord

\* For any catalog, any budget and any provider: no call of ingest() takes more
\* than its budget, wherever it stops, and when a call says that the traversal
\* is through, every account that was in the catalog from the beginning of the
\* traversal on has been polled or reported as failed, whatever was stopped,
\* thrown, replayed, announced, folded and evicted on the way; the exceptions
\* are the two that NobodySkipped names (ingest, nextCursor, catalogCursorAfter).
THEOREM IngestorKeepsItsWord == IngestSpec => []IngestKeepsItsWord
  BY IngestBegins, IngestStep, IngestorWords, PTL DEF IngestSpec
=============================================================================
