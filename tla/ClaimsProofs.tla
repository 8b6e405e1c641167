---------------------------- MODULE ClaimsProofs ----------------------------
(***************************************************************************)
(* Proofs about Claims: what pages hold and sign for is in the store, for  *)
(* any number of pages, calls, roots and faults.                           *)
(***************************************************************************)
EXTENDS Claims, SumTheorems, SequenceTheorems

(***************************************************************************)
(* The inductive invariant: what each call may rely on at the await it is  *)
(* at, and what pages and store keep.                                      *)
(***************************************************************************)

Loading == {"list", "read"}

\* Where a call is at a bundle, the first of its todo.
AtBundle == {"admit", "authorise", "confirm", "verify", "submit", "remove", "forget", "commit"}

Kinds == {"none", "ready", "add", "claim", "claimAll", "pending"}
Phases == {"none", "hydrate", "reconcile", "retain", "claim"}
Places == {"idle", "retain", "reconcile", "pending", "next"} \cup Loading \cup AtBundle

CallType ==
    [kind : Kinds, tab : Tabs \cup {"none"}, phase : Phases, pc : Places,
     todo : Seq(Bundle \cup Record)]

RootsOf(S) == {e.root : e \in S}

\* A call is as its page and pc say; a page is loaded by one call, into an empty
\* Map; between candidate and authority nobody else admits the root; what is
\* signed for is in the store, and what is removed is settled.
Sound(k, pages, maps, recs, settled) ==
    /\ k \in CallType
    /\ k.pc = "idle" => k = Idle
    /\ k.pc # "idle" => /\ k.tab \in Tabs
                        /\ pages[k.tab] = IF k.kind = "ready" THEN "starting" ELSE "open"
    /\ k.pc = "list" => maps[k.tab] = <<>>
    /\ k.pc \in Loading => /\ k.kind = "ready"
                           /\ k.todo \in Seq(Record)
                           /\ OnePerRoot(k.todo)
                           /\ RootsIn(k.todo) \cap RootsIn(maps[k.tab]) = {}
    /\ k.pc \notin Loading => k.todo \in Seq(Bundle)
    /\ k.pc \in AtBundle => k.todo # <<>>
    /\ k.pc = "authorise" =>
           Head(k.todo).root \in RootsIn(recs) \ RootsOf(AdmittedIn(recs))
    /\ k.pc = "submit" => Head(k.todo) \in AdmittedIn(recs) \/ Head(k.todo).root \in settled
    /\ k.pc = "remove" => Head(k.todo).root \in settled

Ready(k) == k.pc # "idle" /\ k.kind = "ready"

CallsSound(cs, pages, maps, recs, settled) ==
    /\ DOMAIN cs = Calls /\ cs = [c \in Calls |-> cs[c]]
    /\ \A c \in Calls : Sound(cs[c], pages, maps, recs, settled)
    /\ \A c, d \in Calls : Ready(cs[c]) /\ Ready(cs[d]) /\ cs[c].tab = cs[d].tab => c = d
    /\ \A c, d \in Calls : cs[c].pc = "authorise" /\ cs[d].pc = "authorise" => c = d

\* What a page holds: nothing when it is closed, and only what the store holds too.
PagesSound(pages, maps, recs, settled) ==
    /\ pages \in [Tabs -> {"closed", "starting", "open"}]
    /\ maps \in [Tabs -> Seq(Bundle)]
    /\ \A t \in Tabs : OnePerRoot(maps[t])
    /\ \A t \in Tabs : pages[t] = "closed" => maps[t] = <<>>
    /\ \A t \in Tabs : \A b \in ToSet(maps[t]) : b \in AdmittedIn(recs) \/ b.root \in settled

StoreSound(recs) == recs \in Seq(Record) /\ OnePerRoot(recs) /\ Len(recs) <= MaxPending

NodeSound ==
    /\ claimed \subseteq Roots /\ closed \subseteq known /\ known \subseteq Roots
    /\ full \subseteq Capped

ClaimsInv ==
    /\ CallsSound(calls, tab, held, records, Settled)
    /\ PagesSound(tab, held, records, Settled)
    /\ StoreSound(records)
    /\ NodeSound
    /\ faults \in 0 .. MaxFaults
-----------------------------------------------------------------------------
(* the lists of entries by root                                            *)

LEMMA ListBasics ==
    ASSUME NEW S, NEW list \in Seq(S)
    PROVE  /\ DOMAIN list = 1 .. Len(list) /\ Len(list) \in Nat
           /\ \A i \in 1 .. Len(list) : list[i] \in S
           /\ ToSet(list) \subseteq S
           /\ RootsIn(list) = RootsOf(ToSet(list))
BY DEF ToSet, RootsIn, RootsOf

\* What With puts into a list, and what it leaves there.
LEMMA WithIsAList ==
    ASSUME NEW S, NEW list \in Seq(S), OnePerRoot(list), NEW e \in S
    PROVE  /\ With(list, e) \in Seq(S)
           /\ OnePerRoot(With(list, e))
           /\ ToSet(With(list, e)) = {x \in ToSet(list) : x.root # e.root} \cup {e}
           /\ Len(With(list, e)) = Len(list) + (IF e.root \in RootsIn(list) THEN 0 ELSE 1)
<1> DEFINE w == With(list, e)
<1>0. /\ DOMAIN list = 1 .. Len(list) /\ Len(list) \in Nat
      /\ \A i \in 1 .. Len(list) : list[i] \in S
  BY ListBasics
<1>1. CASE e.root \in RootsIn(list)
  <2>1. w = [i \in 1 .. Len(list) |-> IF list[i].root = e.root THEN e ELSE list[i]]
    BY <1>0, <1>1 DEF With
  <2>2. w \in Seq(S) /\ Len(w) = Len(list) /\ DOMAIN w = 1 .. Len(list)
    BY <1>0, <2>1
  <2>3. \A i \in 1 .. Len(list) : w[i] = IF list[i].root = e.root THEN e ELSE list[i]
    BY <2>1
  <2>4. PICK k \in 1 .. Len(list) : list[k].root = e.root
    BY <1>0, <1>1 DEF RootsIn
  <2> HIDE DEF w
  <2>5. OnePerRoot(w)
    <3> SUFFICES ASSUME NEW i \in 1 .. Len(list), NEW j \in 1 .. Len(list), w[i].root = w[j].root
                 PROVE  i = j
      BY <2>2 DEF OnePerRoot
    <3>1. w[i].root = list[i].root /\ w[j].root = list[j].root
      BY <2>3
    <3> QED BY <3>1, <1>0 DEF OnePerRoot
  <2>6. ToSet(w) = {x \in ToSet(list) : x.root # e.root} \cup {e}
    <3>1. \A x \in ToSet(w) : x \in {y \in ToSet(list) : y.root # e.root} \cup {e}
      BY <2>2, <2>3, <1>0 DEF ToSet
    <3>2. e \in ToSet(w)
      BY <2>2, <2>3, <2>4 DEF ToSet
    <3>3. \A x \in ToSet(list) : x.root # e.root => x \in ToSet(w)
      BY <2>2, <2>3, <1>0 DEF ToSet
    <3> QED BY <3>1, <3>2, <3>3
  <2> QED BY <2>2, <2>5, <2>6, <1>1, <1>0 DEF w
<1>2. CASE e.root \notin RootsIn(list)
  <2>1. w = Append(list, e)
    BY <1>2 DEF With
  <2>2. /\ w \in Seq(S) /\ Len(w) = Len(list) + 1 /\ DOMAIN w = 1 .. Len(list) + 1
        /\ \A i \in 1 .. Len(list) : w[i] = list[i]
        /\ w[Len(list) + 1] = e
    BY <1>0, <2>1, AppendProperties
  <2>3. \A i \in 1 .. Len(list) : list[i].root # e.root
    BY <1>0, <1>2 DEF RootsIn
  <2>4. \A i \in 1 .. Len(list) + 1 : i \in 1 .. Len(list) \/ i = Len(list) + 1
    BY <1>0
  <2> HIDE DEF w
  <2>5. OnePerRoot(w)
    BY <2>2, <2>3, <2>4, <1>0 DEF OnePerRoot
  <2>6. ToSet(w) = {x \in ToSet(list) : x.root # e.root} \cup {e}
    <3>1. \A x \in ToSet(w) : x \in {y \in ToSet(list) : y.root # e.root} \cup {e}
      BY <2>2, <2>3, <2>4, <1>0 DEF ToSet
    <3>2. e \in ToSet(w)
      BY <2>2, <1>0 DEF ToSet
    <3>3. \A x \in ToSet(list) : x \in ToSet(w)
      BY <2>2, <1>0 DEF ToSet
    <3> QED BY <3>1, <3>2, <3>3
  <2> QED BY <2>2, <2>5, <2>6, <1>2, <1>0 DEF w
<1> QED BY <1>1, <1>2

\* What Without takes out of a list, and what it leaves there.
LEMMA WithoutIsAList ==
    ASSUME NEW S, NEW list \in Seq(S), OnePerRoot(list), NEW r
    PROVE  /\ Without(list, r) \in Seq(S)
           /\ OnePerRoot(Without(list, r))
           /\ ToSet(Without(list, r)) = {x \in ToSet(list) : x.root # r}
           /\ Len(Without(list, r)) <= Len(list)
<1> DEFINE w == Without(list, r)
<1>0. /\ DOMAIN list = 1 .. Len(list) /\ Len(list) \in Nat
      /\ \A i \in 1 .. Len(list) : list[i] \in S
  BY ListBasics
<1>1. CASE r \in RootsIn(list)
  <2> DEFINE k == CHOOSE i \in DOMAIN list : list[i].root = r
  <2>1. k \in 1 .. Len(list) /\ list[k].root = r
    BY <1>0, <1>1 DEF RootsIn
  <2>2. w = SubSeq(list, 1, k - 1) \o SubSeq(list, k + 1, Len(list))
    BY <1>1 DEF Without, RemoveAt
  <2> HIDE DEF k, w
  <2>3. /\ SubSeq(list, 1, k - 1) \in Seq(S)
        /\ Len(SubSeq(list, 1, k - 1)) = k - 1
        /\ \A i \in 1 .. k - 1 : SubSeq(list, 1, k - 1)[i] = list[i]
    <3>1. 1 \in Int /\ k - 1 \in Int /\ \A i \in 1 .. k - 1 : list[i] \in S
      BY <1>0, <2>1
    <3>2. /\ SubSeq(list, 1, k - 1) \in Seq(S)
          /\ Len(SubSeq(list, 1, k - 1)) = IF 1 <= k - 1 THEN k - 1 - 1 + 1 ELSE 0
          /\ \A i \in 1 .. k - 1 - 1 + 1 : SubSeq(list, 1, k - 1)[i] = list[1 + i - 1]
      BY <3>1, SubSeqProperties
    <3> QED BY <3>2, <2>1, <1>0
  <2>4. /\ SubSeq(list, k + 1, Len(list)) \in Seq(S)
        /\ Len(SubSeq(list, k + 1, Len(list))) = Len(list) - k
        /\ \A i \in 1 .. Len(list) - k : SubSeq(list, k + 1, Len(list))[i] = list[k + i]
    <3>1. k + 1 \in Int /\ Len(list) \in Int /\ \A i \in k + 1 .. Len(list) : list[i] \in S
      BY <1>0, <2>1
    <3>2. /\ SubSeq(list, k + 1, Len(list)) \in Seq(S)
          /\ Len(SubSeq(list, k + 1, Len(list))) =
                 IF k + 1 <= Len(list) THEN Len(list) - (k + 1) + 1 ELSE 0
          /\ \A i \in 1 .. Len(list) - (k + 1) + 1 :
                 SubSeq(list, k + 1, Len(list))[i] = list[k + 1 + i - 1]
      BY <3>1, SubSeqProperties
    <3>3. /\ Len(list) - (k + 1) + 1 = Len(list) - k
          /\ \A i \in 1 .. Len(list) - k : k + 1 + i - 1 = k + i
          /\ (IF k + 1 <= Len(list) THEN Len(list) - (k + 1) + 1 ELSE 0) = Len(list) - k
      <4>0. k \in Int /\ Len(list) \in Int /\ 1 <= k /\ k <= Len(list)
        BY <2>1, <1>0
      <4> DEFINE l == Len(list)
      <4>1. l - (k + 1) + 1 = l - k
        <5> HIDE DEF l
        <5> QED BY <4>0 DEF l
      <4>2. \A i \in 1 .. l - k : k + 1 + i - 1 = k + i
        <5> HIDE DEF l
        <5> QED BY <4>0 DEF l
      <4>3. (IF k + 1 <= l THEN l - (k + 1) + 1 ELSE 0) = l - k
        BY <4>0
      <4> QED BY <4>1, <4>2, <4>3
    <3> QED BY <3>2, <3>3
  <2> DEFINE a == SubSeq(list, 1, k - 1)
             b == SubSeq(list, k + 1, Len(list))
  <2>a. a \in Seq(S) /\ Len(a) = k - 1 /\ \A i \in 1 .. k - 1 : a[i] = list[i]
    BY <2>3
  <2>b. b \in Seq(S) /\ Len(b) = Len(list) - k /\ \A i \in 1 .. Len(list) - k : b[i] = list[k + i]
    BY <2>4
  <2>c. w = a \o b
    BY <2>2
  <2> HIDE DEF a, b
  <2>5. /\ w \in Seq(S) /\ Len(w) = Len(list) - 1
        /\ \A i \in 1 .. Len(a) + Len(b) : w[i] = IF i <= Len(a) THEN a[i] ELSE b[i - Len(a)]
    <3>1. /\ a \o b \in Seq(S) /\ Len(a \o b) = Len(a) + Len(b)
          /\ \A i \in 1 .. Len(a) + Len(b) : (a \o b)[i] = IF i <= Len(a) THEN a[i] ELSE b[i - Len(a)]
      BY <2>a, <2>b, ConcatProperties
    <3>2. Len(a) + Len(b) = Len(list) - 1
      BY <2>a, <2>b, <2>1, <1>0
    <3> QED BY <3>1, <3>2, <2>c
  <2>6. DOMAIN w = 1 .. Len(list) - 1
    BY <2>5
  <2>7. \A i \in 1 .. Len(list) - 1 : w[i] = IF i < k THEN list[i] ELSE list[i + 1]
    <3> TAKE i \in 1 .. Len(list) - 1
    <3>0. /\ i \in 1 .. Len(a) + Len(b) /\ (i <= Len(a) <=> i < k)
          /\ i - Len(a) = i - (k - 1)
      BY <2>a, <2>b, <2>1, <1>0
    <3>4. w[i] = IF i <= Len(a) THEN a[i] ELSE b[i - Len(a)]
      BY <3>0, <2>5
    <3>1. CASE i < k
      <4>1. i \in 1 .. k - 1
        BY <3>1, <2>1
      <4> QED BY <4>1, <3>1, <3>0, <3>4, <2>a
    <3>2. CASE ~(i < k)
      <4>4. i - (k - 1) \in 1 .. Len(list) - k
        BY <3>2, <2>1, <1>0
      <4>1. w[i] = b[i - (k - 1)]
        BY <3>2, <3>0, <3>4
      <4>2. b[i - (k - 1)] = list[k + (i - (k - 1))]
        BY <4>4, <2>b
      <4>3. k + (i - (k - 1)) = i + 1
        BY <2>1, <1>0
      <4> QED BY <4>1, <4>2, <4>3, <3>2
    <3> QED BY <3>1, <3>2
  <2>8. OnePerRoot(w)
    <3> SUFFICES ASSUME NEW i \in 1 .. Len(list) - 1, NEW j \in 1 .. Len(list) - 1,
                        w[i].root = w[j].root
                 PROVE  i = j
      BY <2>6 DEF OnePerRoot
    <3> DEFINE at(n) == IF n < k THEN n ELSE n + 1
    <3>1. /\ w[i] = list[at(i)] /\ w[j] = list[at(j)]
          /\ at(i) \in 1 .. Len(list) /\ at(j) \in 1 .. Len(list)
      BY <2>7, <2>1, <1>0
    <3>2. at(i) = at(j)
      <4> HIDE DEF at
      <4> QED BY <3>1, <1>0 DEF OnePerRoot
    <3> QED BY <3>2, <2>1, <1>0
  <2>9. ToSet(w) = {x \in ToSet(list) : x.root # r}
    <3>1. \A x \in ToSet(w) : x \in ToSet(list) /\ x.root # r
      <4> TAKE x \in ToSet(w)
      <4>1. PICK i \in 1 .. Len(list) - 1 : x = w[i]
        BY <2>6 DEF ToSet
      <4>2. PICK j \in 1 .. Len(list) : x = list[j] /\ j # k
        BY <4>1, <2>7, <2>1, <1>0
      <4>3. x.root # r
        BY <4>2, <2>1, <1>0 DEF OnePerRoot
      <4> QED BY <4>2, <4>3, <1>0 DEF ToSet
    <3>2. \A x \in ToSet(list) : x.root # r => x \in ToSet(w)
      <4> SUFFICES ASSUME NEW j \in 1 .. Len(list), list[j].root # r
                   PROVE  list[j] \in ToSet(w)
        BY <1>0 DEF ToSet
      <4>1. j # k
        BY <2>1
      <4>2. CASE j < k
        <5>1. j \in 1 .. Len(list) - 1 /\ w[j] = list[j]
          BY <4>2, <2>7, <2>1, <1>0
        <5> QED BY <5>1, <2>6 DEF ToSet
      <4>3. CASE k < j
        <5>1. j - 1 \in 1 .. Len(list) - 1 /\ ~(j - 1 < k) /\ j - 1 + 1 = j
          BY <4>3, <2>1, <1>0
        <5>2. w[j - 1] = list[j]
          BY <5>1, <2>7
        <5> QED BY <5>1, <5>2, <2>6 DEF ToSet
      <4> QED BY <4>1, <4>2, <4>3, <2>1
    <3> QED BY <3>1, <3>2
  <2> QED BY <2>5, <2>8, <2>9, <1>0 DEF w
<1>2. CASE r \notin RootsIn(list)
  <2>1. w = list
    BY <1>2 DEF Without
  <2>2. \A x \in ToSet(list) : x.root # r
    BY <1>0, <1>2 DEF RootsIn, ToSet
  <2> HIDE DEF w
  <2> QED BY <2>1, <2>2, <1>0 DEF w
<1> QED BY <1>1, <1>2

LEMMA TailIsAList ==
    ASSUME NEW S, NEW list \in Seq(S), OnePerRoot(list), list # <<>>
    PROVE  /\ Head(list) \in S /\ Head(list).root \in RootsIn(list)
           /\ Tail(list) \in Seq(S)
           /\ OnePerRoot(Tail(list))
           /\ RootsIn(Tail(list)) \subseteq RootsIn(list) \ {Head(list).root}
<1> DEFINE t == Tail(list)
<1>0. /\ DOMAIN list = 1 .. Len(list) /\ Len(list) \in Nat
      /\ \A i \in 1 .. Len(list) : list[i] \in S
  BY ListBasics
<1>1. /\ Head(list) \in S /\ t \in Seq(S) /\ Len(t) = Len(list) - 1
      /\ \A i \in 1 .. Len(t) : t[i] = list[i + 1]
  BY HeadTailProperties
<1>2. Head(list) = list[1] /\ 1 \in 1 .. Len(list)
  BY <1>0, EmptySeq
<1> HIDE DEF t
<1>3. /\ DOMAIN t = 1 .. Len(t) /\ Len(t) \in Nat
      /\ \A i \in 1 .. Len(t) : i + 1 \in 1 .. Len(list) /\ i + 1 # 1
  BY <1>0, <1>1
<1>4. OnePerRoot(t)
  <2> SUFFICES ASSUME NEW i \in 1 .. Len(t), NEW j \in 1 .. Len(t), t[i].root = t[j].root
               PROVE  i = j
    BY <1>3 DEF OnePerRoot
  <2>1. i + 1 = j + 1
    <3>1. i + 1 \in DOMAIN list /\ j + 1 \in DOMAIN list /\ list[i + 1].root = list[j + 1].root
      BY <1>0, <1>1, <1>3
    <3> QED BY <3>1 DEF OnePerRoot
  <2> QED BY <2>1
<1>5. RootsIn(t) \subseteq RootsIn(list) \ {list[1].root}
  <2> SUFFICES ASSUME NEW i \in 1 .. Len(t)
               PROVE  t[i].root \in RootsIn(list) /\ t[i].root # list[1].root
    BY <1>3 DEF RootsIn
  <2>1. i + 1 \in DOMAIN list /\ t[i] = list[i + 1] /\ i + 1 # 1 /\ 1 \in DOMAIN list
    BY <1>0, <1>1, <1>2, <1>3
  <2> QED BY <2>1 DEF OnePerRoot, RootsIn
<1>6. Head(list).root \in RootsIn(list)
  BY <1>0, <1>2 DEF RootsIn
<1> QED BY <1>1, <1>2, <1>4, <1>5, <1>6 DEF t

\* The entries of one root, none or one, at the end of a list without that root.
LEMMA ReadIsAList ==
    ASSUME NEW S, NEW list \in Seq(S), OnePerRoot(list), NEW r, r \notin RootsIn(list),
           NEW B \in SUBSET S, \A x \in B : x.root = r, \A x, y \in B : x = y
    PROVE  /\ list \o SetToSeq(B) \in Seq(S)
           /\ OnePerRoot(list \o SetToSeq(B))
           /\ ToSet(list \o SetToSeq(B)) = ToSet(list) \cup B
<1> DEFINE s == SetToSeq(B)
           w == list \o s
           n == Cardinality(B)
<1>0. /\ DOMAIN list = 1 .. Len(list) /\ Len(list) \in Nat
      /\ \A i \in 1 .. Len(list) : list[i] \in S
  BY ListBasics
<1>1. s \in Seq(S) /\ Len(s) <= 1 /\ ToSet(s) = B
  <2>1. CASE B = {}
    <3>1. n = 0
      BY <2>1, FS_EmptySet
    <3> DEFINE e == [i \in {} |-> 0]
    <3>2. e \in [1 .. n -> B] /\ IsInjective(e)
      BY <3>1 DEF IsInjective
    <3>3. s \in [1 .. n -> B]
      BY <3>2 DEF SetToSeq
    <3> HIDE DEF s, n
    <3> QED BY <2>1, <3>1, <3>3 DEF ToSet
  <2>2. CASE B # {}
    <3>1. PICK x \in B : B = {x}
      BY <2>2
    <3>2. n = 1
      BY <3>1, FS_Singleton
    <3> DEFINE e == [i \in 1 .. 1 |-> x]
    <3>3. e \in [1 .. n -> B] /\ IsInjective(e)
      BY <3>1, <3>2 DEF IsInjective
    <3>4. s \in [1 .. n -> B]
      BY <3>3 DEF SetToSeq
    <3> HIDE DEF s, n
    <3>5. s \in [1 .. 1 -> S] /\ s[1] = x /\ Len(s) = 1 /\ DOMAIN s = 1 .. 1
      BY <3>1, <3>2, <3>4
    <3>6. s \in Seq(S)
      BY <3>5, SeqDef
    <3>7. ToSet(s) = {x}
      BY <3>5 DEF ToSet
    <3> QED BY <3>1, <3>5, <3>6, <3>7
  <2> QED BY <2>1, <2>2
<1> HIDE DEF s
<1>2. /\ w \in Seq(S) /\ Len(w) = Len(list) + Len(s) /\ DOMAIN w = 1 .. Len(list) + Len(s)
      /\ \A i \in 1 .. Len(list) + Len(s) : w[i] = IF i <= Len(list) THEN list[i] ELSE s[i - Len(list)]
  BY <1>1, ConcatProperties
<1>3. DOMAIN s = 1 .. Len(s) /\ Len(s) \in {0, 1}
  <2>1. DOMAIN s = 1 .. Len(s) /\ Len(s) \in Nat
    BY <1>1, ListBasics
  <2> QED BY <2>1, <1>1
<1>4. \A i \in 1 .. Len(s) : s[i].root = r /\ s[i] \in B
  BY <1>1, <1>3 DEF ToSet
<1>5. \A i \in 1 .. Len(list) : list[i].root # r
  BY <1>0 DEF RootsIn
<1> HIDE DEF w
<1>6. \A i \in DOMAIN w : \/ i \in 1 .. Len(list) /\ w[i] = list[i]
                          \/ i = Len(list) + 1 /\ w[i] = s[1] /\ Len(s) = 1
  BY <1>0, <1>2, <1>3
<1>7. OnePerRoot(w)
  BY <1>0, <1>3, <1>4, <1>5, <1>6 DEF OnePerRoot
<1>8. ToSet(w) = ToSet(list) \cup B
  <2>1. ToSet(w) \subseteq ToSet(list) \cup B
    BY <1>0, <1>3, <1>4, <1>6 DEF ToSet
  <2>2. \A i \in 1 .. Len(list) : list[i] \in ToSet(w)
    BY <1>0, <1>2, <1>3 DEF ToSet
  <2>3. \A i \in 1 .. Len(s) : s[i] \in ToSet(w)
    <3> TAKE i \in 1 .. Len(s)
    <3>1. /\ Len(list) + i \in DOMAIN w /\ ~(Len(list) + i <= Len(list))
          /\ Len(list) + i - Len(list) = i
      BY <1>0, <1>2, <1>3
    <3>2. w[Len(list) + i] = s[i]
      BY <3>1, <1>2
    <3> QED BY <3>1, <3>2 DEF ToSet
  <2>4. ToSet(list) \subseteq ToSet(w)
    BY <2>2, <1>0 DEF ToSet
  <2>5. ToSet(s) \subseteq ToSet(w)
    BY <2>3, <1>3 DEF ToSet
  <2> QED BY <2>1, <2>4, <2>5, <1>1
<1> QED BY <1>2, <1>7, <1>8 DEF w, s

\* What is new of a delivery is a list of bundles.
LEMMA AdditionsAreAList ==
    ASSUME NEW S, NEW delivery \in Seq(S), NEW list
    PROVE  Additions(delivery, list) \in Seq(S)
<1> DEFINE Fn(f, i) == IF i = 0 THEN <<>>
                       ELSE IF delivery[i].root \in RootsIn(list) \cup RootsIn(f[i - 1])
                            THEN f[i - 1]
                            ELSE Append(f[i - 1], delivery[i])
           Long(n) == \E f \in [0 .. n -> Seq(S)] : f = [i \in 0 .. n |-> Fn(f, i)]
           Short == {n \in 0 .. Len(delivery) : ~Long(n)}
<1>0. Len(delivery) \in Nat /\ \A i \in 1 .. Len(delivery) : delivery[i] \in S
  BY ListBasics
<1>1. Long(0)
  <2> DEFINE f == [i \in 0 .. 0 |-> <<>>]
  <2>1. f \in [0 .. 0 -> Seq(S)] /\ f = [i \in 0 .. 0 |-> Fn(f, i)]
    OBVIOUS
  <2> QED BY <2>1
<1>2. ASSUME NEW n \in 1 .. Len(delivery), Long(n - 1)
      PROVE  Long(n)
  <2>1. PICK f \in [0 .. n - 1 -> Seq(S)] : f = [i \in 0 .. n - 1 |-> Fn(f, i)]
    BY <1>2
  <2>2. Fn(f, n) \in Seq(S)
    <3>1. f[n - 1] \in Seq(S) /\ delivery[n] \in S
      BY <1>0, <2>1
    <3> QED BY <3>1, AppendProperties
  <2> DEFINE g == [i \in 0 .. n |-> IF i = n THEN Fn(f, n) ELSE f[i]]
  <2>3. g \in [0 .. n -> Seq(S)]
    <3> HIDE DEF Fn
    <3> QED BY <2>1, <2>2
  <2>4. \A i \in 1 .. n : g[i - 1] = f[i - 1]
    <3> HIDE DEF Fn
    <3> QED BY <2>1
  <2>5. \A i \in 0 .. n : Fn(g, i) = Fn(f, i)
    BY <2>4
  <2>6. \A i \in 0 .. n : g[i] = Fn(g, i)
    <3>1. \A i \in 0 .. n - 1 : f[i] = Fn(f, i)
      BY <2>1
    <3> TAKE i \in 0 .. n
    <3>2. CASE i = n
      <4> HIDE DEF Fn
      <4> QED BY <2>5, <3>2
    <3>3. CASE i # n
      <4>1. i \in 0 .. n - 1
        BY <3>3
      <4> HIDE DEF Fn
      <4> QED BY <2>5, <3>1, <3>3, <4>1
    <3> QED BY <3>2, <3>3
  <2>7. g = [i \in 0 .. n |-> Fn(g, i)]
    <3> HIDE DEF Fn
    <3> QED BY <2>3, <2>6
  <2> HIDE DEF g
  <2> QED BY <2>3, <2>7
<1> HIDE DEF Fn, Long
<1>3. Long(Len(delivery))
  <2> SUFFICES ASSUME Short # {} PROVE FALSE
    BY <1>0
  <2>1. Short \in SUBSET Nat
    BY <1>0
  <2>2. PICK n \in Short : \A m \in Short : n <= m
    BY <2>1, LeastNumber
  <2>3. n \in 1 .. Len(delivery) /\ n - 1 \in 0 .. Len(delivery) /\ n - 1 \notin Short
    BY <1>0, <1>1, <2>2
  <2> QED BY <1>2, <2>2, <2>3
<1> DEFINE g == CHOOSE f : f = [i \in 0 .. Len(delivery) |-> Fn(f, i)]
<1>4. g = [i \in 0 .. Len(delivery) |-> Fn(g, i)]
  BY <1>3 DEF Long
<1>5. Additions(delivery, list) = g[Len(delivery)]
  BY DEF Additions, Fn
<1> HIDE DEF g
<1> DEFINE Bad == {n \in 0 .. Len(delivery) : g[n] \notin Seq(S)}
<1>6. Bad = {}
  <2> SUFFICES ASSUME Bad # {} PROVE FALSE
    OBVIOUS
  <2>1. Bad \in SUBSET Nat
    BY <1>0
  <2>2. PICK n \in Bad : \A m \in Bad : n <= m
    BY <2>1, LeastNumber
  <2>3. g[n] = Fn(g, n)
    BY <1>4, <2>2
  <2>4. n # 0
    BY <2>2, <2>3, EmptySeq DEF Fn
  <2>5. n - 1 \in 0 .. Len(delivery) /\ g[n - 1] \in Seq(S) /\ delivery[n] \in S
    BY <1>0, <2>2, <2>4
  <2>6. Append(g[n - 1], delivery[n]) \in Seq(S)
    BY <2>5, AppendProperties
  <2> QED BY <2>2, <2>3, <2>4, <2>5, <2>6 DEF Fn
<1> QED BY <1>0, <1>5, <1>6

-----------------------------------------------------------------------------
(* what is admitted                                                        *)

LEMMA RecordForIs ==
    ASSUME NEW b \in Bundle
    PROVE  /\ RecordFor(b, TRUE) \in Record /\ RecordFor(b, FALSE) \in Record
           /\ RecordFor(b, TRUE).root = b.root /\ RecordFor(b, FALSE).root = b.root
           /\ \A x \in Bundle : RecordFor(x, TRUE) = RecordFor(b, TRUE) => x = b
           /\ \A x \in Bundle : RecordFor(x, TRUE) # RecordFor(b, FALSE)
<1>1. /\ RecordFor(b, TRUE) \in Record /\ RecordFor(b, FALSE) \in Record
      /\ RecordFor(b, TRUE).root = b.root /\ RecordFor(b, FALSE).root = b.root
  BY DEF RecordFor, Bundle, Record
<1>2. ASSUME NEW x \in Bundle, RecordFor(x, TRUE) = RecordFor(b, TRUE)
      PROVE  x = b
  <2>1. RecordFor(x, TRUE).root = x.root /\ RecordFor(x, TRUE).terms = x.terms
    BY DEF RecordFor
  <2>2. RecordFor(b, TRUE).root = b.root /\ RecordFor(b, TRUE).terms = b.terms
    BY DEF RecordFor
  <2>3. x.root = b.root /\ x.terms = b.terms
    BY <1>2, <2>1, <2>2
  <2> QED BY <2>3 DEF Bundle
<1>3. ASSUME NEW x \in Bundle
      PROVE  RecordFor(x, TRUE) # RecordFor(b, FALSE)
  <2>1. RecordFor(x, TRUE).admitted = TRUE /\ RecordFor(b, FALSE).admitted = FALSE
    BY DEF RecordFor
  <2> QED BY <2>1
<1> QED BY <1>1, <1>2, <1>3

LEMMA AdmittedFacts ==
    ASSUME NEW recs \in Seq(Record), OnePerRoot(recs)
    PROVE  /\ AdmittedIn(recs) \subseteq Bundle
           /\ \A a, b \in AdmittedIn(recs) : a.root = b.root => a = b
           /\ RootsOf(AdmittedIn(recs)) \subseteq RootsIn(recs)
<1>1. \A b \in AdmittedIn(recs) : b \in Bundle /\ \E i \in DOMAIN recs : recs[i] = RecordFor(b, TRUE)
  BY DEF AdmittedIn, ToSet
<1>2. \A b \in Bundle : RecordFor(b, TRUE).root = b.root
  BY RecordForIs
<1>3. ASSUME NEW a \in AdmittedIn(recs), NEW b \in AdmittedIn(recs), a.root = b.root
      PROVE  a = b
  <2>1. PICK i \in DOMAIN recs : recs[i] = RecordFor(a, TRUE)
    BY <1>1
  <2>2. PICK j \in DOMAIN recs : recs[j] = RecordFor(b, TRUE)
    BY <1>1
  <2>3. i = j
    BY <1>1, <1>2, <1>3, <2>1, <2>2 DEF OnePerRoot
  <2>4. RecordFor(a, TRUE) = RecordFor(b, TRUE) /\ a \in Bundle /\ b \in Bundle
    BY <1>1, <2>1, <2>2, <2>3
  <2> QED BY <2>4, RecordForIs
<1>4. ASSUME NEW a \in AdmittedIn(recs)
      PROVE  a.root \in RootsIn(recs)
  BY <1>1, <1>2 DEF RootsIn
<1> QED BY <1>1, <1>3, <1>4 DEF RootsOf

\* A candidate for a root that has no authority takes none away.
LEMMA CandidateAdmitsNothing ==
    ASSUME NEW recs \in Seq(Record), OnePerRoot(recs), NEW b \in Bundle,
           b.root \notin RootsOf(AdmittedIn(recs))
    PROVE  AdmittedIn(With(recs, RecordFor(b, FALSE))) = AdmittedIn(recs)
<1>1. ToSet(With(recs, RecordFor(b, FALSE))) =
          {x \in ToSet(recs) : x.root # b.root} \cup {RecordFor(b, FALSE)}
  <2> DEFINE e == RecordFor(b, FALSE)
  <2>1. e \in Record /\ e.root = b.root
    BY RecordForIs
  <2> HIDE DEF e
  <2>2. ToSet(With(recs, e)) = {x \in ToSet(recs) : x.root # e.root} \cup {e}
    BY <2>1, WithIsAList
  <2> QED BY <2>1, <2>2 DEF e
<1>2. ASSUME NEW x \in Bundle
      PROVE  RecordFor(x, TRUE) \in ToSet(With(recs, RecordFor(b, FALSE)))
                 <=> RecordFor(x, TRUE) \in ToSet(recs)
  <2>1. RecordFor(x, TRUE) # RecordFor(b, FALSE) /\ RecordFor(x, TRUE).root = x.root
    BY RecordForIs
  <2>2. RecordFor(x, TRUE) \in ToSet(recs) => x.root # b.root
    BY DEF AdmittedIn, RootsOf
  <2> QED BY <1>1, <2>1, <2>2
<1> QED BY <1>2 DEF AdmittedIn

LEMMA AuthorityAdmitsOne ==
    ASSUME NEW recs \in Seq(Record), OnePerRoot(recs), NEW b \in Bundle,
           b.root \notin RootsOf(AdmittedIn(recs))
    PROVE  AdmittedIn(With(recs, RecordFor(b, TRUE))) = AdmittedIn(recs) \cup {b}
<1>1. ToSet(With(recs, RecordFor(b, TRUE))) =
          {x \in ToSet(recs) : x.root # b.root} \cup {RecordFor(b, TRUE)}
  <2> DEFINE e == RecordFor(b, TRUE)
  <2>1. e \in Record /\ e.root = b.root
    BY RecordForIs
  <2> HIDE DEF e
  <2>2. ToSet(With(recs, e)) = {x \in ToSet(recs) : x.root # e.root} \cup {e}
    BY <2>1, WithIsAList
  <2> QED BY <2>1, <2>2 DEF e
<1>2. ASSUME NEW x \in Bundle
      PROVE  RecordFor(x, TRUE) \in ToSet(With(recs, RecordFor(b, TRUE)))
                 <=> RecordFor(x, TRUE) \in ToSet(recs) \/ x = b
  <2>1. /\ RecordFor(x, TRUE) = RecordFor(b, TRUE) => x = b
        /\ RecordFor(x, TRUE).root = x.root
    BY RecordForIs
  <2>2. RecordFor(x, TRUE) \in ToSet(recs) => x.root # b.root
    BY DEF AdmittedIn, RootsOf
  <2> QED BY <1>1, <2>1, <2>2
<1> QED BY <1>2 DEF AdmittedIn

LEMMA RemovalForgetsOne ==
    ASSUME NEW recs \in Seq(Record), OnePerRoot(recs), NEW r
    PROVE  AdmittedIn(Without(recs, r)) = {b \in AdmittedIn(recs) : b.root # r}
<1>1. ToSet(Without(recs, r)) = {x \in ToSet(recs) : x.root # r}
  BY WithoutIsAList
<1>2. \A x \in Bundle : RecordFor(x, TRUE).root = x.root
  BY RecordForIs
<1> QED BY <1>1, <1>2 DEF AdmittedIn

-----------------------------------------------------------------------------
(* one call moves, the others stay where they are                          *)

Moved(k, phase, pc, todo) == [k EXCEPT !.phase = phase, !.pc = pc, !.todo = todo]

LEMMA MovedIs ==
    ASSUME NEW k \in CallType, NEW phase \in Phases, NEW pc \in Places,
           NEW todo \in Seq(Bundle \cup Record)
    PROVE  /\ Moved(k, phase, pc, todo) \in CallType
           /\ Moved(k, phase, pc, todo).kind = k.kind
           /\ Moved(k, phase, pc, todo).tab = k.tab
           /\ Moved(k, phase, pc, todo).phase = phase
           /\ Moved(k, phase, pc, todo).pc = pc
           /\ Moved(k, phase, pc, todo).todo = todo
BY DEF Moved, CallType

LEMMA IdleIsSound ==
    ASSUME NEW pages, NEW maps, NEW recs, NEW settled
    PROVE  Sound(Idle, pages, maps, recs, settled)
<1>1. Idle.pc = "idle" /\ Idle.todo = <<>>
  BY DEF Idle
<1>2. <<>> \in Seq(Bundle) /\ <<>> \in Seq(Bundle \cup Record)
  OBVIOUS
<1>3. Idle \in CallType
  BY <1>2 DEF Idle, CallType, Kinds, Phases, Places, Loading, AtBundle
<1> QED BY <1>1, <1>2, <1>3 DEF Sound, Loading, AtBundle

LEMMA StaysSound ==
    ASSUME NEW k, NEW pages, NEW maps, NEW recs, NEW settled,
           NEW pages2, NEW maps2, NEW recs2, NEW settled2,
           Sound(k, pages, maps, recs, settled),
           k.pc # "idle" => pages2[k.tab] = pages[k.tab],
           k.pc \in Loading => maps2[k.tab] = maps[k.tab],
           k.pc = "authorise" => recs2 = recs,
           settled \subseteq settled2,
           \A b \in AdmittedIn(recs) : b \in AdmittedIn(recs2) \/ b.root \in settled2
    PROVE  Sound(k, pages2, maps2, recs2, settled2)
BY DEF Sound, Loading, AtBundle

\* Nobody but c holds the lock of the store.
OnlyWriter(cs, c) == \A d \in Calls \ {c} : cs[d].pc # "authorise"

\* Call c comes to k, and pages, maps, store and node to what is given second.
Allowed(cs, pages, maps, recs, settled, c, k, pages2, maps2, recs2, settled2) ==
    /\ Sound(k, pages2, maps2, recs2, settled2)
    /\ \/ pages2 = pages
       \/ Ready(cs[c]) /\ pages2 = [pages EXCEPT ![cs[c].tab] = "open"]
    /\ \A d \in Calls : \/ cs[d].pc = "idle"
                        \/ cs[d].tab = cs[c].tab /\ cs[c].pc # "idle"
                        \/ maps2[cs[d].tab] = maps[cs[d].tab]
    /\ recs2 = recs \/ OnlyWriter(cs, c)
    /\ k.pc = "authorise" => OnlyWriter(cs, c)
    /\ Ready(k) => Ready(cs[c]) /\ k.tab = cs[c].tab
    /\ settled \subseteq settled2
    /\ \A b \in AdmittedIn(recs) : b \in AdmittedIn(recs2) \/ b.root \in settled2

LEMMA CallsStaySound ==
    ASSUME NEW cs, NEW pages, NEW maps, NEW recs, NEW settled,
           NEW pages2, NEW maps2, NEW recs2, NEW settled2,
           CallsSound(cs, pages, maps, recs, settled), DOMAIN pages = Tabs,
           NEW c \in Calls, NEW k,
           Allowed(cs, pages, maps, recs, settled, c, k, pages2, maps2, recs2, settled2)
    PROVE  CallsSound([cs EXCEPT ![c] = k], pages2, maps2, recs2, settled2)
<1> DEFINE cs2 == [cs EXCEPT ![c] = k]
<1> USE DEF Allowed
<1>0. /\ DOMAIN cs2 = Calls /\ cs2[c] = k /\ \A d \in Calls : d # c => cs2[d] = cs[d]
      /\ cs2 = [d \in Calls |-> cs2[d]]
  BY DEF CallsSound
<1>1. \A d, e \in Calls : Ready(cs[d]) /\ Ready(cs[e]) /\ cs[d].tab = cs[e].tab => d = e
  BY DEF CallsSound
<1>2. ASSUME NEW d \in Calls, d # c, cs[d].pc # "idle"
      PROVE  /\ Ready(cs[c]) => cs[d].tab # cs[c].tab
             /\ cs[c].pc # "idle" /\ cs[d].pc \in Loading => cs[d].tab # cs[c].tab
  <2>1. Sound(cs[c], pages, maps, recs, settled) /\ Sound(cs[d], pages, maps, recs, settled)
    BY DEF CallsSound
  <2>2. cs[c].pc # "idle" /\ cs[d].tab = cs[c].tab => (Ready(cs[d]) <=> Ready(cs[c]))
    BY <1>2, <2>1 DEF Sound, Ready
  <2>3. cs[d].pc \in Loading => Ready(cs[d])
    BY <2>1 DEF Sound, Ready, Loading
  <2>4. Ready(cs[c]) => cs[c].pc # "idle"
    BY DEF Ready
  <2> QED BY <1>1, <1>2, <2>2, <2>3, <2>4
<1>3. ASSUME NEW d \in Calls, d # c
      PROVE  Sound(cs[d], pages2, maps2, recs2, settled2)
  <2>1. Sound(cs[d], pages, maps, recs, settled)
    BY DEF CallsSound
  <2>2. cs[d].pc # "idle" => pages2[cs[d].tab] = pages[cs[d].tab]
    <3>1. cs[d].pc # "idle" => cs[d].tab \in Tabs
      BY <2>1 DEF Sound
    <3> QED BY <1>2, <1>3, <3>1
  <2>3. cs[d].pc \in Loading => maps2[cs[d].tab] = maps[cs[d].tab]
    BY <1>2, <1>3 DEF Loading
  <2>4. cs[d].pc = "authorise" => recs2 = recs
    BY <1>3 DEF OnlyWriter
  <2> QED BY <2>1, <2>2, <2>3, <2>4, StaysSound
<1>4. \A d \in Calls : Sound(cs2[d], pages2, maps2, recs2, settled2)
  BY <1>0, <1>3
<1>5. \A d, e \in Calls : Ready(cs2[d]) /\ Ready(cs2[e]) /\ cs2[d].tab = cs2[e].tab => d = e
  BY <1>0, <1>1
<1>6. \A d, e \in Calls : cs2[d].pc = "authorise" /\ cs2[e].pc = "authorise" => d = e
  <2>1. \A d, e \in Calls : cs[d].pc = "authorise" /\ cs[e].pc = "authorise" => d = e
    BY DEF CallsSound
  <2> QED BY <1>0, <2>1 DEF OnlyWriter
<1> QED BY <1>0, <1>4, <1>5, <1>6 DEF CallsSound

\* A list a page may hold.
MapSound(list, recs, settled) ==
    /\ list \in Seq(Bundle) /\ OnePerRoot(list)
    /\ \A b \in ToSet(list) : b \in AdmittedIn(recs) \/ b.root \in settled

LEMMA PagesStaySound ==
    ASSUME NEW pages, NEW maps, NEW recs, NEW settled,
           NEW pages2, NEW maps2, NEW recs2, NEW settled2,
           PagesSound(pages, maps, recs, settled),
           pages2 \in [Tabs -> {"closed", "starting", "open"}],
           \A t \in Tabs : pages2[t] = "closed" => pages[t] = "closed",
           \/ maps2 = maps
           \/ \E t \in Tabs, list \in Seq(Bundle) :
                  /\ maps2 = [maps EXCEPT ![t] = list] /\ MapSound(list, recs, settled)
                  /\ pages[t] # "closed",
           settled \subseteq settled2,
           \A b \in AdmittedIn(recs) : b \in AdmittedIn(recs2) \/ b.root \in settled2
    PROVE  PagesSound(pages2, maps2, recs2, settled2)
<1>1. /\ maps2 \in [Tabs -> Seq(Bundle)]
      /\ \A t \in Tabs : OnePerRoot(maps2[t])
      /\ \A t \in Tabs : \A b \in ToSet(maps2[t]) : b \in AdmittedIn(recs) \/ b.root \in settled
      /\ \A t \in Tabs : pages2[t] = "closed" => maps2[t] = <<>>
  BY DEF PagesSound, MapSound
<1> QED BY <1>1 DEF PagesSound

\* What a step of one call owes: its own record, and what it changes of maps,
\* store and node.
LEMMA CallStep ==
    ASSUME ClaimsInv, NEW c \in Calls, calls[c].pc # "idle", NEW k,
           calls' = [calls EXCEPT ![c] = k],
           \/ tab' = tab /\ k.tab = calls[c].tab /\ k.kind = calls[c].kind
           \/ Ends(c) /\ k = Idle,
           Sound(k, tab', held', records', Settled'),
           \/ held' = held
           \/ \E list \in Seq(Bundle) : /\ held' = [held EXCEPT ![PageOf(c)] = list]
                                        /\ MapSound(list, records, Settled),
           records' = records \/ OnlyWriter(calls, c),
           k.pc = "authorise" => OnlyWriter(calls, c),
           StoreSound(records'),
           \A b \in AdmittedIn(records) : b \in AdmittedIn(records') \/ b.root \in Settled',
           Settled \subseteq Settled',
           NodeSound',
           faults' \in 0 .. MaxFaults
    PROVE  ClaimsInv'
<1>0. /\ CallsSound(calls, tab, held, records, Settled)
      /\ PagesSound(tab, held, records, Settled)
      /\ Sound(calls[c], tab, held, records, Settled)
  BY DEF ClaimsInv, CallsSound
<1>1. /\ calls[c].tab \in Tabs
      /\ tab[calls[c].tab] = IF calls[c].kind = "ready" THEN "starting" ELSE "open"
      /\ tab \in [Tabs -> {"closed", "starting", "open"}]
  BY <1>0 DEF Sound, PagesSound
<1>2. \/ tab' = tab
      \/ Ready(calls[c]) /\ tab' = [tab EXCEPT ![calls[c].tab] = "open"]
  BY DEF Ends, Ready, PageOf
<1>3. \A d \in Calls : \/ calls[d].pc = "idle"
                       \/ calls[d].tab = calls[c].tab /\ calls[c].pc # "idle"
                       \/ held'[calls[d].tab] = held[calls[d].tab]
  <2>1. \A d \in Calls : calls[d].pc # "idle" => calls[d].tab \in Tabs
    BY <1>0 DEF CallsSound, Sound
  <2>2. held \in [Tabs -> Seq(Bundle)]
    BY <1>0 DEF PagesSound
  <2> QED BY <1>1, <2>1, <2>2 DEF PageOf
<1>4. Ready(k) => Ready(calls[c]) /\ k.tab = calls[c].tab
  BY DEF Ready, Idle
<1>5. CallsSound(calls, tab, held, records, Settled)'
  <2>1. DOMAIN tab = Tabs
    BY <1>1
  <2>2. Allowed(calls, tab, held, records, Settled, c, k, tab', held', records', Settled')
    BY <1>2, <1>3, <1>4 DEF Allowed
  <2>3. CallsSound([calls EXCEPT ![c] = k], tab', held', records', Settled')
    BY <1>0, <2>1, <2>2, CallsStaySound
  <2> QED BY <2>3
<1>6. PagesSound(tab, held, records, Settled)'
  <2>1. /\ tab' \in [Tabs -> {"closed", "starting", "open"}]
        /\ \A t \in Tabs : tab'[t] = "closed" => tab[t] = "closed"
    BY <1>1, <1>2
  <2>2. \/ held' = held
        \/ \E t \in Tabs, list \in Seq(Bundle) :
              /\ held' = [held EXCEPT ![t] = list] /\ MapSound(list, records, Settled)
              /\ tab[t] # "closed"
    BY <1>1 DEF PageOf
  <2>3. PagesSound(tab', held', records', Settled')
    BY <1>0, <2>1, <2>2, PagesStaySound
  <2> QED BY <2>3
<1> QED BY <1>5, <1>6 DEF ClaimsInv

-----------------------------------------------------------------------------
(* what the actions have in common                                         *)

LEMMA CallFacts ==
    ASSUME ClaimsInv, NEW c \in Calls, calls[c].pc # "idle"
    PROVE  /\ calls[c] \in CallType
           /\ PageOf(c) \in Tabs
           /\ tab[PageOf(c)] = IF calls[c].kind = "ready" THEN "starting" ELSE "open"
           /\ held \in [Tabs -> Seq(Bundle)]
           /\ Holding(c) \in Seq(Bundle)
           /\ OnePerRoot(Holding(c))
           /\ MapSound(Holding(c), records, Settled)
           /\ calls[c].pc \notin Loading => calls[c].todo \in Seq(Bundle)
           /\ calls[c].todo # <<>> /\ calls[c].pc \notin Loading =>
                  Current(c) \in Bundle /\ Tail(calls[c].todo) \in Seq(Bundle)
           /\ calls[c].pc \in AtBundle => calls[c].todo # <<>>
<1>1. /\ Sound(calls[c], tab, held, records, Settled)
      /\ PagesSound(tab, held, records, Settled)
  BY DEF ClaimsInv, CallsSound
<1>2. PageOf(c) \in Tabs /\ held \in [Tabs -> Seq(Bundle)]
  BY <1>1 DEF Sound, PagesSound, PageOf
<1>3. calls[c].pc \notin Loading => calls[c].todo \in Seq(Bundle)
  BY <1>1 DEF Sound
<1>4. calls[c].todo # <<>> /\ calls[c].pc \notin Loading =>
          Current(c) \in Bundle /\ Tail(calls[c].todo) \in Seq(Bundle)
  BY <1>3, HeadTailProperties DEF Current
<1>5. Holding(c) \in Seq(Bundle) /\ OnePerRoot(Holding(c)) /\ MapSound(Holding(c), records, Settled)
  BY <1>1, <1>2 DEF PagesSound, MapSound, Holding
<1> QED BY <1>1, <1>2, <1>3, <1>4, <1>5 DEF Sound, PageOf

LEMMA NodeStays ==
    ASSUME ClaimsInv, UNCHANGED <<claimed, closed, known, full>>
    PROVE  Settled' = Settled /\ NodeSound'
BY DEF ClaimsInv, NodeSound, Settled

LEMMA FaultCounts ==
    ASSUME ClaimsInv
    PROVE  /\ Fault => faults' \in 0 .. MaxFaults
           /\ UNCHANGED faults => faults' \in 0 .. MaxFaults
BY ClaimsAssumption DEF ClaimsInv, Fault

\* A call goes on, at another await.
LEMMA CallMoves ==
    ASSUME ClaimsInv, NEW c \in Calls, calls[c].pc # "idle",
           NEW phase \in Phases, NEW pc \in Places \ ({"idle", "authorise"} \cup Loading),
           NEW todo \in Seq(Bundle), Becomes(c, phase, pc, todo),
           pc \in AtBundle => todo # <<>>,
           pc = "submit" => Head(todo) \in AdmittedIn(records') \/ Head(todo).root \in Settled',
           pc = "remove" => Head(todo).root \in Settled',
           \/ held' = held
           \/ \E list \in Seq(Bundle) : /\ held' = [held EXCEPT ![PageOf(c)] = list]
                                        /\ MapSound(list, records, Settled),
           records' = records \/ OnlyWriter(calls, c),
           StoreSound(records'),
           \A b \in AdmittedIn(records) : b \in AdmittedIn(records') \/ b.root \in Settled',
           Settled \subseteq Settled',
           NodeSound',
           faults' \in 0 .. MaxFaults
    PROVE  ClaimsInv'
<1> DEFINE k == Moved(calls[c], phase, pc, todo)
<1>1. calls' = [calls EXCEPT ![c] = k] /\ tab' = tab
  BY DEF Becomes, Moved
<1>2. calls[c] \in CallType /\ todo \in Seq(Bundle \cup Record) /\ pc \in Places
  <2>1. todo \in Seq(Bundle \cup Record)
    <3>1. Bundle \subseteq Bundle \cup Record
      OBVIOUS
    <3> QED BY <3>1, SeqMonotonic
  <2> QED BY <2>1, CallFacts
<1>3. /\ k \in CallType /\ k.kind = calls[c].kind /\ k.tab = calls[c].tab
      /\ k.pc = pc /\ k.todo = todo
  BY <1>2, MovedIs
<1> HIDE DEF k
<1>4. calls[c].tab \in Tabs /\ tab[calls[c].tab] = IF calls[c].kind = "ready" THEN "starting" ELSE "open"
  BY CallFacts DEF PageOf
<1>5. Sound(k, tab', held', records', Settled')
  BY <1>1, <1>3, <1>4 DEF Sound, Loading, AtBundle
<1>6. k.pc # "authorise"
  BY <1>3
<1> QED BY <1>1, <1>3, <1>5, <1>6, CallStep

\* A call goes on, and store and node are as they were.
LEMMA CallGoesOn ==
    ASSUME ClaimsInv, NEW c \in Calls, calls[c].pc # "idle",
           NEW phase \in Phases, NEW pc \in Places \ ({"idle", "authorise"} \cup Loading),
           NEW todo \in Seq(Bundle), Becomes(c, phase, pc, todo),
           pc \in AtBundle => todo # <<>>,
           pc = "submit" => Head(todo) \in AdmittedIn(records) \/ Head(todo).root \in Settled,
           pc = "remove" => Head(todo).root \in Settled,
           \/ held' = held
           \/ \E list \in Seq(Bundle) : /\ held' = [held EXCEPT ![PageOf(c)] = list]
                                        /\ MapSound(list, records, Settled),
           UNCHANGED <<records, claimed, closed, known, full>>,
           Fault \/ UNCHANGED faults
    PROVE  ClaimsInv'
<1>1. Settled' = Settled /\ NodeSound'
  BY NodeStays
<1>2. faults' \in 0 .. MaxFaults
  BY FaultCounts
<1>3. StoreSound(records') /\ records' = records
  BY DEF ClaimsInv
<1> QED BY <1>1, <1>2, <1>3, CallMoves

\* A call ends.
LEMMA CallEnds ==
    ASSUME ClaimsInv, NEW c \in Calls, calls[c].pc # "idle", Ends(c),
           UNCHANGED <<held, records>>,
           Settled \subseteq Settled', NodeSound', Fault \/ UNCHANGED faults
    PROVE  ClaimsInv'
<1>1. calls' = [calls EXCEPT ![c] = Idle]
  BY DEF Ends
<1>2. Sound(Idle, tab', held', records', Settled') /\ Idle.pc # "authorise"
  BY IdleIsSound DEF Idle
<1>3. faults' \in 0 .. MaxFaults
  BY FaultCounts
<1>4. StoreSound(records')
  BY DEF ClaimsInv
<1> QED BY <1>1, <1>2, <1>3, <1>4, CallStep

LEMMA CallGivesUp ==
    ASSUME ClaimsInv, NEW c \in Calls, calls[c].pc # "idle", Ends(c),
           UNCHANGED <<held, records, claimed, closed, known, full>>, Fault \/ UNCHANGED faults
    PROVE  ClaimsInv'
BY NodeStays, CallEnds

-----------------------------------------------------------------------------
(* hydrate                                                                 *)

LEMMA ListKeepsInv == ASSUME ClaimsInv, NEW c \in Calls, List(c) PROVE ClaimsInv'
<1> DEFINE k == Moved(calls[c], "hydrate", "read", records)
<1>1. calls[c].pc = "list" /\ calls' = [calls EXCEPT ![c] = k] /\ tab' = tab
  BY DEF List, AtStore, At, Becomes, Moved
<1>2. Sound(calls[c], tab, held, records, Settled) /\ StoreSound(records)
  BY DEF ClaimsInv, CallsSound
<1>3. calls[c] \in CallType /\ records \in Seq(Bundle \cup Record)
  <2>1. Record \subseteq Bundle \cup Record /\ records \in Seq(Record)
    BY <1>2 DEF StoreSound
  <2>2. records \in Seq(Bundle \cup Record)
    BY <2>1, SeqMonotonic
  <2> QED BY <1>2, <2>2 DEF Sound
<1>4. /\ k \in CallType /\ k.kind = calls[c].kind /\ k.tab = calls[c].tab
      /\ k.pc = "read" /\ k.todo = records
  BY <1>3, MovedIs DEF Phases, Places, Loading
<1> HIDE DEF k
<1>5. Sound(k, tab', held', records', Settled')
  <2>1. held' = held /\ held[k.tab] = <<>> /\ RootsIn(<<>>) = {}
    BY <1>1, <1>2, <1>4 DEF List, Sound, RootsIn
  <2> QED BY <1>1, <1>2, <1>4, <2>1 DEF Sound, StoreSound, Loading, AtBundle
<1>6. Settled' = Settled /\ NodeSound'
  BY NodeStays DEF List
<1>7. faults' \in 0 .. MaxFaults /\ UNCHANGED <<held, records>>
  BY FaultCounts DEF List
<1> QED BY <1>1, <1>2, <1>4, <1>5, <1>6, <1>7, CallStep

\* A record read again, or passed over.
LEMMA ReadingKeepsInv ==
    ASSUME ClaimsInv, NEW c \in Calls, At(c, "read"), calls[c].todo # <<>>,
           Becomes(c, "hydrate", "read", Tail(calls[c].todo)),
           \/ held' = held
           \/ held' = [held EXCEPT ![PageOf(c)] =
                         @ \o SetToSeq({b \in AdmittedIn(records) : b.root = Current(c).root})],
           UNCHANGED <<records, claimed, closed, known, full>>, Fault \/ UNCHANGED faults
    PROVE  ClaimsInv'
<1> DEFINE todo == calls[c].todo
           k == Moved(calls[c], "hydrate", "read", Tail(todo))
           list == held[PageOf(c)]
           B == {b \in AdmittedIn(records) : b.root = Current(c).root}
           more == list \o SetToSeq(B)
<1>1. calls[c].pc = "read" /\ calls' = [calls EXCEPT ![c] = k] /\ tab' = tab
  BY DEF At, Becomes, Moved
<1>2. /\ Sound(calls[c], tab, held, records, Settled) /\ StoreSound(records)
      /\ PagesSound(tab, held, records, Settled)
  BY DEF ClaimsInv, CallsSound
<1>3. /\ todo \in Seq(Record) /\ OnePerRoot(todo) /\ todo # <<>>
      /\ RootsIn(todo) \cap RootsIn(list) = {}
      /\ calls[c].kind = "ready" /\ PageOf(c) \in Tabs
  BY <1>1, <1>2 DEF Sound, Loading, PageOf
<1>4. /\ Current(c) \in Record /\ Current(c).root \in RootsIn(todo)
      /\ Tail(todo) \in Seq(Record) /\ OnePerRoot(Tail(todo))
      /\ RootsIn(Tail(todo)) \subseteq RootsIn(todo) \ {Current(c).root}
  BY <1>3, TailIsAList DEF Current
<1>5. calls[c] \in CallType /\ Tail(todo) \in Seq(Bundle \cup Record)
  <2>1. Record \subseteq Bundle \cup Record
    OBVIOUS
  <2>2. Tail(todo) \in Seq(Bundle \cup Record)
    BY <1>4, <2>1, SeqMonotonic
  <2> QED BY <1>2, <2>2 DEF Sound
<1>6. /\ k \in CallType /\ k.kind = calls[c].kind /\ k.tab = calls[c].tab
      /\ k.pc = "read" /\ k.todo = Tail(todo)
  <2> DEFINE rest == Tail(todo)
  <2>1. "hydrate" \in Phases /\ "read" \in Places
    BY DEF Phases, Places, Loading
  <2>2. calls[c] \in CallType /\ rest \in Seq(Bundle \cup Record)
    BY <1>5
  <2> HIDE DEF rest
  <2>3. /\ Moved(calls[c], "hydrate", "read", rest) \in CallType
        /\ Moved(calls[c], "hydrate", "read", rest).kind = calls[c].kind
        /\ Moved(calls[c], "hydrate", "read", rest).tab = calls[c].tab
        /\ Moved(calls[c], "hydrate", "read", rest).pc = "read"
        /\ Moved(calls[c], "hydrate", "read", rest).todo = rest
    BY <2>1, <2>2, MovedIs
  <2> QED BY <2>3 DEF rest
<1>7. /\ list \in Seq(Bundle) /\ OnePerRoot(list) /\ DOMAIN held = Tabs
      /\ \A b \in ToSet(list) : b \in AdmittedIn(records) \/ b.root \in Settled
  BY <1>2, <1>3 DEF PagesSound
<1>8. /\ more \in Seq(Bundle) /\ OnePerRoot(more) /\ ToSet(more) = ToSet(list) \cup B
      /\ RootsIn(more) \subseteq RootsIn(list) \cup {Current(c).root}
  <2>1. /\ B \in SUBSET Bundle /\ \A x \in B : x.root = Current(c).root
        /\ \A x, y \in B : x = y
    BY <1>2, AdmittedFacts DEF StoreSound
  <2>2. Current(c).root \notin RootsIn(list)
    BY <1>3, <1>4
  <2> HIDE DEF B, list
  <2>3. more \in Seq(Bundle) /\ OnePerRoot(more) /\ ToSet(more) = ToSet(list) \cup B
    BY <1>7, <2>1, <2>2, ReadIsAList
  <2>4. RootsIn(more) = RootsOf(ToSet(more)) /\ RootsIn(list) = RootsOf(ToSet(list))
    BY <1>7, <2>3, ListBasics
  <2> QED BY <2>1, <2>3, <2>4 DEF RootsOf
<1>9. \/ held' = held
      \/ held' = [held EXCEPT ![PageOf(c)] = more] /\ MapSound(more, records, Settled)
  BY <1>7, <1>8 DEF MapSound
<1>10. RootsIn(Tail(todo)) \cap RootsIn(held'[k.tab]) = {}
  BY <1>3, <1>4, <1>6, <1>7, <1>8, <1>9 DEF PageOf
<1> HIDE DEF k, more, list, B, todo
<1>11. Sound(k, tab', held', records', Settled')
  <2>1. tab'[k.tab] = "starting"
    BY <1>1, <1>2, <1>3, <1>6 DEF Sound
  <2> QED BY <1>3, <1>4, <1>6, <1>10, <2>1 DEF Sound, Loading, AtBundle, PageOf
<1>12. Settled' = Settled /\ NodeSound' /\ faults' \in 0 .. MaxFaults
  BY NodeStays, FaultCounts
<1>13. \/ held' = held
       \/ \E l \in Seq(Bundle) : /\ held' = [held EXCEPT ![PageOf(c)] = l]
                                 /\ MapSound(l, records, Settled)
  BY <1>8, <1>9
<1> QED BY <1>1, <1>2, <1>6, <1>11, <1>12, <1>13, CallStep

LEMMA ReadKeepsInv == ASSUME ClaimsInv, NEW c \in Calls, Read(c) PROVE ClaimsInv'
BY ReadingKeepsInv DEF Read, AtStore

LEMMA HydratedKeepsInv == ASSUME ClaimsInv, NEW c \in Calls, Hydrated(c) PROVE ClaimsInv'
<1>1. calls[c].pc = "read" /\ calls[c].pc # "idle"
  BY DEF Hydrated, At
<1>2. CASE Ends(c)
  BY <1>1, <1>2, CallGivesUp DEF Hydrated
<1>3. CASE Becomes(c, "reconcile", "reconcile", Holding(c))
  <2>1. Holding(c) \in Seq(Bundle)
    BY <1>1, CallFacts
  <2> QED BY <1>1, <1>3, <2>1, CallGoesOn DEF Hydrated, Phases, Places, Loading, AtBundle
<1> QED BY <1>2, <1>3 DEF Hydrated

-----------------------------------------------------------------------------
(* retain, persist and admit                                               *)

LEMMA RetainKeepsInv == ASSUME ClaimsInv, NEW c \in Calls, Retain(c) PROVE ClaimsInv'
<1> DEFINE todo == calls[c].todo
<1>1. calls[c].pc = "retain" /\ calls[c].pc # "idle" /\ calls[c].pc \notin Loading
  BY DEF Retain, At, Loading
<1>2. /\ Holding(c) \in Seq(Bundle) /\ todo \in Seq(Bundle)
      /\ calls[c].phase \in Phases
  BY <1>1, CallFacts DEF CallType
<1>3. CASE Ends(c)
  BY <1>1, <1>3, CallGivesUp DEF Retain
<1>4. CASE Becomes(c, "reconcile", "reconcile", Holding(c))
  BY <1>1, <1>2, <1>4, CallGoesOn DEF Retain, Phases, Places, Loading, AtBundle
<1>5. CASE todo # <<>> /\ (Goto(c, "verify") \/ Goto(c, "admit"))
  <2>1. PICK pc \in {"verify", "admit"} : Becomes(c, calls[c].phase, pc, todo)
    BY <1>5 DEF Goto
  <2>2. pc \in Places \ ({"idle", "authorise"} \cup Loading) /\ pc \notin {"submit", "remove"}
    BY <2>1 DEF Places, Loading, AtBundle
  <2> QED BY <1>1, <1>2, <1>5, <2>1, <2>2, CallGoesOn DEF Retain
<1> QED BY <1>3, <1>4, <1>5 DEF Retain

LEMMA LockIsHeld ==
    ASSUME ClaimsInv, NEW c \in Calls
    PROVE  /\ Unlocked => OnlyWriter(calls, c)
           /\ calls[c].pc = "authorise" => OnlyWriter(calls, c)
BY DEF ClaimsInv, CallsSound, Unlocked, OnlyWriter

\* The candidate is written, under the lock.
LEMMA CandidateKeepsInv ==
    ASSUME ClaimsInv, NEW c \in Calls, At(c, "admit"), Unlocked,
           ~Stands(Current(c)), Fits(Current(c)),
           records' = With(records, RecordFor(Current(c), FALSE)),
           Goto(c, "authorise"), UNCHANGED <<held, claimed, closed, known, full, faults>>
    PROVE  ClaimsInv'
<1> DEFINE k == Moved(calls[c], calls[c].phase, "authorise", calls[c].todo)
           b == Current(c)
           rec == RecordFor(b, FALSE)
<1>1. /\ calls[c].pc = "admit" /\ calls[c].pc # "idle" /\ calls[c].pc \notin Loading
      /\ calls' = [calls EXCEPT ![c] = k] /\ tab' = tab
      /\ calls[c].pc \in AtBundle
  BY DEF At, Goto, Becomes, Moved, Loading, AtBundle
<1>2. /\ b \in Bundle /\ calls[c].todo # <<>> /\ calls[c].todo \in Seq(Bundle)
      /\ calls[c] \in CallType
      /\ calls[c].tab \in Tabs
      /\ tab[calls[c].tab] = IF calls[c].kind = "ready" THEN "starting" ELSE "open"
  BY <1>1, CallFacts DEF PageOf
<1>3. StoreSound(records) /\ b.root \notin RootsOf(AdmittedIn(records))
  BY DEF ClaimsInv, Stands, RootsOf
<1>4. /\ k \in CallType /\ k.kind = calls[c].kind /\ k.tab = calls[c].tab
      /\ k.pc = "authorise" /\ k.todo = calls[c].todo
  BY <1>2, MovedIs DEF CallType, Places, AtBundle
<1>5. rec \in Record /\ rec.root = b.root
  BY <1>2, RecordForIs
<1>6. /\ With(records, rec) \in Seq(Record) /\ OnePerRoot(With(records, rec))
      /\ rec \in ToSet(With(records, rec))
      /\ Len(With(records, rec)) = Len(records) + (IF rec.root \in RootsIn(records) THEN 0 ELSE 1)
  <2> HIDE DEF rec
  <2> QED BY <1>3, <1>5, WithIsAList DEF StoreSound
<1>7. AdmittedIn(records') = AdmittedIn(records)
  BY <1>2, <1>3, CandidateAdmitsNothing DEF StoreSound
<1>8. StoreSound(records')
  <2>1. Len(records) \in Nat /\ MaxPending \in Nat
    BY <1>3, ClaimsAssumption DEF StoreSound
  <2>2. b.root \in RootsIn(records) \/ Len(records) < MaxPending
    BY DEF Fits
  <2> HIDE DEF rec, b
  <2>3. Len(With(records, rec)) <= MaxPending
    BY <1>3, <1>5, <1>6, <2>1, <2>2 DEF StoreSound
  <2> QED BY <1>6, <2>3 DEF StoreSound, rec, b
<1>9. b.root \in RootsIn(records')
  BY <1>5, <1>6 DEF RootsIn, ToSet
<1> HIDE DEF k, rec
<1>10. Sound(k, tab', held', records', Settled')
  <2>1. Head(k.todo) = b
    BY <1>4 DEF Current
  <2> HIDE DEF b
  <2> QED BY <1>1, <1>2, <1>3, <1>4, <1>7, <1>9, <2>1 DEF Sound, Loading, AtBundle
<1>11. Settled' = Settled /\ NodeSound' /\ faults' \in 0 .. MaxFaults
  BY NodeStays, FaultCounts
<1>12. OnlyWriter(calls, c)
  BY LockIsHeld
<1> QED BY <1>1, <1>4, <1>7, <1>8, <1>10, <1>11, <1>12, CallStep

LEMMA AdmitKeepsInv == ASSUME ClaimsInv, NEW c \in Calls, Admit(c) PROVE ClaimsInv'
<1>1. /\ calls[c].pc = "admit" /\ calls[c].pc # "idle" /\ calls[c].pc \notin Loading
      /\ calls[c].pc \in AtBundle /\ At(c, "admit") /\ Unlocked
  BY DEF Admit, AtStore, At, Loading, AtBundle
<1>2. /\ calls[c].todo # <<>> /\ calls[c].todo \in Seq(Bundle) /\ calls[c].phase \in Phases
  BY <1>1, CallFacts DEF CallType
<1>3. CASE Ends(c) /\ UNCHANGED records
  BY <1>1, <1>3, CallGivesUp DEF Admit
<1>4. CASE Goto(c, "confirm") /\ UNCHANGED records
  <2>1. Becomes(c, calls[c].phase, "confirm", calls[c].todo)
    BY <1>4 DEF Goto
  <2>2. "confirm" \in Places \ ({"idle", "authorise"} \cup Loading)
    BY DEF Places, Loading, AtBundle
  <2> QED BY <1>1, <1>2, <1>4, <2>1, <2>2, CallGoesOn DEF Admit
<1>5. CASE /\ ~Stands(Current(c)) /\ Fits(Current(c))
           /\ records' = With(records, RecordFor(Current(c), FALSE)) /\ Goto(c, "authorise")
  BY <1>1, <1>5, CandidateKeepsInv DEF Admit
<1> QED BY <1>3, <1>4, <1>5 DEF Admit

LEMMA AuthoriseKeepsInv == ASSUME ClaimsInv, NEW c \in Calls, Authorise(c) PROVE ClaimsInv'
<1> DEFINE b == Current(c)
           rec == RecordFor(b, TRUE)
<1>1. /\ calls[c].pc = "authorise" /\ calls[c].pc # "idle" /\ calls[c].pc \notin Loading
      /\ calls[c].pc \in AtBundle
      /\ Becomes(c, calls[c].phase, "confirm", calls[c].todo)
  BY DEF Authorise, At, Goto, Loading, AtBundle
<1>2. /\ b \in Bundle /\ calls[c].todo # <<>> /\ calls[c].todo \in Seq(Bundle)
      /\ calls[c].phase \in Phases
  BY <1>1, CallFacts DEF CallType
<1>3. /\ StoreSound(records)
      /\ b.root \in RootsIn(records) \ RootsOf(AdmittedIn(records))
  <2>1. Sound(calls[c], tab, held, records, Settled)
    BY DEF ClaimsInv, CallsSound
  <2> QED BY <1>1, <2>1 DEF ClaimsInv, Sound, Current
<1>5. rec \in Record /\ rec.root = b.root
  BY <1>2, RecordForIs
<1>6. /\ With(records, rec) \in Seq(Record) /\ OnePerRoot(With(records, rec))
      /\ Len(With(records, rec)) = Len(records) + (IF rec.root \in RootsIn(records) THEN 0 ELSE 1)
  <2> HIDE DEF rec
  <2> QED BY <1>3, <1>5, WithIsAList DEF StoreSound
<1>7. AdmittedIn(records') = AdmittedIn(records) \cup {b}
  BY <1>2, <1>3, AuthorityAdmitsOne DEF StoreSound, Authorise
<1>8. StoreSound(records')
  <2>1. Len(records) \in Nat /\ records' = With(records, rec)
    BY <1>3 DEF StoreSound, Authorise
  <2> HIDE DEF rec, b
  <2>2. Len(With(records, rec)) = Len(records)
    BY <1>3, <1>5, <1>6, <2>1
  <2> QED BY <1>3, <1>6, <2>1, <2>2 DEF StoreSound
<1>9. Settled' = Settled /\ NodeSound' /\ faults' \in 0 .. MaxFaults /\ held' = held
  BY NodeStays, FaultCounts DEF Authorise
<1>10. OnlyWriter(calls, c)
  BY <1>1, LockIsHeld
<1>11. "confirm" \in Places \ ({"idle", "authorise"} \cup Loading)
  BY DEF Places, Loading, AtBundle
<1> QED BY <1>1, <1>2, <1>7, <1>8, <1>9, <1>10, <1>11, CallMoves

\* What is held from now on is what was read back.
LEMMA HoldIsSound ==
    ASSUME ClaimsInv, NEW c \in Calls, calls[c].pc # "idle", NEW b \in Bundle,
           Admitted(b) \/ b.root \in Settled
    PROVE  With(Holding(c), b) \in Seq(Bundle) /\ MapSound(With(Holding(c), b), records, Settled)
<1> DEFINE list == Holding(c)
<1>1. list \in Seq(Bundle) /\ OnePerRoot(list) /\ MapSound(list, records, Settled)
  BY CallFacts
<1> HIDE DEF list
<1>2. /\ With(list, b) \in Seq(Bundle) /\ OnePerRoot(With(list, b))
      /\ \A x \in ToSet(With(list, b)) : x \in ToSet(list) \/ x = b
  BY <1>1, WithIsAList
<1>3. MapSound(With(list, b), records, Settled)
  BY <1>1, <1>2 DEF MapSound, Admitted
<1> QED BY <1>2, <1>3 DEF list

LEMMA VerifyKeepsInv == ASSUME ClaimsInv, NEW c \in Calls, Verify(c) PROVE ClaimsInv'
<1> DEFINE todo == calls[c].todo
<1>1. /\ calls[c].pc # "idle" /\ calls[c].pc \notin Loading /\ calls[c].pc \in AtBundle
  BY DEF Verify, AtStore, At, Loading, AtBundle
<1>2. /\ todo # <<>> /\ todo \in Seq(Bundle) /\ Tail(todo) \in Seq(Bundle)
      /\ Current(c) \in Bundle /\ calls[c].phase \in Phases
  BY <1>1, CallFacts DEF CallType
<1>3. CASE Ends(c) /\ UNCHANGED held
  BY <1>1, <1>3, CallGivesUp DEF Verify
<1>4. CASE Admitted(Current(c))
  <2>1. \/ held' = held
        \/ \E list \in Seq(Bundle) : /\ held' = [held EXCEPT ![PageOf(c)] = list]
                                     /\ MapSound(list, records, Settled)
    <3>1. CASE At(c, "confirm")
      <4>1. held' = [held EXCEPT ![PageOf(c)] = With(Holding(c), Current(c))]
        BY <1>4, <3>1 DEF Verify, Holding
      <4> QED BY <1>1, <1>2, <1>4, <4>1, HoldIsSound
    <3> QED BY <1>4, <3>1 DEF Verify
  <2>2. CASE calls[c].phase = "retain"
    <3>1. Becomes(c, "retain", "retain", Tail(todo))
      BY <1>4, <2>2 DEF Verify
    <3>2. "retain" \in Places \ ({"idle", "authorise"} \cup Loading) /\ "retain" \notin AtBundle
          /\ "retain" \in Phases
      BY DEF Places, Phases, Loading, AtBundle
    <3> QED BY <1>1, <1>2, <2>1, <3>1, <3>2, CallGoesOn DEF Verify
  <2>3. CASE calls[c].phase # "retain"
    <3>1. Becomes(c, calls[c].phase, "submit", todo)
      BY <1>4, <2>3 DEF Verify, Goto
    <3>2. "submit" \in Places \ ({"idle", "authorise"} \cup Loading)
      BY DEF Places, Loading, AtBundle
    <3>3. Head(todo) \in AdmittedIn(records)
      BY <1>4 DEF Admitted, Current
    <3> QED BY <1>1, <1>2, <2>1, <3>1, <3>2, <3>3, CallGoesOn DEF Verify
  <2> QED BY <2>2, <2>3
<1> QED BY <1>3, <1>4 DEF Verify

-----------------------------------------------------------------------------
(* claim                                                                   *)

\* The claim lands.
LEMMA ClaimLands ==
    ASSUME ClaimsInv, NEW c \in Calls, At(c, "submit"), Payable(Current(c)),
           claimed' = claimed \cup {Current(c).root}, UNCHANGED <<closed, known, full>>
    PROVE  /\ Settled \subseteq Settled' /\ NodeSound' /\ Current(c).root \in Settled'
BY DEF ClaimsInv, NodeSound, Settled, Payable

LEMMA SubmitKeepsInv == ASSUME ClaimsInv, NEW c \in Calls, Submit(c) PROVE ClaimsInv'
<1> DEFINE todo == calls[c].todo
<1>1. /\ calls[c].pc # "idle" /\ calls[c].pc \notin Loading /\ calls[c].pc \in AtBundle
  BY DEF Submit, At, Loading, AtBundle
<1>2. /\ todo # <<>> /\ todo \in Seq(Bundle) /\ calls[c].phase \in Phases
  BY <1>1, CallFacts DEF CallType
<1>3. CASE Ends(c) /\ UNCHANGED claimed
  BY <1>1, <1>3, CallGivesUp DEF Submit
<1>4. CASE /\ Payable(Current(c)) /\ claimed' = claimed \cup {Current(c).root}
           /\ Goto(c, "remove")
  <2>1. Settled \subseteq Settled' /\ NodeSound' /\ Head(todo).root \in Settled'
    BY <1>4, ClaimLands DEF Submit, Current
  <2>2. Becomes(c, calls[c].phase, "remove", todo)
    BY <1>4 DEF Goto
  <2>3. "remove" \in Places \ ({"idle", "authorise"} \cup Loading)
    BY DEF Places, Loading, AtBundle
  <2>4. StoreSound(records') /\ records' = records /\ held' = held /\ faults' \in 0 .. MaxFaults
    BY FaultCounts DEF Submit, ClaimsInv
  <2> QED BY <1>1, <1>2, <2>1, <2>2, <2>3, <2>4, CallMoves
<1> QED BY <1>3, <1>4 DEF Submit

LEMMA RemovePersistedKeepsInv ==
    ASSUME ClaimsInv, NEW c \in Calls, RemovePersisted(c) PROVE ClaimsInv'
<1> DEFINE todo == calls[c].todo
           r == Current(c).root
<1>1. /\ calls[c].pc = "remove" /\ calls[c].pc # "idle" /\ calls[c].pc \notin Loading
      /\ calls[c].pc \in AtBundle /\ Becomes(c, calls[c].phase, "forget", todo) /\ Unlocked
  BY DEF RemovePersisted, AtStore, At, Goto, Loading, AtBundle
<1>2. /\ todo # <<>> /\ todo \in Seq(Bundle) /\ calls[c].phase \in Phases
  BY <1>1, CallFacts DEF CallType
<1>3. Sound(calls[c], tab, held, records, Settled) /\ StoreSound(records)
  BY DEF ClaimsInv, CallsSound
<1>4. r \in Settled
  BY <1>1, <1>3 DEF Sound, Current
<1>5. Settled' = Settled /\ NodeSound' /\ faults' \in 0 .. MaxFaults /\ held' = held
      /\ records' = Without(records, r)
  BY NodeStays, FaultCounts DEF RemovePersisted
<1>6. AdmittedIn(records') = {b \in AdmittedIn(records) : b.root # r}
  BY <1>3, <1>5, RemovalForgetsOne DEF StoreSound
<1>7. StoreSound(records')
  <2>1. /\ Without(records, r) \in Seq(Record) /\ OnePerRoot(Without(records, r))
        /\ Len(Without(records, r)) <= Len(records)
    BY <1>3, WithoutIsAList DEF StoreSound
  <2>2. Len(Without(records, r)) \in Nat /\ Len(records) \in Nat /\ MaxPending \in Nat
    BY <1>3, <2>1, ClaimsAssumption DEF StoreSound
  <2> QED BY <1>3, <1>5, <2>1, <2>2 DEF StoreSound
<1>8. "forget" \in Places \ ({"idle", "authorise"} \cup Loading)
  BY DEF Places, Loading, AtBundle
<1>9. OnlyWriter(calls, c)
  BY <1>1, LockIsHeld
<1> QED BY <1>1, <1>2, <1>4, <1>5, <1>6, <1>7, <1>8, <1>9, CallMoves

\* What a page holds without one root.
LEMMA DropIsSound ==
    ASSUME ClaimsInv, NEW c \in Calls, calls[c].pc # "idle", NEW r
    PROVE  Without(Holding(c), r) \in Seq(Bundle) /\ MapSound(Without(Holding(c), r), records, Settled)
<1> DEFINE list == Holding(c)
<1>1. list \in Seq(Bundle) /\ OnePerRoot(list) /\ MapSound(list, records, Settled)
  BY CallFacts
<1> HIDE DEF list
<1>2. /\ Without(list, r) \in Seq(Bundle) /\ OnePerRoot(Without(list, r))
      /\ \A x \in ToSet(Without(list, r)) : x \in ToSet(list)
  BY <1>1, WithoutIsAList
<1>3. MapSound(Without(list, r), records, Settled)
  BY <1>1, <1>2 DEF MapSound
<1> QED BY <1>2, <1>3 DEF list

LEMMA ForgetKeepsInv == ASSUME ClaimsInv, NEW c \in Calls, Forget(c) PROVE ClaimsInv'
<1> DEFINE todo == calls[c].todo
           list == Without(Holding(c), Current(c).root)
<1>1. /\ calls[c].pc # "idle" /\ calls[c].pc \notin Loading /\ calls[c].pc \in AtBundle
  BY DEF Forget, At, Loading, AtBundle
<1>2. /\ todo # <<>> /\ Tail(todo) \in Seq(Bundle) /\ calls[c].phase \in Phases
  BY <1>1, CallFacts DEF CallType
<1>3. list \in Seq(Bundle) /\ MapSound(list, records, Settled)
  BY <1>1, DropIsSound
<1>4. held' = [held EXCEPT ![PageOf(c)] = list]
  BY DEF Forget, Holding
<1> HIDE DEF list
<1>5. CASE Ends(c)
  <2>1. calls' = [calls EXCEPT ![c] = Idle]
    BY <1>5 DEF Ends
  <2>2. Sound(Idle, tab', held', records', Settled') /\ Idle.pc # "authorise"
    BY IdleIsSound DEF Idle
  <2>3. Settled' = Settled /\ NodeSound' /\ faults' \in 0 .. MaxFaults /\ records' = records
    BY NodeStays, FaultCounts DEF Forget
  <2>4. StoreSound(records')
    BY <2>3 DEF ClaimsInv
  <2> QED BY <1>1, <1>3, <1>4, <1>5, <2>1, <2>2, <2>3, <2>4, CallStep
<1>6. CASE ~Ends(c)
  <2>1. PICK pc \in {"reconcile", "next"} : Becomes(c, calls[c].phase, pc, Tail(todo))
    BY <1>6 DEF Forget
  <2>2. pc \in Places \ ({"idle", "authorise"} \cup Loading) /\ pc \notin AtBundle
        /\ pc # "submit" /\ pc # "remove"
    BY <2>1 DEF Places, Loading, AtBundle
  <2> QED BY <1>1, <1>2, <1>3, <1>4, <2>1, <2>2, CallGoesOn DEF Forget
<1> QED BY <1>5, <1>6

-----------------------------------------------------------------------------
(* reconcile, pending and claimAll                                         *)

LEMMA ReconcileKeepsInv == ASSUME ClaimsInv, NEW c \in Calls, Reconcile(c) PROVE ClaimsInv'
<1> DEFINE todo == calls[c].todo
<1>1. calls[c].pc # "idle" /\ calls[c].pc \notin Loading
  BY DEF Reconcile, At, Loading
<1>2. todo \in Seq(Bundle) /\ calls[c].phase \in Phases
  BY <1>1, CallFacts DEF CallType
<1>3. CASE Ends(c)
  BY <1>1, <1>3, CallGivesUp DEF Reconcile
<1>4. CASE ~Ends(c)
  <2>1. PICK pc \in {"pending", "remove", "commit"} :
          /\ Becomes(c, calls[c].phase, pc, todo)
          /\ pc \in AtBundle => todo # <<>>
          /\ pc = "remove" => Head(todo).root \in Settled
    BY <1>4 DEF Reconcile, Goto, AtBundle, Settled, Current
  <2>2. pc \in Places \ ({"idle", "authorise"} \cup Loading) /\ pc # "submit"
    BY <2>1 DEF Places, Loading, AtBundle
  <2> QED BY <1>1, <1>2, <2>1, <2>2, CallGoesOn DEF Reconcile
<1> QED BY <1>3, <1>4

LEMMA CommitInfoKeepsInv == ASSUME ClaimsInv, NEW c \in Calls, CommitInfo(c) PROVE ClaimsInv'
<1> DEFINE todo == calls[c].todo
           r == Current(c).root
<1>1. /\ calls[c].pc # "idle" /\ calls[c].pc \notin Loading /\ calls[c].pc \in AtBundle
  BY DEF CommitInfo, At, Loading, AtBundle
<1>2. /\ todo # <<>> /\ todo \in Seq(Bundle) /\ Tail(todo) \in Seq(Bundle)
      /\ calls[c].phase \in Phases
  BY <1>1, CallFacts DEF CallType
<1>3. CASE Gone(r)
  <2>1. Becomes(c, calls[c].phase, "remove", todo) /\ held' = held
    BY <1>3 DEF CommitInfo, Goto
  <2>2. Head(todo).root \in Settled
    BY <1>3 DEF Gone, Settled, Current
  <2>3. "remove" \in Places \ ({"idle", "authorise"} \cup Loading)
    BY DEF Places, Loading, AtBundle
  <2> QED BY <1>1, <1>2, <2>1, <2>2, <2>3, CallGoesOn DEF CommitInfo
<1>4. CASE ~Gone(r)
  <2>1. Becomes(c, "reconcile", "reconcile", Tail(todo))
    BY <1>4 DEF CommitInfo
  <2>2. "reconcile" \in Places \ ({"idle", "authorise"} \cup Loading) /\ "reconcile" \in Phases
        /\ "reconcile" \notin AtBundle
    BY DEF Places, Loading, AtBundle, Phases
  <2>3. held' = held \/ held' = [held EXCEPT ![PageOf(c)] = Without(Holding(c), r)]
    BY <1>4 DEF CommitInfo, Holding
  <2>4. Without(Holding(c), r) \in Seq(Bundle) /\ MapSound(Without(Holding(c), r), records, Settled)
    BY <1>1, DropIsSound
  <2> QED BY <1>1, <1>2, <2>1, <2>2, <2>3, <2>4, CallGoesOn DEF CommitInfo
<1> QED BY <1>3, <1>4

LEMMA PendingKeepsInv == ASSUME ClaimsInv, NEW c \in Calls, Pending(c) PROVE ClaimsInv'
<1>1. calls[c].pc # "idle" /\ calls[c].pc \notin Loading
  BY DEF Pending, At, Loading
<1>2. CASE Ends(c)
  BY <1>1, <1>2, CallGivesUp DEF Pending
<1>3. CASE ~Ends(c)
  <2>1. Becomes(c, "claim", "next", Holding(c)) /\ Holding(c) \in Seq(Bundle)
    BY <1>1, <1>3, CallFacts DEF Pending
  <2>2. "next" \in Places \ ({"idle", "authorise"} \cup Loading) /\ "next" \notin AtBundle
        /\ "claim" \in Phases
    BY DEF Places, Loading, AtBundle, Phases
  <2> QED BY <1>1, <2>1, <2>2, CallGoesOn DEF Pending
<1> QED BY <1>2, <1>3

LEMMA NextClaimKeepsInv == ASSUME ClaimsInv, NEW c \in Calls, NextClaim(c) PROVE ClaimsInv'
<1> DEFINE todo == calls[c].todo
           existing == HeldFor(c, Current(c).root)
           b == CHOOSE x \in existing : TRUE
<1>1. calls[c].pc # "idle" /\ calls[c].pc \notin Loading
  BY DEF NextClaim, At, Loading
<1>2. todo \in Seq(Bundle) /\ Holding(c) \in Seq(Bundle)
  BY <1>1, CallFacts
<1>3. CASE Ends(c)
  BY <1>1, <1>3, CallGivesUp DEF NextClaim
<1>4. CASE todo # <<>> /\ existing = {}
  <2>1. Becomes(c, "claim", "next", Tail(todo)) /\ Tail(todo) \in Seq(Bundle)
    BY <1>2, <1>4, HeadTailProperties DEF NextClaim
  <2>2. "next" \in Places \ ({"idle", "authorise"} \cup Loading) /\ "next" \notin AtBundle
        /\ "claim" \in Phases
    BY DEF Places, Loading, AtBundle, Phases
  <2> QED BY <1>1, <2>1, <2>2, CallGoesOn DEF NextClaim
<1>5. CASE todo # <<>> /\ existing # {}
  <2>1. Becomes(c, "claim", "retain", <<b>> \o Tail(todo)) /\ Tail(todo) \in Seq(Bundle)
    BY <1>2, <1>5, HeadTailProperties DEF NextClaim
  <2>2. b \in Bundle
    <3>1. b \in existing
      BY <1>5
    <3>2. existing \subseteq ToSet(Holding(c)) /\ ToSet(Holding(c)) \subseteq Bundle
      BY <1>2, ListBasics DEF HeldFor
    <3> QED BY <3>1, <3>2
  <2> HIDE DEF b
  <2>3. <<b>> \o Tail(todo) \in Seq(Bundle)
    <3>1. <<b>> \in Seq(Bundle)
      BY <2>2
    <3> QED BY <2>1, <3>1, ConcatProperties
  <2>4. "retain" \in Places \ ({"idle", "authorise"} \cup Loading) /\ "retain" \notin AtBundle
        /\ "claim" \in Phases
    BY DEF Places, Loading, AtBundle, Phases
  <2> QED BY <1>1, <2>1, <2>3, <2>4, CallGoesOn DEF NextClaim
<1> QED BY <1>3, <1>4, <1>5 DEF NextClaim

-----------------------------------------------------------------------------
(* what the page asks for                                                  *)

Asked(kind, t, phase, pc, todo) ==
    [kind |-> kind, tab |-> t, phase |-> phase, pc |-> pc, todo |-> todo]

LEMMA AskedIs ==
    ASSUME NEW kind \in Kinds, NEW t \in Tabs, NEW phase \in Phases, NEW pc \in Places,
           NEW todo \in Seq(Bundle)
    PROVE  /\ Asked(kind, t, phase, pc, todo) \in CallType
           /\ Asked(kind, t, phase, pc, todo).kind = kind
           /\ Asked(kind, t, phase, pc, todo).tab = t
           /\ Asked(kind, t, phase, pc, todo).phase = phase
           /\ Asked(kind, t, phase, pc, todo).pc = pc
           /\ Asked(kind, t, phase, pc, todo).todo = todo
<1>1. todo \in Seq(Bundle \cup Record)
  <2>1. Bundle \subseteq Bundle \cup Record
    OBVIOUS
  <2> QED BY <2>1, SeqMonotonic
<1> QED BY <1>1 DEF Asked, CallType

\* A call of an open page.
LEMMA AskKeepsInv ==
    ASSUME ClaimsInv, NEW c \in Calls, NEW t \in Tabs, tab[t] = "open",
           NEW kind \in Kinds \ {"none", "ready"}, NEW phase \in Phases,
           NEW pc \in {"retain", "admit", "reconcile"}, NEW todo \in Seq(Bundle),
           pc = "admit" => todo # <<>>,
           Begin(c, kind, t, phase, pc, todo),
           UNCHANGED <<tab, held, records, claimed, closed, known, full, faults>>
    PROVE  ClaimsInv'
<1> DEFINE k == Asked(kind, t, phase, pc, todo)
<1>1. calls' = [calls EXCEPT ![c] = k] /\ calls[c].pc = "idle"
  BY DEF Begin, Asked, Idle
<1>2. /\ k \in CallType /\ k.kind = kind /\ k.tab = t /\ k.pc = pc /\ k.todo = todo
  <2>1. pc \in Places
    BY DEF Places, AtBundle
  <2> QED BY <2>1, AskedIs
<1> HIDE DEF k
<1>3. Sound(k, tab, held, records, Settled)
  BY <1>2 DEF Sound, Loading, AtBundle
<1>4. Settled' = Settled /\ NodeSound' /\ faults' \in 0 .. MaxFaults
  BY NodeStays, FaultCounts
<1>5. /\ CallsSound(calls, tab, held, records, Settled)
      /\ PagesSound(tab, held, records, Settled) /\ StoreSound(records)
  BY DEF ClaimsInv
<1>6. DOMAIN tab = Tabs
  BY <1>5 DEF PagesSound
<1>7. Allowed(calls, tab, held, records, Settled, c, k, tab, held, records, Settled)
  BY <1>2, <1>3 DEF Allowed, Ready
<1>8. CallsSound([calls EXCEPT ![c] = k], tab, held, records, Settled)
  BY <1>5, <1>6, <1>7, CallsStaySound
<1> QED BY <1>1, <1>4, <1>5, <1>8 DEF ClaimsInv

\* A page is loaded again.
LEMMA OpenKeepsInv ==
    ASSUME ClaimsInv, NEW c \in Calls, NEW t \in Tabs, Open(c, t) PROVE ClaimsInv'
<1> DEFINE k == Asked("ready", t, "hydrate", "list", <<>>)
<1>1. /\ calls' = [calls EXCEPT ![c] = k] /\ calls[c].pc = "idle"
      /\ tab' = [tab EXCEPT ![t] = "starting"] /\ tab[t] = "closed"
  BY DEF Open, Begin, Asked, Idle
<1>2. /\ k \in CallType /\ k.kind = "ready" /\ k.tab = t /\ k.pc = "list" /\ k.todo = <<>>
  <2> DEFINE none == <<>>
  <2>1. "ready" \in Kinds /\ "hydrate" \in Phases /\ "list" \in Places /\ none \in Seq(Bundle)
    BY DEF Kinds, Phases, Places, Loading
  <2> HIDE DEF none
  <2>2. /\ Asked("ready", t, "hydrate", "list", none) \in CallType
        /\ Asked("ready", t, "hydrate", "list", none).kind = "ready"
        /\ Asked("ready", t, "hydrate", "list", none).tab = t
        /\ Asked("ready", t, "hydrate", "list", none).pc = "list"
        /\ Asked("ready", t, "hydrate", "list", none).todo = none
    BY <2>1, AskedIs
  <2> QED BY <2>2 DEF none
<1> HIDE DEF k
<1>3. /\ CallsSound(calls, tab, held, records, Settled)
      /\ PagesSound(tab, held, records, Settled) /\ StoreSound(records)
  BY DEF ClaimsInv
<1>4. /\ tab \in [Tabs -> {"closed", "starting", "open"}]
      /\ held[t] = <<>>
  BY <1>1, <1>3 DEF PagesSound
<1>5. /\ Settled' = Settled /\ NodeSound' /\ faults' \in 0 .. MaxFaults
      /\ held' = held /\ records' = records
  BY NodeStays, FaultCounts DEF Open
<1>6. Sound(k, tab', held, records, Settled)
  <2>1. <<>> \in Seq(Record) /\ OnePerRoot(<<>>) /\ RootsIn(<<>>) = {}
    BY DEF OnePerRoot, RootsIn
  <2> QED BY <1>1, <1>2, <1>4, <2>1 DEF Sound, Loading, AtBundle
<1>7. ASSUME NEW d \in Calls, calls[d].pc # "idle"
      PROVE  calls[d].tab # t /\ tab'[calls[d].tab] = tab[calls[d].tab]
  <2>1. Sound(calls[d], tab, held, records, Settled)
    BY <1>3 DEF CallsSound
  <2> QED BY <1>1, <1>4, <1>7, <2>1 DEF Sound
<1>8. /\ calls'[c] = k /\ \A d \in Calls : d # c => calls'[d] = calls[d]
      /\ DOMAIN calls' = Calls /\ calls' = [d \in Calls |-> calls'[d]]
  BY <1>1, <1>3 DEF CallsSound
<1>9. \A d \in Calls : Sound(calls'[d], tab', held, records, Settled)
  <2> TAKE d \in Calls
  <2>1. CASE d = c
    BY <1>6, <1>8, <2>1
  <2>2. CASE d # c
    <3>1. Sound(calls[d], tab, held, records, Settled)
      BY <1>3 DEF CallsSound
    <3>2. Sound(calls[d], tab', held, records, Settled)
      BY <1>7, <3>1, StaysSound
    <3> QED BY <1>8, <2>2, <3>2
  <2> QED BY <2>1, <2>2
<1>10. CallsSound(calls', tab', held, records, Settled)
  <2>1. /\ \A d, e \in Calls : Ready(calls[d]) /\ Ready(calls[e]) /\ calls[d].tab = calls[e].tab => d = e
        /\ \A d, e \in Calls : calls[d].pc = "authorise" /\ calls[e].pc = "authorise" => d = e
    BY <1>3 DEF CallsSound
  <2>2. \A d, e \in Calls : Ready(calls'[d]) /\ Ready(calls'[e]) /\ calls'[d].tab = calls'[e].tab => d = e
    BY <1>2, <1>7, <1>8, <2>1 DEF Ready
  <2>3. \A d, e \in Calls : calls'[d].pc = "authorise" /\ calls'[e].pc = "authorise" => d = e
    BY <1>2, <1>8, <2>1
  <2> QED BY <1>8, <1>9, <2>2, <2>3 DEF CallsSound
<1>11. PagesSound(tab', held, records, Settled)
  BY <1>1, <1>3 DEF PagesSound
<1> QED BY <1>3, <1>5, <1>10, <1>11 DEF ClaimsInv

LEMMA AsksKeepInv == ASSUME ClaimsInv, NEW c \in Calls, NEW t \in Tabs, Asks(c, t) PROVE ClaimsInv'
<1>1. held[t] \in Seq(Bundle)
  BY DEF ClaimsInv, PagesSound
<1>2. ASSUME NEW d \in Deliveries, AddBundles(c, t, d)
      PROVE  ClaimsInv'
  <2> DEFINE todo == Additions(d, held[t])
  <2>1. todo \in Seq(Bundle)
    BY ClaimsAssumption, AdditionsAreAList
  <2> HIDE DEF todo
  <2>2. PICK pc \in {"retain", "admit"} : /\ Begin(c, "add", t, "retain", pc, todo)
                                          /\ pc = "admit" => todo # <<>>
    BY <1>2 DEF AddBundles, todo
  <2>3. "add" \in Kinds \ {"none", "ready"} /\ "retain" \in Phases
    BY DEF Kinds, Phases
  <2>4. /\ pc \in {"retain", "admit", "reconcile"} /\ tab[t] = "open"
        /\ UNCHANGED <<tab, held, records, claimed, closed, known, full, faults>>
    BY <1>2 DEF AddBundles
  <2> QED BY <2>1, <2>2, <2>3, <2>4, AskKeepsInv
<1>3. ASSUME NEW b \in UNION {ToSet(d) : d \in Deliveries}, Claim(c, t, b)
      PROVE  ClaimsInv'
  <2>1. b \in Bundle
    <3>1. PICK d \in Deliveries : b \in ToSet(d)
      OBVIOUS
    <3>2. d \in Seq(Bundle)
      BY ClaimsAssumption
    <3> QED BY <3>1, <3>2, ListBasics
  <2>2. <<b>> \in Seq(Bundle)
    BY <2>1
  <2>3. "claim" \in Kinds \ {"none", "ready"} /\ "claim" \in Phases
    BY DEF Kinds, Phases
  <2> QED BY <1>3, <2>2, <2>3, AskKeepsInv DEF Claim
<1>4. "claimAll" \in Kinds \ {"none", "ready"} /\ "pending" \in Kinds \ {"none", "ready"}
      /\ "reconcile" \in Phases
  BY DEF Kinds, Phases
<1>5. CASE ClaimAll(c, t)
  BY <1>1, <1>4, <1>5, AskKeepsInv DEF ClaimAll
<1>6. CASE AskPending(c, t)
  BY <1>1, <1>4, <1>6, AskKeepsInv DEF AskPending
<1> QED BY <1>2, <1>3, <1>5, <1>6 DEF Asks

-----------------------------------------------------------------------------
(* what fails, and the ledger                                              *)

\* A page goes, and every call it had.
LEMMA ClosesKeepsInv ==
    ASSUME ClaimsInv, NEW t \in Tabs, Closes(t), Fault \/ UNCHANGED faults
    PROVE  ClaimsInv'
<1>1. /\ CallsSound(calls, tab, held, records, Settled)
      /\ PagesSound(tab, held, records, Settled) /\ StoreSound(records)
  BY DEF ClaimsInv
<1>2. /\ Settled' = Settled /\ NodeSound' /\ faults' \in 0 .. MaxFaults /\ records' = records
  BY NodeStays, FaultCounts DEF Closes
<1>3. /\ tab' = [tab EXCEPT ![t] = "closed"] /\ held' = [held EXCEPT ![t] = <<>>]
      /\ calls' = [c \in Calls |-> IF calls[c].tab = t THEN Idle ELSE calls[c]]
  BY DEF Closes, PageOf
<1>4. \A c \in Calls : calls'[c] = Idle \/ (calls'[c] = calls[c] /\ calls[c].tab # t)
  BY <1>3
<1>5. PagesSound(tab', held', records, Settled)
  <2>1. <<>> \in Seq(Bundle) /\ OnePerRoot(<<>>) /\ ToSet(<<>>) = {}
    BY DEF OnePerRoot, ToSet
  <2> QED BY <1>1, <1>3, <2>1 DEF PagesSound
<1>6. \A c \in Calls : Sound(calls'[c], tab', held', records, Settled)
  <2> TAKE c \in Calls
  <2>1. CASE calls'[c] = Idle
    BY <2>1, IdleIsSound
  <2>2. CASE calls'[c] = calls[c] /\ calls[c].tab # t
    <3>1. Sound(calls[c], tab, held, records, Settled)
      BY <1>1 DEF CallsSound
    <3>2. calls[c].pc # "idle" => calls[c].tab \in Tabs
      BY <3>1 DEF Sound
    <3>3. calls[c].pc \in Loading => calls[c].pc # "idle"
      BY DEF Loading
    <3>4. /\ calls[c].pc # "idle" => tab'[calls[c].tab] = tab[calls[c].tab]
          /\ calls[c].pc \in Loading => held'[calls[c].tab] = held[calls[c].tab]
      BY <1>1, <1>3, <2>2, <3>2, <3>3 DEF PagesSound
    <3>5. Sound(calls[c], tab', held', records, Settled)
      BY <3>1, <3>4, StaysSound
    <3> QED BY <2>2, <3>5
  <2> QED BY <1>4, <2>1, <2>2
<1>7. CallsSound(calls', tab', held', records, Settled)
  <2>1. ~Ready(Idle) /\ Idle.pc # "authorise"
    BY DEF Ready, Idle
  <2>2. /\ \A d, e \in Calls : Ready(calls[d]) /\ Ready(calls[e]) /\ calls[d].tab = calls[e].tab => d = e
        /\ \A d, e \in Calls : calls[d].pc = "authorise" /\ calls[e].pc = "authorise" => d = e
    BY <1>1 DEF CallsSound
  <2>3. \A d, e \in Calls : Ready(calls'[d]) /\ Ready(calls'[e]) /\ calls'[d].tab = calls'[e].tab => d = e
    BY <1>4, <2>1, <2>2
  <2>4. \A d, e \in Calls : calls'[d].pc = "authorise" /\ calls'[e].pc = "authorise" => d = e
    BY <1>4, <2>1, <2>2
  <2>5. DOMAIN calls' = Calls /\ calls' = [c \in Calls |-> calls'[c]]
    BY <1>3
  <2> QED BY <1>6, <2>3, <2>4, <2>5 DEF CallsSound
<1> QED BY <1>1, <1>2, <1>5, <1>7 DEF ClaimsInv

LEMMA StorePassedOverKeepsInv ==
    ASSUME ClaimsInv, NEW c \in Calls, StorePassedOver(c) PROVE ClaimsInv'
<1>1. CASE AtStore(c, "remove") /\ Goto(c, "forget")
  <2>1. /\ calls[c].pc # "idle" /\ calls[c].pc \notin Loading /\ calls[c].pc \in AtBundle
        /\ Becomes(c, calls[c].phase, "forget", calls[c].todo)
    BY <1>1 DEF AtStore, At, Goto, Loading, AtBundle
  <2>2. /\ calls[c].todo # <<>> /\ calls[c].todo \in Seq(Bundle) /\ calls[c].phase \in Phases
    BY <2>1, CallFacts DEF CallType
  <2>3. "forget" \in Places \ ({"idle", "authorise"} \cup Loading)
    BY DEF Places, Loading, AtBundle
  <2> QED BY <2>1, <2>2, <2>3, CallGoesOn DEF StorePassedOver
<1>2. CASE /\ AtStore(c, "read") /\ calls[c].todo # <<>>
           /\ Becomes(c, "hydrate", "read", Tail(calls[c].todo))
  BY <1>2, ReadingKeepsInv DEF StorePassedOver, AtStore
<1> QED BY <1>1, <1>2 DEF StorePassedOver

LEMMA StoreRefusesKeepsInv ==
    ASSUME ClaimsInv, NEW c \in Calls, StoreRefuses(c) PROVE ClaimsInv'
<1>1. calls[c].pc # "idle" /\ Ends(c) /\ UNCHANGED held
  BY DEF StoreRefuses, AtStore, At, Unretained
<1> QED BY <1>1, CallGivesUp DEF StoreRefuses

LEMMA NodeFailsKeepsInv ==
    ASSUME ClaimsInv, NEW c \in Calls, NodeFails(c) PROVE ClaimsInv'
<1>1. calls[c].pc # "idle"
  BY DEF NodeFails, At
<1> QED BY <1>1, CallGivesUp DEF NodeFails

LEMMA AnswerLostKeepsInv ==
    ASSUME ClaimsInv, NEW c \in Calls, AnswerLost(c) PROVE ClaimsInv'
<1>1. calls[c].pc # "idle"
  BY DEF AnswerLost, At
<1>2. Settled \subseteq Settled' /\ NodeSound'
  BY ClaimLands DEF AnswerLost
<1> QED BY <1>1, <1>2, CallEnds DEF AnswerLost

\* The node moves on by itself: what was settled stays so.
LEMMA NodeKeepsInv ==
    ASSUME ClaimsInv, NEW r \in Roots, Learn(r) \/ Close(r) \/ Fill(r) \/ Free(r)
    PROVE  ClaimsInv'
<1>1. UNCHANGED <<tab, held, calls, records, faults>> /\ Settled \subseteq Settled'
  BY DEF Learn, Close, Fill, Free, Settled
<1>2. NodeSound'
  BY DEF Learn, Close, Fill, Free, ClaimsInv, NodeSound
<1>3. /\ CallsSound(calls, tab, held, records, Settled)
      /\ PagesSound(tab, held, records, Settled)
  BY DEF ClaimsInv
<1>4. \A b \in AdmittedIn(records) : b \in AdmittedIn(records) \/ b.root \in Settled'
  OBVIOUS
<1>5. \A c \in Calls : Sound(calls[c], tab, held, records, Settled')
  <2> TAKE c \in Calls
  <2>1. Sound(calls[c], tab, held, records, Settled)
    BY <1>3 DEF CallsSound
  <2> QED BY <1>1, <1>4, <2>1, StaysSound
<1>6. CallsSound(calls, tab, held, records, Settled')
  BY <1>3, <1>5 DEF CallsSound
<1>7. PagesSound(tab, held, records, Settled')
  BY <1>1, <1>3 DEF PagesSound
<1> QED BY <1>1, <1>2, <1>6, <1>7 DEF ClaimsInv, StoreSound

-----------------------------------------------------------------------------
(* the theorems                                                            *)

LEMMA InitSound == Init => ClaimsInv
<1> SUFFICES ASSUME Init PROVE ClaimsInv
  OBVIOUS
<1>1. /\ tab = [t \in Tabs |-> "closed"] /\ held = [t \in Tabs |-> <<>>]
      /\ calls = [c \in Calls |-> Idle] /\ records = <<>>
      /\ claimed = {} /\ closed = {} /\ known = {} /\ full = {} /\ faults = 0
  BY DEF Init
<1>2. CallsSound(calls, tab, held, records, Settled)
  <2>1. \A c \in Calls : calls[c] = Idle
    BY <1>1
  <2>2. ~Ready(Idle) /\ Idle.pc # "authorise"
    BY DEF Ready, Idle
  <2>3. \A c \in Calls : Sound(calls[c], tab, held, records, Settled)
    BY <2>1, IdleIsSound
  <2>4. DOMAIN calls = Calls /\ calls = [c \in Calls |-> calls[c]]
    BY <1>1
  <2> QED BY <2>1, <2>2, <2>3, <2>4 DEF CallsSound
<1>3. <<>> \in Seq(Bundle) /\ <<>> \in Seq(Record) /\ OnePerRoot(<<>>) /\ ToSet(<<>>) = {}
      /\ Len(<<>>) = 0
  BY DEF OnePerRoot, ToSet
<1>4. PagesSound(tab, held, records, Settled)
  BY <1>1, <1>3 DEF PagesSound
<1>5. StoreSound(records) /\ faults \in 0 .. MaxFaults
  BY <1>1, <1>3, ClaimsAssumption DEF StoreSound
<1>6. NodeSound
  BY <1>1 DEF NodeSound
<1> QED BY <1>2, <1>4, <1>5, <1>6 DEF ClaimsInv

LEMMA NextKeepsInv == ASSUME ClaimsInv, [Next]_vars PROVE ClaimsInv'
<1>1. CASE UNCHANGED vars
  BY <1>1 DEF vars, ledger, ClaimsInv, CallsSound, PagesSound, StoreSound, NodeSound, Settled
<1>2. ASSUME NEW c \in Calls, Step(c)
      PROVE  ClaimsInv'
  BY <1>2, ListKeepsInv, ReadKeepsInv, HydratedKeepsInv, RetainKeepsInv, AdmitKeepsInv,
     AuthoriseKeepsInv, VerifyKeepsInv, SubmitKeepsInv, RemovePersistedKeepsInv, ForgetKeepsInv,
     ReconcileKeepsInv, CommitInfoKeepsInv, PendingKeepsInv, NextClaimKeepsInv DEF Step
<1>3. ASSUME NEW c \in Calls,
             StorePassedOver(c) \/ StoreRefuses(c) \/ NodeFails(c) \/ AnswerLost(c)
      PROVE  ClaimsInv'
  BY <1>3, StorePassedOverKeepsInv, StoreRefusesKeepsInv, NodeFailsKeepsInv, AnswerLostKeepsInv
<1>4. ASSUME NEW c \in Calls, NEW t \in Tabs, Open(c, t) \/ Asks(c, t)
      PROVE  ClaimsInv'
  BY <1>4, OpenKeepsInv, AsksKeepInv
<1>5. ASSUME NEW t \in Tabs, Leave(t) \/ Crash(t)
      PROVE  ClaimsInv'
  BY <1>5, ClosesKeepsInv DEF Leave, Crash
<1>6. ASSUME NEW r \in Roots, Learn(r) \/ Close(r) \/ Fill(r) \/ Free(r)
      PROVE  ClaimsInv'
  BY <1>6, NodeKeepsInv
<1> QED BY <1>1, <1>2, <1>3, <1>4, <1>5, <1>6 DEF Next

\* Every reachable state satisfies the inductive invariant.
THEOREM ClaimsStaySound == Spec => []ClaimsInv
<1>1. Init => ClaimsInv
  BY InitSound
<1>2. ClaimsInv /\ [Next]_vars => ClaimsInv'
  BY NextKeepsInv
<1> QED BY <1>1, <1>2, PTL DEF Spec

LEMMA SoundIsSafe == ASSUME ClaimsInv PROVE ProofsAreSafe
<1>1. /\ CallsSound(calls, tab, held, records, Settled)
      /\ PagesSound(tab, held, records, Settled) /\ StoreSound(records)
  BY DEF ClaimsInv
<1>2. \A c \in Calls : Sound(calls[c], tab, held, records, Settled)
  BY <1>1 DEF CallsSound
<1>3. ASSUME NEW c \in Calls, calls[c] # Idle
      PROVE  PageOf(c) \in Tabs /\ ToSet(calls[c].todo) \subseteq Bundle \cup Record
  <2>1. Sound(calls[c], tab, held, records, Settled)
    BY <1>2
  <2>2. calls[c].todo \in Seq(Bundle \cup Record) /\ PageOf(c) \in Tabs
    BY <1>3, <2>1 DEF Sound, CallType, PageOf
  <2> QED BY <2>2, ListBasics
<1>4. TypeOK
  BY <1>1, <1>3 DEF TypeOK, ClaimsInv, PagesSound, StoreSound, NodeSound
<1>5. HeldIsDurable
  BY <1>1 DEF PagesSound, HeldIsDurable, Admitted
<1>6. SignedIsDurable
  BY <1>2 DEF Sound, SignedIsDurable, Admitted, Current, At
<1>7. WithinLimit
  BY <1>1 DEF StoreSound, WithinLimit
<1> QED BY <1>4, <1>5, <1>6, <1>7 DEF ProofsAreSafe

\* For any number of pages, calls, roots and faults: a page holds one bundle for a
\* root, the store one record, within its limit; whatever a page holds, and
\* whatever it signs for, would be there after a reload until the node has
\* settled the root (retain, persist, verifyAdmitted, api.ts; admit, store.ts).
THEOREM ProofsStaySafe == Spec => []ProofsAreSafe
<1>1. ClaimsInv => ProofsAreSafe
  BY SoundIsSafe
<1> QED BY <1>1, ClaimsStaySound, PTL

\* The records of an action that leaves them, or adds a candidate or an
\* authority, lose no authority; removePersisted loses one that is settled.
LEMMA NothingLostByAStep ==
    ASSUME ClaimsInv, [Next]_vars, NEW b \in AdmittedIn(records) \ AdmittedIn(records')
    PROVE  b.root \in Settled
<1>1. StoreSound(records) /\ \A c \in Calls : Sound(calls[c], tab, held, records, Settled)
  BY DEF ClaimsInv, CallsSound
<1>2. records' # records
  OBVIOUS
<1>3. ASSUME NEW c \in Calls, Admit(c)
      PROVE  FALSE
  <2>1. ~Stands(Current(c)) /\ records' = With(records, RecordFor(Current(c), FALSE))
    BY <1>2, <1>3 DEF Admit
  <2>2. Current(c) \in Bundle
    BY <1>3, CallFacts DEF Admit, AtStore, At, Loading, AtBundle
  <2>3. AdmittedIn(records') = AdmittedIn(records)
    BY <1>1, <2>1, <2>2, CandidateAdmitsNothing DEF StoreSound, Stands, RootsOf
  <2> QED BY <2>3
<1>4. ASSUME NEW c \in Calls, Authorise(c)
      PROVE  FALSE
  <2>1. calls[c].pc = "authorise" /\ records' = With(records, RecordFor(Current(c), TRUE))
    BY <1>4 DEF Authorise, At
  <2>2. Current(c) \in Bundle
    BY <2>1, CallFacts DEF Loading, AtBundle
  <2>3. Current(c).root \notin RootsOf(AdmittedIn(records))
    BY <1>1, <2>1 DEF Sound, Current
  <2>4. AdmittedIn(records') = AdmittedIn(records) \cup {Current(c)}
    BY <1>1, <2>1, <2>2, <2>3, AuthorityAdmitsOne DEF StoreSound
  <2> QED BY <2>4
<1>5. ASSUME NEW c \in Calls, RemovePersisted(c)
      PROVE  b.root \in Settled
  <2>1. calls[c].pc = "remove" /\ records' = Without(records, Current(c).root)
    BY <1>5 DEF RemovePersisted, AtStore, At
  <2>2. Current(c).root \in Settled
    BY <1>1, <2>1 DEF Sound, Current
  <2>3. AdmittedIn(records') = {x \in AdmittedIn(records) : x.root # Current(c).root}
    BY <1>1, <2>1, RemovalForgetsOne DEF StoreSound
  <2> QED BY <2>2, <2>3
<1>6. ASSUME NEW c \in Calls, Step(c)
      PROVE  Admit(c) \/ Authorise(c) \/ RemovePersisted(c)
  BY <1>2, <1>6 DEF Step, List, Read, Hydrated, Retain, Verify, Submit, Forget, Reconcile,
     CommitInfo, Pending, NextClaim
<1>7. ~UNCHANGED vars
  BY <1>2 DEF vars
<1>8. \A c \in Calls : ~(StorePassedOver(c) \/ StoreRefuses(c) \/ NodeFails(c) \/ AnswerLost(c))
  BY <1>2 DEF StorePassedOver, StoreRefuses, NodeFails, AnswerLost
<1>9. \A c \in Calls, t \in Tabs : ~(Open(c, t) \/ Asks(c, t))
  BY <1>2 DEF Open, Asks, AddBundles, Claim, ClaimAll, AskPending
<1>10. /\ \A t \in Tabs : ~(Leave(t) \/ Crash(t))
       /\ \A r \in Roots : ~(Learn(r) \/ Close(r) \/ Fill(r) \/ Free(r))
  BY <1>2 DEF Leave, Crash, Closes, Learn, Close, Fill, Free
<1> QED BY <1>3, <1>4, <1>5, <1>6, <1>7, <1>8, <1>9, <1>10 DEF Next

\* A proof that was admitted leaves the store, or gives way to other terms, only
\* when the node has settled its root, whatever pages, faults and crashes do
\* (admit and remove, store.ts; reconcile, api.ts).
THEOREM NoProofIsLost == Spec => NothingLost
<1>1. ClaimsInv /\ [Next]_vars =>
          [\A b \in AdmittedIn(records) \ AdmittedIn(records') : b.root \in Settled]_vars
  BY NothingLostByAStep
<1> QED BY <1>1, ClaimsStaySound, PTL DEF Spec, NothingLost
=============================================================================
