--------------------------- MODULE KeiClientProofs --------------------------
(***************************************************************************)
(* Proofs about KeiClient.tla, for any payments and receivables, over HTTP *)
(* and in process, whatever fails or is collected by another client:       *)
(* callers and listeners are told what happened, and a wallet that nothing *)
(* got in the way of has never overtaken itself.                           *)
(***************************************************************************)
EXTENDS KeiClient, SequenceTheorems, TLAPS

(***************************************************************************)
(* The inductive invariant, in parts.                                      *)
(***************************************************************************)

\* A receivable waits once, until somebody collects it.
NodeOK ==
    /\ transport \in Transports
    /\ waiting \in Seq(Receivables)
    /\ taker \in [Receivables -> {"nobody", "us", "rival"}]
    /\ paid \subseteq Payments
    /\ balance \in Nat
    /\ \A i, j \in 1 .. Len(waiting) : waiting[i] = waiting[j] => i = j
    /\ \A i \in 1 .. Len(waiting) : taker[waiting[i]] = "nobody"

\* The drain has work in hand while it collects.
Work ==
    /\ todo \in Seq(Receivables)
    /\ pc \in {"meta", "submit"} => todo # <<>>

DrainOK ==
    /\ pc \in {"idle", "fetch", "answered", "meta", "submit", "settled"}
    /\ Work
    /\ rounds \in 0 .. MaxRounds - 1
    /\ receiveAgain \in BOOLEAN
    /\ due \subseteq Receivables
    /\ failure \in {"none", "lost", "fork", "gone"}

\* The places of a queue that hold collections, not payments.
Collections(q) == {i \in 1 .. Len(q) : q[i] \notin Payments}

OneCollection(q) == \A i, j \in Collections(q) : i = j

PaymentsOnce(q) == \A i, j \in 1 .. Len(q) : q[i] \in Payments /\ q[i] = q[j] => i = j

Asks(q, p) == \E i \in 1 .. Len(q) : q[i] = p

CollectsOnly(q, r) == \A i \in Collections(q) : q[i] = r

\* The queue holds every payment once, and the drain's one collection only
\* while the drain awaits it: that of the first receivable on its list.
QueueOK ==
    /\ queue \in Seq(Job)
    /\ OneCollection(queue)
    /\ PaymentsOnce(queue)
    /\ pc # "submit" => Collections(queue) = {}
    /\ CollectsOnly(queue, todo[1])

\* What a job is for has happened.
Done(job) == IF job \in Payments THEN job \in paid ELSE taker[job] = "us"

\* A block that is awaited is that of the queue's head.  Nobody awaits a block
\* whose answer did not come in time; it may still land.
BlockSound(b) ==
    /\ b \in Block
    /\ b.awaited => queue # <<>> /\ b.job = queue[1]
    /\ ~b.awaited => b.fate = "sent" /\ b.job \in unheard
    /\ b.standing = "known" \/ b.fate = "ok" => Done(b.job)
    /\ b.job \in Payments =>
         /\ ~b.awaited => outcome[b.job] = "lost"
         /\ b.fate # "gone"
         /\ b.fate \in {"sent", "fork"} => b.job \notin paid
         /\ b.fate = "sent" /\ b.standing = "fits" => balance >= 1

\* One block is awaited, and a payment is drafted once.
FlightsOK ==
    /\ unheard \subseteq Job
    /\ \A b \in flight : BlockSound(b)
    /\ \A b, c \in flight :
         (b.awaited /\ c.awaited) \/ (b.job = c.job /\ b.job \in Payments) => b = c

\* What a payment was answered, its place in the queue and its block agree.
OutcomesOK ==
    /\ outcome \in [Payments -> {"none", "asked", "ok", "fork", "lost", "insufficient-kei"}]
    /\ \A p \in Payments :
         /\ outcome[p] = "asked" <=> Asks(queue, p)
         /\ outcome[p] = "ok" => p \in paid
         /\ outcome[p] \in {"none", "fork", "insufficient-kei"} =>
              p \notin paid /\ \A b \in flight : b.job # p
         /\ outcome[p] = "asked" /\ (\A b \in flight : b.job # p) => p \notin paid

WatchOK ==
    /\ reported \subseteq Receivables
    /\ \A r \in reported : taker[r] = "us"
    /\ phase \in {"new", "starting", "subscribing", "live", "failed"}
    /\ closed \in BOOLEAN /\ subscribed \in BOOLEAN
    /\ notices \in Nat
    /\ poll \in {"off", "scheduled", "asked"}
    /\ seen \subseteq Receivables /\ news \subseteq Receivables
    /\ faults \in 0 .. MaxFaults

\* Every receivable on the drain's list is listed once and still waits, but the
\* first, which this wallet may have collected just now.
Fresh ==
    /\ \A i, j \in 1 .. Len(todo) : todo[i] = todo[j] => i = j
    /\ \A i \in 1 .. Len(todo) :
         \/ todo[i] \in ToSet(waiting)
         \/ i = 1 /\ pc = "submit" /\ \E b \in flight : b.job = todo[1] /\ b.fate = "ok"

\* Nothing but the head's block moves the frontier, and the drain's list is not
\* out of date, unless somebody else may have moved it.
Calm == ~Overtakable => Fresh /\ \A b \in flight : b.awaited /\ b.standing = "fits"

\* What was collected has been reported or is about to be.
Reports ==
    \A r \in Receivables : taker[r] = "us" /\ ~closed /\ r \notin unheard =>
        r \in reported \/ \E b \in flight : b.job = r /\ b.awaited /\ b.fate = "ok"

\* Nobody is told of a lost race, or about to be, that nobody else was in.
Reasons ==
    \/ failure \in {"fork", "gone"}
    \/ \E p \in Payments : outcome[p] = "fork"
    \/ \E b \in flight : b.fate \in {"fork", "gone"}
    => Overtakable

Quiet == Calm /\ Reports /\ Reasons

ClientInv ==
    NodeOK /\ DrainOK /\ QueueOK /\ FlightsOK /\ OutcomesOK /\ WatchOK /\ Quiet

-----------------------------------------------------------------------------
(* lists and queues                                                        *)

\* Taking an entry out of a list of different entries.
LEMMA WithoutIsASeq ==
    ASSUME NEW S, NEW list \in Seq(S), NEW r \in ToSet(list),
           \A i, j \in 1 .. Len(list) : list[i] = list[j] => i = j
    PROVE  LET w == Without(list, r)
           IN  /\ w \in Seq(S)
               /\ \A i \in 1 .. Len(w) : w[i] # r /\ w[i] \in ToSet(list)
               /\ \A i, j \in 1 .. Len(w) : w[i] = w[j] => i = j
               /\ \A x \in ToSet(list) \ {r} : x \in ToSet(w)
<1> DEFINE k == CHOOSE i \in 1 .. Len(list) : list[i] = r
<1> DEFINE n == Len(list)
<1> DEFINE front == SubSeq(list, 1, k - 1)
<1> DEFINE back == SubSeq(list, k + 1, n)
<1>1. k \in 1 .. n /\ list[k] = r /\ n \in Nat
  BY LenProperties DEF ToSet
<1>2. Without(list, r) = front \o back
  BY DEF Without, RemoveAt
<1> HIDE DEF k, n
<1>3. /\ front \in Seq(S) /\ Len(front) = k - 1
      /\ \A i \in 1 .. k - 1 : front[i] = list[i]
  <2>1. \A i \in 1 .. k - 1 : i \in 1 .. n /\ list[i] \in S
    BY <1>1 DEF n
  <2> QED BY <1>1, <2>1, SubSeqProperties
<1>4. /\ back \in Seq(S) /\ Len(back) = n - k
      /\ \A i \in 1 .. n - k : back[i] = list[k + i]
  <2>1. \A i \in k + 1 .. n : list[i] \in S
    BY <1>1 DEF n
  <2> QED BY <1>1, <2>1, SubSeqProperties
<1> HIDE DEF front, back
<1> DEFINE w == front \o back
<1>5. /\ w \in Seq(S) /\ Len(w) = n - 1
      /\ \A i \in 1 .. n - 1 : w[i] = IF i < k THEN list[i] ELSE list[i + 1]
  <2>1. /\ w \in Seq(S) /\ Len(w) = Len(front) + Len(back)
        /\ \A i \in 1 .. Len(front) + Len(back) :
             w[i] = IF i <= Len(front) THEN front[i] ELSE back[i - Len(front)]
    BY <1>3, <1>4, ConcatProperties
  <2>2. (k - 1) + (n - k) = n - 1
    BY <1>1
  <2> HIDE DEF w
  <2>3. /\ w \in Seq(S) /\ Len(w) = n - 1
        /\ \A i \in 1 .. n - 1 :
             w[i] = IF i <= k - 1 THEN front[i] ELSE back[i - (k - 1)]
    BY <1>3, <1>4, <2>1, <2>2
  <2>4. ASSUME NEW i \in 1 .. n - 1
        PROVE  w[i] = IF i < k THEN list[i] ELSE list[i + 1]
    <3>1. CASE i < k
      <4>1. i <= k - 1 /\ i \in 1 .. k - 1
        BY <1>1, <3>1
      <4> QED BY <1>3, <2>3, <3>1, <4>1
    <3>2. CASE ~(i < k)
      <4>1. w[i] = back[i - (k - 1)] /\ i - (k - 1) \in 1 .. n - k
        BY <1>1, <2>3, <3>2
      <4>2. k + (i - (k - 1)) = i + 1
        BY <1>1
      <4>3. back[i - (k - 1)] = list[k + (i - (k - 1))]
        BY <1>4, <4>1
      <4> QED BY <3>2, <4>1, <4>2, <4>3
    <3> QED BY <3>1, <3>2
  <2> QED BY <2>3, <2>4
<1> HIDE DEF w
<1>6. \A i \in 1 .. n - 1 : \E j \in 1 .. n : j # k /\ w[i] = list[j]
                             /\ j = IF i < k THEN i ELSE i + 1
  BY <1>1, <1>5
<1>7. \A i \in 1 .. n - 1 : w[i] # r /\ w[i] \in ToSet(list)
  BY <1>1, <1>6 DEF ToSet, n
<1>8. \A i, j \in 1 .. n - 1 : w[i] = w[j] => i = j
  BY <1>1, <1>6 DEF n
<1>9. ASSUME NEW x \in ToSet(list) \ {r}
      PROVE  x \in ToSet(w)
  <2>1. PICK j \in 1 .. n : list[j] = x
    BY DEF ToSet, n
  <2>2. j # k
    BY <1>1, <2>1
  <2>3. CASE j < k
    <3>1. j \in 1 .. n - 1 /\ w[j] = x
      BY <1>1, <1>5, <2>1, <2>3
    <3> QED BY <1>5, <3>1 DEF ToSet
  <2>4. CASE j > k
    <3>1. j - 1 \in 1 .. n - 1 /\ ~(j - 1 < k) /\ (j - 1) + 1 = j
      BY <1>1, <2>4
    <3>2. w[j - 1] = x
      BY <1>5, <2>1, <3>1
    <3> QED BY <1>5, <3>1, <3>2 DEF ToSet
  <2> QED BY <1>1, <2>2, <2>3, <2>4
<1> QED BY <1>2, <1>5, <1>7, <1>8, <1>9 DEF w

\* A job that leaves the head of the queue leaves no second collection.
LEMMA QueueShrinks ==
    ASSUME NEW q \in Seq(Job), q # <<>>, OneCollection(q)
    PROVE  /\ Tail(q) \in Seq(Job)
           /\ OneCollection(Tail(q))
           /\ Collections(q) = {} \/ q[1] \notin Payments => Collections(Tail(q)) = {}
           /\ \A r : CollectsOnly(q, r) => CollectsOnly(Tail(q), r)
<1>1. /\ Tail(q) \in Seq(Job)
      /\ Len(Tail(q)) = Len(q) - 1
      /\ \A i \in 1 .. Len(Tail(q)) : Tail(q)[i] = q[i + 1]
  BY HeadTailProperties
<1>2. Len(q) \in Nat \ {0}
  BY EmptySeq, LenProperties
<1>3. \A i \in Collections(Tail(q)) : i \in Nat /\ i + 1 \in Collections(q) /\ i + 1 # 1
  BY <1>1, <1>2 DEF Collections
<1>4. q[1] \notin Payments => 1 \in Collections(q)
  BY <1>2 DEF Collections
<1>5. OneCollection(Tail(q))
  BY <1>3 DEF OneCollection
<1>6. Collections(q) = {} \/ q[1] \notin Payments => Collections(Tail(q)) = {}
  BY <1>3, <1>4 DEF OneCollection
<1>7. \A r : CollectsOnly(q, r) => CollectsOnly(Tail(q), r)
  <2>1. \A i \in Collections(Tail(q)) : Tail(q)[i] = q[i + 1]
    BY <1>1 DEF Collections
  <2> QED BY <1>3, <2>1 DEF CollectsOnly
<1> QED BY <1>1, <1>5, <1>6, <1>7

\* One collection may join a queue that has none.
LEMMA QueueGrows ==
    ASSUME NEW q \in Seq(Job), Collections(q) = {}, NEW s \in Seq(Job), Len(s) \in {0, 1}
    PROVE  /\ q \o s \in Seq(Job)
           /\ OneCollection(q \o s)
           /\ s = <<>> => Collections(q \o s) = {}
           /\ \A i \in Collections(q \o s) : (q \o s)[i] = s[1]
<1>1. /\ q \o s \in Seq(Job)
      /\ Len(q \o s) = Len(q) + Len(s)
      /\ \A i \in 1 .. Len(q) + Len(s) :
           (q \o s)[i] = IF i <= Len(q) THEN q[i] ELSE s[i - Len(q)]
  BY ConcatProperties
<1>2. Len(q) \in Nat
  BY LenProperties
<1>3. \A i \in Collections(q \o s) : i = Len(q) + 1 /\ Len(s) = 1
  BY <1>1, <1>2 DEF Collections
<1>4. s = <<>> => Len(s) = 0
  BY EmptySeq
<1>5. s = <<>> => Collections(q \o s) = {}
  BY <1>3, <1>4
<1>6. OneCollection(q \o s)
  BY <1>3 DEF OneCollection
<1>7. \A i \in Collections(q \o s) : (q \o s)[i] = s[1]
  <2>1. \A i \in Collections(q \o s) : i = Len(q) + 1 /\ i \in 1 .. Len(q) + Len(s)
    BY <1>1, <1>3 DEF Collections
  <2>2. \A i \in Collections(q \o s) : ~(i <= Len(q)) /\ i - Len(q) = 1
    BY <1>2, <2>1
  <2> QED BY <1>1, <2>1, <2>2
<1> QED BY <1>1, <1>5, <1>6, <1>7

\* A payment that joins the queue is no collection.
LEMMA QueuePayment ==
    ASSUME NEW q \in Seq(Job), NEW p \in Payments, OneCollection(q)
    PROVE  /\ Append(q, p) \in Seq(Job)
           /\ OneCollection(Append(q, p))
           /\ Collections(q) = {} => Collections(Append(q, p)) = {}
           /\ \A r : CollectsOnly(q, r) => CollectsOnly(Append(q, p), r)
<1>1. /\ Append(q, p) \in Seq(Job)
      /\ Len(Append(q, p)) = Len(q) + 1
      /\ \A i \in 1 .. Len(q) : Append(q, p)[i] = q[i]
      /\ Append(q, p)[Len(q) + 1] = p
  BY AppendProperties DEF Job
<1>2. Len(q) \in Nat
  BY LenProperties
<1>3. /\ Collections(Append(q, p)) \subseteq Collections(q)
      /\ \A i \in Collections(Append(q, p)) : Append(q, p)[i] = q[i]
  BY <1>1, <1>2 DEF Collections
<1> QED BY <1>1, <1>3 DEF OneCollection, CollectsOnly

\* What a queue asks for after its head has left it.
LEMMA TailAsks ==
    ASSUME NEW q \in Seq(Job), q # <<>>, PaymentsOnce(q)
    PROVE  /\ PaymentsOnce(Tail(q))
           /\ \A p \in Payments : Asks(Tail(q), p) <=> Asks(q, p) /\ p # q[1]
<1>1. /\ Len(Tail(q)) = Len(q) - 1
      /\ \A i \in 1 .. Len(Tail(q)) : Tail(q)[i] = q[i + 1]
  BY HeadTailProperties
<1>2. Len(q) \in Nat \ {0}
  BY EmptySeq, LenProperties
<1>3. \A i \in 1 .. Len(Tail(q)) : i \in Nat /\ i + 1 \in 1 .. Len(q) /\ i + 1 # 1
  BY <1>1, <1>2
<1>4. PaymentsOnce(Tail(q))
  BY <1>1, <1>3 DEF PaymentsOnce
<1>5. ASSUME NEW p \in Payments, Asks(Tail(q), p)
      PROVE  Asks(q, p) /\ p # q[1]
  <2>1. PICK i \in 1 .. Len(Tail(q)) : Tail(q)[i] = p
    BY <1>5 DEF Asks
  <2>2. q[i + 1] = p /\ i + 1 \in 1 .. Len(q) /\ i + 1 # 1 /\ 1 \in 1 .. Len(q)
    BY <1>1, <1>2, <1>3, <2>1
  <2> QED BY <2>2 DEF Asks, PaymentsOnce
<1>6. ASSUME NEW p \in Payments, Asks(q, p), p # q[1]
      PROVE  Asks(Tail(q), p)
  <2>1. PICK i \in 1 .. Len(q) : q[i] = p
    BY <1>6 DEF Asks
  <2>2. i - 1 \in 1 .. Len(Tail(q)) /\ (i - 1) + 1 = i
    BY <1>1, <1>2, <1>6, <2>1
  <2> QED BY <1>1, <2>1, <2>2 DEF Asks
<1> QED BY <1>4, <1>5, <1>6

\* A collection that joins a queue asks for no payment.
LEMMA JoinAsks ==
    ASSUME NEW q \in Seq(Job), PaymentsOnce(q), NEW s \in Seq(Receivables)
    PROVE  /\ PaymentsOnce(q \o s)
           /\ \A p \in Payments : Asks(q \o s, p) <=> Asks(q, p)
<1>1. /\ Len(q \o s) = Len(q) + Len(s)
      /\ \A i \in 1 .. Len(q) + Len(s) :
           (q \o s)[i] = IF i <= Len(q) THEN q[i] ELSE s[i - Len(q)]
  <2>1. s \in Seq(Job)
    BY DEF Job
  <2> QED BY <2>1, ConcatProperties
<1>2. Len(q) \in Nat /\ Len(s) \in Nat
  BY LenProperties
<1>3. \A i \in 1 .. Len(q \o s) : (q \o s)[i] \in Payments => i \in 1 .. Len(q) /\ (q \o s)[i] = q[i]
  <2> SUFFICES ASSUME NEW i \in 1 .. Len(q \o s), ~(i <= Len(q))
               PROVE  (q \o s)[i] \notin Payments
    BY <1>1, <1>2
  <2>1. i - Len(q) \in 1 .. Len(s) /\ (q \o s)[i] = s[i - Len(q)]
    BY <1>1, <1>2
  <2>2. s[i - Len(q)] \in Receivables
    BY <2>1, ElementOfSeq
  <2> QED BY <2>1, <2>2, ClientAssumption
<1>4. \A i \in 1 .. Len(q) : i \in 1 .. Len(q \o s) /\ (q \o s)[i] = q[i]
  BY <1>1, <1>2
<1>5. PaymentsOnce(q \o s)
  <2> SUFFICES ASSUME NEW i \in 1 .. Len(q \o s), NEW j \in 1 .. Len(q \o s),
                      (q \o s)[i] \in Payments, (q \o s)[i] = (q \o s)[j]
               PROVE  i = j
    BY DEF PaymentsOnce
  <2> QED BY <1>3 DEF PaymentsOnce
<1>6. \A p \in Payments : Asks(q \o s, p) <=> Asks(q, p)
  BY <1>3, <1>4 DEF Asks
<1> QED BY <1>5, <1>6

\* A payment that joins the queue is asked for.
LEMMA AppendAsks ==
    ASSUME NEW q \in Seq(Job), PaymentsOnce(q), NEW x \in Payments, ~Asks(q, x)
    PROVE  /\ PaymentsOnce(Append(q, x))
           /\ \A p \in Payments : Asks(Append(q, x), p) <=> Asks(q, p) \/ p = x
<1>1. /\ Len(Append(q, x)) = Len(q) + 1
      /\ \A i \in 1 .. Len(q) : Append(q, x)[i] = q[i]
      /\ Append(q, x)[Len(q) + 1] = x
  BY AppendProperties DEF Job
<1>2. Len(q) \in Nat
  BY LenProperties
<1>3. \A i \in 1 .. Len(q) + 1 : i \in 1 .. Len(q) \/ i = Len(q) + 1
  BY <1>2
<1>4. Len(q) + 1 \in 1 .. Len(q) + 1 /\ \A i \in 1 .. Len(q) : i \in 1 .. Len(q) + 1
  BY <1>2
<1>5. PaymentsOnce(Append(q, x))
  BY <1>1, <1>3 DEF PaymentsOnce, Asks
<1>6. \A p \in Payments : Asks(Append(q, x), p) <=> Asks(q, p) \/ p = x
  BY <1>1, <1>3, <1>4 DEF Asks
<1> QED BY <1>5, <1>6

\* A queue that grows keeps its head.
LEMMA HeadKept ==
    ASSUME NEW q \in Seq(Job), q # <<>>, NEW s \in Seq(Job)
    PROVE  q \o s # <<>> /\ (q \o s)[1] = q[1]
<1>1. Len(q) \in Nat \ {0} /\ Len(s) \in Nat
  BY EmptySeq, LenProperties
<1>2. Len(q \o s) = Len(q) + Len(s) /\ (q \o s)[1] = q[1]
  BY <1>1, ConcatProperties
<1> QED BY <1>1, <1>2, EmptySeq

-----------------------------------------------------------------------------
(* the drain                                                               *)

\* What a step of the drain leaves: a drain that knows what it is doing, and
\* what it submits, a collection or nothing.
Handed ==
    /\ DrainOK'
    /\ Submitting \in Seq(Receivables)
    /\ Len(Submitting) \in {0, 1}
    /\ pc' # "submit" => Submitting = <<>>

LEMMA ThrowsHands ==
    ASSUME DrainOK, UNCHANGED transport, NEW reason \in {"lost", "fork", "gone"},
           Throws(reason)
    PROVE  Handed
<1>1. pc' \in {"idle", "settled"} /\ due' \subseteq Receivables
  BY DEF Throws, PromiseSettles, DrainOK
<1>2. todo' = <<>> /\ failure' = reason /\ UNCHANGED <<rounds, receiveAgain>>
  BY DEF Throws
<1>3. DrainOK'
  BY <1>1, <1>2 DEF DrainOK, Work
<1> QED BY <1>1, <1>3 DEF Handed, Submitting

LEMMA EndRoundsHands ==
    ASSUME DrainOK, UNCHANGED transport, EndRounds
    PROVE  Handed
<1>1. pc' \in {"idle", "settled", "fetch"} /\ due' \subseteq Receivables
  BY DEF EndRounds, PromiseSettles, DrainOK
<1>2. /\ todo' = <<>> /\ failure' = failure /\ receiveAgain' \in BOOLEAN
      /\ rounds' \in 0 .. MaxRounds - 1
  <2>1. MaxRounds \in Nat \ {0} /\ rounds \in 0 .. MaxRounds - 1 /\ receiveAgain \in BOOLEAN
    BY ClientAssumption DEF DrainOK
  <2>2. 0 \in 0 .. MaxRounds - 1
    BY <2>1
  <2> QED BY <2>1, <2>2 DEF EndRounds
<1>3. DrainOK'
  BY <1>1, <1>2 DEF DrainOK, Work
<1> QED BY <1>1, <1>3 DEF Handed, Submitting

LEMMA ContinueHands ==
    ASSUME DrainOK, UNCHANGED transport, NEW list \in Seq(Receivables), Continue(list)
    PROVE  Handed
<1>1. CASE list # <<>>
  <2>1. /\ pc' \in {"meta", "submit"} /\ todo' = list
        /\ UNCHANGED <<rounds, receiveAgain, due, failure>>
    BY <1>1 DEF Continue
  <2>2. Head(list) \in Receivables
    BY <1>1
  <2>3. DrainOK'
    BY <1>1, <2>1 DEF DrainOK, Work
  <2>4. <<Head(list)>> \in Seq(Receivables) /\ Len(<<Head(list)>>) = 1
    BY <2>2
  <2> QED BY <2>1, <2>3, <2>4 DEF Submitting, Handed
<1>2. CASE list = <<>> /\ rounds + 1 < MaxRounds
  <2>1. /\ pc' = "fetch" /\ todo' = <<>> /\ rounds' = rounds + 1
        /\ UNCHANGED <<receiveAgain, due, failure>>
    BY <1>2 DEF Continue
  <2>2. rounds' \in 0 .. MaxRounds - 1
    <3>1. MaxRounds \in Nat \ {0} /\ rounds \in 0 .. MaxRounds - 1
      BY ClientAssumption DEF DrainOK
    <3> QED BY <1>2, <2>1, <3>1
  <2>3. DrainOK'
    BY <2>1, <2>2 DEF DrainOK, Work
  <2> QED BY <2>1, <2>3 DEF Submitting, Handed
<1>3. CASE list = <<>> /\ ~(rounds + 1 < MaxRounds)
  BY <1>3, EndRoundsHands DEF Continue
<1> QED BY <1>1, <1>2, <1>3

\* receiveOne answered: the drain goes on or throws.
LEMMA CollectedHands ==
    ASSUME DrainOK, UNCHANGED transport, todo # <<>>,
           NEW answer \in {"ok", "fork", "gone", "lost"}, Collected(answer)
    PROVE  Handed
<1>1. CASE Continue(Tail(todo))
  <2>1. Tail(todo) \in Seq(Receivables)
    BY DEF DrainOK, Work
  <2> QED BY <1>1, <2>1, ContinueHands
<1>2. CASE ~(answer = "ok" \/ (answer = "gone" /\ ~Polling)) /\ Throws(answer)
  BY <1>2, ThrowsHands
<1> QED BY <1>1, <1>2 DEF Collected

LEMMA ReceiveAllHands ==
    ASSUME DrainOK, waiting \in Seq(Receivables), UNCHANGED transport, NEW n, ReceiveAll(n)
    PROVE  DrainOK' /\ (pc' = "submit" <=> pc = "submit") /\ todo' = todo
<1>1. CASE UNCHANGED drain
  BY <1>1 DEF drain, DrainOK, Work
<1>2. CASE ~(closed \/ n = 0)
  <2>1. /\ pc' = IF pc = "idle" THEN "fetch" ELSE pc
        /\ rounds' = IF pc = "idle" THEN 0 ELSE rounds
        /\ failure' = IF pc = "idle" THEN "none" ELSE failure
        /\ due' = due \cup ToSet(waiting)
        /\ todo' = todo
        /\ receiveAgain' \in BOOLEAN
    BY <1>2 DEF ReceiveAll
  <2>2. ToSet(waiting) \subseteq Receivables
    BY DEF ToSet
  <2>3. rounds' \in 0 .. MaxRounds - 1
    <3>1. MaxRounds \in Nat \ {0} /\ rounds \in 0 .. MaxRounds - 1
      BY ClientAssumption DEF DrainOK
    <3>2. 0 \in 0 .. MaxRounds - 1
      BY <3>1
    <3> QED BY <2>1, <3>1, <3>2
  <2>4. DrainOK'
    BY <2>1, <2>2, <2>3 DEF DrainOK, Work
  <2> QED BY <2>1, <2>4
<1> QED BY <1>1, <1>2 DEF ReceiveAll

-----------------------------------------------------------------------------
(* the queue, the blocks and the answers                                   *)

\* Nothing that the queue, the blocks or the answers depend on has changed.
LEMMA SubmitSame ==
    ASSUME QueueOK, FlightsOK, OutcomesOK,
           UNCHANGED <<queue, flight, outcome, unheard, taker, paid, balance, todo>>,
           pc' = "submit" <=> pc = "submit"
    PROVE  QueueOK' /\ FlightsOK' /\ OutcomesOK'
<1>1. QueueOK'
  BY DEF QueueOK, OneCollection, PaymentsOnce, CollectsOnly, Collections
<1>2. FlightsOK'
  BY DEF FlightsOK, BlockSound, Done
<1>3. OutcomesOK'
  BY DEF OutcomesOK, Asks
<1> QED BY <1>1, <1>2, <1>3

\* What is said of the queue by its name.
QueueIs(q) == q \in Seq(Job) /\ OneCollection(q) /\ PaymentsOnce(q)

LEMMA QueueNext ==
    ASSUME QueueIs(queue'), pc' # "submit" => Collections(queue') = {},
           CollectsOnly(queue', todo'[1])
    PROVE  QueueOK'
BY DEF QueueIs, QueueOK, OneCollection, PaymentsOnce, CollectsOnly, Collections

LEMMA QueueJoins ==
    ASSUME NEW q, QueueIs(q), Collections(q) = {}, Handed, queue' = q \o Submitting
    PROVE  /\ QueueOK'
           /\ \A p \in Payments : Asks(queue', p) <=> Asks(q, p)
<1> DEFINE s == Submitting
<1>1. s \in Seq(Receivables) /\ Len(s) \in {0, 1} /\ (pc' # "submit" => s = <<>>)
  BY DEF Handed
<1>0. pc' = "submit" => s[1] = todo'[1]
  BY DEF Submitting
<1>2. queue' = q \o s
  OBVIOUS
<1> HIDE DEF s
<1>3. s \in Seq(Job)
  BY <1>1 DEF Job
<1>4. /\ q \o s \in Seq(Job) /\ OneCollection(q \o s)
      /\ s = <<>> => Collections(q \o s) = {}
      /\ \A i \in Collections(q \o s) : (q \o s)[i] = s[1]
  BY <1>1, <1>3, QueueGrows DEF QueueIs
<1>5. /\ PaymentsOnce(q \o s)
      /\ \A p \in Payments : Asks(q \o s, p) <=> Asks(q, p)
  BY <1>1, JoinAsks DEF QueueIs
<1>6. QueueIs(queue') /\ (pc' # "submit" => Collections(queue') = {})
  BY <1>1, <1>2, <1>4, <1>5 DEF QueueIs
<1>7. CollectsOnly(queue', todo'[1])
  <2>1. CASE pc' = "submit"
    BY <1>0, <1>2, <1>4, <2>1 DEF CollectsOnly
  <2>2. CASE pc' # "submit"
    BY <1>6, <2>2 DEF CollectsOnly
  <2> QED BY <2>1, <2>2
<1> QED BY <1>2, <1>5, <1>6, <1>7, QueueNext

\* A collection joins a queue that awaits none; the blocks are as they were.
LEMMA DrainSubmits ==
    ASSUME QueueOK, FlightsOK, OutcomesOK, pc # "submit", Handed,
           queue' = queue \o Submitting,
           UNCHANGED <<flight, outcome, unheard, taker, paid, balance>>
    PROVE  QueueOK' /\ FlightsOK' /\ OutcomesOK'
<1>1. QueueIs(queue) /\ Collections(queue) = {}
  BY DEF QueueOK, QueueIs
<1>2. QueueOK' /\ \A p \in Payments : Asks(queue', p) <=> Asks(queue, p)
  BY <1>1, QueueJoins
<1>3. queue # <<>> => queue' # <<>> /\ queue'[1] = queue[1]
  <2> DEFINE s == Submitting
  <2>1. s \in Seq(Job) /\ queue \in Seq(Job) /\ queue' = queue \o s
    BY DEF Handed, QueueOK, Job
  <2> HIDE DEF s
  <2> QED BY <2>1, HeadKept
<1>4. FlightsOK'
  BY <1>3 DEF FlightsOK, BlockSound, Done
<1>5. OutcomesOK'
  BY <1>2 DEF OutcomesOK, Asks
<1> QED BY <1>2, <1>4, <1>5

\* What is left of the blocks when the head of the queue is answered: those
\* that nobody awaits, with the one whose answer has just been lost.
LeftOver(b, answer) ==
    /\ ~b.awaited
    /\ \/ b \in flight
       \/ /\ answer = "lost" /\ b.job \in unheard'
          /\ \E c \in flight : c.awaited /\ c.fate = "sent" /\ b = [c EXCEPT !.awaited = FALSE]

LEMMA LeftOverIs ==
    ASSUME FlightsOK, queue # <<>>, NEW answer, NEW b, LeftOver(b, answer)
    PROVE  \E c \in flight :
               /\ b.job = c.job /\ b.standing = c.standing /\ b.fate = c.fate
               /\ b \in Block /\ b.fate = "sent"
               /\ b = [c EXCEPT !.awaited = FALSE]
               /\ c.awaited => c.job = queue[1] /\ answer = "lost" /\ b.job \in unheard'
<1>1. CASE b \in flight
  <2>1. b \in Block /\ b.fate = "sent" /\ ~b.awaited
    BY <1>1 DEF FlightsOK, BlockSound, LeftOver
  <2>2. b = [b EXCEPT !.awaited = FALSE]
    BY <2>1 DEF Block
  <2> QED BY <1>1, <2>1, <2>2
<1>2. ASSUME NEW c \in flight, answer = "lost", b.job \in unheard', c.awaited, c.fate = "sent",
             b = [c EXCEPT !.awaited = FALSE]
      PROVE  /\ b.job = c.job /\ b.standing = c.standing /\ b.fate = c.fate
             /\ b \in Block /\ b.fate = "sent" /\ c.job = queue[1]
  <2>1. c \in Block /\ c.job = queue[1]
    BY <1>2 DEF FlightsOK, BlockSound
  <2> QED BY <1>2, <2>1 DEF Block
<1> QED BY <1>1, <1>2 DEF LeftOver

\* The answer is right about the job at the head of the queue.
AnswerFits(answer) ==
    /\ answer \in {"ok", "fork", "gone", "lost", "insufficient-kei"}
    /\ answer = "ok" => Done(queue[1])
    /\ queue[1] \in Payments =>
         /\ answer # "gone"
         /\ answer \in {"fork", "insufficient-kei"} =>
              queue[1] \notin paid /\ \A b \in flight' : b.job # queue[1]
    /\ queue[1] \notin Payments => answer # "insufficient-kei"

LEMMA AnswersKeep ==
    ASSUME DrainOK, QueueOK, FlightsOK, OutcomesOK,
           UNCHANGED <<transport, taker, paid, balance>>, queue # <<>>,
           unheard \subseteq unheard', unheard' \subseteq Job,
           NEW answer, AnswerFits(answer), Answers(queue[1], answer),
           \A b \in flight' : LeftOver(b, answer)
    PROVE  DrainOK' /\ QueueOK' /\ FlightsOK' /\ OutcomesOK'
<1> DEFINE head == queue[1]
<1>1. /\ queue \in Seq(Job) /\ Len(queue) \in Nat \ {0} /\ 1 \in 1 .. Len(queue)
      /\ QueueIs(queue) /\ head \in Job
  <2>1. queue \in Seq(Job) /\ Len(queue) \in Nat \ {0}
    BY EmptySeq, LenProperties DEF QueueOK
  <2> QED BY <2>1, ElementOfSeq DEF QueueOK, QueueIs
<1>2. /\ QueueIs(Tail(queue))
      /\ Collections(queue) = {} \/ head \notin Payments => Collections(Tail(queue)) = {}
      /\ \A r : CollectsOnly(queue, r) => CollectsOnly(Tail(queue), r)
      /\ \A p \in Payments : Asks(Tail(queue), p) <=> Asks(queue, p) /\ p # head
  BY <1>1, QueueShrinks, TailAsks DEF QueueIs
<1>3. /\ DrainOK' /\ QueueOK'
      /\ \A p \in Payments : Asks(queue', p) <=> Asks(queue, p) /\ p # head
  <2>1. CASE head \in Payments
    <3>1. queue' = Tail(queue) /\ UNCHANGED drain
      BY <2>1 DEF Answers
    <3>2. DrainOK'
      BY <3>1 DEF drain, DrainOK, Work
    <3>3. pc' # "submit" => Collections(queue') = {}
      BY <1>2, <3>1 DEF drain, QueueOK
    <3>4. CollectsOnly(queue', todo'[1])
      BY <1>2, <3>1 DEF drain, QueueOK
    <3> QED BY <1>2, <3>1, <3>2, <3>3, <3>4, QueueNext
  <2>2. CASE head \notin Payments
    <3>1. Collected(answer) /\ queue' = Tail(queue) \o Submitting
      BY <2>2 DEF Answers
    <3>2. todo # <<>>
      BY <1>1, <2>2 DEF QueueOK, Collections, DrainOK, Work
    <3>3. answer \in {"ok", "fork", "gone", "lost"}
      BY <2>2 DEF AnswerFits
    <3>4. Handed
      BY <3>1, <3>2, <3>3, CollectedHands
    <3>5. QueueOK' /\ \A p \in Payments : Asks(queue', p) <=> Asks(Tail(queue), p)
      BY <1>2, <2>2, <3>1, <3>4, QueueJoins
    <3> QED BY <1>2, <3>4, <3>5 DEF Handed
  <2> QED BY <2>1, <2>2
<1>4. /\ outcome' \in [Payments -> {"none", "asked", "ok", "fork", "lost", "insufficient-kei"}]
      /\ \A p \in Payments : outcome'[p] = IF p = head THEN answer ELSE outcome[p]
  <2>1. CASE head \in Payments
    <3>1. outcome' = [outcome EXCEPT ![head] = answer]
      BY <2>1 DEF Answers
    <3>2. answer \in {"none", "asked", "ok", "fork", "lost", "insufficient-kei"}
      BY <2>1 DEF AnswerFits
    <3> QED BY <3>1, <3>2 DEF OutcomesOK
  <2>2. CASE head \notin Payments
    BY <2>2 DEF Answers, OutcomesOK
  <2> QED BY <2>1, <2>2
<1>5. ASSUME NEW b \in flight'
      PROVE  \E c \in flight :
                 /\ b.job = c.job /\ b.standing = c.standing /\ b.fate = c.fate
                 /\ b \in Block /\ b.fate = "sent"
                 /\ b = [c EXCEPT !.awaited = FALSE]
                 /\ c.awaited => c.job = head /\ answer = "lost" /\ b.job \in unheard'
  BY LeftOverIs
<1>6. \A p \in Payments : outcome[p] = "asked" <=> Asks(queue, p)
  BY DEF OutcomesOK
<1>7. FlightsOK'
  <2>1. ASSUME NEW b \in flight'
        PROVE  BlockSound(b)'
    <3>1. PICK c \in flight :
              /\ b.job = c.job /\ b.standing = c.standing /\ b.fate = c.fate
              /\ b \in Block /\ b.fate = "sent"
              /\ b = [c EXCEPT !.awaited = FALSE]
              /\ c.awaited => c.job = head /\ answer = "lost" /\ b.job \in unheard'
      BY <1>5
    <3>2. BlockSound(c)
      BY DEF FlightsOK
    <3>3. ~b.awaited
      BY DEF LeftOver
    <3>4. b.job \in Payments => outcome'[b.job] = "lost"
      <4> SUFFICES ASSUME b.job \in Payments
                   PROVE  outcome'[b.job] = "lost"
        OBVIOUS
      <4>1. CASE c.awaited
        BY <1>4, <3>1, <4>1
      <4>2. CASE ~c.awaited
        <5>1. outcome[b.job] = "lost"
          BY <3>1, <3>2, <4>2 DEF BlockSound
        <5>2. b.job # head
          BY <1>1, <1>6, <5>1 DEF Asks
        <5> QED BY <1>4, <5>1, <5>2
      <4> QED BY <4>1, <4>2
    <3>5. b.job \in unheard'
      BY <3>1, <3>2 DEF BlockSound
    <3> QED BY <3>1, <3>2, <3>3, <3>4, <3>5 DEF BlockSound, Done
  <2>2. ASSUME NEW b \in flight', NEW d \in flight',
               (b.awaited /\ d.awaited) \/ (b.job = d.job /\ b.job \in Payments)
        PROVE  b = d
    <3>1. PICK c \in flight : b.job = c.job /\ b = [c EXCEPT !.awaited = FALSE]
      BY <1>5
    <3>2. PICK e \in flight : d.job = e.job /\ d = [e EXCEPT !.awaited = FALSE]
      BY <1>5
    <3>3. ~b.awaited /\ ~d.awaited
      BY DEF LeftOver
    <3>4. c = e
      BY <2>2, <3>1, <3>2, <3>3 DEF FlightsOK
    <3> QED BY <3>1, <3>2, <3>4
  <2> QED BY <2>1, <2>2 DEF FlightsOK
<1>8. ASSUME NEW p \in Payments
      PROVE  /\ outcome'[p] = "asked" <=> Asks(queue', p)
             /\ outcome'[p] = "ok" => p \in paid
             /\ outcome'[p] \in {"none", "fork", "insufficient-kei"} =>
                  p \notin paid /\ \A b \in flight' : b.job # p
             /\ outcome'[p] = "asked" /\ (\A b \in flight' : b.job # p) => p \notin paid
  <2>1. CASE p = head
    <3>1. outcome'[p] = answer /\ ~Asks(queue', p)
      BY <1>3, <1>4, <2>1
    <3>2. answer # "asked" /\ answer # "none"
      BY DEF AnswerFits
    <3> QED BY <2>1, <3>1, <3>2 DEF AnswerFits, Done
  <2>2. CASE p # head
    <3>1. outcome'[p] = outcome[p] /\ (Asks(queue', p) <=> Asks(queue, p))
      BY <1>3, <1>4, <2>2
    <3>2. (\A b \in flight : b.job # p) => \A b \in flight' : b.job # p
      BY <1>5
    <3>3. outcome[p] = "asked" => \A b \in flight : b.job # p
      BY <2>2 DEF FlightsOK, BlockSound
    <3> QED BY <1>6, <3>1, <3>2, <3>3 DEF OutcomesOK
  <2> QED BY <2>1, <2>2
<1>9. OutcomesOK'
  <2>1. ASSUME NEW p \in Payments
        PROVE  Asks(queue', p) <=> Asks(queue, p)'
    BY DEF Asks
  <2> QED BY <1>4, <1>8, <2>1 DEF OutcomesOK
<1> QED BY <1>3, <1>7, <1>9

-----------------------------------------------------------------------------
(* the steps of the drain and of its callers                               *)

\* One more fault is within their bound.
LEMMA DisturbedCounts ==
    ASSUME ClientInv, Disturbed
    PROVE  faults' \in 0 .. MaxFaults
<1>1. faults \in 0 .. MaxFaults /\ MaxFaults \in Nat
  BY ClientAssumption DEF ClientInv, WatchOK
<1> QED BY <1>1 DEF Disturbed

\* The drain's list is let go, filled afresh, or left as it is.
ListKept ==
    \/ todo' = <<>>
    \/ todo' = waiting
    \/ todo' = todo /\ (pc = "submit" => pc' = "submit")

\* A step in which no block moves, nothing is collected and nobody is told of a
\* lost race.
LEMMA QuietStep ==
    ASSUME ClientInv, UNCHANGED <<waiting, flight, taker, unheard, closed, reported>>,
           failure' \in {failure, "none", "lost"},
           \A p \in Payments : outcome'[p] = "fork" => outcome[p] = "fork",
           ListKept
    PROVE  Quiet'
<1>1. Overtakable' <=> Overtakable
  BY DEF Overtakable
<1>2. NodeOK /\ Calm /\ Reports /\ Reasons
  BY DEF ClientInv, Quiet
<1>3. Fresh => Fresh'
  <2>1. CASE todo' = <<>>
    BY <2>1, EmptySeq DEF Fresh
  <2>2. CASE todo' = waiting
    BY <1>2, <2>2 DEF Fresh, NodeOK, ToSet
  <2>3. CASE todo' = todo /\ (pc = "submit" => pc' = "submit")
    BY <2>3 DEF Fresh
  <2> QED BY <2>1, <2>2, <2>3 DEF ListKept
<1>4. Calm'
  BY <1>1, <1>2, <1>3 DEF Calm
<1>5. Reports'
  BY <1>2 DEF Reports
<1>6. Reasons'
  BY <1>1, <1>2 DEF Reasons
<1> QED BY <1>4, <1>5, <1>6 DEF Quiet

\* A call of receiveAll, by the application, start() or the subscription.
LEMMA CallStep ==
    ASSUME ClientInv, NEW n, ReceiveAll(n), WatchOK',
           UNCHANGED <<node, submits, reported, closed, faults>>
    PROVE  ClientInv'
<1>1. NodeOK /\ DrainOK /\ QueueOK /\ FlightsOK /\ OutcomesOK /\ Quiet
  BY DEF ClientInv
<1>2. /\ UNCHANGED <<transport, waiting, taker, paid, balance>>
      /\ UNCHANGED <<queue, flight, outcome, unheard>>
  BY DEF node, submits
<1>3. waiting \in Seq(Receivables)
  BY <1>1 DEF NodeOK
<1>4. DrainOK' /\ (pc' = "submit" <=> pc = "submit") /\ todo' = todo
  BY <1>1, <1>2, <1>3, ReceiveAllHands
<1>5. QueueOK' /\ FlightsOK' /\ OutcomesOK'
  BY <1>1, <1>2, <1>4, SubmitSame
<1>6. NodeOK'
  BY <1>1, <1>2 DEF NodeOK
<1>7. Quiet'
  <2>1. failure' \in {failure, "none", "lost"}
    BY DEF ReceiveAll, drain
  <2> QED BY <1>2, <1>4, <2>1, QuietStep DEF ListKept
<1> QED BY <1>4, <1>5, <1>6, <1>7 DEF ClientInv

\* A step of the drain that submits what it hands over.
LEMMA HandedStep ==
    ASSUME ClientInv, pc # "submit", Handed, queue' = queue \o Submitting, WatchOK', Quiet',
           UNCHANGED <<node, flight, outcome, unheard>>
    PROVE  ClientInv'
<1>1. NodeOK /\ QueueOK /\ FlightsOK /\ OutcomesOK
  BY DEF ClientInv
<1>2. UNCHANGED <<transport, waiting, taker, paid, balance>>
  BY DEF node
<1>3. QueueOK' /\ FlightsOK' /\ OutcomesOK'
  BY <1>1, <1>2, DrainSubmits
<1>4. NodeOK'
  BY <1>1, <1>2 DEF NodeOK
<1> QED BY <1>3, <1>4 DEF ClientInv, Handed

\* What the drain's steps leave of the subscription and the reports.
LEMMA PhaseStep ==
    ASSUME ClientInv, StartResumes \/ UNCHANGED phase,
           UNCHANGED <<taker, reported, closed, subscribed, watch>>,
           faults' \in 0 .. MaxFaults
    PROVE  WatchOK'
<1>1. phase' \in {"new", "starting", "subscribing", "live", "failed"}
  BY DEF StartResumes, ClientInv, WatchOK
<1>2. WatchOK
  BY DEF ClientInv
<1> QED BY <1>1, <1>2 DEF WatchOK, watch

\* No payment that is not of the queue's head is there to be joined.
LEMMA NothingHanded ==
    ASSUME QueueOK, Submitting = <<>>, UNCHANGED queue
    PROVE  queue' = queue \o Submitting
<1>1. queue \o <<>> = queue
  BY ConcatEmptySeq DEF QueueOK
<1> QED BY <1>1

LEMMA FetchKeeps ==
    ASSUME ClientInv, Fetch
    PROVE  ClientInv'
<1>1. /\ pc = "fetch" /\ pc' = "answered" /\ todo' = waiting
      /\ UNCHANGED <<rounds, receiveAgain, due, failure, transport>>
      /\ UNCHANGED <<node, queue, flight, outcome, unheard, reported, phase, closed, subscribed>>
      /\ UNCHANGED <<watch, faults>>
  BY DEF Fetch, node, submits, lifecycle
<1>2. DrainOK'
  BY <1>1 DEF ClientInv, NodeOK, DrainOK, Work
<1>3. Handed /\ Submitting = <<>>
  BY <1>1, <1>2 DEF Handed, Submitting
<1>4. queue' = queue \o Submitting
  BY <1>1, <1>3, NothingHanded DEF ClientInv
<1>5. UNCHANGED <<waiting, taker>> /\ faults' \in 0 .. MaxFaults
  BY <1>1 DEF node, ClientInv, WatchOK
<1>6. WatchOK' /\ Quiet'
  BY <1>1, <1>5, PhaseStep, QuietStep DEF ListKept
<1> QED BY <1>1, <1>3, <1>4, <1>6, HandedStep

LEMMA FetchAnswerKeeps ==
    ASSUME ClientInv, FetchAnswer
    PROVE  ClientInv'
<1>1. /\ pc # "submit" /\ queue' = queue \o Submitting /\ StartResumes
      /\ UNCHANGED <<node, flight, outcome, unheard, reported, closed, subscribed, watch, faults>>
      /\ UNCHANGED <<transport, waiting, taker>>
  BY DEF FetchAnswer, node
<1>2. DrainOK /\ todo \in Seq(Receivables) /\ faults' \in 0 .. MaxFaults
  BY <1>1 DEF ClientInv, DrainOK, Work, WatchOK
<1>3. Handed
  BY <1>1, <1>2, EndRoundsHands, ContinueHands DEF FetchAnswer
<1>4. WatchOK' /\ Quiet'
  <2>1. todo' \in {todo, <<>>} /\ failure' = failure
    BY <1>1 DEF FetchAnswer, Continue, EndRounds
  <2> QED BY <1>1, <1>2, <2>1, PhaseStep, QuietStep DEF ListKept
<1> QED BY <1>1, <1>3, <1>4, HandedStep

LEMMA AssetMetaKeeps ==
    ASSUME ClientInv, AssetMeta
    PROVE  ClientInv'
<1>1. /\ pc = "meta" /\ pc' = "submit" /\ queue' = queue \o <<Head(todo)>>
      /\ UNCHANGED <<todo, rounds, receiveAgain, due, failure>>
      /\ UNCHANGED <<node, flight, outcome, unheard, reported, phase, closed, subscribed>>
      /\ UNCHANGED <<transport, waiting, taker, watch, faults>>
  BY DEF AssetMeta, node, lifecycle
<1>2. DrainOK /\ todo \in Seq(Receivables) /\ todo # <<>> /\ faults' \in 0 .. MaxFaults
  BY <1>1 DEF ClientInv, DrainOK, Work, WatchOK
<1>3. DrainOK'
  BY <1>1, <1>2 DEF DrainOK, Work
<1>4. <<Head(todo)>> \in Seq(Receivables) /\ Len(<<Head(todo)>>) = 1
  BY <1>2
<1>5. Submitting = <<Head(todo)>>
  BY <1>1 DEF Submitting
<1>6. Handed
  BY <1>1, <1>3, <1>4, <1>5 DEF Handed
<1>7. WatchOK' /\ Quiet'
  BY <1>1, <1>2, PhaseStep, QuietStep DEF ListKept
<1> QED BY <1>1, <1>5, <1>6, <1>7, HandedStep

LEMMA ReadFailsKeeps ==
    ASSUME ClientInv, ReadFails
    PROVE  ClientInv'
<1>1. /\ pc # "submit" /\ Throws("lost") /\ StartResumes /\ Disturbed
      /\ UNCHANGED <<node, queue, flight, outcome, unheard, reported, closed, subscribed, watch>>
      /\ UNCHANGED <<transport, waiting, taker>>
  BY DEF ReadFails, Fault, node, submits
<1>2. DrainOK
  BY DEF ClientInv
<1>3. Handed
  BY <1>1, <1>2, ThrowsHands
<1>4. pc' # "submit" /\ todo' = <<>> /\ failure' = "lost"
  BY <1>1 DEF Throws, PromiseSettles
<1>5. queue' = queue \o Submitting
  BY <1>1, <1>3, <1>4, NothingHanded DEF ClientInv, Handed
<1>6. faults' \in 0 .. MaxFaults /\ Quiet'
  BY <1>1, <1>4, DisturbedCounts, QuietStep DEF ListKept
<1>7. WatchOK'
  BY <1>1, <1>6, PhaseStep
<1> QED BY <1>1, <1>3, <1>5, <1>6, <1>7, HandedStep

LEMMA SettleKeeps ==
    ASSUME ClientInv, Settle
    PROVE  ClientInv'
<1>1. /\ pc = "settled" /\ pc' = "idle" /\ due' = {} /\ StartResumes
      /\ UNCHANGED <<todo, rounds, receiveAgain, failure>>
      /\ UNCHANGED <<node, queue, flight, outcome, unheard, reported, closed, subscribed>>
      /\ UNCHANGED <<transport, waiting, taker, watch, faults>>
  BY DEF Settle, node, submits
<1>2. DrainOK' /\ faults' \in 0 .. MaxFaults
  BY <1>1 DEF ClientInv, DrainOK, Work, WatchOK
<1>3. Handed /\ Submitting = <<>>
  BY <1>1, <1>2 DEF Handed, Submitting
<1>4. queue' = queue \o Submitting
  BY <1>1, <1>3, NothingHanded DEF ClientInv
<1>5. WatchOK' /\ Quiet'
  BY <1>1, <1>2, PhaseStep, QuietStep DEF ListKept
<1> QED BY <1>1, <1>3, <1>4, <1>5, HandedStep

LEMMA CallersKeep ==
    ASSUME ClientInv, Sync \/ Start \/ Notice \/ PollAnswer
    PROVE  ClientInv'
<1>1. WatchOK /\ faults \in 0 .. MaxFaults
  BY DEF ClientInv, WatchOK
<1>2. CASE Sync
  <2>1. /\ ReceiveAll(1) /\ UNCHANGED <<node, submits, reported, closed, faults>>
        /\ UNCHANGED <<taker, phase, subscribed, watch>>
    BY <1>2 DEF Sync, node, lifecycle
  <2>2. WatchOK'
    BY <1>1, <2>1, PhaseStep
  <2> QED BY <2>1, <2>2, CallStep
<1>3. CASE Start
  <2>1. /\ ReceiveAll(1) /\ UNCHANGED <<node, submits, reported, closed, faults>>
        /\ UNCHANGED <<taker, subscribed, watch>> /\ phase' = "starting"
    BY <1>3 DEF Start, node
  <2>2. WatchOK'
    BY <1>1, <2>1 DEF WatchOK, watch
  <2> QED BY <2>1, <2>2, CallStep
<1>4. CASE Notice
  <2>1. /\ ReceiveAll(1) /\ UNCHANGED <<node, submits, reported, closed, faults>>
        /\ UNCHANGED <<taker, phase, subscribed, poll, seen, news>>
        /\ notices > 0 /\ notices' = notices - 1
    BY <1>4 DEF Notice, node, lifecycle
  <2>2. notices' \in Nat
    BY <1>1, <2>1 DEF WatchOK
  <2>3. WatchOK'
    BY <1>1, <2>1, <2>2 DEF WatchOK
  <2> QED BY <2>1, <2>3, CallStep
<1>5. CASE PollAnswer
  <2>1. /\ ReceiveAll(Cardinality(Announced))
        /\ UNCHANGED <<node, submits, reported, closed, faults>>
        /\ UNCHANGED <<taker, phase, subscribed, notices>>
        /\ poll' = "scheduled" /\ seen' = news /\ news' = {}
    BY <1>5 DEF PollAnswer, Remembered, node, lifecycle
  <2>2. WatchOK'
    BY <1>1, <2>1 DEF WatchOK
  <2> QED BY <2>1, <2>2, CallStep
<1> QED BY <1>2, <1>3, <1>4, <1>5

\* Steps that neither the drain nor the queue sees.
LEMMA IdleKeeps ==
    ASSUME ClientInv, Subscribe \/ Close \/ Poll \/ PollFails
    PROVE  ClientInv'
<1>1. WatchOK /\ faults \in 0 .. MaxFaults /\ waiting \in Seq(Receivables)
  BY DEF ClientInv, WatchOK, NodeOK
<1>2. /\ UNCHANGED <<transport, waiting, taker, paid, balance>>
      /\ UNCHANGED <<queue, flight, outcome, unheard>>
      /\ UNCHANGED <<pc, todo, rounds, receiveAgain, due, failure, reported>>
  BY DEF Subscribe, Close, Poll, PollFails, node, submits, drain
<1>3. NodeOK' /\ DrainOK' /\ QueueOK' /\ FlightsOK' /\ OutcomesOK'
  <2>1. NodeOK' /\ DrainOK'
    BY <1>2 DEF ClientInv, NodeOK, DrainOK, Work
  <2>2. QueueOK' /\ FlightsOK' /\ OutcomesOK'
    BY <1>2, SubmitSame DEF ClientInv
  <2> QED BY <2>1, <2>2
<1>4. CASE Subscribe
  <2>1. /\ phase' = "live" /\ subscribed' = TRUE /\ poll' \in {"off", "scheduled"}
        /\ UNCHANGED <<closed, notices, seen, news, faults>>
    BY <1>4 DEF Subscribe
  <2>2. WatchOK' /\ Quiet'
    BY <1>1, <1>2, <2>1, QuietStep DEF WatchOK, ListKept
  <2> QED BY <1>3, <2>2 DEF ClientInv
<1>5. CASE Close
  <2>1. /\ closed' = TRUE /\ subscribed' = FALSE /\ poll' = "off" /\ news' = {} /\ seen' = {}
        /\ UNCHANGED <<phase, notices, faults>>
    BY <1>5 DEF Close
  <2>2. WatchOK' /\ Quiet'
    <3>1. WatchOK'
      BY <1>1, <1>2, <2>1 DEF WatchOK
    <3>2. Calm' /\ Reports' /\ Reasons'
      BY <1>2, <2>1 DEF ClientInv, Quiet, Calm, Fresh, Reports, Reasons, Overtakable
    <3> QED BY <3>1, <3>2 DEF Quiet
  <2> QED BY <1>3, <2>2 DEF ClientInv
<1>6. CASE Poll
  <2>1. /\ poll' = "asked" /\ news' = ToSet(waiting)
        /\ UNCHANGED <<phase, closed, subscribed, notices, seen, faults>>
    BY <1>6 DEF Poll, lifecycle
  <2>2. ToSet(waiting) \subseteq Receivables
    BY <1>1 DEF ToSet
  <2>3. WatchOK' /\ Quiet'
    BY <1>1, <1>2, <2>1, <2>2, QuietStep DEF WatchOK, ListKept
  <2> QED BY <1>3, <2>3 DEF ClientInv
<1>7. CASE PollFails
  <2>1. /\ poll' = "scheduled" /\ news' = {} /\ Disturbed
        /\ UNCHANGED <<phase, closed, subscribed, notices, seen>>
    BY <1>7 DEF PollFails, Fault, lifecycle
  <2>2. faults' \in 0 .. MaxFaults /\ Quiet'
    BY <1>2, <2>1, DisturbedCounts, QuietStep DEF ListKept
  <2>3. WatchOK'
    BY <1>1, <1>2, <2>1, <2>2 DEF WatchOK
  <2> QED BY <1>3, <2>2, <2>3 DEF ClientInv
<1> QED BY <1>4, <1>5, <1>6, <1>7

-----------------------------------------------------------------------------
(* the steps of submit                                                     *)

LEMMA PayKeeps ==
    ASSUME ClientInv, NEW p \in Payments, Pay(p)
    PROVE  ClientInv'
<1>1. /\ outcome[p] = "none" /\ outcome' = [outcome EXCEPT ![p] = "asked"]
      /\ queue' = Append(queue, p)
      /\ UNCHANGED <<transport, waiting, taker, paid, balance>>
      /\ UNCHANGED <<flight, unheard, pc, todo, rounds, receiveAgain, due, failure, reported>>
      /\ UNCHANGED <<phase, closed, subscribed, watch, faults>>
  BY DEF Pay, node, drain, lifecycle
<1>2. QueueOK /\ FlightsOK /\ OutcomesOK /\ queue \in Seq(Job) /\ Len(queue) \in Nat
  BY LenProperties DEF ClientInv, QueueOK
<1>3. NodeOK' /\ DrainOK'
  BY <1>1 DEF ClientInv, NodeOK, DrainOK, Work
<1>4. ~Asks(queue, p) /\ p \notin paid /\ \A b \in flight : b.job # p
  BY <1>1, <1>2 DEF OutcomesOK
<1>5. /\ queue' \in Seq(Job) /\ OneCollection(queue')
      /\ Collections(queue) = {} => Collections(queue') = {}
      /\ PaymentsOnce(queue')
      /\ \A r : CollectsOnly(queue, r) => CollectsOnly(queue', r)
      /\ \A x \in Payments : Asks(queue', x) <=> Asks(queue, x) \/ x = p
  BY <1>1, <1>2, <1>4, QueuePayment, AppendAsks DEF QueueOK
<1>6. QueueOK'
  <2>1. QueueIs(queue') /\ (pc' # "submit" => Collections(queue') = {})
    BY <1>1, <1>2, <1>5 DEF QueueIs, QueueOK
  <2>2. CollectsOnly(queue', todo'[1])
    BY <1>1, <1>2, <1>5 DEF QueueOK
  <2> QED BY <2>1, <2>2, QueueNext
<1>7. queue # <<>> => queue' # <<>> /\ queue'[1] = queue[1]
  BY <1>1, <1>2
<1>8. FlightsOK'
  <2>1. ASSUME NEW b \in flight
        PROVE  BlockSound(b)'
    <3>1. BlockSound(b) /\ b.job # p
      BY <1>2, <1>4 DEF FlightsOK
    <3>2. b.job \in Payments => outcome'[b.job] = outcome[b.job]
      BY <1>1, <1>2, <3>1 DEF OutcomesOK
    <3> QED BY <1>1, <1>7, <3>1, <3>2 DEF BlockSound, Done
  <2> QED BY <1>1, <1>2, <2>1 DEF FlightsOK
<1>9. OutcomesOK'
  <2>1. /\ outcome' \in [Payments -> {"none", "asked", "ok", "fork", "lost", "insufficient-kei"}]
        /\ \A x \in Payments : outcome'[x] = IF x = p THEN "asked" ELSE outcome[x]
    BY <1>1, <1>2 DEF OutcomesOK
  <2>2. ASSUME NEW x \in Payments
        PROVE  /\ outcome'[x] = "asked" <=> Asks(queue', x)
               /\ outcome'[x] = "ok" => x \in paid
               /\ outcome'[x] \in {"none", "fork", "insufficient-kei"} =>
                    x \notin paid /\ \A b \in flight : b.job # x
               /\ outcome'[x] = "asked" /\ (\A b \in flight : b.job # x) => x \notin paid
    BY <1>2, <1>4, <1>5, <2>1 DEF OutcomesOK
  <2>3. ASSUME NEW x \in Payments
        PROVE  Asks(queue', x) <=> Asks(queue, x)'
    BY DEF Asks
  <2> QED BY <1>1, <2>1, <2>2, <2>3 DEF OutcomesOK
<1>10. WatchOK' /\ Quiet'
  <2>1. faults' \in 0 .. MaxFaults
    BY <1>1 DEF ClientInv, WatchOK
  <2>2. \A x \in Payments : outcome'[x] = "fork" => outcome[x] = "fork"
    BY <1>1, <1>2 DEF OutcomesOK
  <2> QED BY <1>1, <2>1, <2>2, PhaseStep, QuietStep DEF ListKept
<1> QED BY <1>3, <1>6, <1>8, <1>9, <1>10 DEF ClientInv

\* The head of the queue: a job, and nobody else's block is awaited.
LEMMA HeadIs ==
    ASSUME ClientInv, queue # <<>>
    PROVE  /\ queue[1] \in Job /\ 1 \in 1 .. Len(queue)
           /\ queue[1] \in Payments => outcome[queue[1]] = "asked"
           /\ \A b \in flight : b.awaited => b.job = queue[1]
           /\ \A b \in flight : b.job \in Payments /\ b.job = queue[1] => b.awaited
<1>1. queue \in Seq(Job) /\ Len(queue) \in Nat \ {0}
  BY EmptySeq, LenProperties DEF ClientInv, QueueOK
<1>2. 1 \in 1 .. Len(queue) /\ queue[1] \in Job
  BY <1>1, ElementOfSeq
<1>3. queue[1] \in Payments => outcome[queue[1]] = "asked"
  BY <1>2 DEF ClientInv, OutcomesOK, Asks
<1>4. \A b \in flight : BlockSound(b)
  BY DEF ClientInv, FlightsOK
<1> QED BY <1>2, <1>3, <1>4 DEF BlockSound

\* The head is answered; what it collected is reported if it should be.
LEMMA AnswerStep ==
    ASSUME ClientInv, queue # <<>>, NEW answer, AnswerFits(answer), Answers(queue[1], answer),
           \A b \in flight' : LeftOver(b, answer),
           unheard \subseteq unheard', unheard' \subseteq Job,
           UNCHANGED <<node, closed, subscribed, watch>>,
           faults' \in 0 .. MaxFaults, Quiet'
    PROVE  ClientInv'
<1>1. NodeOK /\ DrainOK /\ QueueOK /\ FlightsOK /\ OutcomesOK /\ WatchOK
  BY DEF ClientInv
<1>2. UNCHANGED <<transport, waiting, taker, paid, balance>>
  BY DEF node
<1>3. DrainOK' /\ QueueOK' /\ FlightsOK' /\ OutcomesOK'
  BY <1>1, <1>2, AnswersKeep
<1>4. NodeOK'
  BY <1>1, <1>2 DEF NodeOK
<1>5. WatchOK'
  <2>1. /\ reported' \subseteq reported \cup {queue[1]}
        /\ reported' # reported => queue[1] \notin Payments /\ answer = "ok"
    BY DEF Answers, Received
  <2>2. queue[1] \in Job
    BY HeadIs
  <2>3. /\ reported' \subseteq Receivables
        /\ \A r \in reported' : taker[r] = "us"
    <3>1. CASE reported' = reported
      BY <1>1, <3>1 DEF WatchOK
    <3>2. CASE reported' # reported
      BY <1>1, <2>1, <2>2, <3>2 DEF WatchOK, AnswerFits, Done, Job
    <3> QED BY <3>1, <3>2
  <2>4. phase' \in {"new", "starting", "subscribing", "live", "failed"}
    BY <1>1 DEF Answers, StartResumes, WatchOK
  <2> QED BY <1>1, <1>2, <2>3, <2>4 DEF WatchOK, watch
<1> QED BY <1>3, <1>4, <1>5 DEF ClientInv

\* Nothing is awaited while the head is drafted, and nothing of a payment left.
LEMMA HeadDrafted ==
    ASSUME ClientInv, NEW job \in Job, job \in MayRun,
           ~\E b \in flight : b.job = job /\ b.awaited
    PROVE  /\ queue # <<>> /\ job = queue[1]
           /\ \A b \in flight : ~b.awaited
           /\ job \in Payments =>
                job \notin paid /\ outcome[job] = "asked" /\ \A b \in flight : b.job # job
<1>1. queue # <<>> /\ job = queue[1]
  BY DEF MayRun
<1>2. \A b \in flight : ~b.awaited
  BY <1>1, HeadIs
<1>3. job \in Payments => outcome[job] = "asked" /\ \A b \in flight : b.job # job
  BY <1>1, <1>2, HeadIs
<1>4. job \in Payments => job \notin paid
  BY <1>3 DEF ClientInv, OutcomesOK
<1> QED BY <1>1, <1>2, <1>3, <1>4

LEMMA DraftKeeps ==
    ASSUME ClientInv, NEW job \in Job, Draft(job)
    PROVE  ClientInv'
<1>1. /\ queue # <<>> /\ job = queue[1]
      /\ \A b \in flight : ~b.awaited
      /\ job \in Payments =>
           job \notin paid /\ outcome[job] = "asked" /\ \A b \in flight : b.job # job
  BY HeadDrafted DEF Draft
<1>2. /\ UNCHANGED <<node, unheard, closed, subscribed, watch, faults>>
      /\ UNCHANGED <<waiting, taker>> /\ unheard' \subseteq Job
  BY DEF Draft, node, ClientInv, FlightsOK
<1>3. CASE job \in Payments /\ balance < 1
  <2>1. Answers(queue[1], "insufficient-kei") /\ flight' = flight
    BY <1>1, <1>3 DEF Draft
  <2>2. AnswerFits("insufficient-kei")
    BY <1>1, <1>3, <2>1 DEF AnswerFits
  <2>3. \A b \in flight' : LeftOver(b, "insufficient-kei")
    BY <1>1, <2>1 DEF LeftOver
  <2>4. /\ reported' = reported /\ taker' = taker /\ faults' \in 0 .. MaxFaults
        /\ UNCHANGED <<pc, todo, failure>>
    BY <1>1, <1>2, <1>3, <2>1 DEF Answers, drain, node, ClientInv, WatchOK
  <2>5. Quiet'
    <3>1. \A p \in Payments : outcome'[p] = "fork" => outcome[p] = "fork"
      BY <1>1, <1>3, <2>1 DEF Answers, ClientInv, OutcomesOK
    <3> QED BY <1>2, <2>1, <2>4, <3>1, QuietStep DEF ListKept
  <2> QED BY <1>1, <1>2, <2>1, <2>2, <2>3, <2>4, <2>5, AnswerStep
<1>4. CASE ~(job \in Payments /\ balance < 1)
  <2> DEFINE nb == [job |-> job, standing |-> "fits", fate |-> "sent", awaited |-> TRUE]
  <2>1. /\ flight' = flight \cup {nb}
        /\ UNCHANGED <<queue, outcome, pc, todo, rounds, receiveAgain, due, failure, phase, reported>>
        /\ UNCHANGED <<transport, waiting, taker, paid, balance>>
    BY <1>2, <1>4 DEF Draft, drain, node
  <2>2. /\ nb \in Block /\ nb.job = job /\ nb.standing = "fits" /\ nb.fate = "sent" /\ nb.awaited
    BY DEF Block
  <2> HIDE DEF nb
  <2>3. NodeOK' /\ DrainOK' /\ QueueOK'
    <3>1. NodeOK' /\ DrainOK'
      BY <2>1 DEF ClientInv, NodeOK, DrainOK, Work
    <3>2. QueueOK'
      BY <2>1 DEF ClientInv, QueueOK, OneCollection, PaymentsOnce, CollectsOnly, Collections
    <3> QED BY <3>1, <3>2
  <2>4. FlightsOK'
    <3>1. \A b \in flight : BlockSound(b)'
      BY <1>2, <2>1 DEF ClientInv, FlightsOK, BlockSound, Done
    <3>2. job \in Payments => balance >= 1
      BY <1>4 DEF ClientInv, NodeOK
    <3>3. BlockSound(nb)'
      BY <1>1, <2>1, <2>2, <3>2 DEF BlockSound
    <3>4. \A b, c \in flight' :
             (b.awaited /\ c.awaited) \/ (b.job = c.job /\ b.job \in Payments) => b = c
      BY <1>1, <2>1, <2>2 DEF ClientInv, FlightsOK
    <3> QED BY <1>2, <2>1, <3>1, <3>3, <3>4 DEF FlightsOK
  <2>5. OutcomesOK'
    <3>1. OutcomesOK
      BY DEF ClientInv
    <3> QED BY <1>1, <2>1, <2>2, <3>1 DEF OutcomesOK, Asks
  <2>6. WatchOK' /\ Quiet'
    <3>1. WatchOK'
      BY <1>2, <2>1 DEF ClientInv, WatchOK, watch
    <3>2. Calm'
      BY <1>2, <2>1, <2>2 DEF ClientInv, Quiet, Calm, Fresh, Overtakable
    <3>3. Reports'
      BY <1>2, <2>1 DEF ClientInv, Quiet, Reports
    <3>4. Reasons'
      BY <1>2, <2>1, <2>2 DEF ClientInv, Quiet, Reasons, Overtakable
    <3> QED BY <3>1, <3>2, <3>3, <3>4 DEF Quiet
  <2> QED BY <2>3, <2>4, <2>5, <2>6 DEF ClientInv
<1> QED BY <1>3, <1>4

LEMMA DraftFailsKeeps ==
    ASSUME ClientInv, NEW job \in Job, DraftFails(job)
    PROVE  ClientInv'
<1>1. queue # <<>> /\ job = queue[1] /\ \A b \in flight : ~b.awaited
  BY HeadDrafted DEF DraftFails
<1>2. /\ Answers(queue[1], "lost") /\ flight' = flight /\ Disturbed
      /\ UNCHANGED <<node, unheard, closed, subscribed, watch>>
      /\ UNCHANGED <<waiting, taker>> /\ unheard' \subseteq Job
  BY <1>1 DEF DraftFails, Fault, node, ClientInv, FlightsOK
<1>3. faults' \in 0 .. MaxFaults /\ Quiet'
  <2>1. \A p \in Payments : outcome'[p] = "fork" => outcome[p] = "fork"
    BY <1>2 DEF Answers, ClientInv, OutcomesOK
  <2>2. reported' = reported /\ failure' \in {failure, "none", "lost"} /\ ListKept
    BY <1>2 DEF Answers, Collected, Throws, Received, drain, ListKept
  <2> QED BY <1>2, <2>1, <2>2, DisturbedCounts, QuietStep
<1>4. AnswerFits("lost") /\ \A b \in flight' : LeftOver(b, "lost")
  BY <1>1, <1>2 DEF AnswerFits, LeftOver
<1> QED BY <1>1, <1>2, <1>3, <1>4, AnswerStep

LEMMA ProcessAnswerKeeps ==
    ASSUME ClientInv, NEW b \in flight, ProcessAnswer(b)
    PROVE  ClientInv'
<1>1. /\ b.awaited /\ b.fate # "sent" /\ flight' = flight \ {b} /\ Answers(b.job, b.fate)
      /\ UNCHANGED <<node, unheard, closed, subscribed, watch, faults>>
      /\ UNCHANGED <<waiting, taker>> /\ unheard' \subseteq Job
  BY DEF ProcessAnswer, node, ClientInv, FlightsOK
<1>2. BlockSound(b) /\ b \in Block
  BY DEF ClientInv, FlightsOK, BlockSound
<1>3. queue # <<>> /\ b.job = queue[1] /\ Answers(queue[1], b.fate)
  BY <1>1, <1>2 DEF BlockSound
<1>4. \A c \in flight' : c \in flight /\ ~c.awaited
  BY <1>1 DEF ClientInv, FlightsOK
<1>5. AnswerFits(b.fate)
  <2>1. b.fate \in {"ok", "fork", "gone"}
    BY <1>1, <1>2 DEF Block
  <2>2. b.job \in Payments => \A c \in flight' : c.job # b.job
    BY <1>1 DEF ClientInv, FlightsOK
  <2> QED BY <1>2, <1>3, <2>1, <2>2 DEF AnswerFits, BlockSound
<1>6. \A c \in flight' : LeftOver(c, b.fate)
  BY <1>4 DEF LeftOver
<1>7. faults' \in 0 .. MaxFaults
  BY <1>1 DEF ClientInv, WatchOK
<1>8. Quiet'
  <2>1. Calm /\ Reports /\ Reasons /\ (Overtakable' <=> Overtakable)
    BY <1>1 DEF ClientInv, Quiet, Overtakable
  <2>2. Fresh => Fresh'
    <3> SUFFICES ASSUME Fresh PROVE Fresh'
      OBVIOUS
    <3>1. CASE b.job \in Payments
      <4>1. UNCHANGED <<pc, todo>>
        BY <1>1, <3>1 DEF Answers, drain
      <4>2. \A c \in flight : c.job = todo[1] /\ 1 \in 1 .. Len(todo) => c # b
        <5>1. 1 \in 1 .. Len(todo) => todo[1] \in Receivables
          BY ElementOfSeq DEF ClientInv, DrainOK, Work
        <5> QED BY <3>1, <5>1, ClientAssumption
      <4> QED BY <1>1, <4>1, <4>2 DEF Fresh
    <3>2. CASE b.job \notin Payments
      <4>1. todo \in Seq(Receivables) /\ todo # <<>>
        <5>1. pc = "submit"
          <6>1. 1 \in Collections(queue)
            BY <1>3, <3>2, HeadIs DEF Collections
          <6> QED BY <6>1 DEF ClientInv, QueueOK
        <5> QED BY <5>1 DEF ClientInv, DrainOK, Work
      <4>2. todo' \in {<<>>, Tail(todo)}
        BY <1>1, <3>2 DEF Answers, Collected, Continue, EndRounds, Throws
      <4>3. /\ Len(todo) \in Nat \ {0} /\ Len(Tail(todo)) = Len(todo) - 1
            /\ \A i \in 1 .. Len(Tail(todo)) : Tail(todo)[i] = todo[i + 1]
        BY <4>1, EmptySeq, LenProperties, HeadTailProperties
      <4>4. \A i \in 1 .. Len(Tail(todo)) : i \in Nat /\ i + 1 \in 1 .. Len(todo) /\ i + 1 # 1
        BY <4>3
      <4>5. CASE todo' = <<>>
        BY <4>5, EmptySeq DEF Fresh
      <4>6. CASE todo' = Tail(todo)
        <5>1. \A i \in 1 .. Len(Tail(todo)) : Tail(todo)[i] \in ToSet(waiting')
          BY <1>1, <4>3, <4>4 DEF Fresh
        <5>2. \A i, j \in 1 .. Len(Tail(todo)) : Tail(todo)[i] = Tail(todo)[j] => i = j
          BY <4>3, <4>4 DEF Fresh
        <5> QED BY <4>6, <5>1, <5>2 DEF Fresh
      <4> QED BY <4>2, <4>5, <4>6
    <3> QED BY <3>1, <3>2
  <2>3. Calm'
    BY <1>1, <2>1, <2>2 DEF Calm
  <2>4. Reports'
    <3> SUFFICES ASSUME NEW r \in Receivables, taker[r] = "us", ~closed, r \notin unheard
                 PROVE  r \in reported' \/ \E c \in flight' : c.job = r /\ c.awaited /\ c.fate = "ok"
      BY <1>1 DEF Reports
    <3>1. reported \subseteq reported'
      BY <1>3 DEF Answers
    <3>2. CASE r \in reported
      BY <3>1, <3>2
    <3>3. ASSUME NEW c \in flight, c.job = r, c.awaited, c.fate = "ok"
          PROVE  r \in reported'
      <4>1. c = b
        BY <1>1, <3>3 DEF ClientInv, FlightsOK
      <4>2. r \notin Payments /\ queue[1] = r
        BY <1>3, <3>3, <4>1, ClientAssumption
      <4>3. r \in Received(queue[1], b.fate)
        BY <3>3, <4>1, <4>2 DEF Received
      <4> QED BY <1>3, <4>2, <4>3 DEF Answers
    <3> QED BY <2>1, <3>2, <3>3 DEF Reports
  <2>5. Reasons'
    <3> SUFFICES ASSUME ~Overtakable
                 PROVE  /\ failure' \notin {"fork", "gone"}
                        /\ \A p \in Payments : outcome'[p] # "fork"
                        /\ \A c \in flight' : c.fate \notin {"fork", "gone"}
      BY <2>1 DEF Reasons
    <3>1. /\ failure \notin {"fork", "gone"}
          /\ \A p \in Payments : outcome[p] # "fork"
          /\ \A c \in flight : c.fate \notin {"fork", "gone"}
      BY <2>1 DEF Reasons
    <3>2. b.fate = "ok"
      BY <1>1, <1>2, <3>1 DEF Block
    <3>3. \A p \in Payments : outcome'[p] \in {outcome[p], "ok"}
      BY <1>1, <3>2 DEF Answers, ClientInv, OutcomesOK
    <3>4. failure' = failure
      BY <1>1, <3>2 DEF Answers, Collected, Continue, EndRounds, drain
    <3> QED BY <1>1, <3>1, <3>3, <3>4
  <2> QED BY <2>3, <2>4, <2>5 DEF Quiet
<1> QED BY <1>1, <1>3, <1>5, <1>6, <1>7, <1>8, AnswerStep

LEMMA ProcessTimesOutKeeps ==
    ASSUME ClientInv, NEW b \in flight, ProcessTimesOut(b)
    PROVE  ClientInv'
<1>1. /\ b.awaited /\ Disturbed /\ Answers(b.job, "lost")
      /\ UNCHANGED <<node, closed, subscribed, watch>> /\ UNCHANGED taker
      /\ unheard' = unheard \cup {b.job}
      /\ \/ flight' = flight \ {b}
         \/ b.fate = "sent" /\ flight' = (flight \ {b}) \cup {[b EXCEPT !.awaited = FALSE]}
  BY DEF ProcessTimesOut, Fault, node
<1>2. BlockSound(b) /\ b \in Block
  BY DEF ClientInv, FlightsOK, BlockSound
<1>3. queue # <<>> /\ b.job = queue[1] /\ Answers(queue[1], "lost")
  BY <1>1, <1>2 DEF BlockSound
<1>4. \A c \in flight \ {b} : c \in flight /\ ~c.awaited
  BY <1>1 DEF ClientInv, FlightsOK
<1>5. [b EXCEPT !.awaited = FALSE].awaited = FALSE
  BY <1>2 DEF Block
<1>6. \A c \in flight' : LeftOver(c, "lost")
  <2>1. [b EXCEPT !.awaited = FALSE].job = b.job
    BY <1>2 DEF Block
  <2> QED BY <1>1, <1>4, <1>5, <2>1 DEF LeftOver
<1>7. AnswerFits("lost")
  BY DEF AnswerFits
<1>8. faults' \in 0 .. MaxFaults /\ Quiet'
  <2>1. Overtakable'
    BY <1>1 DEF Overtakable
  <2>2. Reports'
    <3>1. reported \subseteq reported'
      BY <1>3 DEF Answers
    <3>2. \A c \in flight : c.job \notin unheard' => c \in flight'
      BY <1>1
    <3> QED BY <1>1, <3>1, <3>2 DEF ClientInv, Quiet, Reports
  <2>3. Calm' /\ Reasons'
    BY <2>1 DEF Calm, Reasons
  <2> QED BY <1>1, <2>2, <2>3, DisturbedCounts DEF Quiet
<1>9. unheard \subseteq unheard' /\ unheard' \subseteq Job
  BY <1>1, <1>2 DEF Block, ClientInv, FlightsOK
<1> QED BY <1>1, <1>3, <1>6, <1>7, <1>8, <1>9, AnswerStep

-----------------------------------------------------------------------------
(* the node's side                                                         *)

\* What becomes of a block when the frontier moves.
Moved(b, applied) ==
    [b EXCEPT !.standing = IF b.standing # "fits" THEN b.standing
                           ELSE IF b.job = applied THEN "known" ELSE "stale"]

LEMMA MovedIs ==
    ASSUME NEW b \in Block, NEW applied, NEW e, e = Moved(b, applied)
    PROVE  /\ e \in Block /\ e.job = b.job /\ e.fate = b.fate /\ e.awaited = b.awaited
           /\ e.standing # "fits"
           /\ e.standing = "known" => b.standing = "known" \/ b.job = applied
BY DEF Moved, Block

LEMMA OvertakenIs ==
    ASSUME NEW bs, NEW applied
    PROVE  Overtaken(bs, applied) = {Moved(b, applied) : b \in bs}
BY DEF Overtaken, Moved

\* A block that somebody else's block has overtaken is still what it was.
LEMMA MovedSound ==
    ASSUME NEW b, BlockSound(b), NEW applied, NEW e, e = Moved(b, applied),
           UNCHANGED <<queue, outcome, unheard>>,
           Done(b.job) => Done(b.job)', b.job = applied => Done(b.job)',
           b.job \in Payments /\ b.job \in paid' => b.job \in paid
    PROVE  BlockSound(e)'
<1>1. b \in Block
  BY DEF BlockSound
<1>2. /\ e \in Block /\ e.job = b.job /\ e.fate = b.fate /\ e.awaited = b.awaited
      /\ e.standing # "fits"
      /\ e.standing = "known" => b.standing = "known" \/ b.job = applied
  BY <1>1, MovedIs
<1>3. e.standing = "known" \/ e.fate = "ok" => Done(e.job)'
  BY <1>2 DEF BlockSound, Done
<1> QED BY <1>2, <1>3 DEF BlockSound

\* Somebody collects what was waiting.
LEMMA CollectedNode ==
    ASSUME NodeOK, NEW r \in ToSet(waiting), NEW who \in {"us", "rival"},
           waiting' = Without(waiting, r), taker' = [taker EXCEPT ![r] = who],
           balance' = balance + 1, UNCHANGED <<transport, paid>>
    PROVE  /\ NodeOK' /\ r \in Receivables /\ taker[r] = "nobody" /\ taker'[r] = who
           /\ \A x \in Receivables \ {r} : taker'[x] = taker[x]
           /\ \A x \in ToSet(waiting) \ {r} : x \in ToSet(waiting')
<1>1. r \in Receivables /\ taker[r] = "nobody" /\ ToSet(waiting) \subseteq Receivables
  BY DEF ToSet, NodeOK
<1>2. /\ waiting' \in Seq(Receivables)
      /\ \A i \in 1 .. Len(waiting') : waiting'[i] # r /\ waiting'[i] \in ToSet(waiting)
      /\ \A i, j \in 1 .. Len(waiting') : waiting'[i] = waiting'[j] => i = j
      /\ \A x \in ToSet(waiting) \ {r} : x \in ToSet(waiting')
  BY WithoutIsASeq DEF NodeOK
<1>3. /\ taker' \in [Receivables -> {"nobody", "us", "rival"}] /\ taker'[r] = who
      /\ \A x \in Receivables \ {r} : taker'[x] = taker[x]
  BY <1>1 DEF NodeOK
<1>4. \A i \in 1 .. Len(waiting') : taker'[waiting'[i]] = "nobody"
  <2>1. \A x \in ToSet(waiting) : taker[x] = "nobody"
    BY DEF ToSet, NodeOK
  <2> QED BY <1>1, <1>2, <1>3, <2>1
<1>5. balance' \in Nat
  BY DEF NodeOK
<1> QED BY <1>1, <1>2, <1>3, <1>4, <1>5 DEF NodeOK

LEMMA RivalKeeps ==
    ASSUME ClientInv, NEW r \in Receivables, RivalCollects(r)
    PROVE  ClientInv'
<1>1. /\ r \in ToSet(waiting) /\ waiting' = Without(waiting, r)
      /\ taker' = [taker EXCEPT ![r] = "rival"] /\ balance' = balance + 1
      /\ flight' = Overtaken(flight, "rival") /\ Disturbed
      /\ UNCHANGED <<transport, paid, queue, outcome, unheard, reported, closed, watch>>
      /\ UNCHANGED <<pc, todo, rounds, receiveAgain, due, failure, phase, subscribed>>
  BY DEF RivalCollects, drain, lifecycle
<1>2. NodeOK /\ FlightsOK /\ OutcomesOK /\ WatchOK
  BY DEF ClientInv
<1>3. /\ NodeOK' /\ taker[r] = "nobody" /\ taker'[r] = "rival"
      /\ \A x \in Receivables \ {r} : taker'[x] = taker[x]
  BY <1>1, <1>2, CollectedNode
<1>4. DrainOK' /\ QueueOK'
  BY <1>1 DEF ClientInv, DrainOK, Work, QueueOK, OneCollection,
              PaymentsOnce, CollectsOnly, Collections
<1>5. flight' = {Moved(b, "rival") : b \in flight}
  BY <1>1, OvertakenIs
<1>6. \A b \in flight : BlockSound(b) /\ b \in Block /\ b.job \in Job /\ b.job # "rival"
  BY <1>2, ClientAssumption DEF FlightsOK, BlockSound, Block, Job
<1>7. FlightsOK'
  <2>1. ASSUME NEW e \in flight'
        PROVE  BlockSound(e)'
    <3>1. PICK b \in flight : e = Moved(b, "rival")
      BY <1>5
    <3>2. Done(b.job) => Done(b.job)'
      BY <1>1, <1>3, <1>6 DEF Done, Job
    <3> QED BY <1>1, <1>6, <3>1, <3>2, MovedSound
  <2>2. ASSUME NEW e \in flight', NEW f \in flight',
               (e.awaited /\ f.awaited) \/ (e.job = f.job /\ e.job \in Payments)
        PROVE  e = f
    <3>1. PICK b \in flight : e = Moved(b, "rival")
      BY <1>5
    <3>2. PICK c \in flight : f = Moved(c, "rival")
      BY <1>5
    <3>3. b = c
      BY <1>2, <1>6, <2>2, <3>1, <3>2, MovedIs DEF FlightsOK
    <3> QED BY <3>1, <3>2, <3>3
  <2> QED BY <1>1, <1>2, <2>1, <2>2 DEF FlightsOK
<1>8. OutcomesOK'
  <2>1. \A p \in Payments : (\A e \in flight' : e.job # p) <=> (\A b \in flight : b.job # p)
    BY <1>5, <1>6, MovedIs
  <2> QED BY <1>1, <1>2, <2>1 DEF OutcomesOK, Asks
<1>9. faults' \in 0 .. MaxFaults /\ Quiet'
  <2>1. Calm' /\ Reasons'
    BY <1>3 DEF Overtakable, Calm, Reasons
  <2>2. Reports'
    <3> SUFFICES ASSUME NEW x \in Receivables, taker'[x] = "us", ~closed, x \notin unheard
                 PROVE  x \in reported \/ \E e \in flight' : e.job = x /\ e.awaited /\ e.fate = "ok"
      BY <1>1 DEF Reports
    <3>1. taker[x] = "us"
      BY <1>3
    <3>2. \A b \in flight : \E e \in flight' : e.job = b.job /\ e.awaited = b.awaited /\ e.fate = b.fate
      BY <1>5, <1>6, MovedIs
    <3> QED BY <3>1, <3>2 DEF ClientInv, Quiet, Reports
  <2> QED BY <1>1, <2>1, <2>2, DisturbedCounts DEF Quiet
<1>10. WatchOK'
  <2>1. \A x \in reported : x \in Receivables \ {r}
    BY <1>2, <1>3 DEF WatchOK
  <2>2. \A x \in reported : taker'[x] = "us"
    BY <1>2, <1>3, <2>1 DEF WatchOK
  <2> QED BY <1>1, <1>2, <1>9, <2>2 DEF WatchOK, watch
<1> QED BY <1>3, <1>4, <1>7, <1>8, <1>9, <1>10 DEF ClientInv

LEMMA ArriveKeeps ==
    ASSUME ClientInv, NEW r \in Receivables, Arrive(r)
    PROVE  ClientInv'
<1>1. /\ r \notin ToSet(waiting) /\ taker[r] = "nobody" /\ waiting' = Append(waiting, r)
      /\ notices' = IF subscribed /\ ~Polling THEN notices + 1 ELSE notices
      /\ UNCHANGED <<transport, taker, paid, balance, queue, flight, outcome, unheard, reported>>
      /\ UNCHANGED <<pc, todo, rounds, receiveAgain, due, failure>>
      /\ UNCHANGED <<phase, closed, subscribed, poll, seen, news, faults>>
  BY DEF Arrive, submits, drain, lifecycle
<1>2. NodeOK /\ Len(waiting) \in Nat
  BY LenProperties DEF ClientInv, NodeOK
<1>3. /\ waiting' \in Seq(Receivables) /\ Len(waiting') = Len(waiting) + 1
      /\ \A i \in 1 .. Len(waiting) : waiting'[i] = waiting[i]
      /\ waiting'[Len(waiting) + 1] = r
  BY <1>1, <1>2, AppendProperties DEF NodeOK
<1>4. \A i \in 1 .. Len(waiting') : i \in 1 .. Len(waiting) \/ i = Len(waiting) + 1
  BY <1>2, <1>3
<1>5. \A i \in 1 .. Len(waiting) : waiting[i] # r
  BY <1>1 DEF ToSet
<1>6. NodeOK'
  <2>1. \A i, j \in 1 .. Len(waiting') : waiting'[i] = waiting'[j] => i = j
    BY <1>2, <1>3, <1>4, <1>5 DEF NodeOK
  <2>2. \A i \in 1 .. Len(waiting') : taker[waiting'[i]] = "nobody"
    BY <1>1, <1>2, <1>3, <1>4 DEF NodeOK
  <2> QED BY <1>1, <1>2, <1>3, <2>1, <2>2 DEF NodeOK
<1>7. DrainOK'
  BY <1>1 DEF ClientInv, DrainOK, Work
<1>8. QueueOK' /\ FlightsOK' /\ OutcomesOK'
  BY <1>1, SubmitSame DEF ClientInv
<1>9. Quiet'
  <2>1. ToSet(waiting) \subseteq ToSet(waiting')
    BY <1>2, <1>3 DEF ToSet
  <2>2. Overtakable' <=> Overtakable
    BY <1>1 DEF Overtakable
  <2>3. Fresh => Fresh'
    BY <1>1, <2>1 DEF Fresh
  <2>4. Calm' /\ Reports' /\ Reasons'
    BY <1>1, <2>2, <2>3 DEF ClientInv, Quiet, Calm, Reports, Reasons
  <2> QED BY <2>4 DEF Quiet
<1>10. WatchOK'
  <2>1. notices' \in Nat
    BY <1>1 DEF ClientInv, WatchOK
  <2> QED BY <1>1, <2>1 DEF ClientInv, WatchOK
<1> QED BY <1>6, <1>7, <1>8, <1>9, <1>10 DEF ClientInv

\* The blocks after the node has judged b: the others as they were or overtaken,
\* and b with its verdict if it is awaited.
LEMMA JudgedKeeps ==
    ASSUME ClientInv, NEW b \in flight, b.fate = "sent",
           UNCHANGED <<queue, outcome, unheard>>,
           NEW applied, applied = b.job,
           NEW rest, \/ rest = flight \ {b}
                     \/ rest = {Moved(c, applied) : c \in flight \ {b}},
           flight' = rest \cup Judged(b),
           \A e \in rest : BlockSound(e)',
           Verdict(b) = "ok" => Done(b.job)',
           b.standing = "known" => Done(b.job)',
           b.job \in Payments /\ b.job \in paid' => Verdict(b) = "ok",
           \A p \in Payments \ {b.job} : p \in paid' <=> p \in paid,
           paid \subseteq paid'
    PROVE  FlightsOK' /\ OutcomesOK'
<1>1. FlightsOK /\ OutcomesOK
  BY DEF ClientInv
<1>2. \A c \in flight : BlockSound(c) /\ c \in Block
  BY <1>1 DEF FlightsOK, BlockSound
<1>3. \A e \in rest : \E c \in flight \ {b} :
          e.job = c.job /\ e.awaited = c.awaited /\ (e = c \/ e = Moved(c, applied))
  BY <1>2, MovedIs
<1>4. \A c \in flight \ {b} : \E e \in rest : e.job = c.job
  BY <1>2, MovedIs
<1>5. PICK v : v = [b EXCEPT !.fate = Verdict(b)]
  OBVIOUS
<1>6. /\ Judged(b) = IF b.awaited THEN {v} ELSE {}
      /\ Verdict(b) \in {"ok", "fork", "gone"}
  BY <1>5 DEF Judged, Verdict
<1>7. /\ v \in Block /\ v.job = b.job /\ v.awaited = b.awaited /\ v.standing = b.standing
      /\ v.fate = Verdict(b)
  BY <1>2, <1>6, <1>5 DEF Block
<1>8. b.awaited => BlockSound(v)'
  <2>1. v.job \in Payments => v.fate # "gone"
    BY <1>7, ClientAssumption DEF Verdict
  <2> QED BY <1>2, <1>6, <1>7, <2>1 DEF BlockSound
<1>9. ASSUME NEW e \in rest, NEW f \in rest,
             (e.awaited /\ f.awaited) \/ (e.job = f.job /\ e.job \in Payments)
      PROVE  e = f
  <2>1. CASE rest = flight \ {b}
    BY <1>1, <1>9, <2>1 DEF FlightsOK
  <2>2. CASE rest = {Moved(c, applied) : c \in flight \ {b}}
    <3>1. PICK c \in flight \ {b} : e = Moved(c, applied)
      BY <2>2
    <3>2. PICK d \in flight \ {b} : f = Moved(d, applied)
      BY <2>2
    <3>3. e.job = c.job /\ e.awaited = c.awaited /\ f.job = d.job /\ f.awaited = d.awaited
      BY <1>2, <3>1, <3>2, MovedIs
    <3>4. c = d
      BY <1>1, <1>9, <3>3 DEF FlightsOK
    <3> QED BY <3>1, <3>2, <3>4
  <2> QED BY <2>1, <2>2
<1>10. ASSUME NEW e \in rest
      PROVE  /\ b.awaited => ~e.awaited
             /\ e.job \in Payments => e.job # b.job
  <2>1. PICK c \in flight \ {b} : e.job = c.job /\ e.awaited = c.awaited
    BY <1>3
  <2> QED BY <1>1, <2>1 DEF FlightsOK
<1>11. FlightsOK'
  <2>1. \A e \in flight' : BlockSound(e)'
    BY <1>6, <1>8
  <2>2. \A e, f \in flight' :
           (e.awaited /\ f.awaited) \/ (e.job = f.job /\ e.job \in Payments) => e = f
    BY <1>6, <1>7, <1>9, <1>10
  <2> QED BY <1>1, <2>1, <2>2 DEF FlightsOK
<1>12. ASSUME NEW p \in Payments
       PROVE  /\ outcome[p] = "ok" => p \in paid'
              /\ outcome[p] \in {"none", "fork", "insufficient-kei"} =>
                   p \notin paid' /\ \A e \in flight' : e.job # p
              /\ outcome[p] = "asked" /\ (\A e \in flight' : e.job # p) => p \notin paid'
  <2>1. \A e \in flight' : \E c \in flight : e.job = c.job
    BY <1>3, <1>6, <1>7
  <2>2. CASE p = b.job
    <3>1. outcome[p] \notin {"none", "fork", "insufficient-kei"}
      BY <1>1, <2>2 DEF OutcomesOK
    <3>2. ~b.awaited => outcome[p] = "lost"
      BY <1>2, <2>2 DEF BlockSound
    <3>3. b.awaited => v \in flight'
      BY <1>6
    <3> QED BY <1>1, <1>7, <2>2, <3>1, <3>2, <3>3 DEF OutcomesOK
  <2>3. CASE p # b.job
    <3>1. p \in paid' <=> p \in paid
      BY <2>3
    <3>2. (\A e \in flight' : e.job # p) => \A c \in flight : c.job # p
      BY <1>4, <2>3
    <3> QED BY <1>1, <2>1, <3>1, <3>2 DEF OutcomesOK
  <2> QED BY <2>2, <2>3
<1>13. OutcomesOK'
  BY <1>1, <1>12 DEF OutcomesOK, Asks
<1> QED BY <1>11, <1>13

\* When nobody else can have moved the frontier, the block the node is about to
\* judge is the only one and fits; if it collects, it is the first of the
\* drain's list, which still waits.
LEMMA SentIs ==
    ASSUME ClientInv, NEW b \in flight, b.fate = "sent", ~Overtakable
    PROVE  /\ flight = {b} /\ b.awaited /\ b.standing = "fits" /\ Verdict(b) = "ok"
           /\ Fresh
           /\ b.job \notin Payments => pc = "submit" /\ b.job = todo[1]
<1>1. Fresh /\ \A c \in flight : c.awaited /\ c.standing = "fits"
  BY DEF ClientInv, Quiet, Calm
<1>2. flight = {b}
  BY <1>1 DEF ClientInv, FlightsOK
<1>3. BlockSound(b) /\ b \in Block
  BY DEF ClientInv, FlightsOK, BlockSound
<1>4. queue # <<>> /\ b.job = queue[1]
  BY <1>1, <1>3 DEF BlockSound
<1>5. ASSUME b.job \notin Payments
      PROVE  pc = "submit" /\ b.job = todo[1] /\ b.job \in ToSet(waiting)
  <2>1. 1 \in Collections(queue)
    BY <1>4, <1>5, HeadIs DEF Collections
  <2>2. pc = "submit" /\ b.job = todo[1]
    BY <1>4, <2>1 DEF ClientInv, QueueOK, CollectsOnly
  <2>3. 1 \in 1 .. Len(todo)
    <3>1. todo \in Seq(Receivables) /\ todo # <<>>
      BY <2>2 DEF ClientInv, DrainOK, Work
    <3>2. Len(todo) \in Nat \ {0}
      BY <3>1, EmptySeq, LenProperties
    <3> QED BY <3>2
  <2> QED BY <1>1, <1>2, <2>2, <2>3 DEF Fresh
<1>6. Verdict(b) = "ok"
  <2>1. b.job \in Receivables => b.job \in ToSet(waiting)
    BY <1>5, ClientAssumption
  <2> QED BY <1>1, <2>1 DEF Verdict
<1> QED BY <1>1, <1>2, <1>5, <1>6

\* Judging a block, and collecting what it collects, leaves all that is said of a
\* wallet nobody else got ahead of, and of its reports.
LEMMA JudgedQuiet ==
    ASSUME ClientInv, NEW b \in flight, b.fate = "sent",
           UNCHANGED <<outcome, unheard, reported, pc, todo, failure, closed>>,
           NEW applied,
           NEW rest, \/ rest = flight \ {b}
                     \/ rest = {Moved(c, applied) : c \in flight \ {b}},
           flight' = rest \cup Judged(b),
           \A r \in Receivables : taker'[r] = "rival" <=> taker[r] = "rival",
           \A r \in Receivables :
               taker'[r] = "us" => taker[r] = "us" \/ (r = b.job /\ Verdict(b) = "ok"),
           \A x \in ToSet(waiting) : x \in ToSet(waiting') \/ x = b.job
    PROVE  Quiet'
<1>1. BlockSound(b) /\ \A c \in flight : c \in Block
  BY DEF ClientInv, FlightsOK, BlockSound
<1>2. PICK v : v = [b EXCEPT !.fate = Verdict(b)]
  OBVIOUS
<1>3. /\ v.job = b.job /\ v.standing = b.standing /\ v.awaited = b.awaited
      /\ v.fate = Verdict(b)
  BY <1>1, <1>2 DEF Block
<1>4. Judged(b) = IF b.awaited THEN {v} ELSE {}
  BY <1>2 DEF Judged
<1>5. Overtakable' <=> Overtakable
  BY DEF Overtakable
<1>6. ASSUME ~Overtakable
      PROVE  flight' = {v} /\ v.awaited /\ v.standing = "fits" /\ v.fate = "ok" /\ Fresh'
  <2>1. /\ flight = {b} /\ b.awaited /\ b.standing = "fits" /\ Verdict(b) = "ok" /\ Fresh
        /\ b.job \notin Payments => pc = "submit" /\ b.job = todo[1]
    BY <1>6, SentIs
  <2>2. flight' = {v}
    BY <1>4, <2>1
  <2>3. ASSUME NEW i \in 1 .. Len(todo)
        PROVE  \/ todo[i] \in ToSet(waiting')
               \/ i = 1 /\ pc = "submit" /\ \E e \in flight' : e.job = todo[1] /\ e.fate = "ok"
    <3>1. todo[i] \in ToSet(waiting)
      BY <2>1 DEF Fresh
    <3>2. CASE todo[i] = b.job
      <4>1. todo[i] \in Receivables /\ 1 \in 1 .. Len(todo)
        BY ElementOfSeq, LenProperties DEF ClientInv, DrainOK, Work
      <4>2. pc = "submit" /\ b.job = todo[1]
        BY <2>1, <3>2, <4>1, ClientAssumption
      <4>3. i = 1
        BY <2>1, <3>2, <4>1, <4>2 DEF Fresh
      <4> QED BY <1>3, <2>1, <2>2, <4>2, <4>3
    <3>3. CASE todo[i] # b.job
      BY <3>1, <3>3
    <3> QED BY <3>2, <3>3
  <2>4. Fresh'
    BY <2>1, <2>3 DEF Fresh
  <2> QED BY <1>3, <2>1, <2>2, <2>4
<1>7. Calm'
  BY <1>5, <1>6 DEF Calm
<1>8. Reports'
  <2> SUFFICES ASSUME NEW r \in Receivables, taker'[r] = "us", ~closed, r \notin unheard
               PROVE  r \in reported \/ \E e \in flight' : e.job = r /\ e.awaited /\ e.fate = "ok"
    BY DEF Reports
  <2>1. CASE taker[r] = "us"
    <3>1. CASE r \in reported
      BY <3>1
    <3>2. ASSUME NEW c \in flight, c.job = r, c.awaited, c.fate = "ok"
          PROVE  \E e \in flight' : e.job = r /\ e.awaited /\ e.fate = "ok"
      <4>1. c \in flight \ {b}
        BY <3>2
      <4>2. \E e \in rest : e.job = c.job /\ e.awaited = c.awaited /\ e.fate = c.fate
        BY <1>1, <4>1, MovedIs
      <4> QED BY <3>2, <4>2
    <3> QED BY <2>1, <3>1, <3>2 DEF ClientInv, Quiet, Reports
  <2>2. CASE r = b.job /\ Verdict(b) = "ok"
    <3>1. b.awaited
      BY <1>1, <2>2 DEF BlockSound
    <3> QED BY <1>3, <1>4, <2>2, <3>1
  <2> QED BY <2>1, <2>2
<1>9. Reasons'
  BY <1>5, <1>6 DEF ClientInv, Quiet, Reasons
<1> QED BY <1>7, <1>8, <1>9 DEF Quiet

\* The node judges a block, and applies it if it fits.
LEMMA ProcessKeeps ==
    ASSUME ClientInv, NEW b \in flight, Process(b)
    PROVE  ClientInv'
<1>1. /\ b.fate = "sent"
      /\ UNCHANGED <<transport, queue, outcome, unheard, reported, notices, poll, seen, news, faults>>
      /\ UNCHANGED <<pc, todo, rounds, receiveAgain, due, failure, phase, closed, subscribed>>
  BY DEF Process, drain, lifecycle, watch
<1>2. NodeOK /\ FlightsOK /\ OutcomesOK /\ WatchOK /\ Quiet
  BY DEF ClientInv
<1>3. \A c \in flight : BlockSound(c) /\ c \in Block
  BY <1>2 DEF FlightsOK, BlockSound
<1>4. DrainOK' /\ QueueOK'
  BY <1>1 DEF ClientInv, DrainOK, Work, QueueOK, OneCollection,
              PaymentsOnce, CollectsOnly, Collections
<1> DEFINE fitting == Verdict(b) = "ok" /\ b.standing = "fits"
<1>5. PICK applied : applied = b.job
  OBVIOUS
<1>6. PICK rest : rest = IF fitting THEN {Moved(c, applied) : c \in flight \ {b}} ELSE flight \ {b}
  OBVIOUS
<1>7. flight' = rest \cup Judged(b)
  BY <1>5, <1>6, OvertakenIs DEF Process
<1>8. CASE fitting /\ b.job \in Payments
  <2>1. /\ paid' = paid \cup {b.job} /\ balance' = balance - 1
        /\ waiting' = waiting /\ taker' = taker
    BY <1>8 DEF Process
  <2>2. balance >= 1
    BY <1>1, <1>3, <1>8 DEF BlockSound
  <2>3. NodeOK'
    BY <1>1, <1>2, <1>8, <2>1, <2>2 DEF NodeOK
  <2>4. \A c \in flight \ {b} : c.job \in Payments => c.job # b.job
    BY <1>2, <1>8 DEF FlightsOK
  <2>5. ASSUME NEW e \in rest
        PROVE  BlockSound(e)'
    <3>1. PICK c \in flight \ {b} : e = Moved(c, applied)
      BY <1>6, <1>8
    <3>2. (Done(c.job) => Done(c.job)') /\ (c.job = applied => Done(c.job)')
      BY <1>5, <1>8, <2>1 DEF Done
    <3>3. c.job \in Payments /\ c.job \in paid' => c.job \in paid
      BY <2>1, <2>4
    <3> QED BY <1>1, <1>3, <3>1, <3>2, <3>3, MovedSound
  <2>6. FlightsOK' /\ OutcomesOK'
    <3>1. Done(b.job)' /\ b.job \in paid'
      BY <1>8, <2>1 DEF Done
    <3>2. rest = {Moved(c, applied) : c \in flight \ {b}}
      BY <1>6, <1>8
    <3>3. \A p \in Payments \ {b.job} : p \in paid' <=> p \in paid
      BY <2>1
    <3>4. paid \subseteq paid' /\ Verdict(b) = "ok"
      BY <1>8, <2>1
    <3> HIDE DEF fitting
    <3> QED BY <1>1, <1>5, <1>7, <2>5, <3>1, <3>2, <3>3, <3>4, JudgedKeeps
  <2>7. WatchOK'
    BY <1>1, <1>2, <2>1 DEF WatchOK
  <2>8. Quiet'
    <3>1. /\ \A r \in Receivables : taker'[r] = "rival" <=> taker[r] = "rival"
          /\ \A r \in Receivables :
               taker'[r] = "us" => taker[r] = "us" \/ (r = b.job /\ Verdict(b) = "ok")
          /\ \A x \in ToSet(waiting) : x \in ToSet(waiting') \/ x = b.job
      BY <2>1
    <3>2. rest = {Moved(c, applied) : c \in flight \ {b}}
      BY <1>6, <1>8
    <3> HIDE DEF fitting
    <3> QED BY <1>1, <1>7, <3>1, <3>2, JudgedQuiet
  <2> QED BY <1>4, <2>3, <2>6, <2>7, <2>8 DEF ClientInv
<1>9. CASE fitting /\ b.job \notin Payments
  <2>1. /\ waiting' = Without(waiting, b.job) /\ taker' = [taker EXCEPT ![b.job] = "us"]
        /\ balance' = balance + 1 /\ paid' = paid
    BY <1>9 DEF Process
  <2>2. b.job \in ToSet(waiting)
    BY <1>3, <1>9 DEF Verdict, Block, Job
  <2>3. /\ NodeOK' /\ b.job \in Receivables /\ taker[b.job] = "nobody" /\ taker'[b.job] = "us"
        /\ \A x \in Receivables \ {b.job} : taker'[x] = taker[x]
        /\ \A x \in ToSet(waiting) \ {b.job} : x \in ToSet(waiting')
    BY <1>1, <1>2, <2>1, <2>2, CollectedNode
  <2>4. ASSUME NEW e \in rest
        PROVE  BlockSound(e)'
    <3>1. PICK c \in flight \ {b} : e = Moved(c, applied)
      BY <1>6, <1>9
    <3>2. c.job \in Job
      BY <1>3 DEF Block
    <3>3. (Done(c.job) => Done(c.job)') /\ (c.job = applied => Done(c.job)')
      BY <1>5, <1>9, <2>1, <2>3, <3>2 DEF Done, Job
    <3> QED BY <1>1, <1>3, <2>1, <3>1, <3>3, MovedSound
  <2>5. FlightsOK' /\ OutcomesOK'
    <3>1. Done(b.job)'
      BY <1>9, <2>3 DEF Done
    <3>2. rest = {Moved(c, applied) : c \in flight \ {b}}
      BY <1>6, <1>9
    <3>3. \A p \in Payments \ {b.job} : p \in paid' <=> p \in paid
      BY <2>1
    <3> HIDE DEF fitting
    <3> QED BY <1>1, <1>5, <1>7, <1>9, <2>1, <2>4, <3>1, <3>2, <3>3, JudgedKeeps
  <2>6. WatchOK'
    <3>1. \A r \in reported : taker'[r] = "us"
      BY <1>2, <2>3 DEF WatchOK
    <3> QED BY <1>1, <1>2, <3>1 DEF WatchOK
  <2>7. Quiet'
    <3>1. /\ \A r \in Receivables : taker'[r] = "rival" <=> taker[r] = "rival"
          /\ \A r \in Receivables :
               taker'[r] = "us" => taker[r] = "us" \/ (r = b.job /\ Verdict(b) = "ok")
          /\ \A x \in ToSet(waiting) : x \in ToSet(waiting') \/ x = b.job
      BY <1>9, <2>3
    <3>2. rest = {Moved(c, applied) : c \in flight \ {b}}
      BY <1>6, <1>9
    <3> HIDE DEF fitting
    <3> QED BY <1>1, <1>7, <3>1, <3>2, JudgedQuiet
  <2> QED BY <1>4, <2>3, <2>5, <2>6, <2>7 DEF ClientInv
<1>10. CASE ~fitting
  <2>1. UNCHANGED <<transport, waiting, taker, paid, balance>> /\ rest = flight \ {b}
    BY <1>6, <1>10 DEF Process, node
  <2>2. NodeOK' /\ WatchOK'
    BY <1>1, <1>2, <2>1 DEF NodeOK, WatchOK
  <2>3. \A e \in rest : BlockSound(e)'
    BY <1>1, <1>3, <2>1 DEF BlockSound, Done
  <2>4. (Verdict(b) = "ok" => Done(b.job)') /\ (b.standing = "known" => Done(b.job)')
    <3>1. Verdict(b) = "ok" => b.standing = "known"
      BY <1>3, <1>10 DEF Verdict, Block
    <3>2. b.standing = "known" => Done(b.job)
      BY <1>3 DEF BlockSound
    <3>3. Done(b.job) => Done(b.job)'
      BY <2>1 DEF Done
    <3> QED BY <3>1, <3>2, <3>3
  <2>5. b.job \in Payments => b.job \notin paid'
    BY <1>1, <1>3, <2>1 DEF BlockSound
  <2>6. FlightsOK' /\ OutcomesOK'
    BY <1>1, <1>5, <1>7, <2>1, <2>3, <2>4, <2>5, JudgedKeeps
  <2>7. Quiet'
    <3>1. /\ \A r \in Receivables : taker'[r] = "rival" <=> taker[r] = "rival"
          /\ \A r \in Receivables :
               taker'[r] = "us" => taker[r] = "us" \/ (r = b.job /\ Verdict(b) = "ok")
          /\ \A x \in ToSet(waiting) : x \in ToSet(waiting') \/ x = b.job
      BY <2>1
    <3> HIDE DEF fitting
    <3> QED BY <1>1, <1>7, <2>1, <3>1, JudgedQuiet
  <2> QED BY <1>4, <2>2, <2>6, <2>7 DEF ClientInv
<1> QED BY <1>8, <1>9, <1>10

-----------------------------------------------------------------------------
(* the theorems                                                            *)

\* The client as it is made.
LEMMA InitKeeps == Init => ClientInv
<1> SUFFICES ASSUME Init PROVE ClientInv
  OBVIOUS
<1>1. <<>> \in Seq(Receivables) /\ <<>> \in Seq(Job) /\ Len(<<>>) = 0
  OBVIOUS
<1>2. /\ waiting = <<>> /\ todo = <<>> /\ queue = <<>> /\ flight = {} /\ pc = "idle"
      /\ taker = [r \in Receivables |-> "nobody"] /\ paid = {} /\ balance = Opening
      /\ transport \in Transports
  BY DEF Init
<1>3. Opening \in Nat /\ MaxRounds \in Nat \ {0} /\ MaxFaults \in Nat
  BY ClientAssumption
<1>4. NodeOK
  <2>1. Len(waiting) = 0 /\ waiting \in Seq(Receivables)
    BY <1>1, <1>2
  <2>2. \A i \in 1 .. Len(waiting) : FALSE
    BY <2>1
  <2> QED BY <1>2, <1>3, <2>1, <2>2 DEF NodeOK
<1>5. DrainOK
  <2>1. rounds = 0 /\ receiveAgain = FALSE /\ due = {} /\ failure = "none"
    BY DEF Init
  <2>2. Work
    BY <1>1, <1>2 DEF Work
  <2>3. rounds \in 0 .. MaxRounds - 1
    BY <1>3, <2>1
  <2> QED BY <1>2, <2>1, <2>2, <2>3 DEF DrainOK
<1>6. QueueOK
  BY <1>1 DEF Init, QueueOK, OneCollection, PaymentsOnce, CollectsOnly, Collections
<1>7. FlightsOK
  BY DEF Init, FlightsOK
<1>8. OutcomesOK
  BY <1>1 DEF Init, OutcomesOK, Asks
<1>9. WatchOK
  <2>1. faults = 0 /\ faults \in 0 .. MaxFaults /\ reported = {} /\ seen = {} /\ news = {}
    BY <1>3 DEF Init
  <2>2. /\ phase = "new" /\ closed = FALSE /\ subscribed = FALSE
        /\ notices = 0 /\ poll = "off"
    BY DEF Init
  <2> QED BY <2>1, <2>2 DEF WatchOK
<1>10. Quiet
  <2>1. Fresh
    BY <1>1, <1>2 DEF Fresh
  <2>2. Reports
    BY <1>2 DEF Reports
  <2>3. Reasons
    BY <1>2 DEF Init, Reasons
  <2> QED BY <1>2, <2>1, <2>2, <2>3 DEF Quiet, Calm
<1> QED BY <1>4, <1>5, <1>6, <1>7, <1>8, <1>9, <1>10 DEF ClientInv

\* Every step of the client, of its node and of everybody else.
LEMMA NextKeeps == ClientInv /\ [Next]_vars => ClientInv'
<1> SUFFICES ASSUME ClientInv, [Next]_vars PROVE ClientInv'
  OBVIOUS
<1>1. CASE Drain
  BY <1>1, FetchKeeps, FetchAnswerKeeps, AssetMetaKeeps, SettleKeeps DEF Drain
<1>2. CASE Submit
  BY <1>2, DraftKeeps, ProcessKeeps, ProcessAnswerKeeps DEF Submit
<1>3. CASE Watch
  BY <1>3, CallersKeep, IdleKeeps DEF Watch
<1>4. CASE Failures
  BY <1>4, ReadFailsKeeps, DraftFailsKeeps, ProcessTimesOutKeeps, IdleKeeps DEF Failures
<1>5. CASE Application
  BY <1>5, CallersKeep, IdleKeeps, PayKeeps DEF Application
<1>6. CASE World
  BY <1>6, ArriveKeeps, RivalKeeps DEF World
<1>7. CASE UNCHANGED vars
  <2>1. /\ UNCHANGED <<transport, waiting, taker, paid, balance, queue, flight, outcome, unheard>>
        /\ UNCHANGED <<pc, todo, rounds, receiveAgain, due, failure, reported>>
        /\ UNCHANGED <<phase, closed, subscribed, notices, poll, seen, news, faults>>
    BY <1>7 DEF vars, node, submits, drain, lifecycle, watch
  <2>2. NodeOK' /\ WatchOK' /\ Quiet'
    BY <2>1, QuietStep DEF ClientInv, NodeOK, WatchOK, ListKept
  <2>3. DrainOK'
    BY <2>1 DEF ClientInv, DrainOK, Work
  <2>4. QueueOK' /\ FlightsOK' /\ OutcomesOK'
    BY <2>1, SubmitSame DEF ClientInv
  <2> QED BY <2>2, <2>3, <2>4 DEF ClientInv
<1> QED BY <1>1, <1>2, <1>3, <1>4, <1>5, <1>6, <1>7 DEF Next

\* The queue of submit, the blocks in flight, the drain and the subscription of
\* KeiClient agree with one another and with the node, however their awaits
\* interleave: each payment is queued and drafted once, one block is awaited, and
\* the drain has one collection in the queue.
THEOREM ClientStaysSound == Spec => []ClientInv
BY InitKeeps, NextKeeps, PTL DEF Spec

\* KeiClient.send answers with what became of the payment: what it calls done is
\* on the chain, what it calls failed is not and no block on its way can put it
\* there, and only a lost answer leaves it open.  onPayment announces what this
\* wallet collected and nothing else, and all of it but what a time-out hid or a
\* closed wallet no longer hears of, however reads fail and other clients of the
\* seed collect.  A drain stops at a lost race, and a payment is refused for one,
\* only when another client or a block given up for lost was in it.
THEOREM WalletTellsTheTruth == Spec => []ToldTruly
<1>1. ClientInv => TypeOK
  BY DEF ClientInv, NodeOK, DrainOK, Work, QueueOK, FlightsOK, BlockSound, OutcomesOK, WatchOK,
         TypeOK
<1>2. ClientInv => AnswersAreTrue
  BY DEF ClientInv, OutcomesOK, WatchOK, AnswersAreTrue
<1>3. ClientInv => CollectedIsReported
  BY DEF ClientInv, Quiet, Reports, CollectedIsReported
<1>4. ClientInv => RacesAreReal
  BY DEF ClientInv, Quiet, Reasons, RacesAreReal
<1>5. ClientInv => ToldTruly
  BY <1>1, <1>2, <1>3, <1>4 DEF ToldTruly
<1> QED BY <1>5, ClientStaysSound, PTL

\* KeiClient.submit keeps its promise: as long as no other client of the seed has
\* collected and no block was given up for lost while it may still land, no block
\* of the wallet loses its place on the chain to another block of the same wallet,
\* whatever joins the queue while one is worked for, signed or sent, and whatever
\* reads fail.
THEOREM WalletNeverForksItself == Spec => []NoSelfFork
<1>1. ClientInv => NoSelfFork
  BY DEF ClientInv, Quiet, Calm, NoSelfFork
<1> QED BY <1>1, ClientStaysSound, PTL
=============================================================================
