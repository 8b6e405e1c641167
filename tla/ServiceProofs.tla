----------------------------- MODULE ServiceProofs -----------------------------
(***************************************************************************)
(* Proofs about what players and traders are served: the top-ups and the   *)
(* inventories of PlayerServices, and the orders and subscriptions of an   *)
(* Instrument.                                                             *)
(***************************************************************************)
EXTENDS Instrument, PlayerServices, SumTheorems, SequenceTheorems

-----------------------------------------------------------------------------
(***************************************************************************)
(* Top-ups.                                                                *)
(***************************************************************************)
Paid == DOMAIN Payments

\* What is known of the handler of one payment.
Handler ==
    [pc : {"coming", "kept", "minting", "reading", "refunding", "telling", "done"},
     minted : Nat, refunded : BOOLEAN, lost : SUBSET {"mint", "refund"},
     told : {Untold, "settled", "refunded", "refund failed", "not returned"}]

\* Nothing has happened to the payment yet.
Untouched(r) == r.minted = 0 /\ r.refunded = FALSE /\ r.lost = {} /\ r.told = Untold

\* The mint has failed, or seems to have.
SeemsFailed(r) ==
    /\ r.refunded = FALSE /\ r.told = Untold /\ "refund" \notin r.lost
    /\ r.minted > 0 => "mint" \in r.lost

\* The game has been told what became of the payment.
Accounted(r) ==
    /\ r.told # Untold
    /\ r.told = "settled" => r.minted > 0 /\ r.refunded = FALSE
    /\ r.told = "refunded" => r.refunded = TRUE
    /\ r.told \in {"refund failed", "not returned"} /\ r.refunded = TRUE => "refund" \in r.lost
    /\ r.minted > 0 /\ r.refunded = TRUE => "mint" \in r.lost

\* Where a handler is says what has been done for its payment: never more than
\* the units it buys, and nothing unless it buys any.
SoundHandler(r, units) ==
    /\ r.minted \in {0, units}
    /\ r.pc \in {"coming", "kept", "minting"} => Untouched(r)
    /\ r.pc = "minting" => units > 0
    /\ r.pc = "reading" => /\ r.minted = units /\ units > 0 /\ r.refunded = FALSE
                           /\ r.lost = {} /\ r.told = Untold
    /\ r.pc \in {"refunding", "telling"} => SeemsFailed(r)
    /\ r.pc = "done" => Accounted(r)

TopUpsInv ==
    /\ kei \in Nat /\ sold \in 0 .. TokenCap
    /\ refunds \in BOOLEAN /\ listening \in BOOLEAN
    /\ payment \in [Paid -> Handler]
    /\ \A p \in Paid : SoundHandler(payment[p], ToppingUp!Units(p))
    /\ drained \subseteq {"kei", "units"}
    /\ mishaps \in 0 .. MaxMishaps

\* What the integer division of multiplyFloor leaves is less than one unit.
LEMMA FloorBounds ==
    ASSUME NEW n \in Nat, NEW d \in Nat \ {0}
    PROVE  /\ n \div d \in Nat
           /\ (n \div d) * d <= n /\ n < (n \div d + 1) * d
OBVIOUS

\* TopUps has the powers of Decimals.
LEMMA SameTens == ToppingUp!Tens = Tens
BY DEF ToppingUp!Tens, Tens

\* multiplyFloor() of raw, in the powers of Decimals.
Floored(raw, numerator, delta) ==
    ToppingUp!MultiplyFloor(raw) =
        IF delta <= 0 THEN numerator * Tens[-delta] ELSE numerator \div Tens[delta]

LEMMA FloorFromMultiply ==
    ASSUME NEW raw
    PROVE  Floored(raw, raw * Rate.digits, KeiDecimals + Rate.decimals - TokenDecimals)
BY SameTens DEF Floored, ToppingUp!MultiplyFloor

\* The units a payment buys, and what they are worth.
LEMMA UnitsWorth ==
    ASSUME NEW p \in Paid
    PROVE  LET worth == Payments[p] * Rate.digits * Tens[TokenDecimals]
               unit == Tens[KeiDecimals + Rate.decimals]
               units == ToppingUp!Units(p)
           IN /\ units \in Nat
              /\ units * unit <= worth /\ worth < (units + 1) * unit
<1> DEFINE n == Payments[p] * Rate.digits
           k == KeiDecimals + Rate.decimals
           t == TokenDecimals
           units == ToppingUp!Units(p)
<1>1. n \in Nat /\ k \in Nat /\ t \in Nat
  <2>1. Payments[p] \in Nat
    BY ServicesAssumption DEF Paid
  <2>2. Rate.digits \in Nat /\ Rate.decimals \in Nat
    BY ServicesAssumption
  <2>3. KeiDecimals \in Nat /\ TokenDecimals \in Nat
    BY ServicesAssumption
  <2> QED BY <2>1, <2>2, <2>3
<1>2. units = IF k - t <= 0 THEN n * Tens[-(k - t)] ELSE n \div Tens[k - t]
  <2>1. units = ToppingUp!MultiplyFloor(Payments[p])
    BY DEF ToppingUp!Units
  <2>2. KeiDecimals + Rate.decimals - TokenDecimals = k - t
    <3>1. Rate.decimals \in Nat /\ KeiDecimals \in Nat /\ TokenDecimals \in Nat
      BY ServicesAssumption
    <3> QED BY <3>1
  <2>3. Floored(Payments[p], n, k - t)
    BY <2>2, FloorFromMultiply
  <2> QED BY <2>1, <2>3 DEF Floored
<1> SUFFICES /\ units \in Nat
             /\ units * Tens[k] <= n * Tens[t] /\ n * Tens[t] < (units + 1) * Tens[k]
  OBVIOUS
<1> HIDE DEF n, k, t, units
<1>3. Tens[k] \in Nat \ {0} /\ Tens[t] \in Nat \ {0}
  BY <1>1, TensType
<1>4. CASE k - t <= 0
  <2> DEFINE d == t - k
  <2>1. d \in Nat /\ t = k + d /\ -(k - t) = d
    BY <1>1, <1>4
  <2> HIDE DEF d
  <2>2. Tens[d] \in Nat \ {0} /\ Tens[t] = Tens[k] * Tens[d]
    BY <1>1, <2>1, TensType, TensAdd
  <2>3. units = n * Tens[d]
    BY <1>2, <1>4, <2>1
  <2>4. units \in Nat
    BY <1>1, <2>2, <2>3
  <2>5. units * Tens[k] = n * Tens[t]
    BY <1>1, <1>3, <2>2, <2>3
  <2>6. (units + 1) * Tens[k] = units * Tens[k] + Tens[k] /\ units * Tens[k] \in Nat
    BY <1>3, <2>4
  <2> QED BY <1>3, <2>4, <2>5, <2>6
<1>5. CASE ~(k - t <= 0)
  <2> DEFINE d == k - t
  <2>1. d \in Nat /\ k = t + d
    BY <1>1, <1>5
  <2> HIDE DEF d
  <2>2. Tens[d] \in Nat \ {0} /\ Tens[k] = Tens[t] * Tens[d]
    BY <1>1, <2>1, TensType, TensAdd
  <2>3. units = n \div Tens[d]
    BY <1>2, <1>5 DEF d
  <2>4. units \in Nat /\ units * Tens[d] <= n /\ n < (units + 1) * Tens[d]
    BY <1>1, <2>2, <2>3, FloorBounds
  <2>5. \A a, b \in Nat : a <= b => a * Tens[t] <= b * Tens[t]
    BY <1>3
  <2>6. \A a, b \in Nat : a < b => a * Tens[t] < b * Tens[t]
    BY <1>3
  <2>7. units * Tens[d] \in Nat /\ (units + 1) * Tens[d] \in Nat
    BY <2>2, <2>4
  <2>8. /\ (units * Tens[d]) * Tens[t] = units * Tens[k]
        /\ ((units + 1) * Tens[d]) * Tens[t] = (units + 1) * Tens[k]
    BY <1>3, <2>2, <2>4
  <2> QED BY <1>1, <2>4, <2>5, <2>6, <2>7, <2>8
<1> QED BY <1>4, <1>5

\* The handler of p moves on to r, within what a handler may be.
LEMMA HandlerMoves ==
    ASSUME TopUpsInv, NEW p \in Paid, NEW r \in Handler,
           SoundHandler(r, ToppingUp!Units(p)),
           payment' = [payment EXCEPT ![p] = r],
           kei' \in Nat, sold' \in 0 .. TokenCap,
           refunds' = refunds, listening' = listening, drained' = drained,
           mishaps' \in 0 .. MaxMishaps
    PROVE  TopUpsInv'
<1>1. payment' \in [Paid -> Handler]
  BY DEF TopUpsInv
<1>2. \A q \in Paid : SoundHandler(payment'[q], ToppingUp!Units(q))
  BY DEF TopUpsInv
<1> QED BY <1>1, <1>2 DEF TopUpsInv

\* A step that no handler takes part in.
LEMMA HandlersRest ==
    ASSUME TopUpsInv, payment' = payment, kei' \in Nat, sold' \in 0 .. TokenCap,
           refunds' = refunds, listening' \in BOOLEAN, drained' \subseteq {"kei", "units"},
           mishaps' = mishaps
    PROVE  TopUpsInv'
BY DEF TopUpsInv

\* The facts of one handler, and of what it has to do with.
LEMMA HandlerFacts ==
    ASSUME TopUpsInv, NEW p \in Paid
    PROVE  /\ payment[p] \in Handler /\ SoundHandler(payment[p], ToppingUp!Units(p))
           /\ ToppingUp!Units(p) \in Nat /\ Payments[p] \in Nat
           /\ kei \in Nat /\ sold \in 0 .. TokenCap /\ TokenCap \in Nat
           /\ mishaps \in 0 .. MaxMishaps /\ MaxMishaps \in Nat
<1>1. ToppingUp!Units(p) \in Nat
  BY UnitsWorth
<1>2. Payments[p] \in Nat /\ TokenCap \in Nat /\ MaxMishaps \in Nat
  BY ServicesAssumption DEF Paid
<1> QED BY <1>1, <1>2 DEF TopUpsInv

\* After a failure the handler refunds or tells.
LEMMA CaughtType ==
    ASSUME NEW p \in Paid PROVE ToppingUp!Caught(p) \in {"refunding", "telling"}
BY DEF ToppingUp!Caught

\* A payment whose mint has failed before anything was minted.
LEMMA MintFailed ==
    ASSUME NEW r \in Handler, NEW units \in Nat, r.pc = "minting", SoundHandler(r, units),
           NEW pc \in {"refunding", "telling"}
    PROVE  /\ [r EXCEPT !.pc = pc] \in Handler
           /\ SoundHandler([r EXCEPT !.pc = pc], units)
<1> DEFINE q == [r EXCEPT !.pc = pc]
<1>1. q \in Handler
  BY DEF Handler
<1>2. /\ q.pc = pc /\ q.minted = r.minted /\ q.refunded = r.refunded
      /\ q.lost = r.lost /\ q.told = r.told
  BY DEF Handler
<1>3. Untouched(r) /\ r.minted \in {0, units}
  BY DEF SoundHandler
<1> HIDE DEF q
<1>4. SeemsFailed(q)
  BY <1>2, <1>3 DEF Untouched, SeemsFailed
<1>5. SoundHandler(q, units)
  BY <1>2, <1>3, <1>4 DEF SoundHandler
<1> QED BY <1>1, <1>5 DEF q

LEMMA UntoldApart ==
    /\ Untold # "settled" /\ Untold # "refunded"
    /\ Untold # "refund failed" /\ Untold # "not returned"
BY ServicesAssumption

LEMMA ReceiveSound ==
    ASSUME TopUpsInv, NEW p \in Paid, ToppingUp!Receive(p) PROVE TopUpsInv'
<1> DEFINE pc == IF listening /\ Payments[p] >= Minimum /\ ToppingUp!Units(p) > 0
                 THEN "minting" ELSE "kept"
           r == [payment[p] EXCEPT !.pc = pc]
<1>1. payment' = [payment EXCEPT ![p] = r]
  BY DEF ToppingUp!Receive, ToppingUp!Goes
<1>2. r \in Handler /\ SoundHandler(r, ToppingUp!Units(p))
  <2>1. /\ payment[p] \in Handler /\ SoundHandler(payment[p], ToppingUp!Units(p))
        /\ ToppingUp!Units(p) \in Nat
    BY HandlerFacts
  <2>2. /\ payment[p].pc = "coming"
        /\ pc \in {"minting", "kept"} /\ (pc = "minting" => ToppingUp!Units(p) > 0)
    BY DEF ToppingUp!Receive
  <2>3. PICK q : q = r
    OBVIOUS
  <2>4. /\ q \in Handler
        /\ q.pc = pc /\ q.minted = payment[p].minted /\ q.refunded = payment[p].refunded
        /\ q.lost = payment[p].lost /\ q.told = payment[p].told
    BY <2>1, <2>2, <2>3 DEF Handler
  <2>5. SoundHandler(q, ToppingUp!Units(p))
    BY <2>1, <2>2, <2>4 DEF SoundHandler, Untouched
  <2> QED BY <2>3, <2>4, <2>5
<1>3. kei' \in Nat
  BY HandlerFacts DEF ToppingUp!Receive
<1> HIDE DEF r
<1> QED BY <1>1, <1>2, <1>3, HandlerFacts, HandlerMoves DEF ToppingUp!Receive

LEMMA MintSound ==
    ASSUME TopUpsInv, NEW p \in Paid, ToppingUp!Mint(p) PROVE TopUpsInv'
<1>1. CASE ToppingUp!HasRoom(ToppingUp!Units(p))
  <2> DEFINE r == [payment[p] EXCEPT !.pc = "reading", !.minted = ToppingUp!Units(p)]
  <2>1. payment' = [payment EXCEPT ![p] = r]
    BY <1>1 DEF ToppingUp!Mint
  <2>2. r \in Handler /\ SoundHandler(r, ToppingUp!Units(p))
    <3>1. /\ payment[p] \in Handler /\ SoundHandler(payment[p], ToppingUp!Units(p))
          /\ ToppingUp!Units(p) \in Nat
      BY HandlerFacts
    <3>2. payment[p].pc = "minting"
      BY DEF ToppingUp!Mint
    <3>3. PICK q : q = r
      OBVIOUS
    <3>4. /\ q \in Handler
          /\ q.pc = "reading" /\ q.minted = ToppingUp!Units(p) /\ q.refunded = payment[p].refunded
          /\ q.lost = payment[p].lost /\ q.told = payment[p].told
      BY <3>1, <3>2, <3>3 DEF Handler
    <3>5. SoundHandler(q, ToppingUp!Units(p))
      BY <3>1, <3>2, <3>4 DEF SoundHandler, Untouched
    <3> QED BY <3>3, <3>4, <3>5
  <2>3. sold' \in 0 .. TokenCap
    BY <1>1, HandlerFacts DEF ToppingUp!Mint, ToppingUp!HasRoom
  <2> HIDE DEF r
  <2> QED BY <2>1, <2>2, <2>3, HandlerFacts, HandlerMoves DEF ToppingUp!Mint
<1>2. CASE ~ToppingUp!HasRoom(ToppingUp!Units(p))
  <2> DEFINE r == [payment[p] EXCEPT !.pc = ToppingUp!Caught(p)]
  <2>1. payment' = [payment EXCEPT ![p] = r]
    BY <1>2 DEF ToppingUp!Mint, ToppingUp!Goes
  <2>2. r \in Handler /\ SoundHandler(r, ToppingUp!Units(p))
    BY HandlerFacts, CaughtType, MintFailed DEF ToppingUp!Mint
  <2> HIDE DEF r
  <2> QED BY <1>2, <2>1, <2>2, HandlerFacts, HandlerMoves DEF ToppingUp!Mint
<1> QED BY <1>1, <1>2

LEMMA MintLostSound ==
    ASSUME TopUpsInv, NEW p \in Paid, ToppingUp!MintLost(p) PROVE TopUpsInv'
<1>0. mishaps' \in 0 .. MaxMishaps
  BY HandlerFacts DEF ToppingUp!MintLost, ToppingUp!Fault
<1>1. CASE /\ ToppingUp!HasRoom(ToppingUp!Units(p))
           /\ sold' = sold + ToppingUp!Units(p)
           /\ payment' = [payment EXCEPT ![p].pc = ToppingUp!Caught(p),
                              ![p].minted = ToppingUp!Units(p), ![p].lost = @ \cup {"mint"}]
  <2> DEFINE r == [payment[p] EXCEPT !.pc = ToppingUp!Caught(p),
                       !.minted = ToppingUp!Units(p), !.lost = @ \cup {"mint"}]
  <2>1. payment' = [payment EXCEPT ![p] = r]
    BY <1>1
  <2>2. r \in Handler /\ SoundHandler(r, ToppingUp!Units(p))
    <3>1. /\ payment[p] \in Handler /\ SoundHandler(payment[p], ToppingUp!Units(p))
          /\ ToppingUp!Units(p) \in Nat
      BY HandlerFacts
    <3>2. payment[p].pc = "minting"
      BY DEF ToppingUp!MintLost
    <3>3. PICK q : q = r
      OBVIOUS
    <3>4. /\ q \in Handler
          /\ q.pc \in {"refunding", "telling"} /\ q.minted = ToppingUp!Units(p) /\ q.refunded = payment[p].refunded
          /\ q.lost = payment[p].lost \cup {"mint"} /\ q.told = payment[p].told
      BY <3>1, <3>2, <3>3, CaughtType DEF Handler
    <3>5. SoundHandler(q, ToppingUp!Units(p))
      BY <3>1, <3>2, <3>4 DEF SoundHandler, Untouched, SeemsFailed
    <3> QED BY <3>3, <3>4, <3>5
  <2>3. sold' \in 0 .. TokenCap
    BY <1>1, HandlerFacts DEF ToppingUp!HasRoom
  <2> HIDE DEF r
  <2> QED BY <1>0, <2>1, <2>2, <2>3, HandlerFacts, HandlerMoves DEF ToppingUp!MintLost
<1>2. CASE payment' = [payment EXCEPT ![p].pc = ToppingUp!Caught(p)] /\ sold' = sold
  <2> DEFINE r == [payment[p] EXCEPT !.pc = ToppingUp!Caught(p)]
  <2>1. payment' = [payment EXCEPT ![p] = r]
    BY <1>2
  <2>2. r \in Handler /\ SoundHandler(r, ToppingUp!Units(p))
    BY HandlerFacts, CaughtType, MintFailed DEF ToppingUp!MintLost
  <2> HIDE DEF r
  <2> QED BY <1>0, <1>2, <2>1, <2>2, HandlerFacts, HandlerMoves DEF ToppingUp!MintLost
<1> QED BY <1>1, <1>2 DEF ToppingUp!MintLost

LEMMA RefreshSound ==
    ASSUME TopUpsInv, NEW p \in Paid, ToppingUp!Refresh(p) PROVE TopUpsInv'
<1> DEFINE r == [payment[p] EXCEPT !.pc = "done", !.told = "settled"]
<1>1. payment' = [payment EXCEPT ![p] = r]
  BY DEF ToppingUp!Refresh
<1>2. r \in Handler /\ SoundHandler(r, ToppingUp!Units(p))
  <2>1. /\ payment[p] \in Handler /\ SoundHandler(payment[p], ToppingUp!Units(p))
        /\ ToppingUp!Units(p) \in Nat
    BY HandlerFacts
  <2>2. payment[p].pc = "reading"
    BY DEF ToppingUp!Refresh
  <2>3. PICK q : q = r
    OBVIOUS
  <2>4. /\ q \in Handler
        /\ q.pc = "done" /\ q.minted = payment[p].minted /\ q.refunded = payment[p].refunded
        /\ q.lost = payment[p].lost /\ q.told = "settled"
    BY <2>1, <2>2, <2>3 DEF Handler
  <2>5. SoundHandler(q, ToppingUp!Units(p))
    BY <2>1, <2>2, <2>4, UntoldApart DEF SoundHandler, Accounted
  <2> QED BY <2>3, <2>4, <2>5
<1> HIDE DEF r
<1> QED BY <1>1, <1>2, HandlerFacts, HandlerMoves DEF ToppingUp!Refresh

LEMMA RefreshFailsSound ==
    ASSUME TopUpsInv, NEW p \in Paid, ToppingUp!RefreshFails(p) PROVE TopUpsInv'
<1> DEFINE r == [payment[p] EXCEPT !.pc = ToppingUp!Caught(p), !.lost = @ \cup {"mint"}]
<1>0. mishaps' \in 0 .. MaxMishaps
  BY HandlerFacts DEF ToppingUp!RefreshFails, ToppingUp!Fault
<1>1. payment' = [payment EXCEPT ![p] = r]
  BY DEF ToppingUp!RefreshFails
<1>2. r \in Handler /\ SoundHandler(r, ToppingUp!Units(p))
  <2>1. /\ payment[p] \in Handler /\ SoundHandler(payment[p], ToppingUp!Units(p))
        /\ ToppingUp!Units(p) \in Nat
    BY HandlerFacts
  <2>2. payment[p].pc = "reading"
    BY DEF ToppingUp!RefreshFails
  <2>3. PICK q : q = r
    OBVIOUS
  <2>4. /\ q \in Handler
        /\ q.pc \in {"refunding", "telling"} /\ q.minted = payment[p].minted /\ q.refunded = payment[p].refunded
        /\ q.lost = payment[p].lost \cup {"mint"} /\ q.told = payment[p].told
    BY <2>1, <2>2, <2>3, CaughtType DEF Handler
  <2>5. SoundHandler(q, ToppingUp!Units(p))
    BY <2>1, <2>2, <2>4 DEF SoundHandler, SeemsFailed
  <2> QED BY <2>3, <2>4, <2>5
<1> HIDE DEF r
<1> QED BY <1>0, <1>1, <1>2, HandlerFacts, HandlerMoves DEF ToppingUp!RefreshFails

\* The game is told that nothing came back: with a refund that failed, or none tried.
LEMMA ToldSound ==
    ASSUME TopUpsInv, NEW p \in Paid, payment[p].pc \in {"refunding", "telling"},
           NEW word \in {"refund failed", "not returned"}, ToppingUp!Told(p, word),
           kei' = kei, sold' = sold, refunds' = refunds, listening' = listening,
           drained' = drained, mishaps' \in 0 .. MaxMishaps
    PROVE  TopUpsInv'
<1> DEFINE r == [payment[p] EXCEPT !.pc = "done", !.told = word]
<1>1. payment' = [payment EXCEPT ![p] = r]
  BY DEF ToppingUp!Told
<1>2. r \in Handler /\ SoundHandler(r, ToppingUp!Units(p))
  <2>1. /\ payment[p] \in Handler /\ SoundHandler(payment[p], ToppingUp!Units(p))
        /\ ToppingUp!Units(p) \in Nat
    BY HandlerFacts
  <2>2. payment[p].pc \in {"refunding", "telling"}
    OBVIOUS
  <2>3. PICK q : q = r
    OBVIOUS
  <2>4. /\ q \in Handler
        /\ q.pc = "done" /\ q.minted = payment[p].minted /\ q.refunded = payment[p].refunded
        /\ q.lost = payment[p].lost /\ q.told = word
    BY <2>1, <2>2, <2>3 DEF Handler
  <2>5. SoundHandler(q, ToppingUp!Units(p))
    BY <2>1, <2>2, <2>4, UntoldApart DEF SoundHandler, SeemsFailed, Accounted
  <2> QED BY <2>3, <2>4, <2>5
<1> HIDE DEF r
<1> QED BY <1>1, <1>2, HandlerFacts, HandlerMoves

LEMMA RefundSound ==
    ASSUME TopUpsInv, NEW p \in Paid, ToppingUp!Refund(p) PROVE TopUpsInv'
<1>1. CASE kei >= Payments[p]
  <2> DEFINE r == [payment[p] EXCEPT !.pc = "done", !.told = "refunded", !.refunded = TRUE]
  <2>1. payment' = [payment EXCEPT ![p] = r]
    BY <1>1 DEF ToppingUp!Refund
  <2>2. r \in Handler /\ SoundHandler(r, ToppingUp!Units(p))
    <3>1. /\ payment[p] \in Handler /\ SoundHandler(payment[p], ToppingUp!Units(p))
          /\ ToppingUp!Units(p) \in Nat
      BY HandlerFacts
    <3>2. payment[p].pc = "refunding"
      BY DEF ToppingUp!Refund
    <3>3. PICK q : q = r
      OBVIOUS
    <3>4. /\ q \in Handler
          /\ q.pc = "done" /\ q.minted = payment[p].minted /\ q.refunded = TRUE
          /\ q.lost = payment[p].lost /\ q.told = "refunded"
      BY <3>1, <3>2, <3>3 DEF Handler
    <3>5. SoundHandler(q, ToppingUp!Units(p))
      BY <3>1, <3>2, <3>4, UntoldApart DEF SoundHandler, SeemsFailed, Accounted
    <3> QED BY <3>3, <3>4, <3>5
  <2>3. kei' \in Nat
    <3>1. kei \in Nat /\ Payments[p] \in Nat /\ kei' = kei - Payments[p]
      BY <1>1, HandlerFacts DEF ToppingUp!Refund
    <3> QED BY <1>1, <3>1
  <2> HIDE DEF r
  <2> QED BY <2>1, <2>2, <2>3, HandlerFacts, HandlerMoves DEF ToppingUp!Refund
<1>2. CASE ~(kei >= Payments[p])
  BY <1>2, HandlerFacts, ToldSound DEF ToppingUp!Refund
<1> QED BY <1>1, <1>2

LEMMA RefundLostSound ==
    ASSUME TopUpsInv, NEW p \in Paid, ToppingUp!RefundLost(p) PROVE TopUpsInv'
<1>0. mishaps' \in 0 .. MaxMishaps
  <2>1. mishaps \in 0 .. MaxMishaps /\ MaxMishaps \in Nat
    BY HandlerFacts
  <2>2. mishaps < MaxMishaps /\ mishaps' = mishaps + 1
    BY DEF ToppingUp!RefundLost, ToppingUp!Fault
  <2> QED BY <2>1, <2>2
<1>1. CASE /\ kei >= Payments[p] /\ kei' = kei - Payments[p]
           /\ payment' = [payment EXCEPT ![p].pc = "done", ![p].told = "refund failed",
                              ![p].refunded = TRUE, ![p].lost = @ \cup {"refund"}]
  <2> DEFINE r == [payment[p] EXCEPT !.pc = "done", !.told = "refund failed",
                       !.refunded = TRUE, !.lost = @ \cup {"refund"}]
  <2>1. payment' = [payment EXCEPT ![p] = r]
    BY <1>1
  <2>2. r \in Handler /\ SoundHandler(r, ToppingUp!Units(p))
    <3>1. /\ payment[p] \in Handler /\ SoundHandler(payment[p], ToppingUp!Units(p))
          /\ ToppingUp!Units(p) \in Nat
      BY HandlerFacts
    <3>2. payment[p].pc = "refunding"
      BY DEF ToppingUp!RefundLost
    <3>3. PICK q : q = r
      OBVIOUS
    <3>4. /\ q \in Handler
          /\ q.pc = "done" /\ q.minted = payment[p].minted /\ q.refunded = TRUE
          /\ q.lost = payment[p].lost \cup {"refund"} /\ q.told = "refund failed"
      BY <3>1, <3>2, <3>3 DEF Handler
    <3>5. SoundHandler(q, ToppingUp!Units(p))
      BY <3>1, <3>2, <3>4, UntoldApart DEF SoundHandler, SeemsFailed, Accounted
    <3> QED BY <3>3, <3>4, <3>5
  <2>3. kei' \in Nat
    <3>1. kei \in Nat /\ Payments[p] \in Nat
      BY HandlerFacts
    <3>2. kei >= Payments[p] /\ kei' = kei - Payments[p]
      BY <1>1
    <3> QED BY <3>1, <3>2
  <2> HIDE DEF r
  <2> QED BY <1>0, <2>1, <2>2, <2>3, HandlerFacts, HandlerMoves DEF ToppingUp!RefundLost
<1>2. CASE ToppingUp!Told(p, "refund failed") /\ kei' = kei
  BY <1>0, <1>2, ToldSound DEF ToppingUp!RefundLost
<1> QED BY <1>1, <1>2 DEF ToppingUp!RefundLost

LEMMA TellSound ==
    ASSUME TopUpsInv, NEW p \in Paid, ToppingUp!Tell(p) PROVE TopUpsInv'
BY HandlerFacts, ToldSound DEF ToppingUp!Tell

LEMMA RestOfGameSound ==
    ASSUME TopUpsInv, ToppingUp!Unsubscribe \/ ToppingUp!Spend \/ ToppingUp!MintElsewhere
    PROVE  TopUpsInv'
<1>1. /\ kei \in Nat /\ Drain \in Nat /\ sold \in 0 .. TokenCap /\ TokenCap \in Nat
      /\ drained \subseteq {"kei", "units"} /\ listening \in BOOLEAN
  BY ServicesAssumption DEF TopUpsInv
<1>2. CASE ToppingUp!Unsubscribe
  BY <1>1, <1>2, HandlersRest DEF ToppingUp!Unsubscribe
<1>3. CASE ToppingUp!Spend
  BY <1>1, <1>3, HandlersRest DEF ToppingUp!Spend
<1>4. CASE ToppingUp!MintElsewhere
  BY <1>1, <1>4, HandlersRest DEF ToppingUp!MintElsewhere, ToppingUp!HasRoom
<1> QED BY <1>2, <1>3, <1>4

LEMMA TopUpsInitSound == ToppingUp!Init => TopUpsInv
<1> SUFFICES ASSUME ToppingUp!Init PROVE TopUpsInv
  OBVIOUS
<1>1. ASSUME NEW p \in Paid
      PROVE  payment[p] \in Handler /\ SoundHandler(payment[p], ToppingUp!Units(p))
  BY UnitsWorth DEF ToppingUp!Init, ToppingUp!Paid, Paid, Handler, SoundHandler, Untouched
<1>2. payment \in [Paid -> Handler]
  BY <1>1 DEF ToppingUp!Init, ToppingUp!Paid, Paid
<1>3. Opening \in Nat /\ TokenCap \in Nat /\ MaxMishaps \in Nat
  BY ServicesAssumption
<1>4. \A p \in Paid : SoundHandler(payment[p], ToppingUp!Units(p))
  BY <1>1
<1>5. /\ kei = Opening /\ sold = 0 /\ refunds \in BOOLEAN /\ listening = TRUE
      /\ drained = {} /\ mishaps = 0
  BY DEF ToppingUp!Init
<1>6. kei \in Nat /\ sold \in 0 .. TokenCap /\ mishaps \in 0 .. MaxMishaps
  BY <1>3, <1>5
<1> QED BY <1>2, <1>4, <1>5, <1>6 DEF TopUpsInv

LEMMA TopUpsNextSound == TopUpsInv /\ [ToppingUp!Next]_topups => TopUpsInv'
<1> SUFFICES ASSUME TopUpsInv, [ToppingUp!Next]_topups PROVE TopUpsInv'
  OBVIOUS
<1>1. ASSUME NEW p \in Paid,
             \/ ToppingUp!Receive(p) \/ ToppingUp!Mint(p) \/ ToppingUp!MintLost(p)
             \/ ToppingUp!Refresh(p) \/ ToppingUp!RefreshFails(p) \/ ToppingUp!Refund(p)
             \/ ToppingUp!RefundLost(p) \/ ToppingUp!Tell(p)
      PROVE  TopUpsInv'
  BY <1>1, ReceiveSound, MintSound, MintLostSound, RefreshSound, RefreshFailsSound,
     RefundSound, RefundLostSound, TellSound
<1>2. CASE ToppingUp!Unsubscribe \/ ToppingUp!Spend \/ ToppingUp!MintElsewhere
  BY <1>2, RestOfGameSound
<1>3. CASE UNCHANGED topups
  BY <1>3 DEF topups, TopUpsInv
<1> QED BY <1>1, <1>2, <1>3 DEF ToppingUp!Next, ToppingUp!Paid, Paid

LEMMA TopUpsFair == TopUpsInv => ToppingUp!TopUpsAreFair
<1> SUFFICES ASSUME TopUpsInv PROVE ToppingUp!TopUpsAreFair
  OBVIOUS
<1>0. ToppingUp!Paid = Paid
  BY DEF ToppingUp!Paid, Paid
<1>1. ToppingUp!TypeOK
  BY <1>0 DEF TopUpsInv, ToppingUp!TypeOK, Handler
<1>2. ToppingUp!NothingKeptForNothing
  BY <1>0, HandlerFacts, UntoldApart DEF ToppingUp!NothingKeptForNothing, Handler, SoundHandler, Accounted
<1>3. ToppingUp!ToldOfRefunds
  BY <1>0, HandlerFacts, UntoldApart
     DEF ToppingUp!ToldOfRefunds, Handler, SoundHandler, Accounted, Untouched, SeemsFailed
<1>4. ToppingUp!NeverRoundedUp
  <2> SUFFICES ASSUME NEW p \in Paid, payment[p].minted > 0
               PROVE LET worth == Payments[p] * Rate.digits * Tens[TokenDecimals]
                         unit == Tens[KeiDecimals + Rate.decimals]
                     IN /\ payment[p].minted * unit <= worth
                        /\ worth < (payment[p].minted + 1) * unit
    BY <1>0, SameTens DEF ToppingUp!NeverRoundedUp
  <2>1. payment[p].minted = ToppingUp!Units(p)
    <3>1. payment[p].minted \in {0, ToppingUp!Units(p)}
      BY HandlerFacts DEF SoundHandler
    <3> QED BY <3>1
  <2> QED BY <2>1, UnitsWorth
<1> QED BY <1>1, <1>2, <1>3, <1>4 DEF ToppingUp!TopUpsAreFair

\* What a player pays is minted for, returned, or accounted for to the game, in
\* any order of any number of payments (acceptTopUps).
THEOREM TopUpsStayFair ==
    ToppingUp!Init /\ [][ToppingUp!Next]_topups => []ToppingUp!TopUpsAreFair
BY TopUpsInitSound, TopUpsNextSound, TopUpsFair, PTL

-----------------------------------------------------------------------------
(***************************************************************************)
(* The inventories.                                                        *)
(***************************************************************************)
\* What a list has of a set, in the order of the list (Only).
LEMMA OnlyOfLine ==
    ASSUME NEW A, NEW s \in Line(A), NEW B
    PROVE  /\ Inventory!Only(s, B) \in Line(A)
           /\ Elems(Inventory!Only(s, B)) = B \cap Elems(s)
<1> DEFINE Is(K) == K = [i \in 0 .. Len(s) |->
                          IF i = 0 THEN <<>>
                          ELSE IF s[i] \in B THEN Append(K[i - 1], s[i]) ELSE K[i - 1]]
           it == CHOOSE K : Is(K)
<1>1. Inventory!Only(s, B) = it[Len(s)]
  BY DEF Inventory!Only
<1>2. PICK K \in [0 .. Len(s) -> Seq(A)] : KeptUpTo(K, s, B, Len(s))
  BY KeptExists
<1>3. Is(K)
  BY <1>2 DEF KeptUpTo
<1>4. Is(it)
  <2> HIDE DEF Is
  <2> QED BY <1>3
<1>5. KeptUpTo(it, s, B, Len(s))
  <2> HIDE DEF it
  <2> QED BY <1>4 DEF KeptUpTo
<1> HIDE DEF it
<1>6. it[Len(s)] \in Line(A) /\ Elems(it[Len(s)]) = B \cap Elems(s)
  BY <1>5, KeptIsALine
<1> QED BY <1>1, <1>6

\* The cache's own words for the same.
LEMMA CacheWords ==
    ASSUME NEW A, NEW s \in Line(A)
    PROVE  /\ Inventory!ToSet(s) = Elems(s)
           /\ Inventory!IsInjective(s)
           /\ \A x \in A : Inventory!Contains(s, x) <=> x \in Elems(s)
BY LineFacts DEF Inventory!ToSet, Inventory!IsInjective, Inventory!Contains, Elems, Once

Lookups == {"no", "waiting", "asked", "found", "nothing", "failed"}

Scanning == [pc : {"ready", "waiting", "done", "threw"}, wants : SUBSET Things,
             out : SUBSET Things, waits : SUBSET Things, late : SUBSET Things]

Those(asks, pc) == {a \in Things : asks[a] = pc}

\* A scan waits only for what is being looked up, and what it lacks it waits for
\* or may miss; it may miss what it waits for if the node did not know of it.
SoundScan(s, asks, gone) ==
    /\ \A a \in s.waits : asks[a] # "no"
    /\ s.pc = "waiting" <=> s.waits # {}
    /\ s.pc \in {"waiting", "done"} => s.wants \ s.out \subseteq s.waits \cup s.late
    /\ \A a \in s.waits : asks[a] = "nothing" \/ a \in gone => a \in s.late

\* The slots and the line for them.
SoundGate(asks, line, slots) ==
    /\ asks \in [Things -> Lookups]
    /\ line \in Line(Things)
    /\ slots = Cardinality(Those(asks, "asked")) /\ slots \in 0 .. Concurrency
    /\ Elems(line) = Those(asks, "waiting")
    /\ line # <<>> => slots = Concurrency

\* What is being looked up is not remembered.
SoundMemory(list, asks) ==
    /\ list \in Line(Things) /\ Len(list) <= CacheLimit
    /\ \A a \in Things : asks[a] # "no" => a \notin Elems(list)

InventoryInv ==
    /\ SoundGate(asking, waiting, held)
    /\ SoundMemory(remembered, asking)
    /\ scan \in [Scans -> Scanning]
    /\ \A c \in Scans : SoundScan(scan[c], asking, absent)
    /\ absent \subseteq Things
    /\ failures \in 0 .. MaxFailures

LEMMA InventoryInitSound == Inventory!Init => InventoryInv
<1> SUFFICES ASSUME Inventory!Init PROVE InventoryInv
  OBVIOUS
<1>1. asking \in [Things -> Lookups] /\ \A a \in Things : asking[a] = "no"
  BY DEF Inventory!Init, Lookups
<1>2. Those(asking, "asked") = {} /\ Those(asking, "waiting") = {}
  BY <1>1 DEF Those
<1>3. Concurrency \in Nat /\ CacheLimit \in Nat /\ MaxFailures \in Nat
  BY ServicesAssumption
<1>4. waiting = <<>> /\ held = 0 /\ remembered = <<>> /\ failures = 0 /\ absent \subseteq Things
  BY DEF Inventory!Init
<1>E. <<>> \in Line(Things) /\ Elems(<<>>) = {} /\ Len(<<>>) = 0 /\ Cardinality({}) = 0
  BY EmptyLine, FS_EmptySet
<1>5. SoundGate(asking, waiting, held)
  <2>1. waiting \in Line(Things) /\ Elems(waiting) = {}
    BY <1>4, <1>E
  <2>2. held = Cardinality(Those(asking, "asked")) /\ held \in 0 .. Concurrency
    <3>1. held = 0 /\ Cardinality(Those(asking, "asked")) = 0
      BY <1>2, <1>4, FS_EmptySet
    <3> QED BY <1>3, <3>1
  <2> QED BY <1>1, <1>2, <1>4, <2>1, <2>2 DEF SoundGate
<1>6. SoundMemory(remembered, asking)
  BY <1>1, <1>3, <1>4, <1>E DEF SoundMemory
<1>7. scan = [c \in Scans |-> [pc |-> "ready", wants |-> {}, out |-> {}, waits |-> {}, late |-> {}]]
  BY DEF Inventory!Init
<1>8. scan \in [Scans -> Scanning] /\ \A c \in Scans : SoundScan(scan[c], asking, absent)
  BY <1>7 DEF Scanning, SoundScan
<1> QED BY <1>3, <1>4, <1>5, <1>6, <1>8 DEF InventoryInv

\* Things are finitely many, and so are those at any stage of a lookup.
LEMMA ThoseFinite ==
    ASSUME NEW asks, NEW pc
    PROVE  IsFiniteSet(Those(asks, pc)) /\ Cardinality(Those(asks, pc)) \in Nat
<1>1. IsFiniteSet(Things) /\ Those(asks, pc) \subseteq Things
  BY ServicesAssumption DEF Those
<1> QED BY <1>1, FS_Subset, FS_CardinalityType

\* Scans that do not move stay sound when lookups only go forward.
LEMMA ScanRests ==
    ASSUME NEW s \in Scanning, NEW asks, NEW next, NEW gone, NEW left,
           SoundScan(s, asks, gone), left \subseteq gone,
           \A a \in s.waits : /\ asks[a] # "no" => next[a] # "no"
                              /\ next[a] = "nothing" => asks[a] = "nothing" \/ a \in gone
    PROVE  SoundScan(s, next, left)
BY DEF SoundScan

\* The slot of a lookup that ends goes to the first in line, or is free.
LEMMA ReleaseSound ==
    ASSUME SoundGate(asking, waiting, held), NEW a \in Things, asking[a] = "asked",
           NEW answer \in {"found", "nothing", "failed"}, Inventory!Released(a, answer)
    PROVE  /\ SoundGate(asking', waiting', held')
           /\ asking'[a] = answer
           /\ \A b \in Things \ {a} : asking'[b] = asking[b] \/ (asking[b] = "waiting" /\ asking'[b] = "asked")
<1>0. /\ asking \in [Things -> Lookups] /\ waiting \in Line(Things) /\ Concurrency \in Nat
      /\ held \in 0 .. Concurrency /\ answer \in Lookups /\ "asked" \in Lookups
  BY ServicesAssumption DEF SoundGate, Lookups
<1>1. IsFiniteSet(Those(asking, "asked")) /\ a \in Those(asking, "asked")
  BY ThoseFinite DEF Those
<1>2. /\ Cardinality(Those(asking, "asked") \ {a}) = held - 1
      /\ IsFiniteSet(Those(asking, "asked") \ {a})
  BY <1>1, FS_RemoveElement DEF SoundGate
<1>3. CASE waiting # <<>>
  <2> DEFINE h == Head(waiting)
  <2>1. /\ asking' = [asking EXCEPT ![a] = answer, ![h] = "asked"]
        /\ waiting' = Tail(waiting) /\ held' = held
    BY <1>3 DEF Inventory!Released
  <2>2. h \in Elems(waiting) /\ Tail(waiting) \in Line(Things) /\ Elems(Tail(waiting)) = Elems(waiting) \ {h}
    BY <1>0, <1>3, FirstInLine
  <2>3. h \in Things /\ asking[h] = "waiting" /\ h # a
    BY <2>2 DEF SoundGate, Those
  <2> HIDE DEF h
  <2>4. /\ asking' \in [Things -> Lookups] /\ asking'[a] = answer /\ asking'[h] = "asked"
        /\ \A b \in Things \ {a, h} : asking'[b] = asking[b]
    BY <1>0, <2>1, <2>3
  <2>5. Those(asking', "asked") = (Those(asking, "asked") \ {a}) \cup {h}
    BY <2>3, <2>4 DEF Those
  <2>6. Those(asking', "waiting") = Those(asking, "waiting") \ {h}
    BY <2>3, <2>4 DEF Those
  <2>7. Cardinality(Those(asking', "asked")) = held
    <3>1. h \notin Those(asking, "asked") \ {a}
      BY <2>3 DEF Those
    <3>2. Cardinality((Those(asking, "asked") \ {a}) \cup {h}) = (held - 1) + 1
      BY <1>2, <3>1, FS_AddElement
    <3> QED BY <1>0, <2>5, <3>2
  <2> QED BY <1>0, <1>3, <2>1, <2>2, <2>3, <2>4, <2>6, <2>7 DEF SoundGate
<1>4. CASE waiting = <<>>
  <2>1. /\ asking' = [asking EXCEPT ![a] = answer]
        /\ waiting' = waiting /\ held' = held - 1
    BY <1>4 DEF Inventory!Released
  <2>2. /\ asking' \in [Things -> Lookups] /\ asking'[a] = answer
        /\ \A b \in Things \ {a} : asking'[b] = asking[b]
    BY <1>0, <2>1
  <2>3. Those(asking', "asked") = Those(asking, "asked") \ {a}
    BY <2>2 DEF Those
  <2>4. Those(asking', "waiting") = Those(asking, "waiting")
    BY <2>2 DEF Those
  <2>5. Cardinality(Those(asking', "asked")) \in Nat
    BY ThoseFinite
  <2>6. held' \in 0 .. Concurrency
    BY <1>0, <1>2, <2>1, <2>3, <2>5
  <2> QED BY <1>2, <1>4, <2>1, <2>2, <2>3, <2>4, <2>6 DEF SoundGate
<1> QED BY <1>3, <1>4

\* The node answers, or the request breaks.
LEMMA EndSound ==
    ASSUME InventoryInv, NEW a \in Things, Inventory!Answered(a) \/ Inventory!Fails(a)
    PROVE  InventoryInv'
<1>1. PICK answer \in {"found", "nothing", "failed"} :
        /\ Inventory!Released(a, answer)
        /\ answer = "nothing" => a \in absent
  BY DEF Inventory!Answered, Inventory!Fails
<1>2. /\ asking[a] = "asked" /\ remembered' = remembered /\ scan' = scan /\ absent' = absent
      /\ failures' \in 0 .. MaxFailures
  <2>1. MaxFailures \in Nat /\ failures \in 0 .. MaxFailures
    BY ServicesAssumption DEF InventoryInv
  <2> QED BY <2>1 DEF Inventory!Answered, Inventory!Fails
<1>3. /\ SoundGate(asking', waiting', held')
      /\ asking'[a] = answer
      /\ \A b \in Things \ {a} : asking'[b] = asking[b] \/ (asking[b] = "waiting" /\ asking'[b] = "asked")
  BY <1>1, <1>2, ReleaseSound DEF InventoryInv
<1>4. SoundMemory(remembered', asking')
  BY <1>2, <1>3 DEF SoundMemory, InventoryInv
<1>5. ASSUME NEW c \in Scans PROVE SoundScan(scan'[c], asking', absent')
  <2>1. scan[c] \in Scanning /\ SoundScan(scan[c], asking, absent)
    BY DEF InventoryInv
  <2>2. scan[c].waits \subseteq Things
    BY <2>1 DEF Scanning
  <2>3. \A b \in scan[c].waits : /\ asking[b] # "no" => asking'[b] # "no"
                                 /\ asking'[b] = "nothing" => asking[b] = "nothing" \/ b \in absent
    BY <1>1, <1>3, <2>2
  <2> QED BY <1>2, <2>1, <2>3, ScanRests
<1> QED BY <1>2, <1>3, <1>4, <1>5 DEF InventoryInv

\* The promise of a lookup settles.
LEMMA SettleSound ==
    ASSUME InventoryInv, NEW a \in Things, Inventory!Settle(a)
    PROVE  InventoryInv'
<1>1. /\ asking[a] \in {"found", "nothing", "failed"}
      /\ asking' = [asking EXCEPT ![a] = "no"]
      /\ remembered' = IF asking[a] = "found" THEN Inventory!Remember(a) ELSE remembered
      /\ scan' = [c \in Scans |-> Inventory!Goes(scan[c], a)]
      /\ waiting' = waiting /\ held' = held /\ absent' = absent /\ failures' = failures
  BY DEF Inventory!Settle, Inventory!Answers
<1>2. asking \in [Things -> Lookups]
  BY DEF InventoryInv, SoundGate
<1>3. /\ asking' \in [Things -> Lookups] /\ asking'[a] = "no"
      /\ \A b \in Things \ {a} : asking'[b] = asking[b]
  BY <1>1, <1>2 DEF Lookups
<1>4. Those(asking', "asked") = Those(asking, "asked") /\ Those(asking', "waiting") = Those(asking, "waiting")
  BY <1>1, <1>3 DEF Those
<1>5. SoundGate(asking', waiting', held')
  BY <1>1, <1>3, <1>4 DEF InventoryInv, SoundGate
<1>6. SoundMemory(remembered', asking')
  <2>0. /\ remembered \in Line(Things) /\ Len(remembered) <= CacheLimit /\ Len(remembered) \in Nat
        /\ a \notin Elems(remembered) /\ \A b \in Things : asking[b] # "no" => b \notin Elems(remembered)
    BY <1>1, LineFacts DEF InventoryInv, SoundMemory
  <2>1. CASE asking[a] # "found"
    BY <1>1, <1>3, <2>0, <2>1 DEF SoundMemory
  <2>2. CASE asking[a] = "found"
    <3> DEFINE grown == Append(remembered, a)
               m == IF Len(grown) > CacheLimit THEN 2 ELSE 1
    <3>1. /\ grown \in Line(Things) /\ Len(grown) = Len(remembered) + 1
          /\ Elems(grown) = Elems(remembered) \cup {a}
      BY <2>0, JoinLine
    <3>2. remembered' = SubSeq(grown, m, Len(grown))
      BY <1>1, <2>2 DEF Inventory!Remember
    <3> HIDE DEF grown
    <3>3. CacheLimit \in Nat /\ m \in Nat \ {0} /\ Len(grown) \in 0 .. Len(grown)
      <4>1. CacheLimit \in Nat
        BY ServicesAssumption
      <4> QED BY <2>0, <3>1, <4>1
    <3>4. /\ SubSeq(grown, m, Len(grown)) \in Line(Things)
          /\ Len(SubSeq(grown, m, Len(grown))) = IF m <= Len(grown) THEN Len(grown) - m + 1 ELSE 0
          /\ Elems(SubSeq(grown, m, Len(grown))) = {grown[i] : i \in m .. Len(grown)}
      <4> HIDE DEF m
      <4> QED BY <3>1, <3>3, PieceOfLine
    <3>5. Len(SubSeq(grown, m, Len(grown))) <= CacheLimit
      BY <2>0, <3>1, <3>3, <3>4
    <3>6. {grown[i] : i \in m .. Len(grown)} \subseteq Elems(grown)
      <4>1. \A i \in m .. Len(grown) : i \in 1 .. Len(grown)
        BY <2>0, <3>1, <3>3
      <4> QED BY <4>1 DEF Elems
    <3>7. \A b \in Things : asking'[b] # "no" => b \notin Elems(remembered) \cup {a}
      BY <1>3, <2>0
    <3> HIDE DEF m
    <3> QED BY <3>1, <3>2, <3>4, <3>5, <3>6, <3>7 DEF SoundMemory
  <2> QED BY <2>1, <2>2
<1>7. ASSUME NEW c \in Scans
      PROVE  /\ Inventory!Goes(scan[c], a) \in Scanning
             /\ SoundScan(Inventory!Goes(scan[c], a), asking', absent)
  <2>1. PICK s : s = scan[c]
    OBVIOUS
  <2>2. s \in Scanning /\ SoundScan(s, asking, absent)
    BY <2>1 DEF InventoryInv
  <2>3. \A b \in s.waits \ {a} : asking'[b] = asking[b]
    BY <1>3, <2>2 DEF Scanning
  <2>4. CASE a \notin s.waits
    <3>1. Inventory!Goes(s, a) = s
      BY <2>4 DEF Inventory!Goes
    <3> QED BY <2>1, <2>2, <2>3, <2>4, <3>1 DEF SoundScan
  <2>5. CASE a \in s.waits /\ asking[a] = "failed"
    <3>1. PICK r : r = [s EXCEPT !.pc = "threw", !.waits = {}]
      OBVIOUS
    <3>2. Inventory!Goes(s, a) = r
      BY <2>5, <3>1 DEF Inventory!Goes
    <3>3. r \in Scanning /\ r.pc = "threw" /\ r.waits = {}
      BY <2>2, <3>1 DEF Scanning
    <3>4. SoundScan(r, asking', absent)
      BY <3>3 DEF SoundScan
    <3> QED BY <2>1, <3>2, <3>3, <3>4
  <2>6. CASE a \in s.waits /\ asking[a] # "failed"
    <3>1. PICK r : r = [s EXCEPT !.waits = @ \ {a},
                                 !.out = IF asking[a] = "found" THEN @ \cup {a} ELSE @,
                                 !.pc = IF s.waits = {a} THEN "done" ELSE @]
      OBVIOUS
    <3>2. Inventory!Goes(s, a) = r
      BY <2>6, <3>1 DEF Inventory!Goes
    <3>3. /\ r.waits = s.waits \ {a} /\ r.late = s.late /\ r.wants = s.wants
          /\ r.out = IF asking[a] = "found" THEN s.out \cup {a} ELSE s.out
          /\ r.pc = IF s.waits = {a} THEN "done" ELSE s.pc
          /\ r \in Scanning
      BY <2>2, <3>1 DEF Scanning
    <3>4. s.pc = "waiting" /\ s.wants \ s.out \subseteq s.waits \cup s.late
      BY <2>2, <2>6 DEF SoundScan
    <3>5. asking[a] = "found" \/ a \in s.late
      BY <1>1, <2>2, <2>6 DEF SoundScan
    <3>6. r.wants \ r.out \subseteq r.waits \cup r.late
      BY <3>3, <3>4, <3>5
    <3>7. r.pc = "waiting" <=> r.waits # {}
      BY <2>6, <3>3, <3>4
    <3>8. \A b \in r.waits : asking'[b] # "no" /\ (asking'[b] = "nothing" \/ b \in absent => b \in r.late)
      BY <2>2, <2>3, <3>3 DEF SoundScan
    <3>9. SoundScan(r, asking', absent)
      BY <3>6, <3>7, <3>8 DEF SoundScan
    <3> QED BY <2>1, <3>2, <3>3, <3>9
  <2> QED BY <2>4, <2>5, <2>6
<1>8. scan' \in [Scans -> Scanning] /\ \A c \in Scans : SoundScan(scan'[c], asking', absent')
  BY <1>1, <1>7
<1> QED BY <1>1, <1>5, <1>6, <1>8 DEF InventoryInv

\* The node catches up.
LEMMA IssuedSound ==
    ASSUME InventoryInv, NEW a \in Things, Inventory!Issued(a)
    PROVE  InventoryInv'
<1>1. /\ absent' = absent \ {a}
      /\ remembered' = remembered /\ asking' = asking /\ waiting' = waiting
      /\ held' = held /\ scan' = scan /\ failures' = failures
  BY DEF Inventory!Issued
<1>2. \A c \in Scans : SoundScan(scan'[c], asking', absent')
  BY <1>1 DEF InventoryInv, SoundScan
<1> QED BY <1>1, <1>2 DEF InventoryInv

\* What a new scan does to the slots and the line, whatever is not looked up yet
\* among the things it asks for.
LEMMA QueueSound ==
    ASSUME SoundGate(asking, waiting, held),
           NEW fresh \in Line(Things), Elems(fresh) \subseteq Those(asking, "no"),
           NEW room, room = (IF Len(fresh) < Concurrency - held THEN Len(fresh) ELSE Concurrency - held),
           NEW front, front = SubSeq(fresh, 1, room),
           NEW rest, rest = SubSeq(fresh, room + 1, Len(fresh)),
           NEW asks, asks = [a \in Things |-> IF a \in Elems(front) THEN "asked"
                                              ELSE IF a \in Elems(fresh) THEN "waiting" ELSE asking[a]]
    PROVE  SoundGate(asks, waiting \o rest, held + room)
<1>0. /\ asking \in [Things -> Lookups] /\ waiting \in Line(Things)
      /\ Concurrency \in Nat /\ held \in 0 .. Concurrency /\ Len(fresh) \in Nat
      /\ Once(fresh) /\ Elems(fresh) \subseteq Things
  BY ServicesAssumption, LineFacts DEF SoundGate
<1>1. room \in 0 .. Len(fresh) /\ held + room \in 0 .. Concurrency /\ room \in Nat /\ 1 \in Nat \ {0}
      /\ room + 1 \in Nat \ {0} /\ Len(fresh) \in 0 .. Len(fresh)
  BY <1>0
<1>2. front \in Line(Things) /\ Elems(front) = {fresh[i] : i \in 1 .. room} /\ Len(front) = room
  <2>1. PICK m \in Nat \ {0}, n \in 0 .. Len(fresh) : m = 1 /\ n = room
    BY <1>1
  <2>2. /\ SubSeq(fresh, m, n) \in Line(Things)
        /\ Len(SubSeq(fresh, m, n)) = IF m <= n THEN n - m + 1 ELSE 0
        /\ Elems(SubSeq(fresh, m, n)) = {fresh[i] : i \in m .. n}
    BY PieceOfLine
  <2>3. (IF m <= n THEN n - m + 1 ELSE 0) = room
    BY <1>0, <1>1, <2>1
  <2> QED BY <2>1, <2>2, <2>3
<1>3. /\ rest \in Line(Things) /\ Elems(rest) = {fresh[i] : i \in room + 1 .. Len(fresh)}
      /\ Len(rest) = Len(fresh) - room
  <2>1. PICK m \in Nat \ {0}, n \in 0 .. Len(fresh) : m = room + 1 /\ n = Len(fresh)
    BY <1>1
  <2>2. /\ SubSeq(fresh, m, n) \in Line(Things)
        /\ Len(SubSeq(fresh, m, n)) = IF m <= n THEN n - m + 1 ELSE 0
        /\ Elems(SubSeq(fresh, m, n)) = {fresh[i] : i \in m .. n}
    BY PieceOfLine
  <2>3. (IF m <= n THEN n - m + 1 ELSE 0) = Len(fresh) - room
    <3>1. PICK k \in Nat, l \in Nat : k = room /\ l = Len(fresh) /\ k <= l
      BY <1>0, <1>1
    <3>2. (IF k + 1 <= l THEN l - (k + 1) + 1 ELSE 0) = l - k
      BY <3>1
    <3> QED BY <2>1, <3>1, <3>2
  <2> QED BY <2>1, <2>2, <2>3
<1>4. Elems(front) \cup Elems(rest) = Elems(fresh) /\ Elems(front) \cap Elems(rest) = {}
  <2>1. 1 .. Len(fresh) = (1 .. room) \cup (room + 1 .. Len(fresh))
    BY <1>0, <1>1
  <2>2. \A i \in 1 .. room, j \in room + 1 .. Len(fresh) : fresh[i] # fresh[j]
    BY <1>0, <1>1, <2>1 DEF Once
  <2>3. Elems(front) \cap Elems(rest) = {}
    BY <1>2, <1>3, <2>2
  <2>4. Elems(fresh) = {fresh[i] : i \in 1 .. Len(fresh)}
    BY DEF Elems
  <2>5. Elems(front) \cup Elems(rest) = Elems(fresh)
    <3>1. {fresh[i] : i \in (1 .. room) \cup (room + 1 .. Len(fresh))}
            = {fresh[i] : i \in 1 .. room} \cup {fresh[i] : i \in room + 1 .. Len(fresh)}
      OBVIOUS
    <3> QED BY <1>2, <1>3, <2>1, <2>4, <3>1
  <2> QED BY <2>3, <2>5
<1>5. \A a \in Things : a \in Elems(fresh) => asking[a] = "no"
  BY DEF Those
<1>6. asks \in [Things -> Lookups]
  BY <1>0 DEF Lookups
<1>7. Those(asks, "asked") = Those(asking, "asked") \cup Elems(front)
  BY <1>0, <1>4, <1>5 DEF Those
<1>8. Those(asks, "waiting") = Those(asking, "waiting") \cup Elems(rest)
  BY <1>0, <1>4, <1>5 DEF Those
<1>9. held + room = Cardinality(Those(asks, "asked"))
  <2>1. IsFiniteSet(Elems(front)) /\ Cardinality(Elems(front)) = room
    BY <1>2, LineCount
  <2>2. Those(asking, "asked") \cap Elems(front) = {}
    BY <1>4, <1>5 DEF Those
  <2>3. IsFiniteSet(Those(asking, "asked")) /\ held = Cardinality(Those(asking, "asked"))
    BY ThoseFinite DEF SoundGate
  <2>4. Cardinality(Those(asking, "asked") \cup Elems(front)) = held + room
    <3>1. Cardinality({}) = 0 /\ held \in Nat /\ room \in Nat
      BY <1>0, <1>1, FS_EmptySet
    <3>2. Cardinality(Those(asking, "asked") \cup Elems(front))
            = Cardinality(Those(asking, "asked")) + Cardinality(Elems(front))
                - Cardinality(Those(asking, "asked") \cap Elems(front))
      BY <2>1, <2>3, FS_Union
    <3>3. Cardinality(Those(asking, "asked") \cap Elems(front)) = 0
      BY <2>2, <3>1
    <3>4. Cardinality(Those(asking, "asked")) = held /\ Cardinality(Elems(front)) = room
      BY <2>1, <2>3
    <3>5. Cardinality(Those(asking, "asked") \cup Elems(front)) = held + (room - 0)
      BY <3>2, <3>3, <3>4
    <3> QED BY <3>1, <3>5
  <2> QED BY <1>7, <2>4
<1>10. /\ waiting \o rest \in Line(Things) /\ Len(waiting \o rest) = Len(waiting) + Len(rest)
       /\ Elems(waiting \o rest) = Elems(waiting) \cup Elems(rest)
  <2>1. Elems(waiting) \cap Elems(rest) = {}
    BY <1>4, <1>5 DEF SoundGate, Those
  <2> QED BY <1>0, <1>3, <2>1, LinesJoin
<1>11. ASSUME waiting \o rest # <<>> PROVE held + room = Concurrency
  <2>1. Len(waiting) \in Nat /\ (Len(waiting) = 0 <=> waiting = <<>>) /\ (Len(waiting \o rest) = 0 <=> waiting \o rest = <<>>)
    BY <1>0, <1>10, LineFacts, NobodyInLine
  <2>2. Len(waiting) # 0 \/ Len(rest) # 0
    <3>1. Len(waiting) + Len(rest) # 0
      BY <1>10, <1>11, <2>1
    <3>2. Len(fresh) \in Nat /\ room \in Nat /\ room <= Len(fresh)
      BY <1>0, <1>1
    <3>3. Len(rest) \in Nat
      BY <1>3, <3>2
    <3>4. Len(waiting) \in Nat
      BY <2>1
    <3>5. \A m, n \in Nat : m + n # 0 => m # 0 \/ n # 0
      OBVIOUS
    <3> QED BY <3>1, <3>3, <3>4, <3>5, Zenon
  <2>3. CASE Len(waiting) # 0
    <3>1. held = Concurrency
      BY <2>1, <2>3 DEF SoundGate
    <3> QED BY <1>0, <1>1, <3>1
  <2>4. CASE Len(rest) # 0
    <3>1. Len(fresh) \in Nat /\ room \in Nat /\ room <= Len(fresh) /\ Concurrency \in Nat /\ held \in Nat
      BY <1>0, <1>1
    <3>2. room # Len(fresh)
      BY <1>3, <2>4, <3>1
    <3>3. room = Concurrency - held
      BY <3>2
    <3> QED BY <3>1, <3>3
  <2> QED BY <2>2, <2>3, <2>4
<1>12. Elems(waiting) = Those(asking, "waiting")
  BY DEF SoundGate
<1> QED BY <1>1, <1>6, <1>8, <1>9, <1>10, <1>11, <1>12 DEF SoundGate

\* What is used again moves to the end, and nothing is forgotten or added.
LEMMA RecallSound ==
    ASSUME NEW list \in Line(Things), remembered \in Line(Things)
    PROVE  /\ Inventory!Recalled(list) \in Line(Things)
           /\ Elems(Inventory!Recalled(list)) = Elems(remembered)
           /\ Len(Inventory!Recalled(list)) = Len(remembered)
<1> DEFINE old == Inventory!Only(remembered, Things \ Elems(list))
           again == Inventory!Only(list, Elems(remembered))
<1>1. Inventory!Recalled(list) = old \o again
  <2>1. Inventory!ToSet(list) = Elems(list) /\ Inventory!ToSet(remembered) = Elems(remembered)
    BY CacheWords
  <2> QED BY <2>1 DEF Inventory!Recalled
<1>2. old \in Line(Things) /\ Elems(old) = (Things \ Elems(list)) \cap Elems(remembered)
  BY OnlyOfLine
<1>3. again \in Line(Things) /\ Elems(again) = Elems(remembered) \cap Elems(list)
  BY OnlyOfLine
<1> HIDE DEF old, again
<1>4. old \o again \in Line(Things) /\ Elems(old \o again) = Elems(old) \cup Elems(again)
  BY <1>2, <1>3, LinesJoin
<1>5. Elems(old \o again) = Elems(remembered)
  <2>1. Elems(remembered) \subseteq Things
    BY LineFacts
  <2> QED BY <1>2, <1>3, <1>4, <2>1
<1>6. Len(old \o again) = Cardinality(Elems(old \o again)) /\ Len(remembered) = Cardinality(Elems(remembered))
  BY <1>4, LineCount
<1> QED BY <1>1, <1>4, <1>5, <1>6

\* A list that a scan may be about is a line.
LEMMA ListsAreLines == Lists \subseteq Line(Things)
<1> SUFFICES ASSUME NEW list \in Lists PROVE list \in Line(Things)
  OBVIOUS
<1>1. list \in Seq(Things) /\ \A i, j \in DOMAIN list : list[i] = list[j] => i = j
  BY ServicesAssumption
<1>2. DOMAIN list = 1 .. Len(list)
  BY <1>1, LenProperties
<1> QED BY <1>1, <1>2 DEF Line, Once

\* A scan begins.
LEMMA ResolveSound ==
    ASSUME InventoryInv, NEW c \in Scans, NEW list \in Lists, Inventory!Resolve(c, list)
    PROVE  InventoryInv'
<1> DEFINE missing == Elems(list) \ Elems(remembered)
           fresh == Inventory!Only(list, missing \cap Those(asking, "no"))
           room == IF Len(fresh) < Concurrency - held THEN Len(fresh) ELSE Concurrency - held
           front == SubSeq(fresh, 1, room)
           rest == SubSeq(fresh, room + 1, Len(fresh))
           new == [pc |-> IF missing = {} THEN "done" ELSE "waiting", wants |-> Elems(list),
                   out |-> Elems(list) \ missing, waits |-> missing,
                   late |-> missing \cap (absent \cup Those(asking, "nothing"))]
<1>1. list \in Line(Things) /\ remembered \in Line(Things) /\ Elems(list) \subseteq Things
  BY ListsAreLines, LineFacts DEF InventoryInv, SoundMemory
<1>2. fresh \in Line(Things) /\ Elems(fresh) = missing \cap Those(asking, "no")
  <2>1. Elems(fresh) = (missing \cap Those(asking, "no")) \cap Elems(list)
    BY <1>1, OnlyOfLine
  <2> QED BY <1>1, <2>1, OnlyOfLine
<1>3. room \in 0 .. Len(fresh) /\ 1 \in Nat \ {0}
  <2>1. Len(fresh) \in Nat
    BY <1>2, LineFacts
  <2>2. Concurrency \in Nat
    BY ServicesAssumption
  <2>3. held \in 0 .. Concurrency
    BY DEF InventoryInv, SoundGate
  <2> HIDE DEF fresh
  <2> QED BY <2>1, <2>2, <2>3
<1> DEFINE lacks == Inventory!ToSet(list) \ Inventory!ToSet(remembered)
           asked == Inventory!Only(list, lacks \cap Inventory!In("no"))
           slots == IF Len(asked) < Concurrency - held THEN Len(asked) ELSE Concurrency - held
<1>4. /\ remembered' = Inventory!Recalled(list)
      /\ asking' = [a \in Things |-> IF a \in Inventory!ToSet(SubSeq(asked, 1, slots)) THEN "asked"
                                     ELSE IF Inventory!Contains(asked, a) THEN "waiting" ELSE asking[a]]
      /\ waiting' = waiting \o SubSeq(asked, slots + 1, Len(asked)) /\ held' = held + slots
      /\ scan' = [scan EXCEPT ![c] =
                   [pc |-> IF lacks = {} THEN "done" ELSE "waiting", wants |-> Inventory!ToSet(list),
                    out |-> Inventory!ToSet(list) \ lacks, waits |-> lacks,
                    late |-> lacks \cap (absent \cup Inventory!In("nothing"))]]
      /\ absent' = absent /\ failures' = failures
  BY DEF Inventory!Resolve
<1>5. /\ Inventory!ToSet(list) = Elems(list) /\ lacks = missing
      /\ Inventory!In("no") = Those(asking, "no") /\ Inventory!In("nothing") = Those(asking, "nothing")
  <2>1. Inventory!ToSet(list) = Elems(list) /\ Inventory!ToSet(remembered) = Elems(remembered)
    BY <1>1, CacheWords
  <2> QED BY <2>1 DEF Inventory!In, Those
<1>6. asked = fresh
  <2> HIDE DEF lacks, missing
  <2> QED BY <1>5
<1> HIDE DEF asked
<1>7. slots = room
  <2> HIDE DEF fresh
  <2> QED BY <1>6
<1> HIDE DEF slots, room
<1>8. SubSeq(asked, 1, slots) = front /\ SubSeq(asked, slots + 1, Len(asked)) = rest
  <2> HIDE DEF fresh
  <2> QED BY <1>6, <1>7
<1>9. front \in Line(Things) /\ Inventory!ToSet(front) = Elems(front)
  <2>1. front \in Line(Things)
    <3> HIDE DEF fresh
    <3> QED BY <1>2, <1>3, PieceOfLine
  <2> HIDE DEF front
  <2> QED BY <2>1, CacheWords
<1> HIDE DEF fresh, front, rest, lacks
<1>10. \A a \in Things : Inventory!Contains(asked, a) <=> a \in Elems(fresh)
  BY <1>2, <1>6, CacheWords
<1>11. asking' = [a \in Things |-> IF a \in Elems(front) THEN "asked"
                                  ELSE IF a \in Elems(fresh) THEN "waiting" ELSE asking[a]]
  BY <1>4, <1>8, <1>9, <1>10
<1>12. waiting' = waiting \o rest /\ held' = held + room
  BY <1>4, <1>7, <1>8
<1>13. scan' = [scan EXCEPT ![c] = new]
  <2> HIDE DEF missing
  <2>1. new = [pc |-> IF lacks = {} THEN "done" ELSE "waiting", wants |-> Inventory!ToSet(list),
               out |-> Inventory!ToSet(list) \ lacks, waits |-> lacks,
               late |-> lacks \cap (absent \cup Inventory!In("nothing"))]
    BY <1>5
  <2> HIDE DEF new
  <2> QED BY <1>4, <2>1
<1> HIDE DEF fresh, room, front, rest, new
<1>14. SoundGate(asking', waiting', held')
  <2>1. Elems(fresh) \subseteq Those(asking, "no")
    BY <1>2
  <2>2. SoundGate(asking, waiting, held)
    BY DEF InventoryInv
  <2>3. SoundGate(asking', waiting \o rest, held + room)
    BY <1>2, <1>11, <2>1, <2>2, QueueSound DEF front, rest, room
  <2> QED BY <1>12, <2>3
<1>15. /\ \A a \in Things : asking[a] # "no" => asking'[a] = asking[a]
       /\ \A a \in missing : asking'[a] # "no"
       /\ \A a \in Things : asking'[a] \in {"asked", "waiting", asking[a]}
  <2>1. \A a \in Things : a \in Elems(fresh) <=> a \in missing /\ asking[a] = "no"
    BY <1>2 DEF Those
  <2>2. Elems(front) \subseteq Elems(fresh)
    <3>1. Elems(front) = {fresh[i] : i \in 1 .. room}
      BY <1>2, <1>3, PieceOfLine DEF front
    <3>2. \A i \in 1 .. room : i \in 1 .. Len(fresh)
      BY <1>2, <1>3, LineFacts
    <3> QED BY <3>1, <3>2 DEF Elems
  <2>3. missing \subseteq Things
    BY <1>1
  <2> HIDE DEF missing
  <2> QED BY <1>11, <2>1, <2>2, <2>3
<1>16. SoundMemory(remembered', asking')
  <2>1. /\ remembered' \in Line(Things) /\ Elems(remembered') = Elems(remembered)
        /\ Len(remembered') = Len(remembered)
    BY <1>1, <1>4, RecallSound
  <2>2. \A a \in Things : asking'[a] # "no" => a \notin Elems(remembered)
    <3> SUFFICES ASSUME NEW a \in Things, asking'[a] # "no", a \in Elems(remembered) PROVE FALSE
      OBVIOUS
    <3>1. asking[a] = "no" /\ a \notin missing
      BY DEF InventoryInv, SoundMemory
    <3>2. a \notin Elems(fresh) /\ a \notin Elems(front)
      <4>1. a \notin Elems(fresh)
        BY <1>2, <3>1
      <4>2. Elems(front) = {fresh[i] : i \in 1 .. room}
        BY <1>2, <1>3, PieceOfLine DEF front
      <4>3. \A i \in 1 .. room : i \in 1 .. Len(fresh)
        BY <1>2, <1>3, LineFacts
      <4> QED BY <4>1, <4>2, <4>3 DEF Elems
    <3> QED BY <1>11, <3>1, <3>2
  <2> QED BY <2>1, <2>2 DEF SoundMemory, InventoryInv
<1>17. new \in Scanning /\ SoundScan(new, asking', absent)
  <2>1. /\ new.pc = (IF missing = {} THEN "done" ELSE "waiting") /\ new.wants = Elems(list)
        /\ new.out = Elems(list) \ missing /\ new.waits = missing
        /\ new.late = missing \cap (absent \cup Those(asking, "nothing"))
    BY DEF new
  <2>2. new \in Scanning
    BY <1>1 DEF new, Scanning
  <2>3. \A a \in missing : asking'[a] = "nothing" => a \in Those(asking, "nothing")
    BY <1>1, <1>15 DEF Those
  <2>4. missing \subseteq Elems(list)
    OBVIOUS
  <2> HIDE DEF missing
  <2> QED BY <1>15, <2>1, <2>2, <2>3, <2>4 DEF SoundScan
<1>18. ASSUME NEW d \in Scans PROVE scan'[d] \in Scanning /\ SoundScan(scan'[d], asking', absent')
  <2>0. scan \in [Scans -> Scanning]
    BY DEF InventoryInv
  <2>1. CASE d = c
    BY <1>4, <1>13, <1>17, <2>0, <2>1
  <2>2. CASE d # c
    <3>1. scan'[d] = scan[d] /\ scan[d] \in Scanning /\ SoundScan(scan[d], asking, absent)
      BY <1>13, <2>0, <2>2 DEF InventoryInv
    <3>2. scan[d].waits \subseteq Things
      BY <3>1 DEF Scanning
    <3>3. \A a \in scan[d].waits : /\ asking[a] # "no" => asking'[a] # "no"
                                   /\ asking'[a] = "nothing" => asking[a] = "nothing" \/ a \in absent
      BY <1>15, <3>2
    <3>4. absent' \subseteq absent
      BY <1>4
    <3>5. SoundScan(scan[d], asking', absent')
      BY <3>1, <3>3, <3>4, ScanRests
    <3> QED BY <3>1, <3>5
  <2> QED BY <2>1, <2>2
<1>19. scan' \in [Scans -> Scanning]
  <2>1. scan \in [Scans -> Scanning]
    BY DEF InventoryInv
  <2> QED BY <1>13, <1>17, <2>1
<1> QED BY <1>4, <1>14, <1>16, <1>18, <1>19 DEF InventoryInv

LEMMA InventoryNextSound == InventoryInv /\ [Inventory!Next]_inventory => InventoryInv'
<1> SUFFICES ASSUME InventoryInv, [Inventory!Next]_inventory PROVE InventoryInv'
  OBVIOUS
<1>1. CASE \E c \in Scans, list \in Lists : Inventory!Resolve(c, list)
  BY <1>1, ResolveSound
<1>2. CASE \E a \in Things : Inventory!Answered(a) \/ Inventory!Fails(a) \/ Inventory!Settle(a) \/ Inventory!Issued(a)
  BY <1>2, EndSound, SettleSound, IssuedSound
<1>3. CASE UNCHANGED inventory
  BY <1>3 DEF inventory, InventoryInv
<1> QED BY <1>1, <1>2, <1>3 DEF Inventory!Next

LEMMA InventoryFair == InventoryInv => Inventory!ScansAreServed
<1> SUFFICES ASSUME InventoryInv PROVE Inventory!ScansAreServed
  OBVIOUS
<1>1. remembered \in Line(Things) /\ waiting \in Line(Things) /\ Elems(remembered) \subseteq Things
  BY LineFacts DEF InventoryInv, SoundMemory, SoundGate
<1>2. Inventory!In("asked") = Those(asking, "asked") /\ Inventory!In("waiting") = Those(asking, "waiting")
  BY DEF Inventory!In, Those
<1>3. /\ Inventory!ToSet(waiting) = Elems(waiting) /\ Inventory!IsInjective(waiting)
      /\ Inventory!ToSet(remembered) = Elems(remembered) /\ Inventory!IsInjective(remembered)
  BY <1>1, CacheWords
<1>4. Concurrency \in Nat
  BY ServicesAssumption
<1>5. Inventory!NoSlotLost
  <2>1. /\ held = Cardinality(Those(asking, "asked")) /\ held \in 0 .. Concurrency
        /\ Elems(waiting) = Those(asking, "waiting")
        /\ waiting # <<>> => held = Concurrency
    BY DEF InventoryInv, SoundGate
  <2>2. held <= Concurrency
    BY <1>4, <2>1
  <2>3. Inventory!Cardinality(Those(asking, "asked")) = Cardinality(Those(asking, "asked"))
    BY DEF Inventory!Cardinality, Cardinality
  <2> QED BY <1>2, <1>3, <2>1, <2>2, <2>3 DEF Inventory!NoSlotLost
<1>6. Inventory!ScansAreWhole
  <2> SUFFICES ASSUME NEW c \in Scans
               PROVE  /\ \A a \in scan[c].waits : asking[a] # "no"
                      /\ scan[c].pc = "waiting" <=> scan[c].waits # {}
                      /\ scan[c].pc = "done" => scan[c].wants \ scan[c].out \subseteq scan[c].late
    BY DEF Inventory!ScansAreWhole
  <2>1. SoundScan(scan[c], asking, absent)
    BY DEF InventoryInv
  <2>2. scan[c].pc = "done" => scan[c].waits = {}
    BY <2>1 DEF SoundScan
  <2> QED BY <2>1, <2>2 DEF SoundScan
<1>7. Inventory!TypeOK
  <2>1. \A a \in Things : asking[a] \in {"no", "waiting", "asked"} \cup Inventory!Answers
    BY DEF InventoryInv, SoundGate, Lookups, Inventory!Answers
  <2>2. \A c \in Scans : /\ scan[c].pc \in {"ready", "waiting", "done", "threw"}
                         /\ scan[c].out \cup scan[c].waits \subseteq Things
    BY DEF InventoryInv, Scanning
  <2> QED BY <1>1, <1>3, <2>1, <2>2 DEF Inventory!TypeOK, InventoryInv, SoundMemory
<1> QED BY <1>5, <1>6, <1>7 DEF Inventory!ScansAreServed

\* However scans overlap, and however the node's answers come, fail or are about
\* what it does not know yet, no slot is lost, the memory keeps its bound, and a
\* scan that is done has all it can have (AssetCache.resolve, Gate.run).
THEOREM InventoriesStayServed ==
    Inventory!Init /\ [][Inventory!Next]_inventory => []Inventory!ScansAreServed
BY InventoryInitSound, InventoryNextSound, InventoryFair, PTL

\* Both services, side by side.
THEOREM PlayersAreServed == ServicesSpec => []PlayersServed
<1>1. ServicesInit => ToppingUp!Init /\ Inventory!Init
  BY DEF ServicesInit
<1>2. [ServicesNext]_<<topups, inventory>> => [ToppingUp!Next]_topups /\ [Inventory!Next]_inventory
  BY DEF ServicesNext
<1>3. ToppingUp!TopUpsAreFair /\ Inventory!ScansAreServed => PlayersServed
  BY DEF PlayersServed
<1> QED BY <1>1, <1>2, <1>3, TopUpsStayFair, InventoriesStayServed, PTL DEF ServicesSpec

-----------------------------------------------------------------------------
(***************************************************************************)
(* The orders given through an instrument, and the reads they wake.        *)
(***************************************************************************)
Parts == {"phase", "held", "options", "timer", "running", "pending", "failed", "read",
          "lastGood", "told", "owes"}

Shaped(r) == r = [f \in Parts |-> r[f]]

\* What a subscription owes to an order is on its way: a wake is served by a
\* read that has begun since, or begins at once.
Wakeful(r) ==
    /\ Shaped(r)
    /\ r.phase \in {"none", "open", "stopped"}
    /\ r.running \in BOOLEAN /\ r.pending \in BOOLEAN
    /\ r.phase = "none" => r.running = FALSE
    /\ r.phase # "open" => r.owes = "no"
    /\ r.owes = "yes" => r.timer = "now" \/ (r.running = TRUE /\ r.pending = TRUE)
    /\ r.owes = "reading" => r.running = TRUE
    /\ r.timer # "none" => r.phase = "open" /\ r.running = FALSE

WakeInv ==
    /\ DOMAIN sub = Subscribers /\ sub = [s \in Subscribers |-> sub[s]]
    /\ \A s \in Subscribers : Wakeful(sub[s])

\* The read, what it found and what the listener was told are not looked at.
LEMMA WakeUnread ==
    ASSUME NEW r, Wakeful(r), NEW q, Shaped(q),
           \A f \in {"phase", "timer", "running", "pending", "owes"} : q[f] = r[f]
    PROVE  Wakeful(q)
<1>1. /\ q.phase = r.phase /\ q.timer = r.timer /\ q.running = r.running
      /\ q.pending = r.pending /\ q.owes = r.owes
  OBVIOUS
<1> QED BY <1>1 DEF Wakeful

LEMMA WakeStopped ==
    ASSUME NEW r, Wakeful(r)
    PROVE  /\ Wakeful(Stopped(r)) /\ Wakeful(Dropped(r)) /\ Stopped(r).phase = "stopped"
           /\ Stopped(r).running = r.running
<1> DEFINE new == IF r.read # None /\ r.read.book # None /\ r.read.trades # None THEN r.read ELSE None
<1>1. PICK q : q = [r EXCEPT !.phase = "stopped", !.timer = "none", !.pending = FALSE, !.owes = "no",
                             !.failed = FALSE, !.read = new]
  OBVIOUS
<1>2. Stopped(r) = q
  BY <1>1 DEF Stopped
<1> HIDE DEF new
<1>3. /\ Shaped(q) /\ q.phase = "stopped" /\ q.timer = "none" /\ q.pending = FALSE /\ q.owes = "no"
      /\ q.running = r.running
  BY <1>1 DEF Wakeful, Shaped, Parts
<1>4. Wakeful(q)
  BY <1>3 DEF Wakeful
<1>5. PICK p : p = [q EXCEPT !.lastGood = None, !.told = None]
  OBVIOUS
<1>6. Dropped(r) = p
  BY <1>2, <1>5 DEF Dropped
<1>7. /\ Shaped(p) /\ p.phase = q.phase /\ p.timer = q.timer /\ p.running = q.running
      /\ p.pending = q.pending /\ p.owes = q.owes
  BY <1>3, <1>5 DEF Shaped, Parts
<1>8. Wakeful(p)
  BY <1>4, <1>7 DEF Wakeful
<1> QED BY <1>2, <1>3, <1>4, <1>6, <1>8

\* What a run leaves: a wake that came meanwhile starts the next one at once.
LEMMA WakeSettled ==
    ASSUME NEW r, Wakeful(r), r.running = TRUE
    PROVE  Wakeful(Settled(r))
<1>1. PICK e : e = [r EXCEPT !.running = FALSE, !.failed = FALSE, !.read = None]
  OBVIOUS
<1>2. /\ Shaped(e) /\ e.running = FALSE /\ e.phase = r.phase /\ e.timer = r.timer
      /\ e.pending = r.pending /\ e.owes = r.owes
  BY <1>1 DEF Wakeful, Shaped, Parts
<1>3. CASE r.phase = "stopped"
  <2>1. Settled(r) = e
    BY <1>1, <1>3 DEF Settled
  <2> QED BY <1>2, <1>3, <2>1 DEF Wakeful
<1>4. CASE r.phase # "stopped"
  <2>1. PICK q : q = [e EXCEPT !.pending = FALSE, !.timer = IF r.pending THEN "now" ELSE "later",
                               !.owes = IF e.owes = "reading" THEN "no" ELSE e.owes]
    OBVIOUS
  <2>2. Settled(r) = q
    BY <1>1, <1>4, <2>1 DEF Settled
  <2>3. /\ Shaped(q) /\ q.running = FALSE /\ q.phase = e.phase /\ q.pending = FALSE
        /\ q.timer = (IF r.pending THEN "now" ELSE "later")
        /\ q.owes = (IF e.owes = "reading" THEN "no" ELSE e.owes)
    BY <1>2, <2>1 DEF Shaped, Parts
  <2>4. r.phase = "open" /\ r.timer = "none"
    BY <1>4 DEF Wakeful
  <2>5. q.owes = "yes" => q.timer = "now"
    BY <1>2, <2>3, <2>4 DEF Wakeful
  <2>6. q.owes # "reading"
    BY <2>3
  <2> QED BY <1>2, <2>2, <2>3, <2>4, <2>5, <2>6 DEF Wakeful
<1> QED BY <1>3, <1>4

LEMMA WakeRefreshed ==
    ASSUME NEW r, Wakeful(r)
    PROVE  Wakeful(Refreshed(r))
<1>1. CASE r.phase # "open"
  BY <1>1 DEF Refreshed
<1>2. CASE r.phase = "open" /\ r.running
  <2>1. PICK q : q = [r EXCEPT !.pending = TRUE, !.owes = "yes"]
    OBVIOUS
  <2>2. Refreshed(r) = q
    BY <1>2, <2>1 DEF Refreshed
  <2>3. Shaped(q) /\ q.pending = TRUE /\ q.owes = "yes" /\ q.phase = r.phase /\ q.timer = r.timer /\ q.running = r.running
    BY <2>1 DEF Wakeful, Shaped, Parts
  <2> QED BY <1>2, <2>2, <2>3 DEF Wakeful
<1>3. CASE r.phase = "open" /\ ~r.running
  <2>1. PICK q : q = [r EXCEPT !.timer = "now", !.owes = "yes"]
    OBVIOUS
  <2>2. Refreshed(r) = q
    BY <1>3, <2>1 DEF Refreshed
  <2>3. Shaped(q) /\ q.timer = "now" /\ q.owes = "yes" /\ q.phase = r.phase /\ q.pending = r.pending /\ q.running = r.running
    BY <2>1 DEF Wakeful, Shaped, Parts
  <2> QED BY <1>3, <2>2, <2>3 DEF Wakeful
<1> QED BY <1>1, <1>2, <1>3

LEMMA WakeTerminal ==
    ASSUME NEW r, Wakeful(r)
    PROVE  Wakeful(Terminal(r)) /\ Terminal(r).running = r.running
<1>1. PICK q : q = [r EXCEPT !.told = [status |-> "error", stale |-> FALSE,
                                       age |-> IF r.lastGood = None THEN None ELSE 0]]
  OBVIOUS
<1>2. Terminal(r) = Stopped(q)
  BY <1>1 DEF Terminal
<1>3. /\ Shaped(q) /\ q.phase = r.phase /\ q.timer = r.timer /\ q.running = r.running
      /\ q.pending = r.pending /\ q.owes = r.owes
  BY <1>1 DEF Wakeful, Shaped, Parts
<1>4. Wakeful(q)
  BY <1>3 DEF Wakeful
<1> QED BY <1>2, <1>3, <1>4, WakeStopped

LEMMA WakeChange ==
    ASSUME WakeInv, NEW s \in Subscribers, NEW r, Wakeful(r), Changes(s, r)
    PROVE  WakeInv'
<1>1. sub' = [sub EXCEPT ![s] = r]
  BY DEF Changes
<1>2. /\ DOMAIN sub' = Subscribers /\ sub' = [t \in Subscribers |-> sub'[t]]
      /\ sub'[s] = r /\ \A t \in Subscribers \ {s} : sub'[t] = sub[t]
  BY <1>1 DEF WakeInv
<1>3. \A t \in Subscribers : Wakeful(sub'[t])
  BY <1>2 DEF WakeInv
<1> QED BY <1>2, <1>3 DEF WakeInv

\* Subscribing.
LEMMA SubscribeWakes ==
    ASSUME WakeInv, NEW s \in Subscribers, NEW options, Subscribe(s, options)
    PROVE  WakeInv'
<1>0. Wakeful(sub[s]) /\ sub[s].phase = "none"
  BY DEF WakeInv, Subscribe
<1>1. PICK r : r = [sub[s] EXCEPT !.phase = "open", !.options = options]
  OBVIOUS
<1>2. PICK q : q = [r EXCEPT !.held = TRUE,
                             !.told = [status |-> "opening", age |-> None, stale |-> FALSE],
                             !.timer = "now"]
  OBVIOUS
<1>3. Changes(s, IF clock = "broken" THEN r ELSE q)
  BY <1>1, <1>2 DEF Subscribe
<1>4. /\ Shaped(r) /\ r.phase = "open" /\ r.timer = sub[s].timer /\ r.running = sub[s].running
      /\ r.pending = sub[s].pending /\ r.owes = sub[s].owes
  BY <1>0, <1>1 DEF Wakeful, Shaped, Parts
<1>5. /\ Shaped(q) /\ q.phase = "open" /\ q.timer = "now" /\ q.running = r.running
      /\ q.pending = r.pending /\ q.owes = r.owes
  BY <1>2, <1>4 DEF Shaped, Parts
<1>6. Wakeful(r) /\ Wakeful(q)
  BY <1>0, <1>4, <1>5 DEF Wakeful
<1>7. Wakeful(IF clock = "broken" THEN r ELSE q)
  BY <1>6
<1> QED BY <1>3, <1>7, WakeChange

\* A timer fires.
LEMMA BeginWakes ==
    ASSUME WakeInv, NEW s \in Subscribers, Begin(s)
    PROVE  WakeInv'
<1>0. Wakeful(sub[s]) /\ sub[s].phase = "open" /\ sub[s].timer # "none"
  BY DEF WakeInv, Begin, Open
<1>1. sub[s].running = FALSE
  BY <1>0 DEF Wakeful
<1>2. PICK r : r = [sub[s] EXCEPT !.timer = "none", !.running = TRUE,
                                  !.owes = IF @ = "yes" THEN "reading" ELSE @]
  OBVIOUS
<1>3. PICK q : q = [r EXCEPT !.read = NewRead(Requested(r.options))]
  OBVIOUS
<1>4. Changes(s, IF clock = "broken" THEN Settled(Terminal(r)) ELSE q)
  BY <1>1, <1>2, <1>3 DEF Begin
<1>5. /\ Shaped(r) /\ r.timer = "none" /\ r.running = TRUE /\ r.phase = sub[s].phase
      /\ r.pending = sub[s].pending
      /\ r.owes = IF sub[s].owes = "yes" THEN "reading" ELSE sub[s].owes
  BY <1>0, <1>2 DEF Wakeful, Shaped, Parts
<1>6. Wakeful(r)
  BY <1>0, <1>5 DEF Wakeful
<1>7. /\ Shaped(q) /\ q.phase = r.phase /\ q.timer = r.timer /\ q.running = r.running
      /\ q.pending = r.pending /\ q.owes = r.owes
  BY <1>3, <1>5 DEF Shaped, Parts
<1>8. Wakeful(q)
  BY <1>6, <1>7 DEF Wakeful
<1>9. Wakeful(Settled(Terminal(r)))
  BY <1>5, <1>6, WakeTerminal, WakeSettled
<1>10. Wakeful(IF clock = "broken" THEN Settled(Terminal(r)) ELSE q)
  BY <1>8, <1>9
<1> QED BY <1>4, <1>10, WakeChange

\* A page comes, or the read is given up.
LEMMA PageWakes ==
    ASSUME WakeInv, NEW s \in Subscribers,
           \/ \E missed \in SUBSET Accounts : ReadBook(s, missed) \/ ReadTrades(s, missed)
           \/ PageFails(s) \/ Deadline(s)
    PROVE  WakeInv'
<1>0. Wakeful(sub[s])
  BY DEF WakeInv
<1>1. CASE \E missed \in SUBSET Accounts : ReadBook(s, missed)
  <2>1. PICK missed : ReadBook(s, missed)
    BY <1>1
  <2>2. PICK q : q = [sub[s] EXCEPT !.read.book =
            Page(Roster(s), missed, {h \in In(s) : state[h] = "open"}, sub[s].options.limit)]
    OBVIOUS
  <2>3. Changes(s, q)
    BY <2>1, <2>2 DEF ReadBook
  <2>4. /\ Shaped(q) /\ q.phase = sub[s].phase /\ q.timer = sub[s].timer /\ q.running = sub[s].running
        /\ q.pending = sub[s].pending /\ q.owes = sub[s].owes
    BY <1>0, <2>2 DEF Wakeful, Shaped, Parts
  <2>5. Wakeful(q)
    BY <1>0, <2>4 DEF Wakeful
  <2> QED BY <2>3, <2>5, WakeChange
<1>2. CASE \E missed \in SUBSET Accounts : ReadTrades(s, missed)
  <2>1. PICK missed : ReadTrades(s, missed)
    BY <1>2
  <2>2. PICK q : q = [sub[s] EXCEPT !.read.trades =
            Page(Roster(s), missed, {h \in In(s) : state[h] = "sold"}, sub[s].options.limit)]
    OBVIOUS
  <2>3. Changes(s, q)
    BY <2>1, <2>2 DEF ReadTrades
  <2>4. /\ Shaped(q) /\ q.phase = sub[s].phase /\ q.timer = sub[s].timer /\ q.running = sub[s].running
        /\ q.pending = sub[s].pending /\ q.owes = sub[s].owes
    BY <1>0, <2>2 DEF Wakeful, Shaped, Parts
  <2>5. Wakeful(q)
    BY <1>0, <2>4 DEF Wakeful
  <2> QED BY <2>3, <2>5, WakeChange
<1>3. CASE PageFails(s) \/ Deadline(s)
  <2>1. PICK q : q = [sub[s] EXCEPT !.failed = TRUE, !.read = None]
    OBVIOUS
  <2>2. Changes(s, q)
    BY <1>3, <2>1 DEF PageFails, Deadline, Abandoned
  <2>3. /\ Shaped(q) /\ q.phase = sub[s].phase /\ q.timer = sub[s].timer /\ q.running = sub[s].running
        /\ q.pending = sub[s].pending /\ q.owes = sub[s].owes
    BY <1>0, <2>1 DEF Wakeful, Shaped, Parts
  <2>4. Wakeful(q)
    BY <1>0, <2>3 DEF Wakeful
  <2> QED BY <2>2, <2>4, WakeChange
<1> QED BY <1>1, <1>2, <1>3

\* A read ends.
LEMMA EndWakes ==
    ASSUME WakeInv, NEW s \in Subscribers, Resolve(s) \/ Reject(s)
    PROVE  WakeInv'
<1>0. Wakeful(sub[s])
  BY DEF WakeInv
<1>1. sub[s].running = TRUE
  BY <1>0 DEF Resolve, Reject, Reading, Wakeful
<1>2. CASE Resolve(s)
  <2>1. PICK q : q = [sub[s] EXCEPT !.lastGood = now,
                        !.told = [status |-> "live", age |-> 0, stale |-> FALSE]]
    OBVIOUS
  <2>2. Changes(s, IF Open(s) THEN Settled(q) ELSE Settled(sub[s]))
    BY <1>2, <2>1 DEF Resolve
  <2>3. /\ Shaped(q) /\ q.phase = sub[s].phase /\ q.timer = sub[s].timer /\ q.running = sub[s].running
        /\ q.pending = sub[s].pending /\ q.owes = sub[s].owes
    BY <1>0, <2>1 DEF Wakeful, Shaped, Parts
  <2>4. Wakeful(q)
    BY <1>0, <2>3 DEF Wakeful
  <2>5. Wakeful(Settled(q)) /\ Wakeful(Settled(sub[s]))
    BY <1>0, <1>1, <2>3, <2>4, WakeSettled
  <2>6. Wakeful(IF Open(s) THEN Settled(q) ELSE Settled(sub[s]))
    BY <2>5
  <2> QED BY <2>2, <2>6, WakeChange
<1>3. CASE Reject(s)
  <2>1. PICK q : q = [sub[s] EXCEPT !.told = Failure(sub[s])]
    OBVIOUS
  <2>2. Changes(s, Settled(IF ~Open(s) THEN sub[s] ELSE IF clock = "broken" THEN Terminal(sub[s]) ELSE q))
    BY <1>3, <2>1 DEF Reject
  <2>3. /\ Shaped(q) /\ q.phase = sub[s].phase /\ q.timer = sub[s].timer /\ q.running = sub[s].running
        /\ q.pending = sub[s].pending /\ q.owes = sub[s].owes
    BY <1>0, <2>1 DEF Wakeful, Shaped, Parts
  <2>4. Wakeful(q)
    BY <1>0, <2>3 DEF Wakeful
  <2>5. Wakeful(Terminal(sub[s])) /\ Terminal(sub[s]).running = TRUE
    BY <1>0, <1>1, WakeTerminal
  <2>6. PICK t : t = IF ~Open(s) THEN sub[s] ELSE IF clock = "broken" THEN Terminal(sub[s]) ELSE q
    OBVIOUS
  <2>7. Wakeful(t) /\ t.running = TRUE
    BY <1>0, <1>1, <2>3, <2>4, <2>5, <2>6
  <2>8. Wakeful(Settled(t))
    BY <2>7, WakeSettled
  <2> QED BY <2>2, <2>6, <2>8, WakeChange
<1> QED BY <1>2, <1>3

LEMMA StopWakes ==
    ASSUME WakeInv, NEW s \in Subscribers, Stop(s)
    PROVE  WakeInv'
<1>1. Wakeful(Dropped(sub[s])) /\ Changes(s, Dropped(sub[s]))
  BY WakeStopped DEF WakeInv, Stop
<1> QED BY <1>1, WakeChange

\* All subscriptions at once: closed, woken, or shown what the ledger did.
LEMMA WorldWakes ==
    ASSUME WakeInv, Close \/ (\E h \in Hashes : Place(h) \/ Take(h) \/ Wake(h))
                    \/ (\E level \in Levels : Accept(level))
    PROVE  WakeInv'
<1>0. \A s \in Subscribers : Wakeful(sub[s])
  BY DEF WakeInv
<1>1. CASE Close
  <2>1. sub' = [s \in Subscribers |-> IF Open(s) THEN Dropped(sub[s]) ELSE sub[s]]
    BY <1>1 DEF Close
  <2>2. \A s \in Subscribers : Wakeful(IF Open(s) THEN Dropped(sub[s]) ELSE sub[s])
    BY <1>0, WakeStopped
  <2> QED BY <2>1, <2>2 DEF WakeInv
<1>2. CASE \E h \in Hashes : Wake(h)
  <2>1. sub' = [s \in Subscribers |-> Refreshed(sub[s])]
    BY <1>2 DEF Wake
  <2>2. \A s \in Subscribers : Wakeful(Refreshed(sub[s]))
    BY <1>0, WakeRefreshed
  <2> QED BY <2>1, <2>2 DEF WakeInv
<1>3. ASSUME NEW opened, NEW gone, Seen(opened, gone) PROVE WakeInv'
  <2> DEFINE next(s) == IF sub[s].read = None THEN sub[s]
                        ELSE [sub[s] EXCEPT !.read.shown = @ \cup opened, !.read.stood = @ \ gone]
  <2>1. sub' = [s \in Subscribers |-> next(s)]
    BY <1>3 DEF Seen
  <2>2. ASSUME NEW s \in Subscribers PROVE Wakeful(next(s))
    <3>1. PICK q : q = [sub[s] EXCEPT !.read.shown = @ \cup opened, !.read.stood = @ \ gone]
      OBVIOUS
    <3>2. Shaped(sub[s])
      BY <1>0 DEF Wakeful
    <3>3. /\ Shaped(q) /\ q.phase = sub[s].phase /\ q.timer = sub[s].timer /\ q.running = sub[s].running
          /\ q.pending = sub[s].pending /\ q.owes = sub[s].owes
      <4>1. PICK read : q = [sub[s] EXCEPT !.read = read]
        BY <3>1
      <4> QED BY <3>2, <4>1 DEF Shaped, Parts
    <3>4. Wakeful(q)
      BY <1>0, <3>3, WakeUnread
    <3> QED BY <1>0, <3>1, <3>4
  <2> HIDE DEF next
  <2> QED BY <2>1, <2>2 DEF WakeInv
<1>4. CASE \E h \in Hashes : Place(h) \/ Take(h)
  BY <1>3, <1>4 DEF Place, Take, Sold
<1>5. CASE \E level \in Levels : Accept(level)
  BY <1>3, <1>5 DEF Accept, Sold
<1> QED BY <1>1, <1>2, <1>4, <1>5

LEMMA WakeInitSound == Init => WakeInv
<1> SUFFICES ASSUME Init PROVE WakeInv
  OBVIOUS
<1>1. PICK r : r = [phase |-> "none", held |-> FALSE, options |-> None, timer |-> "none",
                 running |-> FALSE, pending |-> FALSE, failed |-> FALSE, read |-> None,
                 lastGood |-> None, told |-> None, owes |-> "no"]
  OBVIOUS
<1>2. sub = [s \in Subscribers |-> r]
  BY <1>1 DEF Init
<1>3. /\ Shaped(r) /\ r.phase = "none" /\ r.timer = "none" /\ r.running = FALSE
      /\ r.pending = FALSE /\ r.owes = "no"
  BY <1>1 DEF Shaped, Parts
<1>4. Wakeful(r)
  BY <1>3 DEF Wakeful
<1> QED BY <1>2, <1>4 DEF WakeInv

LEMMA WakeNextSound == WakeInv /\ [Next]_vars => WakeInv'
<1> SUFFICES ASSUME WakeInv, [Next]_vars PROVE WakeInv'
  OBVIOUS
<1>1. CASE \E s \in Subscribers :
             \/ \E options \in Options : Subscribe(s, options)
             \/ Begin(s) \/ PageFails(s) \/ Deadline(s) \/ Resolve(s) \/ Reject(s) \/ Stop(s)
             \/ \E missed \in SUBSET Accounts : ReadBook(s, missed) \/ ReadTrades(s, missed)
  BY <1>1, SubscribeWakes, BeginWakes, PageWakes, EndWakes, StopWakes
<1>2. CASE Close \/ (\E h \in Hashes : Place(h) \/ Take(h) \/ Wake(h)) \/ (\E level \in Levels : Accept(level))
  BY <1>2, WorldWakes
<1>3. ASSUME sub' = sub PROVE WakeInv'
  BY <1>3 DEF WakeInv
<1>4. CASE (\E h \in Hashes : AnswerLost(h)) \/ (\E a \in Accounts : Announce(a))
             \/ Tick \/ ClockFails \/ ClockWorks \/ UNCHANGED vars
  BY <1>3, <1>4 DEF AnswerLost, Announce, Tick, ClockFails, ClockWorks, vars
<1> QED BY <1>1, <1>2, <1>4 DEF Next

LEMMA WakeFair == WakeInv => WakeIsServed
BY DEF WakeInv, Wakeful, WakeIsServed, Open

-----------------------------------------------------------------------------
(* The prices of an instrument. *)

\* The largest of some numbers below a bound is one of them.
LEMMA LargestIsOne ==
    ASSUME NEW n \in Nat, NEW Z \in SUBSET (0 .. n), Z # {}
    PROVE  Max(Z) \in Z /\ \A z \in Z : Max(Z) >= z
<1> DEFINE Y == {m \in Nat : n - m \in Z}
<1>1. Y # {} /\ Y \in SUBSET Nat
  <2>1. PICK z \in Z : TRUE
    OBVIOUS
  <2>2. z \in Nat /\ z <= n
    BY <2>1
  <2>3. n - z \in Nat /\ n - (n - z) = z
    BY <2>2
  <2>4. n - z \in Y
    BY <2>1, <2>3
  <2> QED BY <2>4
<1>2. PICK m \in Y : \A l \in Y : m <= l
  <2> HIDE DEF Y
  <2> QED BY <1>1, LeastNumber
<1>3. m \in Nat /\ n - m \in Z
  BY <1>2
<1>4. ASSUME NEW z \in Z PROVE n - m >= z
  <2>1. z \in Nat /\ z <= n
    OBVIOUS
  <2>2. n - z \in Nat /\ n - (n - z) = z
    BY <2>1
  <2>3. m <= n - z
    BY <1>2, <2>2
  <2> QED BY <1>3, <2>1, <2>3
<1>5. \E x \in Z : \A z \in Z : x >= z
  BY <1>3, <1>4
<1> QED BY <1>5 DEF Max

\* The zeros at the end of a product are taken off, and no more.
LEMMA ProductIsExact ==
    ASSUME NEW x \in [digits : Nat, scale : Nat], NEW y \in [digits : Nat, scale : Nat]
    PROVE  \E zeros \in Nat :
             /\ Product(x, y).digits \in Nat /\ Product(x, y).scale \in Nat
             /\ Product(x, y).digits * Tens[zeros] = x.digits * y.digits
             /\ Product(x, y).scale + zeros = x.scale + y.scale
<1> DEFINE D == x.digits * y.digits
           S == x.scale + y.scale
           Z == {k \in 0 .. S : D % Tens[k] = 0}
           z == Max(Z)
<1>1. D \in Nat /\ S \in Nat
  <2>1. x.digits \in Nat /\ y.digits \in Nat /\ x.scale \in Nat /\ y.scale \in Nat
    OBVIOUS
  <2>2. \A m, n \in Nat : m * n \in Nat /\ m + n \in Nat
    OBVIOUS
  <2> QED BY <2>1, <2>2
<1>2. Product(x, y) = [digits |-> D \div Tens[z], scale |-> S - z]
  BY DEF Product
<1> HIDE DEF D, S
<1>3. 0 \in Z
  <2>1. Tens[0] = 1
    BY TensStep
  <2>2. D % 1 = 0
    BY <1>1
  <2> QED BY <1>1, <2>1, <2>2
<1>4. z \in Z
  <2>1. Z \in SUBSET (0 .. S) /\ Z # {}
    BY <1>3
  <2> HIDE DEF Z
  <2> QED BY <1>1, <2>1, LargestIsOne
<1>5. z \in Nat /\ z <= S /\ D % Tens[z] = 0
  BY <1>1, <1>4
<1> HIDE DEF z
<1>6. Tens[z] \in Nat \ {0}
  BY <1>5, TensType
<1>7. D \div Tens[z] \in Nat /\ (D \div Tens[z]) * Tens[z] = D
  <2>1. \A t \in Nat \ {0} : D % t = 0 => D \div t \in Nat /\ (D \div t) * t = D
    BY <1>1
  <2> QED BY <1>5, <1>6, <2>1
<1>8. S - z \in Nat /\ (S - z) + z = S
  BY <1>1, <1>5
<1>9. Product(x, y).digits = D \div Tens[z] /\ Product(x, y).scale = S - z
  BY <1>2
<1>10. /\ z \in Nat
       /\ Product(x, y).digits \in Nat /\ Product(x, y).scale \in Nat
       /\ Product(x, y).digits * Tens[z] = D
       /\ Product(x, y).scale + z = S
  BY <1>5, <1>7, <1>8, <1>9
<1> QED BY <1>10 DEF D, S

LEMMA TensOfThree ==
    ASSUME NEW k \in Nat, NEW l \in Nat, NEW m \in Nat
    PROVE  Tens[k + l + m] = Tens[k] * Tens[l] * Tens[m]
<1>1. Tens[k + l + m] = Tens[k + l] * Tens[m]
  <2>1. k + l \in Nat
    OBVIOUS
  <2> QED BY <2>1, TensAdd
<1>2. Tens[k + l] = Tens[k] * Tens[l]
  BY TensAdd
<1> QED BY <1>1, <1>2

LEMMA Rearranged ==
    ASSUME NEW T \in Nat, NEW u \in Nat, NEW p \in Nat,
           NEW a \in Nat, NEW b \in Nat, NEW c \in Nat, NEW d \in Nat, NEW e \in Nat, NEW f \in Nat,
           a * b * c = d * e * f, T * d = u * p
    PROVE  ((T * a) * b) * c = p * ((u * e) * f)
<1>1. ((T * a) * b) * c = T * (a * b * c)
  OBVIOUS
<1>2. T * (d * e * f) = ((T * d) * e) * f
  OBVIOUS
<1>3. ((u * p) * e) * f = p * ((u * e) * f)
  OBVIOUS
<1> QED BY <1>1, <1>2, <1>3

\* An order that can be placed rests at the price it is given for.
LEMMA RestsAtItsPrice ==
    ASSUME NEW h \in Hashes, Placeable(h)
    PROVE  ExactPrice(Terms[h]).num * Tens[Asked(h).scale] = Asked(h).digits * ExactPrice(Terms[h]).den
<1> DEFINE u == Orders[h].units
           p == Orders[h].unitPrice
           T == Total(h)
<1>1. u \in [digits : Nat, scale : Nat] /\ p \in [digits : Nat, scale : Nat]
  BY InstrumentAssumption
<1>2. BaseDecimals \in Nat /\ QuoteDecimals \in Nat
  BY InstrumentAssumption
<1>3. u.scale <= BaseDecimals /\ T.scale <= QuoteDecimals
  BY DEF Placeable
<1>4. /\ Terms[h].base = u.digits * Tens[BaseDecimals - u.scale]
      /\ Terms[h].quote = T.digits * Tens[QuoteDecimals - T.scale]
  BY DEF Terms, Raw
<1>5. /\ ExactPrice(Terms[h]).num = Terms[h].quote * Tens[BaseDecimals]
      /\ ExactPrice(Terms[h]).den = Terms[h].base * Tens[QuoteDecimals]
  BY DEF ExactPrice
<1>6. PICK zeros \in Nat : /\ T.digits \in Nat /\ T.scale \in Nat
                           /\ T.digits * Tens[zeros] = u.digits * p.digits
                           /\ T.scale + zeros = u.scale + p.scale
  <2> HIDE DEF u, p, T
  <2>1. T = Product(u, p)
    BY DEF T, Total, u, p
  <2> QED BY <1>1, <2>1, ProductIsExact
<1>7. Asked(h) = p
  BY DEF Asked
<1> HIDE DEF u, p, T
<1>8. u.digits \in Nat /\ u.scale \in Nat /\ p.digits \in Nat /\ p.scale \in Nat
  BY <1>1
<1>9. QuoteDecimals - T.scale \in Nat /\ BaseDecimals - u.scale \in Nat
  BY <1>2, <1>3, <1>6, <1>8
<1>a. PICK a \in Nat : a = QuoteDecimals - T.scale
  BY <1>9
<1>b. PICK b \in Nat : b = BaseDecimals - u.scale
  BY <1>9
<1>c. PICK c \in Nat : c = p.scale
  BY <1>8
<1>10. a + BaseDecimals + c = zeros + b + QuoteDecimals
  <2>1. PICK m \in Nat, n \in Nat : m = T.scale /\ n = u.scale
    BY <1>6, <1>8
  <2>2. m + zeros = n + c
    BY <1>6, <1>c, <2>1
  <2>3. a = QuoteDecimals - m /\ b = BaseDecimals - n
    BY <1>a, <1>b, <2>1
  <2> QED BY <1>2, <2>2, <2>3
<1>11. Tens[a] * Tens[BaseDecimals] * Tens[c] = Tens[zeros] * Tens[b] * Tens[QuoteDecimals]
  <2>1. Tens[a + BaseDecimals + c] = Tens[a] * Tens[BaseDecimals] * Tens[c]
    BY <1>2, TensOfThree
  <2>2. Tens[zeros + b + QuoteDecimals] = Tens[zeros] * Tens[b] * Tens[QuoteDecimals]
    BY <1>2, TensOfThree
  <2> QED BY <1>10, <2>1, <2>2, Zenon
<1>12. /\ Tens[a] \in Nat /\ Tens[BaseDecimals] \in Nat /\ Tens[c] \in Nat
       /\ Tens[zeros] \in Nat /\ Tens[b] \in Nat /\ Tens[QuoteDecimals] \in Nat
  BY <1>2, <1>6, <1>8, TensType
<1>13. ((T.digits * Tens[a]) * Tens[BaseDecimals]) * Tens[c]
         = p.digits * ((u.digits * Tens[b]) * Tens[QuoteDecimals])
  <2> DEFINE A == Tens[a]
             B == Tens[BaseDecimals]
             C == Tens[c]
             D == Tens[zeros]
             E == Tens[b]
             F == Tens[QuoteDecimals]
  <2>1. A \in Nat /\ B \in Nat /\ C \in Nat /\ D \in Nat /\ E \in Nat /\ F \in Nat
    BY <1>12
  <2>2. A * B * C = D * E * F /\ T.digits * D = u.digits * p.digits
    BY <1>6, <1>11
  <2> HIDE DEF A, B, C, D, E, F
  <2>3. PICK t \in Nat, v \in Nat, w \in Nat : t = T.digits /\ v = u.digits /\ w = p.digits
    BY <1>6, <1>8
  <2>4. t * D = v * w
    BY <2>2, <2>3
  <2>5. ((t * A) * B) * C = w * ((v * E) * F)
    BY <2>1, <2>2, <2>4, Rearranged
  <2>6. ((T.digits * A) * B) * C = p.digits * ((u.digits * E) * F)
    BY <2>3, <2>5
  <2> QED BY <2>6 DEF A, B, C, D, E, F
<1> QED BY <1>4, <1>5, <1>7, <1>13, <1>a, <1>b, <1>c

\* Only what can be placed is, and what is paid is the price of the order.
PriceInv ==
    /\ DOMAIN state = Hashes /\ state = [h \in Hashes |-> state[h]]
    /\ DOMAIN paid = Hashes /\ paid = [h \in Hashes |-> paid[h]]
    /\ \A h \in Hashes : state[h] # "none" => Placeable(h)
    /\ \A h \in Hashes : paid[h] # None => paid[h] = ExactPrice(Terms[h])

LEMMA PriceInitSound == Init => PriceInv
BY DEF Init, PriceInv

LEMMA PriceNextSound == PriceInv /\ [Next]_vars => PriceInv'
<1> SUFFICES ASSUME PriceInv, [Next]_vars PROVE PriceInv'
  OBVIOUS
<1>1. ASSUME state' = state, paid' = paid PROVE PriceInv'
  BY <1>1 DEF PriceInv
<1>2. CASE \E s \in Subscribers :
             \/ \E options \in Options : Subscribe(s, options)
             \/ Begin(s) \/ PageFails(s) \/ Deadline(s) \/ Resolve(s) \/ Reject(s) \/ Stop(s)
             \/ \E missed \in SUBSET Accounts : ReadBook(s, missed) \/ ReadTrades(s, missed)
  BY <1>1, <1>2 DEF Subscribe, Begin, PageFails, Deadline, Resolve, Reject, Stop, ReadBook, ReadTrades, World
<1>3. CASE \/ \E h \in Hashes : Wake(h) \/ AnswerLost(h)
           \/ \E a \in Accounts : Announce(a)
           \/ Close \/ Tick \/ ClockFails \/ ClockWorks \/ UNCHANGED vars
  BY <1>1, <1>3 DEF Wake, AnswerLost, Announce, Close, Tick, ClockFails, ClockWorks, vars
<1>4. CASE \E h \in Hashes : Place(h)
  <2>1. PICK h \in Hashes : Placeable(h) /\ state' = [state EXCEPT ![h] = "open"] /\ paid' = paid
    BY <1>4 DEF Place
  <2>2. DOMAIN state' = Hashes /\ state' = [g \in Hashes |-> state'[g]] /\ \A g \in Hashes \ {h} : state'[g] = state[g]
    BY <2>1 DEF PriceInv
  <2> QED BY <2>1, <2>2 DEF PriceInv
<1>5. CASE \E h \in Hashes : Take(h)
  <2>1. PICK h \in Hashes : state[h] = "open" /\ state' = [state EXCEPT ![h] = "sold"] /\ paid' = paid
    BY <1>5 DEF Take, Sold
  <2>2. DOMAIN state' = Hashes /\ state' = [g \in Hashes |-> state'[g]] /\ \A g \in Hashes \ {h} : state'[g] = state[g]
    BY <2>1 DEF PriceInv
  <2>3. Placeable(h)
    BY <2>1 DEF PriceInv
  <2> QED BY <2>1, <2>2, <2>3 DEF PriceInv
<1>6. CASE \E level \in Levels : Accept(level)
  <2>1. PICK level \in Levels : Accept(level)
    BY <1>6
  <2>2. PICK h : h = level.hash
    OBVIOUS
  <2>3. /\ state[h] = "open" /\ state' = [state EXCEPT ![h] = "sold"]
        /\ level.exact = ExactPrice(Terms[h]) /\ paid' = [paid EXCEPT ![h] = level.exact]
    BY <2>1, <2>2 DEF Accept, Sold, Agrees
  <2>4. CASE h \notin Hashes
    <3>1. state' = state /\ paid' = paid
      BY <2>3, <2>4 DEF PriceInv
    <3> QED BY <1>1, <3>1
  <2>5. CASE h \in Hashes
    <3>1. DOMAIN state' = Hashes /\ state' = [g \in Hashes |-> state'[g]] /\ \A g \in Hashes \ {h} : state'[g] = state[g]
      BY <2>3 DEF PriceInv
    <3>2. DOMAIN paid' = Hashes /\ paid' = [g \in Hashes |-> paid'[g]] /\ \A g \in Hashes \ {h} : paid'[g] = paid[g]
      BY <2>3 DEF PriceInv
    <3>3. Placeable(h) /\ paid'[h] = ExactPrice(Terms[h])
      BY <2>3, <2>5 DEF PriceInv
    <3>4. \A g \in Hashes : state'[g] # "none" => Placeable(g)
      BY <3>1, <3>3 DEF PriceInv
    <3>5. \A g \in Hashes : paid'[g] # None => paid'[g] = ExactPrice(Terms[g])
      BY <3>2, <3>3 DEF PriceInv
    <3> QED BY <3>1, <3>2, <3>4, <3>5 DEF PriceInv
  <2> QED BY <2>4, <2>5
<1> QED BY <1>2, <1>3, <1>4, <1>5, <1>6 DEF Next

LEMMA PriceFair == PriceInv => PaidAsShown
<1> SUFFICES ASSUME PriceInv PROVE PaidAsShown
  OBVIOUS
<1>1. \A h \in Hashes : state[h] # "none" =>
         ExactPrice(Terms[h]).num * Tens[Asked(h).scale] = Asked(h).digits * ExactPrice(Terms[h]).den
  BY RestsAtItsPrice DEF PriceInv
<1> QED BY <1>1 DEF PaidAsShown, PriceInv

\* Whatever comes between an order and a subscription's reads, the order is shown
\* without a poll; and it rests and is paid at the price that was displayed
\* (refresh, run, decimalProduct, exactPrice, accept).
THEOREM OrdersStayServed == Spec => []OrdersServed
<1>1. WakeInv /\ PriceInv => OrdersServed
  BY WakeFair, PriceFair DEF OrdersServed
<1> QED BY <1>1, WakeInitSound, WakeNextSound, PriceInitSound, PriceNextSound, PTL DEF Spec

-----------------------------------------------------------------------------
(* What the listeners of an instrument are told. *)

Standing(st) == {h \in Hashes : st[h] = "open"}

GoneFrom(st) == {h \in Hashes : st[h] = "sold"}

\* A page that nothing was left out of.
WholePage(p) == DOMAIN p.coverage.failed = {} /\ p.coverage.truncated = {}

\* A page shows none but what it may, and says of itself what is true: whole, it
\* shows all it must.
PageOf(p, roster, must, may) ==
    /\ p.rows \subseteq may
    /\ p.coverage.asked = Cardinality(roster)
    /\ DOMAIN p.coverage.failed \subseteq roster
    /\ p.coverage.complete => WholePage(p)
    /\ WholePage(p) => {h \in must : Orders[h].author \in roster} \subseteq p.rows

\* A read, in the state of the orders st.
SoundRead(read, st) ==
    /\ read \in Reads
    /\ read.sold \subseteq GoneFrom(st) /\ read.stood \subseteq Standing(st)
    /\ Standing(st) \subseteq read.shown
    /\ \A h \in read.shown : st[h] # "none"
    /\ read.book # None => PageOf(read.book, read.roster, read.stood, read.shown)
    /\ read.trades # None => PageOf(read.trades, read.roster, read.sold, Hashes)

\* A subscription, at the time t.
SoundSub(r, st) ==
    /\ r.phase # "none" => r.options \in Options
    /\ r.lastGood = None \/ r.lastGood \in Nat
    /\ r.read = None \/ SoundRead(r.read, st)
    /\ r.phase = "open" /\ r.running = TRUE /\ r.read = None => r.failed = TRUE

ReadInv ==
    /\ now \in Nat /\ known \subseteq Accounts
    /\ \A s \in Subscribers : SoundSub(sub[s], state)

LEMMA HashesAreNumbers == Hashes \subseteq Nat /\ IsFiniteSet(Hashes)
<1>1. Len(Orders) \in Nat /\ Hashes = 1 .. Len(Orders)
  BY InstrumentAssumption
<1>2. IsFiniteSet(1 .. Len(Orders))
  BY <1>1, FS_Interval
<1> QED BY <1>1, <1>2

\* A page that was cut has as many orders as it may.
LEMMA NewestAreEnough ==
    ASSUME NEW set \in SUBSET Hashes, NEW limit \in Nat, NewestOf(set, limit) # set
    PROVE  Cardinality(NewestOf(set, limit)) = limit
<1> DEFINE R == {p \in set \X set : p[1] > p[2]}
<1>1. IsFiniteSet(set) /\ set \subseteq Nat
  BY HashesAreNumbers, FS_Subset
<1>2. \A g, h \in set : <<g, h>> \in R <=> g > h
  OBVIOUS
<1>3. NewestOf(set, limit) = Foremost(set, R, limit)
  <2>1. ASSUME NEW h \in set PROVE {g \in set : g > h} = Before(set, R, h)
    BY <1>2 DEF Before
  <2> HIDE DEF R
  <2> QED BY <2>1 DEF NewestOf, Foremost
<1> HIDE DEF R
<1>4. Lines(set, R)
  <2>1. \A x \in set : <<x, x>> \notin R
    BY <1>1, <1>2
  <2>2. \A x, y \in set : x # y => <<x, y>> \in R \/ <<y, x>> \in R
    BY <1>1, <1>2
  <2>3. \A x, y, z \in set : <<x, y>> \in R /\ <<y, z>> \in R => <<x, z>> \in R
    BY <1>1, <1>2
  <2> QED BY <2>1, <2>2, <2>3 DEF Lines
<1>5. PICK out \in set : out \notin Foremost(set, R, limit)
  BY <1>3 DEF Foremost
<1> QED BY <1>1, <1>3, <1>4, <1>5, FullWithoutSome

\* A page of the node: what was read of each account of the roster.
LEMMA PageSound ==
    ASSUME NEW roster \in SUBSET Accounts, NEW missed \in SUBSET roster,
           NEW rows \in SUBSET Hashes, NEW limit \in Nat,
           NEW must, NEW may, {h \in must : Orders[h].author \in roster} \subseteq rows, rows \subseteq may
    PROVE  /\ Page(roster, missed, rows, limit) \in Pages
           /\ PageOf(Page(roster, missed, rows, limit), roster, must, may)
<1> DEFINE mine(a) == {h \in rows : Orders[h].author = a}
           got == [a \in roster \ missed |-> NewestOf(mine(a), limit)]
           failed == [a \in missed |-> {"unread"}]
           cut == {a \in DOMAIN got : Cardinality(got[a]) >= limit}
<1>1. PICK c : c = Coverage(Cardinality(roster), failed, cut, 0, {})
  OBVIOUS
<1>2. PICK p : p = [rows |-> UNION {got[a] : a \in DOMAIN got}, coverage |-> c]
  OBVIOUS
<1>3. Page(roster, missed, rows, limit) = p
  BY <1>1, <1>2 DEF Page
<1>4. IsFiniteSet(roster) /\ Cardinality(roster) \in Nat /\ IsFiniteSet(missed) /\ Cardinality(missed) \in Nat
  BY InstrumentAssumption, FS_Subset, FS_CardinalityType
<1>5. \A a \in roster \ missed : got[a] = NewestOf(mine(a), limit) /\ got[a] \subseteq mine(a)
  BY DEF NewestOf
<1>6. p.rows \subseteq rows
  <2> SUFFICES ASSUME NEW h \in p.rows PROVE h \in rows
    OBVIOUS
  <2>1. PICK a \in roster \ missed : h \in got[a]
    BY <1>2
  <2> QED BY <1>5, <2>1
<1>7. DOMAIN failed = missed /\ failed \in [missed -> {{"unread"}}] /\ cut \subseteq roster
  OBVIOUS
<1>8. ASSUME missed = {}, cut = {}, NEW h \in must, Orders[h].author \in roster PROVE h \in p.rows
  <2>1. PICK a \in roster \ missed : a = Orders[h].author
    BY <1>8
  <2>2. h \in mine(a)
    BY <1>8, <2>1
  <2>3. mine(a) \in SUBSET Hashes
    OBVIOUS
  <2>4. got[a] = NewestOf(mine(a), limit) /\ ~(Cardinality(got[a]) >= limit)
    BY <1>5, <1>8, <2>1
  <2> HIDE DEF mine
  <2>5. NewestOf(mine(a), limit) = mine(a)
    BY <2>3, <2>4, NewestAreEnough
  <2>6. h \in got[a] /\ a \in DOMAIN got
    BY <2>2, <2>4, <2>5
  <2> QED BY <1>2, <2>6
<1> HIDE DEF got, failed, cut
<1>9. /\ c.asked = Cardinality(roster) /\ c.read = Cardinality(roster) - Cardinality(missed)
      /\ c.failed = failed /\ c.truncated = cut /\ c.dropped = 0 /\ c.skipped = {}
      /\ c.complete = (failed = <<>> /\ cut = {} /\ 0 = 0 /\ {} = {})
      /\ c = [asked |-> c.asked, read |-> c.read, failed |-> c.failed, truncated |-> c.truncated,
              dropped |-> c.dropped, skipped |-> c.skipped, complete |-> c.complete]
  BY <1>1, <1>7 DEF Coverage
<1>10. c.complete \in BOOLEAN /\ (c.complete => failed = <<>> /\ cut = {})
  BY <1>9
<1>11. failed = <<>> => missed = {}
  <2>1. DOMAIN <<>> = {}
    OBVIOUS
  <2> QED BY <1>7, <2>1
<1>12. PageOf(p, roster, must, may)
  <2>1. p.coverage = c
    BY <1>2
  <2>2. WholePage(p) <=> missed = {} /\ cut = {}
    BY <1>7, <1>9, <2>1 DEF WholePage
  <2>3. p.rows \subseteq may /\ c.asked = Cardinality(roster) /\ DOMAIN c.failed \subseteq roster
    BY <1>6, <1>7, <1>9
  <2>4. c.complete => WholePage(p)
    BY <1>10, <1>11, <2>2
  <2>5. WholePage(p) => {h \in must : Orders[h].author \in roster} \subseteq p.rows
    BY <1>8, <2>2
  <2> QED BY <2>1, <2>3, <2>4, <2>5 DEF PageOf
<1>13. p \in Pages
  <2>1. Cardinality(roster) - Cardinality(missed) \in Int
    BY <1>4
  <2>2. missed \in SUBSET Accounts /\ cut \in SUBSET Accounts
    BY <1>7
  <2>3. failed \in UNION {[lost -> {{"unread"}}] : lost \in SUBSET Accounts}
    BY <1>7, <2>2
  <2> DEFINE Failures == UNION {[lost -> {{"unread"}}] : lost \in SUBSET Accounts}
  <2>4. c.failed \in Failures
    BY <1>9, <2>3
  <2> HIDE DEF Failures
  <2>5. c \in [asked : Nat, read : Int, failed : Failures, truncated : SUBSET Accounts,
               dropped : {0}, skipped : {{}}, complete : BOOLEAN]
    BY <1>4, <1>9, <1>10, <2>1, <2>2, <2>4
  <2>6. p.rows \in SUBSET Hashes /\ p = [rows |-> p.rows, coverage |-> c]
    BY <1>2, <1>6
  <2>7. p \in [rows : SUBSET Hashes,
               coverage : [asked : Nat, read : Int, failed : Failures, truncated : SUBSET Accounts,
                           dropped : {0}, skipped : {{}}, complete : BOOLEAN]]
    BY <2>5, <2>6
  <2> QED BY <2>7 DEF Pages, Failures
<1> QED BY <1>3, <1>12, <1>13

ReadShape(read) ==
    read = [from |-> read.from, to |-> read.to, roster |-> read.roster, book |-> read.book,
            trades |-> read.trades, stood |-> read.stood, shown |-> read.shown, sold |-> read.sold]

LEMMA ReadTyped ==
    ASSUME NEW read, ReadShape(read), read.from \in {None} \cup Int, read.to \in Nat,
           read.roster \in SUBSET Accounts, read.book \in {None} \cup Pages,
           read.trades \in {None} \cup Pages, read.stood \in SUBSET Hashes,
           read.shown \in SUBSET Hashes, read.sold \in SUBSET Hashes
    PROVE  read \in Reads
<1> DEFINE P == {None} \cup Pages
<1>1. read.book \in P /\ read.trades \in P
  OBVIOUS
<1> HIDE DEF P
<1>2. read \in [from : {None} \cup Int, to : Nat, roster : SUBSET Accounts, book : P, trades : P,
                stood : SUBSET Hashes, shown : SUBSET Hashes, sold : SUBSET Hashes]
  BY <1>1 DEF ReadShape
<1> QED BY <1>2 DEF Reads, P

LEMMA ReadType ==
    ASSUME NEW read \in Reads
    PROVE  /\ read # None
           /\ ReadShape(read) /\ read.from \in {None} \cup Int /\ read.to \in Nat
           /\ read.roster \in SUBSET Accounts /\ read.book \in {None} \cup Pages
           /\ read.trades \in {None} \cup Pages /\ read.stood \in SUBSET Hashes
           /\ read.shown \in SUBSET Hashes /\ read.sold \in SUBSET Hashes
<1> DEFINE P == {None} \cup Pages
<1>1. read \in [from : {None} \cup Int, to : Nat, roster : SUBSET Accounts, book : P, trades : P,
                stood : SUBSET Hashes, shown : SUBSET Hashes, sold : SUBSET Hashes]
  BY DEF Reads
<1> HIDE DEF P
<1>2. /\ ReadShape(read) /\ read.from \in {None} \cup Int /\ read.to \in Nat
      /\ read.roster \in SUBSET Accounts /\ read.book \in P
      /\ read.trades \in P /\ read.stood \in SUBSET Hashes
      /\ read.shown \in SUBSET Hashes /\ read.sold \in SUBSET Hashes
  BY <1>1 DEF ReadShape
<1>3. read # None
  BY InstrumentAssumption
<1> QED BY <1>2, <1>3 DEF P

\* A read as it begins.
LEMMA FreshSound ==
    ASSUME now \in Nat, known \subseteq Accounts, NEW options \in Options,
           NEW read, read = NewRead(Requested(options))
    PROVE  SoundRead(read, state)
<1>1. PICK w : w = Requested(options)
  OBVIOUS
<1>2. PICK t : t = IF options.to = None THEN now ELSE options.to
  OBVIOUS
<1>3. PICK f : f = IF options.window = None THEN options.from ELSE t - options.window
  OBVIOUS
<1>4. options.to \in {None} \cup Nat /\ options.from \in {None} \cup Nat /\ options.window \in {None} \cup Nat
  BY InstrumentAssumption
<1>5. t \in Nat /\ f \in {None} \cup Int
  <2>1. t \in Nat
    BY <1>2, <1>4
  <2> QED BY <1>3, <1>4, <2>1
<1>6. w = [from |-> f, to |-> t]
  BY <1>1, <1>2, <1>3 DEF Requested
<1> DEFINE O == Standing(state)
           G == GoneFrom(state)
<1>8. read = [from |-> f, to |-> t, roster |-> known, book |-> None, trades |-> None,
              stood |-> O, shown |-> O, sold |-> G]
  <2>1. w.from = f /\ w.to = t
    BY <1>6
  <2>2. read = NewRead(w)
    BY <1>1
  <2> QED BY <2>1, <2>2 DEF NewRead, Standing, GoneFrom
<1> HIDE DEF O, G
<1>11. /\ read.from = f /\ read.to = t /\ read.roster = known /\ read.book = None /\ read.trades = None
       /\ read.stood = O /\ read.shown = O /\ read.sold = G
  BY <1>8
<1>12. ReadShape(read)
  BY <1>8, <1>11 DEF ReadShape
<1>13. O \in SUBSET Hashes /\ G \in SUBSET Hashes /\ \A h \in O : state[h] # "none"
  BY DEF O, G, Standing, GoneFrom
<1>14. read \in Reads
  BY <1>5, <1>11, <1>12, <1>13, ReadTyped
<1> QED BY <1>11, <1>13, <1>14 DEF SoundRead, O, G

\* A page comes in.
LEMMA BookSound ==
    ASSUME NEW read, NEW st, SoundRead(read, st), NEW p \in Pages,
           PageOf(p, read.roster, read.stood, read.shown),
           NEW q, q = [read EXCEPT !.book = p]
    PROVE  SoundRead(q, st)
<1>1. /\ ReadShape(read) /\ read.from \in {None} \cup Int /\ read.to \in Nat
      /\ read.roster \in SUBSET Accounts /\ read.trades \in {None} \cup Pages
      /\ read.stood \in SUBSET Hashes /\ read.shown \in SUBSET Hashes /\ read.sold \in SUBSET Hashes
  BY ReadType DEF SoundRead
<1>2. /\ ReadShape(q) /\ q.from = read.from /\ q.to = read.to /\ q.roster = read.roster
      /\ q.book = p /\ q.trades = read.trades
      /\ q.stood = read.stood /\ q.shown = read.shown /\ q.sold = read.sold
  BY <1>1 DEF ReadShape
<1>3. q \in Reads
  BY <1>1, <1>2, ReadTyped
<1> QED BY <1>2, <1>3 DEF SoundRead

LEMMA TradesSound ==
    ASSUME NEW read, NEW st, SoundRead(read, st), NEW p \in Pages,
           PageOf(p, read.roster, read.sold, Hashes),
           NEW q, q = [read EXCEPT !.trades = p]
    PROVE  SoundRead(q, st)
<1>1. /\ ReadShape(read) /\ read.from \in {None} \cup Int /\ read.to \in Nat
      /\ read.roster \in SUBSET Accounts /\ read.book \in {None} \cup Pages
      /\ read.stood \in SUBSET Hashes /\ read.shown \in SUBSET Hashes /\ read.sold \in SUBSET Hashes
  BY ReadType DEF SoundRead
<1>2. /\ ReadShape(q) /\ q.from = read.from /\ q.to = read.to /\ q.roster = read.roster
      /\ q.book = read.book /\ q.trades = p
      /\ q.stood = read.stood /\ q.shown = read.shown /\ q.sold = read.sold
  BY <1>1 DEF ReadShape
<1>3. q \in Reads
  BY <1>1, <1>2, ReadTyped
<1> QED BY <1>2, <1>3 DEF SoundRead

\* Orders come and go while a read is under way.
LEMMA SeenSound ==
    ASSUME NEW read, NEW st, SoundRead(read, st), NEW new,
           NEW opened \in SUBSET Hashes, NEW gone,
           \A h \in Hashes \ (opened \cup gone) : new[h] = st[h],
           \A h \in opened : st[h] = "none" /\ new[h] = "open",
           \A h \in gone \cap Hashes : st[h] = "open" /\ new[h] = "sold",
           NEW q, q = [read EXCEPT !.shown = read.shown \cup opened, !.stood = read.stood \ gone]
    PROVE  SoundRead(q, new)
<1>1. /\ ReadShape(read) /\ read.from \in {None} \cup Int /\ read.to \in Nat
      /\ read.roster \in SUBSET Accounts /\ read.book \in {None} \cup Pages
      /\ read.trades \in {None} \cup Pages
      /\ read.stood \in SUBSET Hashes /\ read.shown \in SUBSET Hashes /\ read.sold \in SUBSET Hashes
  BY ReadType DEF SoundRead
<1>2. /\ ReadShape(q) /\ q.from = read.from /\ q.to = read.to /\ q.roster = read.roster
      /\ q.book = read.book /\ q.trades = read.trades
      /\ q.stood = read.stood \ gone /\ q.shown = read.shown \cup opened /\ q.sold = read.sold
  BY <1>1 DEF ReadShape
<1>3. q \in Reads
  <2>1. q.stood \in SUBSET Hashes /\ q.shown \in SUBSET Hashes
    BY <1>1, <1>2
  <2> QED BY <1>1, <1>2, <2>1, ReadTyped
<1>4. q.sold \subseteq GoneFrom(new)
  BY <1>1, <1>2 DEF SoundRead, GoneFrom
<1>5. q.stood \subseteq Standing(new)
  BY <1>1, <1>2 DEF SoundRead, Standing
<1>6. Standing(new) \subseteq q.shown
  BY <1>1, <1>2 DEF SoundRead, Standing
<1>7. \A h \in q.shown : new[h] # "none"
  BY <1>1, <1>2 DEF SoundRead
<1>8. q.book # None => PageOf(q.book, q.roster, q.stood, q.shown)
  <2> SUFFICES ASSUME q.book # None PROVE PageOf(q.book, q.roster, q.stood, q.shown)
    OBVIOUS
  <2>1. PageOf(read.book, read.roster, read.stood, read.shown)
    BY <1>2 DEF SoundRead
  <2> QED BY <1>2, <2>1 DEF PageOf
<1>9. q.trades # None => PageOf(q.trades, q.roster, q.sold, Hashes)
  BY <1>2 DEF SoundRead
<1> QED BY <1>3, <1>4, <1>5, <1>6, <1>7, <1>8, <1>9 DEF SoundRead

\* A price is a fraction of two numbers, the second one not zero.
LEMMA PriceParts ==
    ASSUME NEW h \in Hashes, Placeable(h)
    PROVE  /\ ExactPrice(Terms[h]).num \in Nat
           /\ ExactPrice(Terms[h]).den \in Nat \ {0}
<1> DEFINE u == Orders[h].units
           p == Orders[h].unitPrice
           T == Total(h)
<1>1. u \in [digits : Nat, scale : Nat] /\ p \in [digits : Nat, scale : Nat]
  BY InstrumentAssumption
<1>2. BaseDecimals \in Nat /\ QuoteDecimals \in Nat /\ MaxRaw \in Nat
  BY InstrumentAssumption
<1>3. u.scale <= BaseDecimals /\ T.scale <= QuoteDecimals /\ u.digits * p.digits \in 1 .. MaxRaw
  BY DEF Placeable
<1>4. /\ Terms[h].base = u.digits * Tens[BaseDecimals - u.scale]
      /\ Terms[h].quote = T.digits * Tens[QuoteDecimals - T.scale]
  BY DEF Terms, Raw
<1>5. /\ ExactPrice(Terms[h]).num = Terms[h].quote * Tens[BaseDecimals]
      /\ ExactPrice(Terms[h]).den = Terms[h].base * Tens[QuoteDecimals]
  BY DEF ExactPrice
<1> HIDE DEF u, p, T
<1>6. T.digits \in Nat /\ T.scale \in Nat
  <2>1. T = Product(u, p)
    BY DEF T, Total, u, p
  <2> QED BY <1>1, <2>1, ProductIsExact
<1>7. u.digits \in Nat /\ u.scale \in Nat /\ p.digits \in Nat
  BY <1>1
<1>8. QuoteDecimals - T.scale \in Nat /\ BaseDecimals - u.scale \in Nat
  BY <1>2, <1>3, <1>6, <1>7
<1>a. PICK a \in Nat : a = QuoteDecimals - T.scale
  BY <1>8
<1>b. PICK b \in Nat : b = BaseDecimals - u.scale
  BY <1>8
<1>9. /\ Tens[a] \in Nat \ {0} /\ Tens[b] \in Nat \ {0}
      /\ Tens[BaseDecimals] \in Nat \ {0} /\ Tens[QuoteDecimals] \in Nat \ {0}
  BY <1>2, TensType
<1>10. u.digits # 0
  <2>1. PICK m \in Nat, n \in Nat : m = u.digits /\ n = p.digits
    BY <1>7
  <2>2. m * n >= 1
    BY <1>2, <1>3, <2>1
  <2>3. m # 0
    BY <2>2
  <2> QED BY <2>1, <2>3
<1>11. \A k, l \in Nat : k * l \in Nat /\ (k # 0 /\ l # 0 => k * l # 0)
  OBVIOUS
<1>12. Terms[h].quote \in Nat
  BY <1>4, <1>6, <1>9, <1>11, <1>a
<1>13. Terms[h].base \in Nat /\ Terms[h].base # 0
  BY <1>4, <1>7, <1>9, <1>10, <1>11, <1>b
<1>14. ExactPrice(Terms[h]).num \in Nat
  BY <1>5, <1>9, <1>11, <1>12
<1>15. ExactPrice(Terms[h]).den \in Nat /\ ExactPrice(Terms[h]).den # 0
  BY <1>5, <1>9, <1>11, <1>13
<1> QED BY <1>14, <1>15

\* The orders that can be placed are in a line, the cheapest first; and the other way round.
LEMMA CheaperLines ==
    ASSUME NEW X \in SUBSET Hashes, \A h \in X : Placeable(h)
    PROVE  /\ Lines(X, {p \in X \X X : Cheaper(p[1], p[2])})
           /\ Lines(X, {p \in X \X X : p[1] # p[2] /\ ~Cheaper(p[1], p[2])})
<1> DEFINE num(h) == ExactPrice(Terms[h]).num
           den(h) == ExactPrice(Terms[h]).den
           Less(g, h) == num(g) * den(h) < num(h) * den(g)
           Same(g, h) == num(g) * den(h) = num(h) * den(g)
<1>1. \A h \in X : h \in Nat /\ num(h) \in Nat /\ den(h) \in Nat \ {0}
  BY PriceParts, HashesAreNumbers
<1>2. \A g, h \in X : Cheaper(g, h) <=> Less(g, h) \/ (Same(g, h) /\ g < h)
  BY DEF Cheaper
<1> HIDE DEF num, den
<1>3. \A g, h \in X : num(g) * den(h) \in Nat
  BY <1>1
<1>4. \A h \in X : ~Cheaper(h, h)
  BY <1>1, <1>2, <1>3
<1>5. \A g, h \in X : g # h => Cheaper(g, h) \/ Cheaper(h, g)
  BY <1>1, <1>2, <1>3
<1>6. \A g, h \in X : Cheaper(g, h) => ~Cheaper(h, g)
  BY <1>1, <1>2, <1>3
<1>7. ASSUME NEW g \in X, NEW h \in X, NEW i \in X, Cheaper(g, h), Cheaper(h, i)
      PROVE  Cheaper(g, i)
  <2>1. PICK a \in Nat, b \in Nat \ {0} : a = num(g) /\ b = den(g)
    BY <1>1
  <2>2. PICK c \in Nat, d \in Nat \ {0} : c = num(h) /\ d = den(h)
    BY <1>1
  <2>3. PICK e \in Nat, f \in Nat \ {0} : e = num(i) /\ f = den(i)
    BY <1>1
  <2>4. Cheaper(g, h) <=> a * d < c * b \/ (a * d = c * b /\ g < h)
    BY <1>2, <2>1, <2>2
  <2>5. Cheaper(h, i) <=> c * f < e * d \/ (c * f = e * d /\ h < i)
    BY <1>2, <2>2, <2>3
  <2>6. Cheaper(g, i) <=> a * f < e * b \/ (a * f = e * b /\ g < i)
    BY <1>2, <2>1, <2>3
  <2>7. a * d \in Nat /\ c * b \in Nat /\ c * f \in Nat /\ e * d \in Nat /\ a * f \in Nat /\ e * b \in Nat
    OBVIOUS
  <2>8. a * d <= c * b /\ c * f <= e * d
    BY <1>7, <2>4, <2>5, <2>7
  <2>9. /\ a * f <= e * b
        /\ a * f = e * b => a * d = c * b /\ c * f = e * d
    BY <2>8, CrosswiseOrder
  <2>10. a * f = e * b => g < h /\ h < i
    BY <1>7, <2>4, <2>5, <2>7, <2>9
  <2>11. g < h /\ h < i => g < i
    BY <1>1
  <2> QED BY <2>6, <2>7, <2>9, <2>10, <2>11
<1> DEFINE R == {p \in X \X X : Cheaper(p[1], p[2])}
           Q == {p \in X \X X : p[1] # p[2] /\ ~Cheaper(p[1], p[2])}
<1>8. \A g, h \in X : (<<g, h>> \in R <=> Cheaper(g, h)) /\ (<<g, h>> \in Q <=> g # h /\ ~Cheaper(g, h))
  OBVIOUS
<1>9. \A g, h \in X : <<g, h>> \in Q <=> Cheaper(h, g)
  BY <1>4, <1>5, <1>6, <1>8
<1> HIDE DEF R, Q
<1>10. Lines(X, R)
  BY <1>4, <1>5, <1>7, <1>8 DEF Lines
<1>11. Lines(X, Q)
  BY <1>4, <1>5, <1>7, <1>9 DEF Lines
<1> QED BY <1>10, <1>11 DEF R, Q

\* An order that a book leaves out leaves its side full.
LEMMA BookIsFull ==
    ASSUME NEW rows \in SUBSET Hashes, \A h \in rows : Placeable(h), NEW depth \in Nat,
           NEW out \in rows, out \notin BookFrom(rows, depth)
    PROVE  Cardinality(Side(BookFrom(rows, depth), Orders[out].side)) = depth
<1> DEFINE A == Side(rows, "ask")
           B == Side(rows, "bid")
           R == {p \in A \X A : Cheaper(p[1], p[2])}
           Q == {p \in B \X B : p[1] # p[2] /\ ~Cheaper(p[1], p[2])}
<1>1. /\ A \in SUBSET Hashes /\ B \in SUBSET Hashes
      /\ \A h \in A : Placeable(h) /\ Orders[h].side = "ask"
      /\ \A h \in B : Placeable(h) /\ Orders[h].side = "bid"
  BY DEF Side
<1>2. out \in A \/ out \in B
  BY InstrumentAssumption DEF Side
<1>3. \A g, h \in A : <<g, h>> \in R <=> Cheaper(g, h)
  OBVIOUS
<1>4. \A g, h \in B : <<g, h>> \in Q <=> g # h /\ ~Cheaper(g, h)
  OBVIOUS
<1> HIDE DEF A, B
<1>5. Lines(A, R) /\ Lines(B, Q)
  BY <1>1, CheaperLines
<1> HIDE DEF R, Q
<1>6. \A h \in A : {g \in A : Cheaper(g, h)} = Before(A, R, h)
  BY <1>3 DEF Before
<1>7. \A h \in B : {g \in B : g # h /\ ~Cheaper(g, h)} = Before(B, Q, h)
  BY <1>4 DEF Before
<1>8. BookFrom(rows, depth) = {h \in A : Cardinality({g \in A : Cheaper(g, h)}) < depth}
         \cup {h \in B : Cardinality({g \in B : g # h /\ ~Cheaper(g, h)}) < depth}
  BY DEF BookFrom, A, B
<1>9. BookFrom(rows, depth) = Foremost(A, R, depth) \cup Foremost(B, Q, depth)
  BY <1>6, <1>7, <1>8 DEF Foremost
<1>10. Foremost(A, R, depth) \subseteq A /\ Foremost(B, Q, depth) \subseteq B
  BY DEF Foremost
<1>11. A \subseteq Hashes /\ B \subseteq Hashes
  BY <1>1
<1>12. /\ Side(BookFrom(rows, depth), "ask") = Foremost(A, R, depth)
       /\ Side(BookFrom(rows, depth), "bid") = Foremost(B, Q, depth)
  BY <1>1, <1>9, <1>10 DEF Side
<1>13. IsFiniteSet(A) /\ IsFiniteSet(B)
  BY <1>1, HashesAreNumbers, FS_Subset
<1>14. CASE out \in A
  <2>1. Orders[out].side = "ask" /\ out \notin Foremost(A, R, depth)
    BY <1>1, <1>9, <1>14
  <2>2. Cardinality(Foremost(A, R, depth)) = depth
    BY <1>5, <1>13, <1>14, <2>1, FullWithoutSome
  <2> QED BY <1>12, <2>1, <2>2
<1>15. CASE out \in B
  <2>1. Orders[out].side = "bid" /\ out \notin Foremost(B, Q, depth)
    BY <1>1, <1>9, <1>15
  <2>2. Cardinality(Foremost(B, Q, depth)) = depth
    BY <1>5, <1>13, <1>15, <2>1, FullWithoutSome
  <2> QED BY <1>12, <2>1, <2>2
<1> QED BY <1>2, <1>14, <1>15

\* What two sound pages say of themselves together.
LEMMA MergedWhole ==
    ASSUME NEW c, NEW d, Merge(c, d).complete
    PROVE  /\ DOMAIN c.failed = {} /\ DOMAIN d.failed = {}
           /\ c.truncated = {} /\ d.truncated = {}
<1>1. Unite(c.failed, d.failed) = <<>> /\ c.truncated \cup d.truncated = {}
  <2>1. PICK u : u = Unite(c.failed, d.failed)
    OBVIOUS
  <2>2. PICK m : m = Max({c.dropped, d.dropped})
    OBVIOUS
  <2>3. PICK t : t = c.truncated \cup d.truncated
    OBVIOUS
  <2>4. PICK k : k = c.skipped \cup d.skipped
    OBVIOUS
  <2>5. Merge(c, d) = Coverage(c.asked, u, t, m, k)
    BY <2>1, <2>2, <2>3, <2>4 DEF Merge
  <2>6. Coverage(c.asked, u, t, m, k).complete = (u = <<>> /\ t = {} /\ m = 0 /\ k = {})
    BY DEF Coverage
  <2> QED BY <2>1, <2>3, <2>5, <2>6
<1>2. DOMAIN Unite(c.failed, d.failed) = DOMAIN c.failed \cup DOMAIN d.failed
  BY DEF Unite
<1>3. DOMAIN <<>> = {}
  OBVIOUS
<1>4. DOMAIN c.failed \cup DOMAIN d.failed = {}
  BY <1>1, <1>2, <1>3
<1> QED BY <1>1, <1>4

\* A snapshot of a sound read is honest.
LEMMA HonestSound ==
    ASSUME PriceInv, NEW options \in Options, NEW read, SoundRead(read, state),
           read.book # None, read.trades # None
    PROVE  Honest(read, options, Snapshot(read, options))
<1> DEFINE book == BookFrom(read.book.rows, options.depth)
           shown == Selected(read.trades.rows, read)
           untimed == {h \in shown : at[h] = None} \cup Unplaced(read.trades.rows, read)
           covered == Merge(read.book.coverage, read.trades.coverage).complete
           whole == read.trades.coverage.complete /\ untimed = {}
           owed == Owed(read)
           snapshot == Snapshot(read, options)
<1>1. /\ PageOf(read.book, read.roster, read.stood, read.shown)
      /\ PageOf(read.trades, read.roster, read.sold, Hashes)
  BY DEF SoundRead
<1>2. /\ read.book.rows \in SUBSET Hashes /\ read.book.rows \subseteq read.shown
      /\ read.trades.rows \in SUBSET Hashes
      /\ \A h \in read.book.rows : Placeable(h)
  <2>1. read.shown \in SUBSET Hashes /\ \A h \in read.shown : state[h] # "none"
    BY ReadType DEF SoundRead
  <2>2. \A h \in read.shown : Placeable(h)
    BY <2>1 DEF PriceInv
  <2> QED BY <1>1, <2>1, <2>2 DEF PageOf
<1>3. options.depth \in Nat
  BY InstrumentAssumption
<1>4. /\ snapshot.book = book /\ snapshot.rows = shown /\ snapshot.untimed = Cardinality(untimed)
      /\ snapshot.covered = covered
      /\ snapshot.complete = (read.book.coverage.complete /\ whole)
  <2>1. PICK H : H = History(read)
    OBVIOUS
  <2>2. H.rows = shown /\ H.untimed = Cardinality(untimed) /\ H.complete = whole
    BY <2>1 DEF History
  <2>3. snapshot = [book |-> book, rows |-> H.rows, untimed |-> H.untimed, covered |-> covered,
                    complete |-> read.book.coverage.complete /\ H.complete]
    BY <2>1 DEF Snapshot
  <2> HIDE DEF book, shown, untimed, covered, whole, snapshot
  <2> QED BY <2>2, <2>3
<1>5. /\ owed.trades = {h \in read.sold : Orders[h].author \in read.roster /\ at[h] # None
                   /\ at[h] <= read.to /\ (read.from # None => at[h] >= read.from)}
      /\ owed.untimed = {h \in read.sold : Orders[h].author \in read.roster /\ at[h] = None}
      /\ owed.orders = {h \in read.stood : Orders[h].author \in read.roster}
  BY DEF Owed
<1>6. shown = {h \in read.trades.rows : IF at[h] = None THEN read.from = None
                  ELSE at[h] <= read.to /\ (read.from = None \/ at[h] >= read.from)}
  BY DEF Selected
<1>7. untimed = {h \in read.trades.rows : at[h] = None}
  BY <1>6 DEF Unplaced
<1>8. book \subseteq read.book.rows
  BY DEF BookFrom, Side
<1> HIDE DEF book, shown, untimed, covered, whole, owed, snapshot
<1>9. covered => /\ {h \in read.stood : Orders[h].author \in read.roster} \subseteq read.book.rows
                 /\ {h \in read.sold : Orders[h].author \in read.roster} \subseteq read.trades.rows
  <2> SUFFICES ASSUME covered
               PROVE  /\ {h \in read.stood : Orders[h].author \in read.roster} \subseteq read.book.rows
                      /\ {h \in read.sold : Orders[h].author \in read.roster} \subseteq read.trades.rows
    OBVIOUS
  <2>1. WholePage(read.book) /\ WholePage(read.trades)
    BY MergedWhole DEF covered, WholePage
  <2> QED BY <1>1, <2>1 DEF PageOf
<1>10. snapshot.book \subseteq read.shown
  BY <1>2, <1>4, <1>8
<1>11. \A h \in snapshot.rows : at[h] = None \/
             (at[h] <= read.to /\ (read.from # None => at[h] >= read.from))
  BY <1>4, <1>6
<1>12. snapshot.covered => owed.trades \subseteq snapshot.rows
  BY <1>4, <1>5, <1>6, <1>9
<1>13. snapshot.covered => snapshot.untimed >= Cardinality(owed.untimed)
  <2> SUFFICES ASSUME snapshot.covered PROVE snapshot.untimed >= Cardinality(owed.untimed)
    OBVIOUS
  <2>1. owed.untimed \in SUBSET untimed
    BY <1>4, <1>5, <1>7, <1>9
  <2>2. IsFiniteSet(untimed)
    BY <1>2, <1>7, HashesAreNumbers, FS_Subset
  <2>3. /\ Cardinality(owed.untimed) <= Cardinality(untimed)
        /\ Cardinality(untimed) \in Nat /\ Cardinality(owed.untimed) \in Nat
    BY <2>1, <2>2, FS_Subset, FS_CardinalityType
  <2> QED BY <1>4, <2>3
<1>14. snapshot.covered => \A h \in owed.orders \ snapshot.book :
                  Cardinality(Side(snapshot.book, Orders[h].side)) = options.depth
  <2> SUFFICES ASSUME snapshot.covered, NEW h \in owed.orders \ snapshot.book
               PROVE  Cardinality(Side(snapshot.book, Orders[h].side)) = options.depth
    OBVIOUS
  <2>1. h \in read.book.rows /\ h \notin book
    BY <1>4, <1>5, <1>9
  <2>2. Cardinality(Side(book, Orders[h].side)) = options.depth
    BY <1>2, <1>3, <2>1, BookIsFull DEF book
  <2> QED BY <1>4, <2>2
<1>15. snapshot.complete => owed.untimed = {}
  <2> SUFFICES ASSUME snapshot.complete PROVE owed.untimed = {}
    OBVIOUS
  <2>1. read.trades.coverage.complete /\ untimed = {}
    BY <1>4 DEF whole
  <2>2. {h \in read.sold : Orders[h].author \in read.roster} \subseteq read.trades.rows
    BY <1>1, <2>1 DEF PageOf
  <2> QED BY <1>5, <1>7, <2>1, <2>2
<1> QED BY <1>10, <1>11, <1>12, <1>13, <1>14, <1>15 DEF Honest, owed, snapshot

\* The pages of a read are of one scope.
LEMMA PagesFit ==
    ASSUME NEW read, SoundRead(read, state), read.book # None, read.trades # None
    PROVE  Mergeable(read.book.coverage, read.trades.coverage)
<1>1. /\ PageOf(read.book, read.roster, read.stood, read.shown)
      /\ PageOf(read.trades, read.roster, read.sold, Hashes)
      /\ read.roster \in SUBSET Accounts
  BY ReadType DEF SoundRead
<1> DEFINE D == DOMAIN read.book.coverage.failed \cup DOMAIN read.trades.coverage.failed
<1>2. D \in SUBSET read.roster
  BY <1>1 DEF PageOf
<1>3. IsFiniteSet(read.roster)
  BY <1>1, InstrumentAssumption, FS_Subset
<1> HIDE DEF D
<1>4. Cardinality(D) <= Cardinality(read.roster)
  BY <1>2, <1>3, FS_Subset
<1>5. /\ read.book.coverage.asked = Cardinality(read.roster)
      /\ read.trades.coverage.asked = Cardinality(read.roster)
  BY <1>1 DEF PageOf
<1> QED BY <1>4, <1>5 DEF Mergeable, D

\* What ToldTruly says of a step for one subscription.
Tells(s) ==
    /\ sub'[s].told # sub[s].told /\ sub'[s].told # None => sub[s].phase # "stopped"
    /\ sub[s].phase = "open" /\ sub[s].running /\ ~sub'[s].running =>
        LET told == sub'[s].told
            before == sub[s].lastGood
        IN  IF told.status = "live"
            THEN /\ Honest(sub[s].read, sub[s].options,
                           Snapshot(sub[s].read, sub[s].options))
                 /\ sub'[s].lastGood = now
            ELSE /\ sub'[s].lastGood = before
                 /\ Caused(s)
                 /\ clock = "ok" /\ before # None =>
                      /\ told.age \in Nat
                      /\ before <= now =>
                           /\ told.age = now - before
                           /\ told.stale = (now - before >= sub[s].options.staleAfter)

\* From r to q, no read ends and no listener that has stopped is told anything.
Quiet(r, q) ==
    /\ q.told = r.told \/ q.told = None \/ r.phase # "stopped"
    /\ r.phase = "open" /\ r.running = TRUE => q.running = TRUE

\* What is left of a subscription that is stopped.
LEMMA StoppedParts ==
    ASSUME NEW r, Shaped(r)
    PROVE  /\ Shaped(Stopped(r)) /\ Stopped(r).phase = "stopped"
           /\ Stopped(r).options = r.options /\ Stopped(r).lastGood = r.lastGood
           /\ Stopped(r).told = r.told /\ Stopped(r).running = r.running
           /\ Stopped(r).read = r.read \/ Stopped(r).read = None
<1> DEFINE new == IF r.read # None /\ r.read.book # None /\ r.read.trades # None THEN r.read ELSE None
<1>1. PICK q : q = [r EXCEPT !.phase = "stopped", !.timer = "none", !.pending = FALSE, !.owes = "no",
                             !.failed = FALSE, !.read = new]
  OBVIOUS
<1>2. Stopped(r) = q
  BY <1>1 DEF Stopped
<1>3. new = r.read \/ new = None
  OBVIOUS
<1> HIDE DEF new
<1>4. /\ Shaped(q) /\ q.phase = "stopped" /\ q.options = r.options /\ q.lastGood = r.lastGood
      /\ q.told = r.told /\ q.running = r.running /\ q.read = new
  BY <1>1 DEF Shaped, Parts
<1> QED BY <1>2, <1>3, <1>4

LEMMA DroppedParts ==
    ASSUME NEW r, Shaped(r)
    PROVE  /\ Dropped(r).phase = "stopped" /\ Dropped(r).options = r.options
           /\ Dropped(r).lastGood = None /\ Dropped(r).told = None
           /\ Dropped(r).running = r.running
           /\ Dropped(r).read = r.read \/ Dropped(r).read = None
<1>1. PICK p : p = Stopped(r)
  OBVIOUS
<1>2. /\ Shaped(p) /\ p.phase = "stopped" /\ p.options = r.options /\ p.running = r.running
      /\ p.read = r.read \/ p.read = None
  BY <1>1, StoppedParts
<1>3. PICK q : q = [p EXCEPT !.lastGood = None, !.told = None]
  OBVIOUS
<1>4. Dropped(r) = q
  BY <1>1, <1>3 DEF Dropped
<1>5. /\ q.phase = p.phase /\ q.options = p.options /\ q.lastGood = None /\ q.told = None
      /\ q.running = p.running /\ q.read = p.read
  BY <1>2, <1>3 DEF Shaped, Parts
<1> QED BY <1>2, <1>4, <1>5

LEMMA TerminalParts ==
    ASSUME NEW r, Shaped(r)
    PROVE  /\ Shaped(Terminal(r)) /\ Terminal(r).phase = "stopped" /\ Terminal(r).options = r.options
           /\ Terminal(r).lastGood = r.lastGood /\ Terminal(r).told.status = "error"
           /\ Terminal(r).running = r.running
           /\ Terminal(r).read = r.read \/ Terminal(r).read = None
<1>0. PICK age : age = IF r.lastGood = None THEN None ELSE 0
  OBVIOUS
<1>1. PICK q : q = [r EXCEPT !.told = [status |-> "error", stale |-> FALSE, age |-> age]]
  OBVIOUS
<1>2. Terminal(r) = Stopped(q)
  BY <1>0, <1>1 DEF Terminal
<1>3. /\ Shaped(q) /\ q.options = r.options /\ q.lastGood = r.lastGood /\ q.told.status = "error"
      /\ q.running = r.running /\ q.read = r.read
  BY <1>1 DEF Shaped, Parts
<1>4. /\ Shaped(Stopped(q)) /\ Stopped(q).phase = "stopped"
      /\ Stopped(q).options = q.options /\ Stopped(q).lastGood = q.lastGood
      /\ Stopped(q).told = q.told /\ Stopped(q).running = q.running
      /\ Stopped(q).read = q.read \/ Stopped(q).read = None
  BY <1>3, StoppedParts
<1> QED BY <1>2, <1>3, <1>4

LEMMA SettledParts ==
    ASSUME NEW r, Shaped(r)
    PROVE  /\ Settled(r).phase = r.phase /\ Settled(r).options = r.options
           /\ Settled(r).lastGood = r.lastGood /\ Settled(r).told = r.told
           /\ Settled(r).running = FALSE /\ Settled(r).read = None
<1>1. PICK e : e = [r EXCEPT !.running = FALSE, !.failed = FALSE, !.read = None]
  OBVIOUS
<1>2. /\ Shaped(e) /\ e.phase = r.phase /\ e.options = r.options /\ e.lastGood = r.lastGood
      /\ e.told = r.told /\ e.running = FALSE /\ e.read = None
  BY <1>1 DEF Shaped, Parts
<1>3. CASE r.phase = "stopped"
  <2>1. Settled(r) = e
    BY <1>1, <1>3 DEF Settled
  <2> QED BY <1>2, <2>1
<1>4. CASE r.phase # "stopped"
  <2>1. PICK q : q = [e EXCEPT !.pending = FALSE, !.timer = IF r.pending THEN "now" ELSE "later",
                               !.owes = IF e.owes = "reading" THEN "no" ELSE e.owes]
    OBVIOUS
  <2>2. Settled(r) = q
    BY <1>1, <1>4, <2>1 DEF Settled
  <2>3. /\ q.phase = e.phase /\ q.options = e.options /\ q.lastGood = e.lastGood
        /\ q.told = e.told /\ q.running = e.running /\ q.read = e.read
    BY <1>2, <2>1 DEF Shaped, Parts
  <2> QED BY <1>2, <2>2, <2>3
<1> QED BY <1>3, <1>4

LEMMA RefreshedParts ==
    ASSUME NEW r, Shaped(r)
    PROVE  /\ Refreshed(r).phase = r.phase /\ Refreshed(r).options = r.options
           /\ Refreshed(r).lastGood = r.lastGood /\ Refreshed(r).told = r.told
           /\ Refreshed(r).running = r.running /\ Refreshed(r).read = r.read
           /\ Refreshed(r).failed = r.failed
<1>1. CASE r.phase # "open"
  BY <1>1 DEF Refreshed
<1>2. CASE r.phase = "open" /\ r.running
  <2>1. PICK q : q = [r EXCEPT !.pending = TRUE, !.owes = "yes"]
    OBVIOUS
  <2>2. Refreshed(r) = q
    BY <1>2, <2>1 DEF Refreshed
  <2>3. /\ q.phase = r.phase /\ q.options = r.options /\ q.lastGood = r.lastGood /\ q.told = r.told
        /\ q.running = r.running /\ q.read = r.read /\ q.failed = r.failed
    BY <2>1 DEF Shaped, Parts
  <2> QED BY <2>2, <2>3
<1>3. CASE r.phase = "open" /\ ~r.running
  <2>1. PICK q : q = [r EXCEPT !.timer = "now", !.owes = "yes"]
    OBVIOUS
  <2>2. Refreshed(r) = q
    BY <1>3, <2>1 DEF Refreshed
  <2>3. /\ q.phase = r.phase /\ q.options = r.options /\ q.lastGood = r.lastGood /\ q.told = r.told
        /\ q.running = r.running /\ q.read = r.read /\ q.failed = r.failed
    BY <2>1 DEF Shaped, Parts
  <2> QED BY <2>2, <2>3
<1> QED BY <1>1, <1>2, <1>3

\* A step that changes one subscription.
LEMMA ChangeSound ==
    ASSUME WakeInv, ReadInv, NEW s \in Subscribers, NEW r, SoundSub(r, state), Changes(s, r),
           now' = now, known' = known, state' = state
    PROVE  ReadInv' /\ sub'[s] = r /\ \A t \in Subscribers \ {s} : Tells(t)
<1>1. sub' = [sub EXCEPT ![s] = r]
  BY DEF Changes
<1>2. sub'[s] = r /\ \A t \in Subscribers \ {s} : sub'[t] = sub[t]
  BY <1>1 DEF WakeInv
<1>3. \A t \in Subscribers : SoundSub(sub'[t], state)
  BY <1>2 DEF ReadInv
<1>4. ReadInv'
  BY <1>3 DEF ReadInv
<1>5. ASSUME NEW t \in Subscribers \ {s} PROVE Tells(t)
  <2>1. sub'[t] = sub[t]
    BY <1>2
  <2>2. sub'[t].told = sub[t].told /\ ~(sub[t].running /\ ~sub'[t].running)
    BY <2>1
  <2> QED BY <2>2 DEF Tells
<1> QED BY <1>2, <1>4, <1>5

LEMMA QuietTells ==
    ASSUME WakeInv, NEW s \in Subscribers, Quiet(sub[s], sub'[s])
    PROVE  Tells(s)
<1>1. sub'[s].told # sub[s].told /\ sub'[s].told # None => sub[s].phase # "stopped"
  BY DEF Quiet
<1>2. sub[s].running \in BOOLEAN
  BY DEF WakeInv, Wakeful
<1>3. ~(sub[s].phase = "open" /\ sub[s].running /\ ~sub'[s].running)
  BY <1>2 DEF Quiet
<1> QED BY <1>1, <1>3 DEF Tells

LEMMA QuietSound ==
    ASSUME WakeInv, ReadInv, NEW s \in Subscribers, NEW r, SoundSub(r, state), Changes(s, r),
           now' = now, known' = known, state' = state, Quiet(sub[s], r)
    PROVE  ReadInv' /\ \A t \in Subscribers : Tells(t)
<1>1. ReadInv' /\ sub'[s] = r /\ \A t \in Subscribers \ {s} : Tells(t)
  BY ChangeSound
<1>2. Tells(s)
  BY <1>1, QuietTells
<1> QED BY <1>1, <1>2

\* What a sound subscription becomes, if it keeps its options and forgets no read it needs.
LEMMA SubSound ==
    ASSUME NEW r, NEW st, SoundSub(r, st), NEW q,
           q.phase # "none" => q.options = r.options /\ r.phase # "none",
           q.lastGood = r.lastGood \/ q.lastGood = None,
           q.read = r.read \/ q.read = None,
           q.phase = "open" /\ q.running = TRUE /\ q.read = None =>
             /\ r.phase = "open" /\ r.running = TRUE /\ r.read = None
             /\ q.failed = r.failed
    PROVE  SoundSub(q, st)
BY DEF SoundSub

LEMMA SubscribeTells ==
    ASSUME WakeInv, ReadInv, NEW s \in Subscribers, NEW options \in Options, Subscribe(s, options)
    PROVE  ReadInv' /\ \A t \in Subscribers : Tells(t)
<1>0. /\ Shaped(sub[s]) /\ sub[s].phase = "none" /\ sub[s].running = FALSE
      /\ SoundSub(sub[s], state)
  BY DEF WakeInv, Wakeful, Subscribe, ReadInv
<1>1. PICK r : r = [sub[s] EXCEPT !.phase = "open", !.options = options]
  OBVIOUS
<1>2. PICK q : q = [r EXCEPT !.held = TRUE,
                             !.told = [status |-> "opening", age |-> None, stale |-> FALSE],
                             !.timer = "now"]
  OBVIOUS
<1>3. Changes(s, IF clock = "broken" THEN r ELSE q) /\ now' = now /\ known' = known /\ state' = state
  BY <1>1, <1>2 DEF Subscribe, World
<1>4. /\ Shaped(r) /\ r.options = options /\ r.lastGood = sub[s].lastGood
      /\ r.read = sub[s].read /\ r.running = FALSE
  BY <1>0, <1>1 DEF Shaped, Parts
<1>5. /\ q.options = options /\ q.lastGood = sub[s].lastGood
      /\ q.read = sub[s].read /\ q.running = FALSE
  BY <1>2, <1>4 DEF Shaped, Parts
<1>6. SoundSub(r, state) /\ SoundSub(q, state)
  BY <1>0, <1>4, <1>5 DEF SoundSub
<1>7. Quiet(sub[s], r) /\ Quiet(sub[s], q)
  BY <1>0 DEF Quiet
<1>8. PICK n : n = IF clock = "broken" THEN r ELSE q
  OBVIOUS
<1>9. SoundSub(n, state) /\ Quiet(sub[s], n) /\ Changes(s, n)
  BY <1>3, <1>6, <1>7, <1>8
<1> QED BY <1>3, <1>9, QuietSound

LEMMA BeginTells ==
    ASSUME WakeInv, ReadInv, NEW s \in Subscribers, Begin(s)
    PROVE  ReadInv' /\ \A t \in Subscribers : Tells(t)
<1>0. /\ Wakeful(sub[s]) /\ Shaped(sub[s]) /\ sub[s].phase = "open" /\ sub[s].timer # "none"
      /\ SoundSub(sub[s], state)
  BY DEF WakeInv, Wakeful, Begin, Open, ReadInv
<1>1. sub[s].running = FALSE
  BY <1>0 DEF Wakeful
<1>2. PICK r : r = [sub[s] EXCEPT !.timer = "none", !.running = TRUE,
                                  !.owes = IF @ = "yes" THEN "reading" ELSE @]
  OBVIOUS
<1>3. PICK read : read = NewRead(Requested(r.options))
  OBVIOUS
<1>4. PICK q : q = [r EXCEPT !.read = read]
  OBVIOUS
<1>5. /\ Changes(s, IF clock = "broken" THEN Settled(Terminal(r)) ELSE q)
      /\ now' = now /\ known' = known /\ state' = state
  BY <1>1, <1>2, <1>3, <1>4 DEF Begin, World
<1>6. /\ Shaped(r) /\ r.phase = "open" /\ r.options = sub[s].options /\ r.lastGood = sub[s].lastGood
  BY <1>0, <1>2 DEF Shaped, Parts
<1>7. /\ q.phase = "open" /\ q.options = sub[s].options /\ q.lastGood = sub[s].lastGood
      /\ q.read = read
  BY <1>4, <1>6 DEF Shaped, Parts
<1>8. SoundRead(read, state) /\ read # None
  <2>1. sub[s].options \in Options /\ now \in Nat /\ known \subseteq Accounts
    BY <1>0 DEF SoundSub, ReadInv
  <2>2. SoundRead(read, state)
    BY <1>3, <1>6, <2>1, FreshSound
  <2> QED BY <2>2, ReadType DEF SoundRead
<1>9. SoundSub(q, state)
  BY <1>0, <1>7, <1>8 DEF SoundSub
<1>10. PICK p : p = Settled(Terminal(r))
  OBVIOUS
<1>11. /\ p.phase = "stopped" /\ p.options = sub[s].options /\ p.lastGood = sub[s].lastGood
       /\ p.read = None
  <2>1. /\ Shaped(Terminal(r)) /\ Terminal(r).phase = "stopped" /\ Terminal(r).options = r.options
        /\ Terminal(r).lastGood = r.lastGood
    BY <1>6, TerminalParts
  <2>2. /\ p.phase = Terminal(r).phase /\ p.options = Terminal(r).options
        /\ p.lastGood = Terminal(r).lastGood /\ p.read = None
    BY <1>10, <2>1, SettledParts
  <2> QED BY <1>6, <2>1, <2>2
<1>12. SoundSub(p, state)
  BY <1>0, <1>11 DEF SoundSub
<1>13. Quiet(sub[s], p) /\ Quiet(sub[s], q)
  BY <1>0, <1>1 DEF Quiet
<1>14. PICK n : n = IF clock = "broken" THEN p ELSE q
  OBVIOUS
<1>15. SoundSub(n, state) /\ Quiet(sub[s], n) /\ Changes(s, n)
  BY <1>5, <1>9, <1>10, <1>12, <1>13, <1>14
<1> QED BY <1>5, <1>15, QuietSound

\* What the two pages of a read are asked of.
LEMMA ReadingSound ==
    ASSUME WakeInv, ReadInv, NEW s \in Subscribers, Reading(s)
    PROVE  /\ Shaped(sub[s]) /\ sub[s].running = TRUE /\ SoundSub(sub[s], state)
           /\ sub[s].options \in Options /\ sub[s].options.limit \in Nat
           /\ SoundRead(sub[s].read, state) /\ sub[s].read.roster \in SUBSET Accounts
<1>1. /\ Wakeful(sub[s]) /\ SoundSub(sub[s], state) /\ sub[s].read # None /\ sub[s].running = TRUE
  BY DEF WakeInv, Wakeful, ReadInv, Reading
<1>2. sub[s].phase # "none" /\ Shaped(sub[s])
  BY <1>1 DEF Wakeful
<1>3. sub[s].options \in Options
  BY <1>1, <1>2 DEF SoundSub
<1>4. sub[s].options.limit \in Nat
  BY <1>3, InstrumentAssumption
<1>5. SoundRead(sub[s].read, state)
  BY <1>1 DEF SoundSub
<1> QED BY <1>1, <1>2, <1>3, <1>4, <1>5, ReadType DEF SoundRead

LEMMA NextReadSound ==
    ASSUME WakeInv, ReadInv, NEW s \in Subscribers, Reading(s), NEW read, SoundRead(read, state),
           NEW q, q = [sub[s] EXCEPT !.read = read], Changes(s, q),
           now' = now, known' = known, state' = state
    PROVE  ReadInv' /\ \A t \in Subscribers : Tells(t)
<1>1. Shaped(sub[s]) /\ sub[s].running = TRUE /\ SoundSub(sub[s], state)
  BY ReadingSound
<1>2. /\ q.phase = sub[s].phase /\ q.options = sub[s].options /\ q.lastGood = sub[s].lastGood
      /\ q.told = sub[s].told /\ q.running = TRUE /\ q.read = read
  BY <1>1 DEF Shaped, Parts
<1>3. read # None
  BY ReadType DEF SoundRead
<1>4. SoundSub(q, state)
  BY <1>1, <1>2, <1>3 DEF SoundSub
<1>5. Quiet(sub[s], q)
  BY <1>2 DEF Quiet
<1> QED BY <1>4, <1>5, QuietSound

LEMMA ReadBookTells ==
    ASSUME WakeInv, ReadInv, NEW s \in Subscribers, NEW missed, ReadBook(s, missed)
    PROVE  ReadInv' /\ \A t \in Subscribers : Tells(t)
<1>1. /\ Reading(s) /\ missed \in SUBSET sub[s].read.roster
      /\ now' = now /\ known' = known /\ state' = state
  BY DEF ReadBook, World, Roster
<1>2. /\ Shaped(sub[s]) /\ sub[s].options.limit \in Nat
      /\ SoundRead(sub[s].read, state) /\ sub[s].read.roster \in SUBSET Accounts
  BY <1>1, ReadingSound
<1>3. PICK read : read = sub[s].read
  OBVIOUS
<1>4. PICK rows : rows = {h \in In(s) : state[h] = "open"}
  OBVIOUS
<1>5. PICK p : p = Page(read.roster, missed, rows, sub[s].options.limit)
  OBVIOUS
<1>6. PICK n : n = [read EXCEPT !.book = p]
  OBVIOUS
<1>7. PICK q : q = [sub[s] EXCEPT !.read = n]
  OBVIOUS
<1>8. Changes(s, q)
  <2>1. Changes(s, [sub[s] EXCEPT !.read.book = p])
    BY <1>3, <1>4, <1>5 DEF ReadBook, Roster
  <2>2. [sub[s] EXCEPT !.read.book = p] = [sub[s] EXCEPT !.read = [sub[s].read EXCEPT !.book = p]]
    BY <1>2 DEF Shaped, Parts
  <2> QED BY <1>3, <1>6, <1>7, <2>1, <2>2
<1>9. /\ rows \in SUBSET Hashes
      /\ {h \in read.stood : Orders[h].author \in read.roster} \subseteq rows
      /\ rows \subseteq read.shown
  <2>1. read.stood \subseteq Standing(state) /\ Standing(state) \subseteq read.shown
    BY <1>2, <1>3 DEF SoundRead
  <2>2. rows = {h \in Standing(state) : Orders[h].author \in read.roster}
    BY <1>3, <1>4 DEF In, Roster, Standing
  <2> QED BY <2>1, <2>2 DEF Standing
<1>10. p \in Pages /\ PageOf(p, read.roster, read.stood, read.shown)
  BY <1>1, <1>2, <1>3, <1>5, <1>9, PageSound
<1>11. SoundRead(n, state)
  BY <1>2, <1>3, <1>6, <1>10, BookSound
<1> QED BY <1>1, <1>7, <1>8, <1>11, NextReadSound

LEMMA ReadTradesTells ==
    ASSUME WakeInv, ReadInv, NEW s \in Subscribers, NEW missed, ReadTrades(s, missed)
    PROVE  ReadInv' /\ \A t \in Subscribers : Tells(t)
<1>1. /\ Reading(s) /\ missed \in SUBSET sub[s].read.roster
      /\ now' = now /\ known' = known /\ state' = state
  BY DEF ReadTrades, World, Roster
<1>2. /\ Shaped(sub[s]) /\ sub[s].options.limit \in Nat
      /\ SoundRead(sub[s].read, state) /\ sub[s].read.roster \in SUBSET Accounts
  BY <1>1, ReadingSound
<1>3. PICK read : read = sub[s].read
  OBVIOUS
<1>4. PICK rows : rows = {h \in In(s) : state[h] = "sold"}
  OBVIOUS
<1>5. PICK p : p = Page(read.roster, missed, rows, sub[s].options.limit)
  OBVIOUS
<1>6. PICK n : n = [read EXCEPT !.trades = p]
  OBVIOUS
<1>7. PICK q : q = [sub[s] EXCEPT !.read = n]
  OBVIOUS
<1>8. Changes(s, q)
  <2>1. Changes(s, [sub[s] EXCEPT !.read.trades = p])
    BY <1>3, <1>4, <1>5 DEF ReadTrades, Roster
  <2>2. [sub[s] EXCEPT !.read.trades = p] = [sub[s] EXCEPT !.read = [sub[s].read EXCEPT !.trades = p]]
    BY <1>2 DEF Shaped, Parts
  <2> QED BY <1>3, <1>6, <1>7, <2>1, <2>2
<1>9. /\ rows \in SUBSET Hashes
      /\ {h \in read.sold : Orders[h].author \in read.roster} \subseteq rows
  <2>1. read.sold \subseteq GoneFrom(state)
    BY <1>2, <1>3 DEF SoundRead
  <2>2. rows = {h \in GoneFrom(state) : Orders[h].author \in read.roster}
    BY <1>3, <1>4 DEF In, Roster, GoneFrom
  <2> QED BY <2>1, <2>2 DEF GoneFrom
<1>10. p \in Pages /\ PageOf(p, read.roster, read.sold, Hashes)
  BY <1>1, <1>2, <1>3, <1>5, <1>9, PageSound
<1>11. SoundRead(n, state)
  BY <1>2, <1>3, <1>6, <1>10, TradesSound
<1> QED BY <1>1, <1>7, <1>8, <1>11, NextReadSound

\* A read that is given up.
LEMMA AbandonTells ==
    ASSUME WakeInv, ReadInv, NEW s \in Subscribers, PageFails(s) \/ Deadline(s)
    PROVE  ReadInv' /\ \A t \in Subscribers : Tells(t)
<1>1. Reading(s) /\ now' = now /\ known' = known /\ state' = state
  BY DEF PageFails, Deadline, World
<1>2. Shaped(sub[s]) /\ sub[s].running = TRUE /\ SoundSub(sub[s], state)
  BY <1>1, ReadingSound
<1>3. PICK q : q = [sub[s] EXCEPT !.failed = TRUE, !.read = None]
  OBVIOUS
<1>4. Changes(s, q)
  BY <1>3 DEF PageFails, Deadline, Abandoned
<1>5. /\ q.phase = sub[s].phase /\ q.options = sub[s].options /\ q.lastGood = sub[s].lastGood
      /\ q.told = sub[s].told /\ q.running = TRUE /\ q.read = None /\ q.failed = TRUE
  BY <1>2, <1>3 DEF Shaped, Parts
<1>6. SoundSub(q, state)
  BY <1>2, <1>5 DEF SoundSub
<1>7. Quiet(sub[s], q)
  BY <1>5 DEF Quiet
<1> QED BY <1>1, <1>4, <1>6, <1>7, QuietSound

LEMMA StopTells ==
    ASSUME WakeInv, ReadInv, NEW s \in Subscribers, Stop(s)
    PROVE  ReadInv' /\ \A t \in Subscribers : Tells(t)
<1>1. /\ Shaped(sub[s]) /\ SoundSub(sub[s], state) /\ sub[s].phase = "open"
      /\ Changes(s, Dropped(sub[s])) /\ now' = now /\ known' = known /\ state' = state
  BY DEF WakeInv, Wakeful, ReadInv, Stop, Open, World
<1>2. PICK q : q = Dropped(sub[s])
  OBVIOUS
<1>3. /\ q.phase = "stopped" /\ q.options = sub[s].options /\ q.lastGood = None
      /\ q.told = None /\ q.running = sub[s].running /\ (q.read = sub[s].read \/ q.read = None)
  BY <1>1, <1>2, DroppedParts
<1>4. SoundSub(q, state)
  BY <1>1, <1>3, SubSound
<1>5. Quiet(sub[s], q)
  BY <1>3 DEF Quiet
<1> QED BY <1>1, <1>2, <1>4, <1>5, QuietSound

\* The end of a read, with a snapshot.
LEMMA ResolveTells ==
    ASSUME WakeInv, PriceInv, ReadInv, NEW s \in Subscribers, Resolve(s)
    PROVE  ReadInv' /\ \A t \in Subscribers : Tells(t)
<1>1. /\ Reading(s) /\ Answered(s) /\ now' = now /\ known' = known /\ state' = state
  BY DEF Resolve, World
<1>2. /\ Shaped(sub[s]) /\ sub[s].running = TRUE /\ SoundSub(sub[s], state)
      /\ sub[s].options \in Options /\ SoundRead(sub[s].read, state)
  BY <1>1, ReadingSound
<1>3. PICK r : r = sub[s]
  OBVIOUS
<1>4. PICK live : live = [r EXCEPT !.lastGood = now,
                                   !.told = [status |-> "live", age |-> 0, stale |-> FALSE]]
  OBVIOUS
<1>5. Changes(s, IF Open(s) THEN Settled(live) ELSE Settled(r))
  BY <1>3, <1>4 DEF Resolve
<1>6. CASE Open(s)
  <2>1. /\ Shaped(live) /\ live.phase = r.phase /\ live.options = r.options /\ live.lastGood = now
        /\ live.told.status = "live"
    BY <1>2, <1>3, <1>4 DEF Shaped, Parts
  <2>2. PICK q : q = Settled(live)
    OBVIOUS
  <2>3. /\ q.phase = r.phase /\ q.options = r.options /\ q.lastGood = now
        /\ q.told.status = "live" /\ q.running = FALSE /\ q.read = None
    BY <2>1, <2>2, SettledParts
  <2>4. now \in Nat
    BY DEF ReadInv
  <2>5. SoundSub(q, state)
    BY <1>2, <1>3, <2>3, <2>4 DEF SoundSub
  <2>6. Changes(s, q)
    BY <1>5, <1>6, <2>2
  <2>7. ReadInv' /\ sub'[s] = q /\ \A t \in Subscribers \ {s} : Tells(t)
    BY <1>1, <2>5, <2>6, ChangeSound
  <2>8. Honest(r.read, r.options, Snapshot(r.read, r.options))
    BY <1>1, <1>2, <1>3, HonestSound DEF Answered
  <2>9. Tells(s)
    <3>1. sub[s].phase # "stopped"
      BY <1>6 DEF Open
    <3> QED BY <1>3, <2>3, <2>7, <2>8, <3>1 DEF Tells
  <2> QED BY <2>7, <2>9
<1>7. CASE ~Open(s)
  <2>1. PICK q : q = Settled(r)
    OBVIOUS
  <2>2. /\ q.phase = r.phase /\ q.options = r.options /\ q.lastGood = r.lastGood
        /\ q.told = r.told /\ q.running = FALSE /\ q.read = None
    BY <1>2, <1>3, <2>1, SettledParts
  <2>3. SoundSub(q, state)
    BY <1>2, <1>3, <2>2 DEF SoundSub
  <2>4. Changes(s, q) /\ Quiet(sub[s], q)
    BY <1>3, <1>5, <1>7, <2>1, <2>2 DEF Quiet, Open
  <2> QED BY <1>1, <2>3, <2>4, QuietSound
<1> QED BY <1>6, <1>7

\* The age of the last good snapshot.
LEMMA AgeIsReal ==
    ASSUME NEW n \in Nat
    PROVE  Max({0, n}) = n
<1>1. PICK Z : Z = {0, n}
  OBVIOUS
<1>2. Z \in SUBSET (0 .. n) /\ Z # {}
  BY <1>1
<1>3. Max(Z) \in Z /\ \A z \in Z : Max(Z) >= z
  BY <1>2, LargestIsOne
<1>4. PICK m : m = Max(Z)
  OBVIOUS
<1>5. m \in {0, n} /\ m >= n
  BY <1>1, <1>3, <1>4
<1>6. m = n
  BY <1>5
<1> QED BY <1>1, <1>4, <1>6

LEMMA AgeIsNatural ==
    ASSUME NEW n \in Int, n < 0
    PROVE  Max({0, n}) = 0
<1>1. 0 \in {0, n} /\ \A y \in {0, n} : 0 >= y
  OBVIOUS
<1>2. \A m \in {0, n} : (\A y \in {0, n} : m >= y) => m = 0
  OBVIOUS
<1> QED BY <1>1, <1>2 DEF Max

LEMMA FailureSound ==
    ASSUME NEW r, NEW f, f = Failure(r), now \in Nat
    PROVE  /\ f.status # "live"
           /\ r.lastGood \in Nat => f.age \in Nat
           /\ r.lastGood \in Nat /\ r.lastGood <= now =>
                /\ f.age = now - r.lastGood
                /\ f.stale = (now - r.lastGood >= r.options.staleAfter)
<1>1. PICK age : age = IF r.lastGood = None THEN None ELSE Max({0, now - r.lastGood})
  OBVIOUS
<1>2. PICK stale : stale = (age # None /\ age >= r.options.staleAfter)
  OBVIOUS
<1>3. f = [status |-> IF stale THEN "stale" ELSE "error", age |-> age, stale |-> stale]
  BY <1>1, <1>2 DEF Failure
<1>4. f.status # "live" /\ f.age = age /\ f.stale = stale
  BY <1>3
<1>5. ASSUME r.lastGood \in Nat, r.lastGood <= now
      PROVE  /\ f.age = now - r.lastGood
             /\ f.stale = (now - r.lastGood >= r.options.staleAfter)
  <2>1. r.lastGood # None
    BY <1>5, InstrumentAssumption
  <2>2. PICK n \in Nat : n = now - r.lastGood
    BY <1>5
  <2>3. age = Max({0, n})
    BY <1>1, <2>1, <2>2
  <2>4. age = n
    BY <2>3, AgeIsReal
  <2>5. age # None
    BY <2>4, InstrumentAssumption
  <2>6. stale = (n >= r.options.staleAfter)
    BY <1>2, <2>4, <2>5
  <2> QED BY <1>4, <2>2, <2>4, <2>6
<1>6. ASSUME r.lastGood \in Nat
      PROVE  f.age \in Nat
  <2>1. r.lastGood # None
    BY <1>6, InstrumentAssumption
  <2>2. PICK n \in Int : n = now - r.lastGood
    BY <1>6
  <2>3. age = Max({0, n})
    BY <1>1, <2>1, <2>2
  <2>4. n \in Nat => age = n
    BY <2>3, AgeIsReal
  <2>5. n < 0 => age = 0
    BY <2>3, AgeIsNatural
  <2>6. age \in Nat
    BY <2>4, <2>5
  <2> QED BY <1>4, <2>6
<1> QED BY <1>4, <1>5, <1>6

\* The end of a read, without one.
LEMMA RejectTells ==
    ASSUME WakeInv, ReadInv, NEW s \in Subscribers, Reject(s)
    PROVE  ReadInv' /\ \A t \in Subscribers : Tells(t)
<1>1. /\ Wakeful(sub[s]) /\ Shaped(sub[s]) /\ sub[s].running = TRUE /\ SoundSub(sub[s], state)
      /\ now' = now /\ known' = known /\ state' = state /\ now \in Nat
  BY DEF Reject, WakeInv, Wakeful, ReadInv, World
<1>2. PICK r : r = sub[s]
  OBVIOUS
<1>3. PICK told : told = [r EXCEPT !.told = Failure(r)]
  OBVIOUS
<1>4. Changes(s, Settled(IF ~Open(s) THEN r ELSE IF clock = "broken" THEN Terminal(r) ELSE told))
  BY <1>2, <1>3 DEF Reject
<1>5. CASE ~Open(s)
  <2>1. PICK q : q = Settled(r)
    OBVIOUS
  <2>2. /\ q.phase = r.phase /\ q.options = r.options /\ q.lastGood = r.lastGood
        /\ q.told = r.told /\ q.running = FALSE /\ q.read = None
    BY <1>1, <1>2, <2>1, SettledParts
  <2>3. SoundSub(q, state)
    BY <1>1, <1>2, <2>2 DEF SoundSub
  <2>4. Changes(s, q) /\ Quiet(sub[s], q)
    BY <1>2, <1>4, <1>5, <2>1, <2>2 DEF Quiet, Open
  <2> QED BY <1>1, <2>3, <2>4, QuietSound
<1>6. CASE Open(s) /\ clock = "broken"
  <2>1. PICK p : p = Terminal(r)
    OBVIOUS
  <2>2. /\ Shaped(p) /\ p.phase = "stopped" /\ p.options = r.options /\ p.lastGood = r.lastGood
        /\ p.told.status = "error"
    BY <1>1, <1>2, <2>1, TerminalParts
  <2>3. PICK q : q = Settled(p)
    OBVIOUS
  <2>4. /\ q.phase = "stopped" /\ q.options = r.options /\ q.lastGood = r.lastGood
        /\ q.told.status = "error" /\ q.read = None
    BY <2>2, <2>3, SettledParts
  <2>5. SoundSub(q, state)
    BY <1>1, <1>2, <1>6, <2>4 DEF SoundSub, Open
  <2>6. Changes(s, q)
    BY <1>4, <1>6, <2>1, <2>3
  <2>7. ReadInv' /\ sub'[s] = q /\ \A t \in Subscribers \ {s} : Tells(t)
    BY <1>1, <2>5, <2>6, ChangeSound
  <2>8. Tells(s)
    <3>1. sub[s].phase # "stopped" /\ clock # "ok" /\ Caused(s)
      BY <1>6 DEF Open, Caused
    <3> QED BY <1>2, <2>4, <2>7, <3>1 DEF Tells
  <2> QED BY <2>7, <2>8
<1>7. CASE Open(s) /\ clock # "broken"
  <2>1. PICK f : f = Failure(r)
    OBVIOUS
  <2>2. /\ Shaped(told) /\ told.phase = r.phase /\ told.options = r.options
        /\ told.lastGood = r.lastGood /\ told.told = f
    BY <1>1, <1>2, <1>3, <2>1 DEF Shaped, Parts
  <2>3. PICK q : q = Settled(told)
    OBVIOUS
  <2>4. /\ q.phase = r.phase /\ q.options = r.options /\ q.lastGood = r.lastGood
        /\ q.told = f /\ q.running = FALSE /\ q.read = None
    BY <2>2, <2>3, SettledParts
  <2>5. SoundSub(q, state)
    BY <1>1, <1>2, <2>4 DEF SoundSub
  <2>6. Changes(s, q)
    BY <1>4, <1>7, <2>3
  <2>7. ReadInv' /\ sub'[s] = q /\ \A t \in Subscribers \ {s} : Tells(t)
    BY <1>1, <2>5, <2>6, ChangeSound
  <2>8. Caused(s)
    <3>1. CASE sub[s].read = None
      <4>1. sub[s].failed = TRUE
        BY <1>1, <1>7, <3>1 DEF SoundSub, Open
      <4> QED BY <4>1 DEF Caused
    <3>2. CASE sub[s].read # None
      <4>1. Answered(s) /\ ~Fits(s)
        BY <1>1, <1>7, <3>2 DEF Reject, Reading
      <4>2. SoundRead(sub[s].read, state)
        BY <1>1, <3>2 DEF SoundSub
      <4>3. Fits(s)
        BY <4>1, <4>2, PagesFit DEF Answered, Fits
      <4> QED BY <4>1, <4>3
    <3> QED BY <3>1, <3>2
  <2>9. /\ f.status # "live"
        /\ r.lastGood \in Nat => f.age \in Nat
        /\ r.lastGood \in Nat /\ r.lastGood <= now =>
             /\ f.age = now - r.lastGood
             /\ f.stale = (now - r.lastGood >= r.options.staleAfter)
    BY <1>1, <2>1, FailureSound
  <2>10. r.lastGood # None => r.lastGood \in Nat
    BY <1>1, <1>2 DEF SoundSub
  <2>11. Tells(s)
    <3>1. sub[s].phase # "stopped"
      BY <1>7 DEF Open
    <3>2. r.lastGood # None =>
             /\ f.age \in Nat
             /\ r.lastGood <= now =>
                  /\ f.age = now - r.lastGood
                  /\ f.stale = (now - r.lastGood >= r.options.staleAfter)
      BY <2>9, <2>10
    <3>3. sub[s] = r /\ sub'[s].told = f /\ sub'[s].lastGood = r.lastGood /\ f.status # "live"
      BY <1>2, <2>4, <2>7, <2>9
    <3> QED BY <2>8, <3>1, <3>2, <3>3 DEF Tells
  <2> QED BY <2>7, <2>11
<1> QED BY <1>5, <1>6, <1>7

\* Steps of the world: all subscriptions at once.
LEMMA AllQuiet ==
    ASSUME WakeInv, now' \in Nat, known' \subseteq Accounts,
           \A s \in Subscribers : SoundSub(sub'[s], state') /\ Quiet(sub[s], sub'[s])
    PROVE  ReadInv' /\ \A s \in Subscribers : Tells(s)
BY QuietTells DEF ReadInv

LEMMA SeenTells ==
    ASSUME WakeInv, PriceInv, ReadInv, NEW opened \in SUBSET Hashes, NEW gone, Seen(opened, gone),
           now' = now, known' = known,
           \A h \in Hashes \ (opened \cup gone) : state'[h] = state[h],
           \A h \in opened : state[h] = "none" /\ state'[h] = "open",
           \A h \in gone \cap Hashes : state[h] = "open" /\ state'[h] = "sold"
    PROVE  ReadInv' /\ \A s \in Subscribers : Tells(s)
<1>1. ASSUME NEW s \in Subscribers PROVE SoundSub(sub'[s], state') /\ Quiet(sub[s], sub'[s])
  <2>1. PICK r : r = sub[s]
    OBVIOUS
  <2>2. Shaped(r) /\ SoundSub(r, state)
    BY <2>1 DEF WakeInv, Wakeful, ReadInv
  <2>3. CASE r.read = None
    <3>1. sub'[s] = r
      BY <2>1, <2>3 DEF Seen
    <3>2. SoundSub(r, state')
      BY <2>2, <2>3 DEF SoundSub
    <3>3. Quiet(r, r)
      BY DEF Quiet
    <3> QED BY <2>1, <3>1, <3>2, <3>3
  <2>4. CASE r.read # None
    <3>1. PICK read : read = r.read
      OBVIOUS
    <3>2. PICK n : n = [read EXCEPT !.shown = read.shown \cup opened, !.stood = read.stood \ gone]
      OBVIOUS
    <3>3. PICK q : q = [r EXCEPT !.read = n]
      OBVIOUS
    <3>4. sub'[s] = q
      <4>1. sub'[s] = [r EXCEPT !.read.shown = @ \cup opened, !.read.stood = @ \ gone]
        BY <2>1, <2>4 DEF Seen
      <4>2. ReadShape(read)
        BY <2>2, <2>4, <3>1, ReadType DEF SoundSub, SoundRead
      <4>3. [r EXCEPT !.read.shown = @ \cup opened, !.read.stood = @ \ gone]
              = [r EXCEPT !.read = [r.read EXCEPT !.shown = @ \cup opened, !.stood = @ \ gone]]
        BY <2>2, <3>1, <4>2 DEF Shaped, Parts, ReadShape
      <4>4. [r.read EXCEPT !.shown = @ \cup opened, !.stood = @ \ gone] = n
        BY <3>1, <3>2, <4>2 DEF ReadShape
      <4> QED BY <3>3, <4>1, <4>3, <4>4
    <3>5. SoundRead(read, state)
      BY <2>2, <2>4, <3>1 DEF SoundSub
    <3>6. PICK new : new = state'
      OBVIOUS
    <3>7. /\ \A h \in Hashes \ (opened \cup gone) : new[h] = state[h]
          /\ \A h \in opened : state[h] = "none" /\ new[h] = "open"
          /\ \A h \in gone \cap Hashes : state[h] = "open" /\ new[h] = "sold"
      BY <3>6
    <3>8. SoundRead(n, new)
      BY <3>2, <3>5, <3>7, SeenSound
    <3>9. n # None
      BY <3>8, ReadType DEF SoundRead
    <3>10. /\ q.phase = r.phase /\ q.options = r.options /\ q.lastGood = r.lastGood
           /\ q.told = r.told /\ q.running = r.running /\ q.read = n
      BY <2>2, <3>3 DEF Shaped, Parts
    <3>11. SoundSub(q, new)
      BY <2>2, <3>8, <3>9, <3>10 DEF SoundSub
    <3>12. Quiet(r, q)
      BY <3>10 DEF Quiet
    <3> QED BY <2>1, <3>4, <3>6, <3>11, <3>12
  <2> QED BY <2>3, <2>4
<1>2. now \in Nat /\ known \subseteq Accounts
  BY DEF ReadInv
<1>3. \A s \in Subscribers : SoundSub(sub'[s], state') /\ Quiet(sub[s], sub'[s])
  BY <1>1
<1> QED BY <1>2, <1>3, AllQuiet

\* What the ledger does to the orders.
LEMMA OrderTells ==
    ASSUME WakeInv, PriceInv, ReadInv,
           \/ \E h \in Hashes : Place(h) \/ Take(h)
           \/ \E level \in Levels : Accept(level)
    PROVE  ReadInv' /\ \A s \in Subscribers : Tells(s)
<1>1. CASE \E h \in Hashes : Place(h)
  <2>1. PICK h \in Hashes : /\ state[h] = "none" /\ state' = [state EXCEPT ![h] = "open"]
                            /\ Seen({h}, {}) /\ now' = now /\ known' = known
    BY <1>1 DEF Place
  <2>2. state'[h] = "open" /\ \A g \in Hashes \ {h} : state'[g] = state[g]
    BY <2>1 DEF PriceInv
  <2>3. PICK opened : opened = {h}
    OBVIOUS
  <2>4. PICK gone : gone = {}
    OBVIOUS
  <2>5. /\ opened \in SUBSET Hashes /\ Seen(opened, gone)
        /\ \A g \in Hashes \ (opened \cup gone) : state'[g] = state[g]
        /\ \A g \in opened : state[g] = "none" /\ state'[g] = "open"
        /\ \A g \in gone \cap Hashes : state[g] = "open" /\ state'[g] = "sold"
    BY <2>1, <2>2, <2>3, <2>4
  <2> QED BY <2>1, <2>5, SeenTells
<1>2. ASSUME NEW h, state[h] = "open", Sold(h) PROVE ReadInv' /\ \A s \in Subscribers : Tells(s)
  <2>1. state' = [state EXCEPT ![h] = "sold"] /\ Seen({}, {h}) /\ now' = now /\ known' = known
    BY <1>2 DEF Sold
  <2>2. \A g \in Hashes : state'[g] = IF g = h THEN "sold" ELSE state[g]
    BY <2>1 DEF PriceInv
  <2>3. PICK opened : opened = {}
    OBVIOUS
  <2>4. PICK gone : gone = {h}
    OBVIOUS
  <2>5. /\ opened \in SUBSET Hashes /\ Seen(opened, gone)
        /\ \A g \in Hashes \ (opened \cup gone) : state'[g] = state[g]
        /\ \A g \in opened : state[g] = "none" /\ state'[g] = "open"
        /\ \A g \in gone \cap Hashes : state[g] = "open" /\ state'[g] = "sold"
    BY <1>2, <2>1, <2>2, <2>3, <2>4
  <2> QED BY <2>1, <2>5, SeenTells
<1>3. CASE \E h \in Hashes : Take(h)
  BY <1>2, <1>3 DEF Take
<1>4. CASE \E level \in Levels : Accept(level)
  BY <1>2, <1>4 DEF Accept
<1> QED BY <1>1, <1>3, <1>4

\* Closed, or woken.
LEMMA AllAtOnceTells ==
    ASSUME WakeInv, ReadInv, Close \/ (\E h \in Hashes : Wake(h))
    PROVE  ReadInv' /\ \A s \in Subscribers : Tells(s)
<1>0. /\ now' = now /\ known' = known /\ state' = state /\ now \in Nat /\ known \subseteq Accounts
  BY DEF Close, Wake, ReadInv
<1>1. \A s \in Subscribers : Shaped(sub[s]) /\ SoundSub(sub[s], state)
  BY DEF WakeInv, Wakeful, ReadInv
<1>2. CASE Close
  <2>1. ASSUME NEW s \in Subscribers PROVE SoundSub(sub'[s], state) /\ Quiet(sub[s], sub'[s])
    <3>1. sub'[s] = IF Open(s) THEN Dropped(sub[s]) ELSE sub[s]
      BY <1>2 DEF Close
    <3>2. PICK q : q = Dropped(sub[s])
      OBVIOUS
    <3>3. /\ q.phase = "stopped" /\ q.options = sub[s].options /\ q.lastGood = None
          /\ q.told = None /\ q.running = sub[s].running /\ (q.read = sub[s].read \/ q.read = None)
      BY <1>1, <3>2, DroppedParts
    <3>4. CASE Open(s)
      <4>1. SoundSub(q, state)
        BY <1>1, <3>3, <3>4, SubSound DEF Open
      <4>2. Quiet(sub[s], q)
        BY <3>3 DEF Quiet
      <4> QED BY <3>1, <3>2, <3>4, <4>1, <4>2
    <3>5. CASE ~Open(s)
      BY <1>1, <3>1, <3>5 DEF Quiet
    <3> QED BY <3>4, <3>5
  <2> QED BY <1>0, <2>1, AllQuiet
<1>3. CASE \E h \in Hashes : Wake(h)
  <2>1. ASSUME NEW s \in Subscribers PROVE SoundSub(sub'[s], state) /\ Quiet(sub[s], sub'[s])
    <3>1. sub'[s] = Refreshed(sub[s])
      BY <1>3 DEF Wake
    <3>2. PICK q : q = Refreshed(sub[s])
      OBVIOUS
    <3>3. /\ q.phase = sub[s].phase /\ q.options = sub[s].options /\ q.lastGood = sub[s].lastGood
          /\ q.told = sub[s].told /\ q.running = sub[s].running /\ q.read = sub[s].read
          /\ q.failed = sub[s].failed
      BY <1>1, <3>2, RefreshedParts
    <3>4. SoundSub(q, state)
      BY <1>1, <3>3, SubSound
    <3>5. Quiet(sub[s], q)
      BY <3>3 DEF Quiet
    <3> QED BY <3>1, <3>2, <3>4, <3>5
  <2> QED BY <1>0, <2>1, AllQuiet
<1> QED BY <1>2, <1>3

\* No subscription is touched.
LEMMA UntouchedTells ==
    ASSUME WakeInv, ReadInv, sub' = sub, state' = state,
           now' \in Nat, known' \subseteq Accounts
    PROVE  ReadInv' /\ \A s \in Subscribers : Tells(s)
<1>1. ASSUME NEW s \in Subscribers PROVE SoundSub(sub'[s], state') /\ Quiet(sub[s], sub'[s])
  <2>1. SoundSub(sub[s], state)
    BY DEF ReadInv
  <2> QED BY <2>1 DEF Quiet
<1> QED BY <1>1, AllQuiet

LEMMA ReadInitSound == Init => ReadInv
<1> SUFFICES ASSUME Init PROVE ReadInv
  OBVIOUS
<1>1. now \in Nat /\ known \subseteq Accounts
  BY InstrumentAssumption DEF Init
<1>2. ASSUME NEW s \in Subscribers PROVE SoundSub(sub[s], state)
  <2>1. sub[s].phase = "none" /\ sub[s].lastGood = None /\ sub[s].read = None
    BY DEF Init
  <2> QED BY <2>1 DEF SoundSub
<1> QED BY <1>1, <1>2 DEF ReadInv

LEMMA ReadNextSound ==
    WakeInv /\ PriceInv /\ ReadInv /\ [Next]_vars => ReadInv' /\ \A s \in Subscribers : Tells(s)
<1> SUFFICES ASSUME WakeInv, PriceInv, ReadInv, [Next]_vars
             PROVE  ReadInv' /\ \A s \in Subscribers : Tells(s)
  OBVIOUS
<1>0. now \in Nat /\ known \subseteq Accounts
  BY DEF ReadInv
<1>1. CASE \E s \in Subscribers :
             \/ \E options \in Options : Subscribe(s, options)
             \/ Begin(s) \/ PageFails(s) \/ Deadline(s) \/ Resolve(s) \/ Reject(s) \/ Stop(s)
             \/ \E missed \in SUBSET Accounts : ReadBook(s, missed) \/ ReadTrades(s, missed)
  BY <1>1, SubscribeTells, BeginTells, AbandonTells, ResolveTells, RejectTells, StopTells,
     ReadBookTells, ReadTradesTells
<1>2. CASE \/ \E h \in Hashes : Place(h) \/ Take(h)
           \/ \E level \in Levels : Accept(level)
  BY <1>2, OrderTells
<1>3. CASE Close \/ (\E h \in Hashes : Wake(h))
  BY <1>3, AllAtOnceTells
<1>4. CASE Tick
  <2>1. now' \in Times /\ sub' = sub /\ state' = state /\ known' = known
    BY <1>4 DEF Tick
  <2>2. now' \in Nat
    BY <2>1, InstrumentAssumption
  <2> QED BY <1>0, <2>1, <2>2, UntouchedTells
<1>5. CASE (\E h \in Hashes : AnswerLost(h)) \/ (\E a \in Accounts : Announce(a))
             \/ ClockFails \/ ClockWorks \/ UNCHANGED vars
  <2>1. now' = now /\ sub' = sub /\ state' = state /\ known' \subseteq Accounts
    BY <1>0, <1>5 DEF AnswerLost, Announce, ClockFails, ClockWorks, vars
  <2>2. now' \in Nat
    BY <1>0, <2>1
  <2> QED BY <2>1, <2>2, UntouchedTells
<1> QED BY <1>1, <1>2, <1>3, <1>4, <1>5 DEF Next

\* What a listener is told is true, whatever orders, faults and ticks of the clock come
\* between the steps of its reads: a live snapshot shows only what was so and, covered,
\* leaves nothing out that stood throughout; any other update has a cause and tells the
\* age of the last good one; and whoever has stopped is told no more (emit, run, stop,
\* snapshot, mergeCoverage, selectHistoryTrades).
THEOREM SubscribersAreToldTruly == Spec => ToldTruly
<1>1. WakeInv /\ PriceInv /\ ReadInv /\ [Next]_vars => [\A s \in Subscribers : Tells(s)]_vars
  BY ReadNextSound
<1>2. WakeInv /\ PriceInv /\ ReadInv /\ [Next]_vars => ReadInv'
  BY ReadNextSound
<1>3. Spec => [][\A s \in Subscribers : Tells(s)]_vars
  BY <1>1, <1>2, WakeInitSound, WakeNextSound, PriceInitSound, PriceNextSound, ReadInitSound, PTL DEF Spec
<1> QED BY <1>3 DEF ToldTruly, Tells
=============================================================================
