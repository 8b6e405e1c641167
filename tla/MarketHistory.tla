----------------------------- MODULE MarketHistory -----------------------------
(***************************************************************************)
(* Prices and charts out of settled swaps: the trades a wallet reads       *)
(* (packages/market/src/history.ts), the series and candles drawn from     *)
(* them (series.ts, chart() of market.ts), and the exact candles of the    *)
(* stored history (stored-history.ts).                                     *)
(*                                                                         *)
(* The code is arithmetic over what has settled so far.  The state is that *)
(* and the question asked.  The live half computes with doubles, which are *)
(* here the ratios that `Rounded` leaves: those of so many binary digits.  *)
(* The stored half computes with the ledger's integers and loses nothing.  *)
(***************************************************************************)
EXTENDS MarketCoverage, SequencesExt

CONSTANTS
    None,
    Me,                 \* the wallet
    Trades,             \* the swaps that may settle: a sequence, by their hashes
    Decimals,           \* of each asset
    Asset, Quote,       \* the pair asked for, of two different assets
    Now,
    Queries,            \* the questions that may be asked
    Precision,          \* binary digits of a double: 53 in the code
    MaxBlocks           \* of the wallet's other blocks

Hashes == DOMAIN Trades

VARIABLES
    settled,    \* the swaps that were accepted so far
    chain,      \* the wallet's blocks: its accepts by their hashes, or Other
    asked,      \* the question
    unread      \* the accounts that cannot be read

vars == <<settled, chain, asked, unread>>

Other == 0       \* the hash of no swap

-----------------------------------------------------------------------------
(***************************************************************************)
(* The trades that are read.                                               *)
(***************************************************************************)
At(h) == IF Trades[h].settledAt # None THEN Trades[h].settledAt ELSE Trades[h].seenAt

\* No lower bound beside a window, and none after the upper one.
Refused(q) ==
    \/ q.from # None /\ q.window # None
    \/ q.from # None /\ q.from > (IF q.to = None THEN Now ELSE q.to)

Upper(q) == IF q.to = None THEN Now ELSE q.to

Lower(q) == IF q.window = None THEN q.from ELSE Upper(q) - q.window

\* An untimed row cannot be placed, and is kept.
Within(h, q) ==
    At(h) = None \/ (At(h) <= Upper(q) /\ (Lower(q) = None \/ At(h) >= Lower(q)))

NewestOf(set, limit) == {h \in set : Cardinality({g \in set : g > h}) < limit}

Unreadable == {"unread"}

\* One walk: of the accepted offers of each account the newest, up to a limit.
Walk(chains, limit) ==
    LET got == [a \in DOMAIN chains \ unread |-> NewestOf(chains[a], limit)]
    IN  [rows |-> UNION {got[a] : a \in DOMAIN got},
         coverage |-> Coverage(Cardinality(DOMAIN chains),
                        [a \in DOMAIN chains \cap unread |-> Unreadable],
                        {a \in DOMAIN got : Cardinality(got[a]) >= limit}, 0, {})]

Sold(accounts) == [a \in accounts |-> {h \in settled : Trades[h].seller = a}]

LastOf(seq, n) == SubSeq(seq, Max({1, Len(seq) - n + 1}), Len(seq))

\* The accepts among the newest blocks of the wallet's chain, whatever those
\* are: a chain as long as was asked for may hold more.
Bought(limit) ==
    LET read == Me \notin unread
        seen == IF read THEN LastOf(chain, limit) ELSE <<>>
    IN  [rows |-> {seen[i] : i \in DOMAIN seen} \ {Other},
         coverage |-> Coverage(1, [a \in {Me} \cap unread |-> Unreadable],
                               IF Len(seen) >= limit THEN {Me} ELSE {}, 0, {})]

\* Mutant: the coverage is that of the walk over the sellers.
FoundUncovered(q) ==
    LET sales == Walk(Sold(IF q.accounts = None THEN {Me} ELSE q.accounts), q.limit)
        own == Bought(q.limit)
    IN  IF q.accounts = None
        THEN [rows |-> sales.rows \cup own.rows, coverage |-> sales.coverage]
        ELSE sales

\* With nobody named, the wallet's own sales and its purchases.
Found(q) ==
    LET sales == Walk(Sold(IF q.accounts = None THEN {Me} ELSE q.accounts), q.limit)
        own == Bought(q.limit)
    IN  IF q.accounts = None
        THEN [rows |-> sales.rows \cup own.rows,
              coverage |-> Merge(sales.coverage, own.coverage)]
        ELSE sales

Sells(h) == Trades[h].give = Asset /\ Trades[h].want = Quote

Buys(h) == Trades[h].want = Asset /\ Trades[h].give = Quote

OfPair(h) == Sells(h) \/ Buys(h)

\* Rows without a time come last.
Newer(g, h) ==
    \/ At(g) # None /\ (At(h) = None \/ At(g) > At(h))
    \/ At(g) = At(h) /\ g < h

FirstOf(seq, n) == SubSeq(seq, 1, Min({n, Len(seq)}))

\* readTrades(): newest first, and the last so many of them.
ReadTrades(q) ==
    LET rows == SetToSortSeq({h \in Found(q).rows : OfPair(h) /\ Within(h, q)}, Newer)
    IN  IF q.last = None THEN rows ELSE FirstOf(rows, q.last)

-----------------------------------------------------------------------------
(***************************************************************************)
(* Prices.                                                                 *)
(***************************************************************************)
RawUnits(h) == IF Sells(h) THEN Trades[h].amount ELSE Trades[h].wantAmount

RawPaid(h) == IF Sells(h) THEN Trades[h].wantAmount ELSE Trades[h].amount

Below(p, q) == p.num * q.den < q.num * p.den

Same(p, q) == p.num * q.den = q.num * p.den

Low(prices) == CHOOSE p \in prices : \A q \in prices : ~Below(q, p)

High(prices) == CHOOSE p \in prices : \A q \in prices : ~Below(p, q)

Plus(p, q) == [num |-> p.num * q.den + q.num * p.den, den |-> p.den * q.den]

Half(p) == [num |-> p.num, den |-> 2 * p.den]

Minus(p, q) == [num |-> p.num * q.den - q.num * p.den, den |-> p.den * q.den]

By(p, q) == [num |-> p.num * q.den, den |-> p.den * q.num]

Zero == [num |-> 0, den |-> 1]

GCD[pair \in Nat \X Nat] ==
    IF pair[2] = 0 THEN pair[1] ELSE GCD[<<pair[2], pair[1] % pair[2]>>]

Magnitude(n) == IF n < 0 THEN -n ELSE n

\* In lowest terms, the sign on top.
Reduce(p) ==
    LET sign == IF p.den < 0 THEN -1 ELSE 1
        divisor == GCD[<<Magnitude(p.num), Magnitude(p.den)>>]
    IN  [num |-> (p.num * sign) \div divisor, den |-> (p.den * sign) \div divisor]

\* The whole number nearest to a ratio, and of two the even one.
Nearest(p) ==
    LET whole == p.num \div p.den
        twice == 2 * (p.num % p.den)
    IN  IF twice > p.den \/ (twice = p.den /\ whole % 2 = 1) THEN whole + 1 ELSE whole

\* A ratio by a power of two, such that its whole part has the digits of a double.
Scaled[p \in [num : Nat, den : Nat]] ==
    IF p.num < 2 ^ (Precision - 1) * p.den THEN Scaled[[p EXCEPT !.num = 2 * @]]
    ELSE IF p.num >= 2 ^ Precision * p.den THEN Scaled[[p EXCEPT !.den = 2 * @]]
    ELSE p

\* p without the digits that r, which is p scaled, has behind the point.
Shortened(p, r) ==
    Reduce([num |-> (IF p.num < 0 THEN -1 ELSE 1) * Nearest(r) * (r.den \div p.den),
            den |-> r.num \div Magnitude(p.num)])

NextDouble(p) ==
    IF p.num = 0 THEN Zero ELSE Shortened(p, Scaled[[p EXCEPT !.num = Magnitude(@)]])

\* The double next to a ratio.
Rounded(ratio) == NextDouble(Reduce(ratio))

\* fromRaw(): what a trade says it moved, in the units its assets are shown in.
Display(raw, asset) == Rounded([num |-> raw, den |-> 10 ^ Decimals[asset]])

Units == [h \in Hashes |-> Display(RawUnits(h), Asset)]

Paid == [h \in Hashes |-> Display(RawPaid(h), Quote)]

\* Quote for one base: of the live half the quotient of two doubles.
UnitPrice == [h \in Hashes |-> Rounded(By(Paid[h], Units[h]))]

\* And of the stored half, in lowest terms.
ExactPrice ==
    [h \in Hashes |-> Reduce([num |-> RawPaid(h) * 10 ^ Decimals[Asset],
                              den |-> RawUnits(h) * 10 ^ Decimals[Quote]])]

\* The middle one, or half-way between the two in the middle.
Median(sorted) ==
    LET middle == Len(sorted) \div 2
    IN  IF Len(sorted) % 2 = 1 THEN Rounded(sorted[middle + 1])
        ELSE Rounded(Half(Rounded(Plus(sorted[middle], sorted[middle + 1]))))

ExactMedian(sorted) ==
    LET middle == Len(sorted) \div 2
    IN  IF Len(sorted) % 2 = 1 THEN sorted[middle + 1]
        ELSE Half(Plus(sorted[middle], sorted[middle + 1]))

PricesOf(rows) == [i \in DOMAIN rows |-> UnitPrice[rows[i]]]

Total(of(_), rows) == FoldLeft(LAMBDA sum, h : sum + of(h), 0, rows)

\* The live sums are of doubles, one after the other.
Volume(rows) == FoldLeft(LAMBDA sum, h : Rounded(Plus(sum, Units[h])), Zero, rows)

\* summarise(): over rows that come newest first.
Summary(rows) ==
    LET sorted == SortSeq(PricesOf(rows), Below)
    IN  IF rows = <<>> THEN None
        ELSE [median |-> Median(sorted), last |-> UnitPrice[rows[1]],
              low |-> sorted[1], high |-> sorted[Len(sorted)],
              trades |-> Len(rows), volume |-> Volume(rows)]

-----------------------------------------------------------------------------
(***************************************************************************)
(* The series, its line and its candles.                                   *)
(***************************************************************************)
Placed(h) == IF At(h) = None THEN 0 ELSE At(h)

Older(g, h) == Placed(g) < Placed(h) \/ (Placed(g) = Placed(h) /\ g < h)

\* toSeries(): oldest first, the rows without a time before all others.
Series(rows, last) ==
    LET points == SortSeq(rows, Older)
    IN  IF last = None THEN points ELSE LastOf(points, last)

Ticker(points, rows) ==
    LET first == UnitPrice[points[1]]
        last == UnitPrice[points[Len(points)]]
        change == Rounded(Minus(last, first))
    IN  [open |-> first, last |-> last, change |-> change,
         changeRatio |-> Rounded(By(change, first)), summary |-> Summary(rows)]

Timed(points) == SelectSeq(points, LAMBDA h : At(h) # None)

TimeQuality(points) ==
    LET count(test(_)) == Cardinality({i \in DOMAIN points : test(points[i])})
        Exact(h) == At(h) # None /\ Trades[h].settledAt # None
        Estimated(h) == At(h) # None /\ Trades[h].settledAt = None
        Untimed(h) == At(h) = None
    IN  [timed |-> count(Exact), estimated |-> count(Estimated), untimed |-> count(Untimed)]

\* toLine(), in microseconds: later points of one millisecond stand beside it.
Line(points) ==
    LET timed == Timed(points)
    IN  [i \in DOMAIN timed |->
            At(timed[i]) * 1000
              + Cardinality({j \in 1..(i - 1) : At(timed[j]) = At(timed[i])})]

\* The code divides towards zero, as bigint does.
CandleStart(at, every) ==
    (IF at < 0 THEN -((-at + every - 1) \div every) ELSE at \div every) * every

Opened(at, price, units) ==
    [at |-> at, open |-> price, high |-> price, low |-> price,
     close |-> price, volume |-> units, trades |-> 1]

Extended(candle, price, units) ==
    [candle EXCEPT !.high = IF Below(@, price) THEN price ELSE @,
                   !.low = IF Below(price, @) THEN price ELSE @,
                   !.close = price,
                   !.volume = Rounded(Plus(@, units)), !.trades = @ + 1]

\* A point goes into the bucket that begins at `at`.
Fill(buckets, at, price, units) ==
    IF at \in DOMAIN buckets
    THEN [buckets EXCEPT ![at] = Extended(@, price, units)]
    ELSE (at :> Opened(at, price, units)) @@ buckets

\* The points go into their buckets one after the other.
Buckets(points, every) ==
    FoldLeft(LAMBDA buckets, h :
                Fill(buckets, CandleStart(At(h), every), UnitPrice[h], Units[h]),
             <<>>, Timed(points))

InOrder(buckets) ==
    [i \in 1..Cardinality(DOMAIN buckets) |-> buckets[SetToSortSeq(DOMAIN buckets, <)[i]]]

Candles(points, every) == InOrder(Buckets(points, every))

Projected(candles, every) ==
    (candles[Len(candles)].at \div every) - (candles[1].at \div every) + 1

\* The empty buckets between a candle and the next stay at its close.
Gap(candle, to, every) ==
    [i \in 1..(((to - candle.at) \div every) - 1) |->
        [at |-> candle.at + i * every, open |-> candle.close, high |-> candle.close,
         low |-> candle.close, close |-> candle.close, volume |-> Zero, trades |-> 0]]

Filled(candles, every) ==
    FoldLeft(LAMBDA even, candle :
                IF even = <<>> THEN <<candle>>
                ELSE (even \o Gap(Last(even), candle.at, every)) \o <<candle>>,
             <<>>, candles)

\* toCandles(): a chart with too many empty buckets is refused before it is filled.
Chart(candles, q) ==
    IF ~q.fill \/ Len(candles) < 2 THEN candles
    ELSE IF Projected(candles, q.every) > q.budget THEN None
    ELSE Filled(candles, q.every)

-----------------------------------------------------------------------------
(***************************************************************************)
(* The exact history of a store.                                           *)
(***************************************************************************)
\* Only what has settled at a known time is there, and it is ordered anew.
Stored(hashes) ==
    SetToSortSeq({h \in hashes : Trades[h].settledAt # None},
        LAMBDA g, h : Trades[g].settledAt < Trades[h].settledAt
                        \/ (Trades[g].settledAt = Trades[h].settledAt /\ g < h))

CandleOf(at, points) ==
    LET prices == {ExactPrice[points[i]] : i \in DOMAIN points}
    IN  [at |-> at, open |-> ExactPrice[points[1]], high |-> High(prices), low |-> Low(prices),
         close |-> ExactPrice[Last(points)], volume |-> Total(RawUnits, points),
         turnover |-> Total(RawPaid, points), trades |-> Len(points)]

\* candlesOf(): the candles of the stored points, each price in lowest terms.
StoredCandles(points, every) ==
    LET start(h) == CandleStart(Trades[h].settledAt, every)
        starts == {start(points[i]) : i \in DOMAIN points}
        candle(at) == CandleOf(at, SelectSeq(points, LAMBDA h : start(h) = at))
    IN  [i \in 1..Cardinality(starts) |-> candle(SetToSortSeq(starts, <)[i])]

StoredSummary(points) ==
    LET prices == [i \in DOMAIN points |-> ExactPrice[points[i]]]
        sorted == SortSeq(prices, Below)
        change == Minus(Last(prices), prices[1])
    IN  [first |-> prices[1], last |-> Last(prices),
         low |-> sorted[1], high |-> Last(sorted), median |-> Reduce(ExactMedian(sorted)),
         change |-> Reduce(change), changeRatio |-> Reduce(By(change, prices[1])),
         volume |-> Total(RawUnits, points), turnover |-> Total(RawPaid, points),
         trades |-> Len(points)]

-----------------------------------------------------------------------------
OwnOffers == {h \in Hashes : Trades[h].seller = Me}

\* The wallet's own offers are the first of its blocks.
Init ==
    /\ settled = {}
    /\ chain = [i \in 1..Cardinality(OwnOffers) |-> Other]
    /\ unread = {}
    /\ asked \in {q \in Queries : ~Refused(q)}

Settle(h) ==
    /\ h \notin settled
    /\ settled' = settled \cup {h}
    /\ chain' = IF Trades[h].buyer = Me THEN Append(chain, h) ELSE chain
    /\ UNCHANGED <<asked, unread>>

\* The wallet writes a block that accepts nothing.
Write ==
    /\ Cardinality({i \in DOMAIN chain : chain[i] = Other})
         < Cardinality(OwnOffers) + MaxBlocks
    /\ chain' = Append(chain, Other)
    /\ UNCHANGED <<settled, asked, unread>>

Fail(a) ==
    /\ unread = {}
    /\ unread' = {a}
    /\ UNCHANGED <<settled, chain, asked>>

Next ==
    \/ \E h \in Hashes : Settle(h)
    \/ Write
    \/ \E h \in Hashes : Fail(Trades[h].seller)

Spec == Init /\ [][Next]_vars

-----------------------------------------------------------------------------
(***************************************************************************)
(* Properties.                                                             *)
(***************************************************************************)
\* Whose trades a question is about.
Meant(h) == IF asked.accounts = None THEN Me \in {Trades[h].seller, Trades[h].buyer}
                                     ELSE Trades[h].seller \in asked.accounts

\* The series shows each trade once and in the order of time; and when its
\* coverage is complete and no number of rows was asked for, all there were,
\* the wallet's own purchases among them (readTrades, toSeries).
SeriesIsTheTrades(points) ==
  LET shown == {points[i] : i \in DOMAIN points} IN
    /\ \A i, j \in DOMAIN points : i < j =>
         Placed(points[i]) <= Placed(points[j]) /\ points[i] # points[j]
    /\ \A h \in settled : h \in shown => OfPair(h) /\ Meant(h) /\ Within(h, asked)
    /\ Found(asked).coverage.complete /\ asked.last = None =>
         \A h \in settled : OfPair(h) /\ Meant(h) /\ Within(h, asked) => h \in shown

\* price() and the ticker agree on the last price, though one sorts newest
\* first and the other oldest first: unless two trades share the newest time
\* (summarise, toTicker).
LastAgrees(points, rows) ==
    points # <<>> /\ (\A i \in DOMAIN points : i < Len(points) =>
                        Placed(points[i]) < Placed(Last(points))) =>
        LET ticker == Ticker(points, rows)
        IN  Same(ticker.last, ticker.summary.last)

\* The k-th lowest price, by counting.
KthPrice(rows, k) ==
    CHOOSE p \in {UnitPrice[h] : h \in {rows[i] : i \in DOMAIN rows}} :
        /\ Cardinality({i \in DOMAIN rows : Below(UnitPrice[rows[i]], p)}) < k
        /\ Cardinality({i \in DOMAIN rows : ~Below(p, UnitPrice[rows[i]])}) >= k

\* The median is half-way between the prices of which as many are lower as are
\* higher, found here by counting and not by sorting, and rounded once (summarise).
MedianIsMiddle(rows) ==
    rows # <<>> =>
        Same(Summary(rows).median,
             Rounded(Half(Plus(KthPrice(rows, (Len(rows) + 1) \div 2),
                               KthPrice(rows, (Len(rows) \div 2) + 1)))))

\* The line never runs back or stands still, and has every timed point (toLine).
LineRises(points) ==
    LET line == Line(points)
        quality == TimeQuality(points)
    IN  /\ \A i, j \in DOMAIN line : i < j => line[i] < line[j]
        /\ Len(line) = quality.timed + quality.estimated

\* p is as near to q as so many roundings of numbers up to `size` leave it.
Near(p, q, size, roundings) ==
    LET gap == Reduce(Minus(p, q))
    IN  ~Below(Reduce([num |-> roundings * size.num, den |-> size.den * 2 ^ Precision]),
               [gap EXCEPT !.num = Magnitude(@)])

Sum(candles, of(_)) == FoldLeft(LAMBDA sum, candle : sum + of(candle), 0, candles)

TradesOf(candle) == candle.trades

ExactVolume(hashes) == Reduce([num |-> Total(RawUnits, hashes), den |-> 10 ^ Decimals[Asset]])

\* The candles account for every timed trade, and for what it moved as far as
\* doubles can add it up, in buckets that divide all of time, before the epoch
\* as after it; filled, they follow each other without a gap, and are never
\* more than were allowed (toCandles, candleStartOf).
CandlesAccount(chart, timed) ==
    /\ \A at \in -7..7, every \in 1..3 :
         LET start == CandleStart(at, every)
         IN  start % every = 0 /\ start <= at /\ at < start + every
    /\ chart # None =>
         /\ Sum(chart, TradesOf) = Len(timed)
         /\ \A i \in DOMAIN chart :
              LET of == SelectSeq(timed,
                          LAMBDA h : CandleStart(At(h), asked.every) = chart[i].at)
              IN  /\ Len(of) = chart[i].trades
                  /\ Near(chart[i].volume, ExactVolume(of), ExactVolume(of), 2 * Len(of))
         /\ \A i \in 1..(Len(chart) - 1) :
              /\ chart[i].at < chart[i + 1].at
              /\ asked.fill => chart[i + 1].at = chart[i].at + asked.every
         /\ asked.fill /\ Len(chart) > 1 => Len(chart) <= asked.budget

\* A live price is made by three roundings; a fourth stands for their products.
NearPrice(live, exact) == Near(live, exact, exact, 4)

SameCandle(live, exact) ==
    /\ live.at = exact.at /\ live.trades = exact.trades
    /\ NearPrice(live.open, exact.open) /\ NearPrice(live.high, exact.high)
    /\ NearPrice(live.low, exact.low) /\ NearPrice(live.close, exact.close)

SameCandles(live, exact) ==
    /\ Len(live) = Len(exact)
    /\ \A i \in DOMAIN exact : SameCandle(live[i], exact[i])

SameSummary(live, exact) ==
    LET both == Reduce(Plus(exact.first, exact.last)) IN
      /\ Near(live.summary.median, exact.median, exact.median, 5)
      /\ NearPrice(live.last, exact.last)
      /\ Near(live.change, exact.change, both, 5)
      /\ Near(live.changeRatio, exact.changeRatio, Reduce(By(both, exact.first)), 12)

\* The exact candles and the live ones are two programs for one chart: of the
\* same trades they make the same buckets, and prices no further apart than
\* the live one's doubles are from the ledger's integers.  A change is as
\* uncertain as the two prices it is the difference of.  What doubles take for
\* one price the stored history tells apart, and writes in one way only
\* (candlesOf, toCandles, summaryOf).
ExactAgrees(exact, series) ==
    /\ SameCandles(Candles(series, asked.every), StoredCandles(exact, asked.every))
    /\ \A i, j \in DOMAIN exact :
         ExactPrice[exact[i]] = ExactPrice[exact[j]] <=>
           RawPaid(exact[i]) * RawUnits(exact[j]) = RawPaid(exact[j]) * RawUnits(exact[i])
    /\ exact # <<>> => SameSummary(Ticker(series, exact), StoredSummary(exact))

\* What series, ticker, line and candles say of the trades, in one.
ChartsAreTrue ==
    LET rows == ReadTrades(asked)
        points == Series(rows, asked.last)
        exact == Stored({h \in settled : OfPair(h)})
    IN  /\ SeriesIsTheTrades(points) /\ LastAgrees(points, rows) /\ MedianIsMiddle(rows)
        /\ LineRises(points)
        /\ CandlesAccount(Chart(Candles(points, asked.every), asked), Timed(points))
        /\ ExactAgrees(exact, Series(exact, None))
=============================================================================
