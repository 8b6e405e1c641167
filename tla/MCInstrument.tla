----------------------------- MODULE MCInstrument -----------------------------
EXTENDS Instrument

CONSTANTS a1, s1

Decimal(digits, scale) == [digits |-> digits, scale |-> scale]

Order(author, side, units, unitPrice) ==
    [author |-> author, side |-> side, units |-> units, unitPrice |-> unitPrice]

\* An ask of another, one's own at a price with decimals, and one for a total
\* that is too fine for the quote.
SomeOrders ==
    <<Order(a1, "ask", Decimal(2, 0), Decimal(3, 0)),
      Order(Me, "ask", Decimal(4, 1), Decimal(25, 1)),
      Order(a1, "bid", Decimal(1, 1), Decimal(1, 1))>>

\* A level as displayed; one with another ratio; one with other terms and the
\* ratio of those.
SomeLevels ==
    {LevelOf(1),
     [LevelOf(1) EXCEPT !.exact.num = @ + 1],
     [LevelOf(1) EXCEPT !.terms.quote = @ + 1,
                        !.exact = ExactPrice([LevelOf(1).terms EXCEPT !.quote = @ + 1])]}

Option(from, to, window, depth, limit, staleAfter) ==
    [from |-> from, to |-> to, window |-> window, depth |-> depth, limit |-> limit,
     staleAfter |-> staleAfter]

SomeOptions ==
    {Option(None, None, 1, 1, 3, 1)}
=============================================================================
