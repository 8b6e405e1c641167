------------------------------ MODULE Exchange ------------------------------
(***************************************************************************)
(* What the ledger promises the people who trade on it, with no chains,    *)
(* blocks, receivables or indexes: everybody owns amounts of assets, an    *)
(* offer takes what it offers out of its author's hands, and it ends once, *)
(* either by both legs changing hands in one step or by giving the offered *)
(* amount back.  Ledger.tla implements this specification.                 *)
(***************************************************************************)
EXTENDS Integers

CONSTANTS Accounts, Asset, Kei, None, OfferId

VARIABLES own,    \* [Accounts -> [Asset -> Nat]]
          offers  \* [OfferId -> offer or None]

TypeOK ==
    /\ own \in [Accounts -> [Asset -> Nat]]
    /\ DOMAIN offers = OfferId

Init ==
    /\ own \in [Accounts -> [Asset -> Nat]]
    /\ offers = [i \in OfferId |-> None]

Pay(from, to, x) ==
    LET paid == own[from][x] - own'[from][x]
    IN /\ from # to
       /\ paid \in 1 .. own[from][x]
       /\ own' = [own EXCEPT ![from][x] = @ - paid, ![to][x] = @ + paid]
       /\ UNCHANGED offers

\* Tokens can be created, Kei cannot.
Create(to, x) ==
    LET made == own'[to][x] - own[to][x]
    IN /\ x # Kei
       /\ made > 0
       /\ own' = [own EXCEPT ![to][x] = @ + made]
       /\ UNCHANGED offers

Destroy(from, x) ==
    LET gone == own[from][x] - own'[from][x]
    IN /\ gone \in 1 .. own[from][x]
       /\ own' = [own EXCEPT ![from][x] = @ - gone]
       /\ UNCHANGED offers

Offer(i) ==
    LET o == offers'[i]
    IN /\ offers[i] = None
       /\ o # None
       /\ o.state = "open" /\ o.acceptedBy = None
       /\ o.amount > 0 /\ o.wantAmount > 0
       /\ own[o.owner][o.asset] >= o.amount
       /\ own' = [own EXCEPT ![o.owner][o.asset] = @ - o.amount]
       /\ offers' = [offers EXCEPT ![i] = o]

Settle(i, taker) ==
    LET o == offers[i]
    IN /\ o # None
       /\ o.state = "open"
       /\ taker # o.owner
       /\ o.counterparty \in {None, taker}
       /\ own[taker][o.wantAsset] >= o.wantAmount
       /\ own' = [[own EXCEPT ![taker][o.wantAsset] = @ - o.wantAmount,
                              ![o.owner][o.wantAsset] = @ + o.wantAmount]
                       EXCEPT ![taker][o.asset] = @ + o.amount]
       /\ offers' = [offers EXCEPT ![i] = [@ EXCEPT !.state = "accepted",
                                                    !.acceptedBy = taker]]

Cancel(i) ==
    LET o == offers[i]
    IN /\ o # None
       /\ o.state = "open"
       /\ own' = [own EXCEPT ![o.owner][o.asset] = @ + o.amount]
       /\ offers' = [offers EXCEPT ![i] = [@ EXCEPT !.state = "cancelled"]]

Next ==
    \/ \E a, b \in Accounts, x \in Asset : Pay(a, b, x)
    \/ \E a \in Accounts, x \in Asset : Create(a, x) \/ Destroy(a, x)
    \/ \E i \in OfferId : Offer(i) \/ Cancel(i)
    \/ \E i \in OfferId, a \in Accounts : Settle(i, a)

Spec == Init /\ [][Next]_<<own, offers>>
=============================================================================
