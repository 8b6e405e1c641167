---------------------------- MODULE LedgerProperties ------------------------
(* What the ledger of Ledger.tla is checked and proved to guarantee.       *)
EXTENDS Ledger

\* The type invariant, by the part of the state each conjunct is about.
ChainsTyped ==
    /\ blocks \subseteq Hash
    /\ frontier \in [Accounts -> Accounts \X Nat]
    /\ \A a \in Accounts : frontier[a] \in {a} \X (0 .. MaxHeight[a])
    /\ balance \in [Accounts -> Nat]

TokensTyped ==
    /\ transfer \in [Token -> TransferPolicy \cup {None}]
    /\ maxSupply \in [Token -> (Nat \ {0}) \cup {None}]
    /\ circulating \in [Token -> Int]
    /\ issuedByAccount \in [Accounts -> Nat]

HoldingsTyped ==
    /\ holdings \in [Accounts -> [Token -> Nat]]
    /\ holdingsByAccount \in [Accounts -> SUBSET Token]
    /\ holders \in [Token -> [Accounts -> Nat]]
    /\ holdersByAsset \in [Token -> SUBSET Accounts]

ReceivablesTyped == receivables \in [Hash -> Receivable \cup {None}]

DropsTyped ==
    /\ commits \in [Roots -> Commit \cup {None}]
    /\ claimed \subseteq Accounts \X Roots

LocksTyped == locks \in [Hash -> Lock \cup {None}]

TypeOK ==
    /\ ChainsTyped
    /\ TokensTyped
    /\ HoldingsTyped
    /\ ReceivablesTyped
    /\ DropsTyped
    /\ LocksTyped

\* What an account can spend of an asset, and what all of them can.
Spendable(a, x) == IF x = Kei THEN balance[a] ELSE holdings[a][x]
InHand(x) == SumFunction([a \in Accounts |-> Spendable(a, x)])

\* What is on its way to an account of `who`, and to all of them, of one asset.
Due(r, who, x) == IF r # None /\ r.to \in who /\ r.asset = x THEN r.amount ELSE 0
Incoming(who, x) == SumFunction([h \in Hash |-> Due(receivables[h], who, x)])
InTransit(x) == Incoming(Accounts, x)

\* What open offers hold of one asset.
OpenOffers == {h \in Hash : locks[h] # None /\ locks[h].state = "open"}
Held(l, x) == IF l # None /\ l.state = "open" /\ l.asset = x THEN l.amount ELSE 0
Locked(x) == SumFunction([h \in Hash |-> Held(locks[h], x)])

\* What issuing n tokens burned: 1 + 2 + ... + n.
BurnedBy(a) == (issuedByAccount[a] * (issuedByAccount[a] + 1)) \div 2
Burned == SumFunction([a \in Accounts |-> BurnedBy(a)])

\* No sequence of blocks of any accounts creates or destroys Kei: balances,
\* Kei on its way, Kei locked in open offers and the triangular cost of every
\* account's issuances always add up to the genesis supply.
KeiConserved == InHand(Kei) + InTransit(Kei) + Locked(Kei) + Burned = KeiSupply

\* The units of a token in circulation are exactly those held, on their way or
\* locked in open offers, whatever accepts, cancels and receipts interleave.
SupplyAccounted ==
    \A t \in Token : circulating[t] = InHand(t) + InTransit(t) + Locked(t)

\* Nothing is made of nothing and nothing vanishes, Kei or token.
Conserved == KeiConserved /\ SupplyAccounted

\* What every block leaves behind it, whichever came before: no balance is
\* negative, and nothing was made of nothing.
WellKept == TypeOK /\ Conserved

\* maxSupply caps what circulates, through any mix of mints, claims from
\* several roots and burns, each of which checks the headroom by itself.
SupplyCapped ==
    \A t \in Token : maxSupply[t] # None => circulating[t] <= maxSupply[t]

\* The holdings of accounts and the holders of assets are the same facts: an
\* entry is in all four indexes or, once it is spent to zero, in none.
IndexesAgree ==
    \A a \in Accounts, t \in Token :
        /\ holders[t][a] = holdings[a][t]
        /\ t \in holdingsByAccount[a] <=> holdings[a][t] > 0
        /\ a \in holdersByAsset[t] <=> holdings[a][t] > 0

\* No account ever holds more different tokens than the per-account limit,
\* whichever of a receipt, a claim or a cancelled offer brings the next one.
AssetLimit == \A a \in Accounts : Cardinality(holdingsByAccount[a]) <= MaxAssets

\* A token that cannot be transferred only ever leaves its issuer, by a mint;
\* an issuer-only token is on its way to or from its issuer; and no offer that
\* the policy forbids ever holds a token.
PolicyRespected ==
    /\ \A h \in Hash :
         receivables[h] # None /\ receivables[h].asset # Kei =>
           LET r == receivables[h] IN
             /\ transfer[r.asset] = "none" => r.from = IssuerOf(r.asset)
             /\ transfer[r.asset] = "issuer-only" =>
                  IssuerOf(r.asset) \in {r.from, r.to}
    /\ \A h \in OpenOffers : \A x \in {locks[h].asset, locks[h].wantAsset} :
         x # Kei =>
           /\ transfer[x] \in {"open", "issuer-only"}
           /\ transfer[x] = "issuer-only" =>
                IssuerOf(x) \in {locks[h].owner, locks[h].counterparty}

\* The part of the inductive invariant behind the properties above and below
\* that they do not state.  Amounts on their way and amounts of offers are
\* positive, so that no credit makes an empty entry; receivables and offers are
\* filed under hashes of blocks; what is on its way was issued, and what was not
\* issued does not circulate; and the hash of an open offer is free for the leg
\* its accept delivers under it.
PositiveAmounts ==
    /\ \A h \in Hash : receivables[h] # None => receivables[h].amount > 0
    /\ \A h \in Hash : locks[h] # None =>
         locks[h].amount > 0 /\ locks[h].wantAmount > 0

FiledUnderBlocks ==
    \A h \in Hash : receivables[h] # None \/ locks[h] # None => h \in blocks

IssuedInTransit ==
    \A h \in Hash : receivables[h] # None /\ receivables[h].asset # Kei =>
        transfer[receivables[h].asset] # None

OpenOffersFree == \A h \in OpenOffers : receivables[h] = None

NoneUnissued == \A t \in Token : transfer[t] = None => circulating[t] = 0

LedgerInv ==
    /\ PositiveAmounts
    /\ FiledUnderBlocks
    /\ IssuedInTransit
    /\ OpenOffersFree
    /\ NoneUnissued

\* An offer settles exactly once: whichever of the racing accept and cancel
\* comes first, nothing that follows changes the terms, the outcome or the
\* winner, and an accept is never its own author's or a stranger's to a
\* reserved offer.
SettledOnce ==
    [][\A h \in Hash : locks[h] # None =>
         /\ locks'[h] # None
         /\ locks[h].state # "open" => locks'[h] = locks[h]
         /\ locks'[h].state = "accepted" =>
              /\ locks'[h].acceptedBy \notin {locks[h].owner, None}
              /\ locks[h].counterparty \in {None, locks'[h].acceptedBy}]_vars

\* Units come into circulation only through a mint, whole, towards one
\* recipient, or through one account's first claim of a leaf of an open root
\* that the token's issuer published.
CreatedOnlyByMintOrClaim ==
    [][\A t \in Token : circulating'[t] > circulating[t] =>
         LET created == circulating'[t] - circulating[t] IN
           \/ \E h \in Hash :
                /\ receivables[h] = None /\ receivables'[h] # None
                /\ receivables'[h].from = IssuerOf(t)
                /\ receivables'[h].asset = t
                /\ receivables'[h].amount = created
           \/ \E a \in Accounts, r \in Roots :
                /\ claimed' = claimed \cup {<<a, r>>}
                /\ <<a, r>> \notin claimed
                /\ [account |-> a, asset |-> t, amount |-> created]
                      \in Entitled[r]
                /\ commits[r] # None /\ ~commits[r].closed
                /\ commits[r].issuer = IssuerOf(t)]_vars

\* A closed root stays closed and pays nobody again; a claim, once made, is
\* never forgotten; a published root keeps its issuer and its asset.
DropsAreFinal ==
    [][/\ claimed \subseteq claimed'
       /\ \A r \in Roots : commits[r] # None =>
            /\ commits'[r] # None
            /\ commits'[r].issuer = commits[r].issuer
            /\ commits'[r].asset = commits[r].asset
            /\ commits[r].closed =>
                 /\ commits'[r].closed
                 /\ \A a \in Accounts :
                      <<a, r>> \in claimed' => <<a, r>> \in claimed]_vars

\* What is on its way is never lost, replaced or paid to somebody else: an
\* entry leaves alone, and only when the account it names receives its whole
\* amount.
ReceivablesReachTheirOwner ==
    [][\A h \in Hash :
         receivables[h] # None /\ receivables'[h] # receivables[h] =>
           LET r == receivables[h] IN
             /\ receivables' = [receivables EXCEPT ![h] = None]
             /\ IF r.asset = Kei
                THEN balance' = [balance EXCEPT ![r.to] = @ + r.amount]
                ELSE holdings' = [holdings EXCEPT ![r.to][r.asset] = @ + r.amount]]_vars

\* What an account owns of an asset beyond its open offers: spendable units
\* and units waiting to be received.
Own(a, x) == Spendable(a, x) + Incoming({a}, x)

\* The ledger implements Exchange: collecting a receivable, publishing or
\* closing a root and changing a representative are invisible there, and every
\* other block is one step of what people own, an accepted swap included.
OfferView(lock) ==
    IF lock = None THEN None
    ELSE [owner |-> lock.owner, asset |-> lock.asset, amount |-> lock.amount,
          wantAsset |-> lock.wantAsset, wantAmount |-> lock.wantAmount,
          counterparty |-> lock.counterparty, state |-> lock.state,
          acceptedBy |-> lock.acceptedBy]

OfferTerms == [owner : Accounts, asset : Asset, amount : Nat,
               wantAsset : Asset, wantAmount : Nat,
               counterparty : Accounts \cup {None},
               state : {"open", "accepted", "cancelled"},
               acceptedBy : Accounts \cup {None}]

ASSUME NoneIsNoOffer == None \notin OfferTerms

Wealth == [a \in Accounts |-> [x \in Asset |-> Own(a, x)]]
Offered == [h \in Hash |-> OfferView(locks[h])]

Promise == INSTANCE Exchange WITH
    OfferId <- Hash, own <- Wealth, offers <- Offered

ImplementsExchange == Promise!Spec

=============================================================================
