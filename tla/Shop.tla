-------------------------------- MODULE Shop --------------------------------
(***************************************************************************)
(* createPlayerEconomy of packages/player-economy/src/shop.ts, with        *)
(* funds.ts and catalogue.ts: a player lists, cancels, buys and gives,     *)
(* several calls at a time, each checked against a purse that is read from *)
(* the node and reduced by the debts of what is being signed; and sync     *)
(* tells what has left the stall.                                          *)
(*                                                                         *)
(* One wallet over the ledger of a node it reaches call by call.  The      *)
(* market it trades through is in Market; here a write of it lands in one  *)
(* step, is refused, fails, or lands after it was given up.                *)
(***************************************************************************)
EXTENDS Integers, SequencesExt

CONSTANTS
    None,
    Calls,           \* calls of the application, each made once
    Lots,            \* hashes of the listings this wallet may write
    Foreign,         \* offers of other wallets
    Terms,           \* what each of them gives, and asks for
    Scripts,         \* what the application calls: call -> operation
    Listings,        \* what is asked of list(): qty, each, price
    Gifts,           \* and of gift(): asset and amount
    Shown,           \* prices that may have been shown to the caller of buy()
    Purse,           \* what the wallet holds at first
    MaxFaults        \* a bound of a run

Assets == {"coin", "ware"}

\* A parameter that may be left out is a set of at most one value.
Optional(values) == {s \in SUBSET values : \A v, w \in s : v = w}

Given(values) == IF values = {} THEN 0 ELSE CHOOSE v \in values : TRUE

ASSUME ShopAssumption ==
    /\ IsFiniteSet(Calls)
    /\ Lots \cap Foreign = {}
    /\ Terms \in [Foreign -> [qty : Nat, price : Nat]]
    /\ \A script \in Scripts :
         script \in [Calls -> {"list", "gift", "buy", "cancel", "sync"}]
    /\ Listings \subseteq [qty : Optional(Int), each : Optional(Int), price : Optional(Int)]
    /\ Gifts \subseteq [asset : Assets, amount : Int]
    /\ Shown \subseteq Nat
    /\ Purse \in [Assets -> Nat]
    /\ MaxFaults \in Nat

\* currency(): what the shop prices in; "ware" is the one ware of the world.
Money == "coin"

Offers == Lots \cup Foreign

VARIABLES
    balance,     \* asset -> raw units on the wallet's own chain
    arrivals,    \* asset -> raw units sent to it and not yet received
    offers,      \* offer -> what the chain says of it
    call,        \* call -> how far it is
    inFlight,    \* the calls whose entries are up, in the order they went up
    watching,    \* own listings to be told of once they leave
    directory,   \* who has been announced as worth reading
    closed,
    dropped,     \* history: the calls whose entries close() forgot
    faults,      \* counted against its bound
    told,        \* history: how often each listing was reported gone
    echoes,      \* history: how often it was to be told once more
    wiped        \* history: the listings a round forgot untold

chain == <<balance, arrivals, offers>>
past == <<told, echoes, wiped>>
stall == <<watching, directory, past>>
bounds == <<faults>>
shut == <<closed, dropped>>
vars == <<chain, call, inFlight, stall, shut, bounds>>

Zero == [a \in Assets |-> 0]

NoOffer == [seller |-> None, qty |-> 0, price |-> 0, state |-> "none"]

\* A listing: ware for money.  Stale is expired, and still locked.
OpenOffer(seller, qty, price) ==
    [seller |-> seller, qty |-> qty, price |-> price, state |-> "open"]

Init ==
    /\ balance = Purse
    /\ arrivals = Zero
    /\ offers = [o \in Offers |->
         IF o \in Foreign THEN OpenOffer("them", Terms[o].qty, Terms[o].price) ELSE NoOffer]
    /\ \E script \in Scripts :
         call = [c \in Calls |-> [pc |-> "ready", op |-> script[c], landed |-> FALSE]]
    /\ inFlight = <<>>
    /\ watching = {} /\ directory = {"me"}
    /\ closed = FALSE /\ dropped = {}
    /\ faults = 0
    /\ told = [l \in Lots |-> 0] /\ echoes = told /\ wiped = {}

OpenNow(o) == offers[o].state \in {"open", "stale"}

At(pc) == {c \in Calls : call[c].pc = pc}

-----------------------------------------------------------------------------
(***************************************************************************)
(* Debts: what a purse is reduced by.                                      *)
(***************************************************************************)
\* The moves of an entry: negative for what leaves.
Moves(c) == [a \in Assets |-> IF a = call[c].asset THEN -call[c].raw ELSE 0]

\* Mutant: a debt in one asset reduces the purse in every other.
CommittedRawOfAll(pending, asset) == SumFunction([c \in pending |-> call[c].raw])

\* committedRaw(): what the entries that are being signed take away.
CommittedRaw(pending, asset) ==
    SumFunction([c \in pending |-> Max({0, -Moves(c)[asset]})])

\* toFunds(): what can be spent.  What is on its way is for display only, and
\* left out.
Spendable(asset, confirmed) ==
    Max({0, confirmed - CommittedRaw(Range(inFlight), asset)})

-----------------------------------------------------------------------------
(***************************************************************************)
(* The calls.  A call that is refused for what it asks changes nothing and *)
(* is no step.                                                             *)
(***************************************************************************)
\* A call that is checked against the purse of `asset' for raw units, and then
\* writes.  History: seen, the own spends that its reading of the balance
\* shows, and missed, those its check saw neither there nor as debts.
Writing(op, target, asset, raw) ==
    [pc |-> "reading", op |-> op, target |-> target, asset |-> asset, raw |-> raw,
     price |-> {}, verify |-> FALSE, bal |-> {}, seen |-> {}, missed |-> {},
     landed |-> FALSE]

\* wholeQty(): one, unless the caller says otherwise.
WholeQty(qty) == IF qty = {} THEN {1} ELSE {q \in qty : q >= 1}

\* Mutant: the price of a unit is taken for the price of the lot.
PriceRawOfUnit(each, price, qty) ==
    IF (each = {}) = (price = {}) THEN {} ELSE {p \in price \cup each : p > 0}

\* priceRaw(): of a unit or of the lot, never both; in integers.
PriceRaw(each, price, qty) ==
    IF (each = {}) = (price = {}) THEN {}
    ELSE {p \in price : p > 0} \cup {e * qty : e \in {u \in each : u > 0}}

Ready(c, op) == call[c].pc = "ready" /\ call[c].op = op

Unused(lot) ==
    /\ offers[lot] = NoOffer
    /\ \A b \in Calls : call[b].pc # "ready" => call[b].target # lot

\* list(): wares for money, in whole lots, with one price; the wares are spent.
List(c, lot, asset, qty, each, price) ==
    /\ Ready(c, "list") /\ Unused(lot)
    /\ asset # Money
    /\ \E q \in WholeQty(qty) :
         /\ PriceRaw(each, price, q) # {}
         /\ call' = [call EXCEPT ![c] = [Writing("list", lot, asset, q)
                       EXCEPT !.price = PriceRaw(each, price, q)]]
    /\ UNCHANGED <<chain, inFlight, stall, shut, bounds>>

\* gift(): of Kei, or of a ware, to somebody else.
Gift(c, to, asset, amount) ==
    /\ Ready(c, "gift")
    /\ to # "me" /\ amount > 0
    /\ call' = [call EXCEPT ![c] = Writing("gift", None, asset, amount)]
    /\ UNCHANGED <<chain, inFlight, stall, shut, bounds>>

\* buy(): a listing as it was shown, whose price is the debt, or a bare hash,
\* which has no terms to be checked against.
Buy(c, o, shown, verify) ==
    /\ Ready(c, "buy") /\ offers[o] # NoOffer
    /\ shown # {} => offers[o].seller # "me"
    /\ shown = {} => verify # {TRUE}
    /\ call' = [call EXCEPT ![c] = [Writing("buy", o, Money, Given(shown))
                  EXCEPT !.price = shown, !.verify = shown # {} /\ verify # {FALSE}]]
    /\ UNCHANGED <<chain, inFlight, stall, shut, bounds>>

-----------------------------------------------------------------------------
(***************************************************************************)
(* The purse.                                                              *)
(***************************************************************************)
\* Spends that are on the chain now.
Landed == {b \in Calls : call[b].landed}

ReadBalance(c) ==
    /\ call[c].pc = "reading" /\ call[c].bal = {}
    /\ call' = [call EXCEPT ![c].bal = {balance[call[c].asset]}, ![c].seen = Landed]
    /\ UNCHANGED <<chain, inFlight, stall, shut, bounds>>

Fault == faults < MaxFaults /\ faults' = faults + 1

\* What a purchase costs is not always the debt it is entered with.
Hidden(b) == call[b].op = "buy" /\ call[b].raw < offers[call[b].target].price

\* What is kept of a call that is over, and whether an overspending has a cause.
Ended(c, answer) ==
    [pc |-> "done", op |-> call[c].op, target |-> call[c].target, answer |-> answer,
     landed |-> call[c].landed, cause |-> IF answer = "overspent"
                                          THEN call[c].missed # {} \/ Hidden(c) ELSE TRUE]

\* spendableFunds(): a write does not argue with a purse that was not read.
Unreadable(c) ==
    /\ call[c].pc = "reading" /\ Fault
    /\ call' = [call EXCEPT ![c] = Ended(c, "funds-unreadable")]
    /\ UNCHANGED <<chain, inFlight, stall, shut>>

\* An action whose block may still land although its call was given up.
Adrift == At("adrift")

\* Own spends that neither a balance showing `seen' nor the debts show.
Unseen(c, seen) == (Landed \cup At("acting") \cup Adrift) \ (seen \cup Range(inFlight) \cup {c})

\* readFunds(): the debts are those of the moment the reads have answered.
Measure(c) ==
    /\ call[c].pc = "reading" /\ call[c].bal # {}
    /\ call' = [call EXCEPT
         ![c].pc = "measured",
         ![c].bal = {Spendable(call[c].asset, Given(call[c].bal))},
         ![c].missed = Unseen(c, call[c].seen)
                         \cup {b \in Range(inFlight) \ call[c].seen : Hidden(b)},
         ![c].seen = {}]
    /\ UNCHANGED <<chain, inFlight, stall, shut, bounds>>

-----------------------------------------------------------------------------
(***************************************************************************)
(* act(): the entry goes up, the action runs, and the entry comes down.    *)
(***************************************************************************)
\* An action that may take what others count on.
Careless(c) == call[c].missed # {} \/ Hidden(c)

\* The check, and at once the entry: others that have measured missed it.
Act(c) ==
    /\ call[c].pc = "measured"
    /\ IF Given(call[c].bal) < call[c].raw
       THEN /\ call' = [call EXCEPT ![c] = Ended(c, "insufficient-balance")]
            /\ UNCHANGED inFlight
       ELSE /\ call' = [b \in Calls |->
                 IF b = c THEN [call[b] EXCEPT !.pc = "acting", !.bal = {}]
                 ELSE IF call[b].pc = "measured" \/ (call[b].pc = "acting" /\ Careless(c))
                      THEN [call[b] EXCEPT !.missed = @ \cup {c}] ELSE call[b]]
            /\ inFlight' = Append(inFlight, c)
    /\ UNCHANGED <<chain, stall, shut, bounds>>

\* cancel() has nothing to check, and no debt.
Cancel(c, lot) ==
    /\ Ready(c, "cancel") /\ offers[lot] # NoOffer
    /\ call' = [call EXCEPT ![c] = [Writing("cancel", lot, "ware", 0) EXCEPT !.pc = "acting"]]
    /\ inFlight' = Append(inFlight, c)
    /\ UNCHANGED <<chain, stall, shut, bounds>>

EntryOf(c) == CHOOSE i \in DOMAIN inFlight : inFlight[i] = c

\* Mutant: splice(-1, 1) takes the last entry when its own is no longer there.
DownUnfound(c) ==
    IF c \in Range(inFlight) THEN RemoveAt(inFlight, EntryOf(c))
                             ELSE SubSeq(inFlight, 1, Len(inFlight) - 1)

\* finally: its own entry comes down, if close() has not taken it.
Down(c) == IF c \in Range(inFlight) THEN RemoveAt(inFlight, EntryOf(c)) ELSE inFlight

Price(c) == offers[call[c].target].price

\* market.accept's expect: the chain's terms are those that were shown.
Matches(c) == ~call[c].verify \/ call[c].price = {Price(c)}

\* What market and ledger ask, the balance apart.
Allowed(c) ==
    CASE call[c].op = "buy"    -> /\ offers[call[c].target].seller # "me"
                                  /\ OpenNow(call[c].target) /\ Matches(c)
      [] call[c].op = "cancel" -> /\ offers[call[c].target].seller = "me"
                                  /\ OpenNow(call[c].target)
      [] OTHER                 -> TRUE

Cost(c) == IF call[c].op = "buy" THEN Price(c) ELSE call[c].raw

Affords(c) == balance[call[c].asset] >= Cost(c)

\* What the block of a call does to the chain.
Effect(c) ==
    /\ balance' = [balance EXCEPT ![call[c].asset] =
         IF call[c].op = "cancel" THEN @ + offers[call[c].target].qty ELSE @ - Cost(c)]
    /\ offers' = CASE call[c].op = "list" -> [offers EXCEPT ![call[c].target] =
                        OpenOffer("me", call[c].raw, Given(call[c].price))]
                   [] call[c].op = "buy" -> [offers EXCEPT ![call[c].target].state = "taken"]
                   [] call[c].op = "cancel" -> [offers EXCEPT ![call[c].target].state = "cancelled"]
                   [] OTHER -> offers
    /\ arrivals' = IF call[c].op = "buy"
                   THEN [arrivals EXCEPT !["ware"] = @ + offers[call[c].target].qty]
                   ELSE arrivals

Land(c) ==
    /\ call[c].pc = "acting" /\ Allowed(c) /\ Affords(c)
    /\ Effect(c)
    /\ call' = [call EXCEPT ![c].pc = "landed", ![c].landed = TRUE]
    /\ UNCHANGED <<inFlight, stall, shut, bounds>>

\* The action throws, and its entry comes down with it.
Rejected(c, answer) ==
    /\ call' = [call EXCEPT ![c] = Ended(c, answer)]
    /\ inFlight' = Down(c)

Refused(c) ==
    /\ call[c].pc = "acting"
    /\ \/ ~Allowed(c) /\ Rejected(c, "refused")
       \/ Allowed(c) /\ ~Affords(c) /\ Rejected(c, "overspent")
    /\ UNCHANGED <<chain, stall, shut, bounds>>

\* The write fails before the block is made, or the read-back after it landed.
Fails(c) ==
    /\ call[c].pc \in {"acting", "landed"} /\ Fault
    /\ Rejected(c, "failed")
    /\ UNCHANGED <<chain, stall, shut>>

\* A process that times out throws as well, and its block may still land.
TimesOut(c) ==
    /\ call[c].pc = "acting" /\ Fault
    /\ call' = [call EXCEPT ![c] = [call[c] EXCEPT !.pc = "adrift", !.missed = {}]]
    /\ inFlight' = Down(c)
    /\ UNCHANGED <<chain, stall, shut>>

LandsLate(c) ==
    /\ call[c].pc = "adrift" /\ Allowed(c) /\ Affords(c)
    /\ Effect(c)
    /\ call' = [call EXCEPT ![c] = [Ended(c, "failed") EXCEPT !.landed = TRUE]]
    /\ UNCHANGED <<inFlight, stall, shut, bounds>>

CollectAll ==
    /\ balance' = [a \in Assets |-> balance[a] + arrivals[a]]
    /\ arrivals' = Zero
    /\ UNCHANGED offers

\* A listing is watched.  A round that read the stall meanwhile may have told
\* that it has left already: then it will be told once more.
Watch(lot) ==
    /\ watching' = watching \cup {lot}
    /\ echoes' = [echoes EXCEPT ![lot] = IF told[lot] > @ THEN @ + 1 ELSE @]
    /\ wiped' = wiped \ {lot}

\* The action is through: a purchase has collected, a listing is watched, and
\* the directory told of the chains that carry them.
Finish(c) ==
    LET lot == call[c].target
    IN /\ call[c].pc = "landed"
       /\ call' = [call EXCEPT ![c] = Ended(c, "done")]
       /\ inFlight' = Down(c)
       /\ IF call[c].op = "buy" THEN CollectAll ELSE UNCHANGED chain
       /\ IF call[c].op = "list" THEN Watch(lot) ELSE UNCHANGED <<watching, echoes, wiped>>
       /\ directory' = CASE call[c].op = "list" -> directory \cup {"me"}
                         [] call[c].op = "buy" -> directory \cup {"me", offers[lot].seller}
                         [] OTHER -> directory
       /\ UNCHANGED <<told, shut, bounds>>

\* close() forgets the entries, not the actions.
Close ==
    /\ ~closed
    /\ closed' = TRUE
    /\ inFlight' = <<>>
    /\ dropped' = Range(inFlight)
    /\ UNCHANGED <<chain, call, stall, bounds>>

-----------------------------------------------------------------------------
(***************************************************************************)
(* sync(): collect, read the own stall, and tell what has left it.         *)
(***************************************************************************)
Syncing == {c \in Calls : call[c].pc \in {"collecting", "looking", "found", "asking"}}

SyncRecord == [pc |-> "collecting", op |-> "sync", target |-> None, landed |-> FALSE,
               asked |-> {}, live |-> {}, gone |-> {}]

Sync(c) ==
    /\ Ready(c, "sync")
    /\ call' = [call EXCEPT ![c] = SyncRecord]
    /\ UNCHANGED <<chain, inFlight, stall, shut, bounds>>

Collect(c) ==
    /\ call[c].pc = "collecting"
    /\ CollectAll
    /\ call' = [call EXCEPT ![c].pc = "looking"]
    /\ UNCHANGED <<inFlight, stall, shut, bounds>>

SyncFails(c) ==
    /\ call[c].pc \in {"collecting", "looking"} /\ Fault
    /\ call' = [call EXCEPT ![c] = Ended(c, "failed")]
    /\ UNCHANGED <<chain, inFlight, stall, shut>>

\* mine(): its own open offers, expired ones too.
Mine(c) ==
    /\ call[c].pc = "looking"
    /\ call' = [call EXCEPT ![c].pc = "found",
                            ![c].asked = {l \in Lots : OpenNow(l)}]
    /\ UNCHANGED <<chain, inFlight, stall, shut, bounds>>

\* A chain that could not be read is an empty stall: market.mine() does not throw.
MineBlind(c) ==
    /\ call[c].pc = "looking" /\ Fault
    /\ call' = [call EXCEPT ![c].pc = "found"]
    /\ UNCHANGED <<chain, inFlight, stall, shut>>

\* market.reconcile() takes its snapshot of the listings at once.
Ask(c) ==
    /\ call[c].pc = "found"
    /\ watching' = watching \cup call[c].asked
    /\ call' = [call EXCEPT ![c].pc = "asking", ![c].asked = watching']
    /\ wiped' = wiped \ watching'
    /\ UNCHANGED <<chain, inFlight, directory, told, echoes, shut, bounds>>

Waiting(c) == call[c].asked \ (call[c].live \cup call[c].gone)

\* Each listing is read again; a failed read says nothing of it.
Reread(c, l) ==
    /\ call[c].pc = "asking" /\ l \in Waiting(c)
    /\ call' = IF OpenNow(l) THEN [call EXCEPT ![c].live = @ \cup {l}]
                             ELSE [call EXCEPT ![c].gone = @ \cup {l}]
    /\ UNCHANGED <<chain, inFlight, stall, shut, bounds>>

\* Mutant: a listing that could not be read again counts as one that is gone.
StaysUnlessUnread(c) == call[c].live

\* What is watched on: what is there, and what could not be read.
Stays(c) == call[c].asked \ call[c].gone

\* The rounds that have a listing in their snapshot, or will ask for it.
Holders(l) == {c \in Syncing : l \in call[c].asked}

Held(l) == l \in watching \/ Holders(l) # {}

\* The set is rebuilt from the snapshot: what was added since is wiped.  What
\* another round holds as well, that one may tell again.
Rebuild(c) ==
    /\ call[c].pc = "asking"
    /\ \/ Waiting(c) = {} /\ UNCHANGED bounds
       \/ Waiting(c) # {} /\ Fault
    /\ watching' = Stays(c)
    /\ told' = [l \in Lots |-> told[l] + IF l \in call[c].gone THEN 1 ELSE 0]
    /\ echoes' = [l \in Lots |-> echoes[l] +
           IF l \in call[c].gone /\ Holders(l) # {c} /\ told[l] = echoes[l] THEN 1 ELSE 0]
    /\ wiped' = wiped \cup {l \in watching \ call[c].asked : Holders(l) = {}}
    /\ call' = [call EXCEPT ![c] = Ended(c, "done")]
    /\ UNCHANGED <<chain, inFlight, directory, shut>>

-----------------------------------------------------------------------------
(***************************************************************************)
(* Everybody else.                                                         *)
(***************************************************************************)
\* Another wallet takes an offer: the price of an own one is on its way here.
Taken(o) ==
    /\ OpenNow(o)
    /\ offers' = [offers EXCEPT ![o].state = "taken"]
    /\ arrivals' = IF offers[o].seller = "me"
                   THEN [arrivals EXCEPT ![Money] = @ + offers[o].price] ELSE arrivals
    /\ UNCHANGED <<balance, call, inFlight, stall, shut, bounds>>

Expire(l) ==
    /\ offers[l].state = "open"
    /\ offers' = [offers EXCEPT ![l].state = "stale"]
    /\ UNCHANGED <<balance, arrivals, call, inFlight, stall, shut, bounds>>

\* The market's own sweep brings an expired listing home.
Sweep(l) ==
    /\ offers[l].state = "stale"
    /\ offers' = [offers EXCEPT ![l].state = "cancelled"]
    /\ balance' = [balance EXCEPT !["ware"] = @ + offers[l].qty]
    /\ UNCHANGED <<arrivals, call, inFlight, stall, shut, bounds>>

Environment ==
    \/ \E o \in Offers : Taken(o)
    \/ \E l \in Lots : Expire(l) \/ Sweep(l)

Asks(c) ==
    \/ \E lot \in Lots, asset \in Assets, asked \in Listings :
         List(c, lot, asset, asked.qty, asked.each, asked.price)
    \/ \E to \in {"me", "them"}, asked \in Gifts : Gift(c, to, asked.asset, asked.amount)
    \/ \E o \in Offers, shown \in Optional(Shown), verify \in Optional(BOOLEAN) :
         Buy(c, o, shown, verify)
    \/ \E lot \in Lots : Cancel(c, lot)
    \/ Sync(c)

Writes(c) ==
    \/ ReadBalance(c) \/ Unreadable(c) \/ Measure(c)
    \/ Act(c) \/ Land(c) \/ Refused(c) \/ Fails(c) \/ TimesOut(c) \/ LandsLate(c)
    \/ Finish(c)

Syncs(c) ==
    \/ Collect(c) \/ SyncFails(c) \/ Mine(c) \/ MineBlind(c) \/ Ask(c)
    \/ Rebuild(c) \/ \E l \in Lots : Reread(c, l)

Next ==
    \/ Environment
    \/ \E c \in Calls : Asks(c) \/ Writes(c) \/ Syncs(c)
    \/ Close

Spec == Init /\ [][Next]_vars

-----------------------------------------------------------------------------
(***************************************************************************)
(* Properties.                                                             *)
(***************************************************************************)
\* What is kept has its type, and an entry is up for calls that may write only.
TypeOK ==
    /\ balance \in [Assets -> Nat] /\ arrivals \in [Assets -> Nat]
    /\ \A o \in Offers : offers[o].state \in {"none", "open", "stale", "taken", "cancelled"}
    /\ watching \subseteq Lots
    /\ \A c \in Calls : call[c].pc \in {"ready", "reading", "measured", "acting",
         "landed", "adrift", "collecting", "looking", "found", "asking", "done"}
    /\ told \in [Lots -> Nat] /\ echoes \in [Lots -> Nat] /\ wiped \subseteq Lots
    /\ faults \in 0..MaxFaults

\* act(): every action that is under way is up, once, and nothing else is,
\* whether actions end well, throw or time out, and whatever close() took
\* away: an entry that stays is a debt for ever, one that goes is spent twice.
PendingIsTrue ==
    /\ Range(inFlight) = (At("acting") \cup At("landed")) \ dropped
    /\ IsInjective(inFlight)

\* What is free of an asset: the balance less the debts that have not landed.
Free(asset) ==
    Max({0, balance[asset] -
      SumFunction([c \in {b \in At("acting") : call[b].asset = asset} |-> call[c].raw])})

\* funds(): a purse never offers more than is free, if its check has missed
\* none of the wallet's own spends; and it is exact when nothing moved while it
\* was read and no action is between its landing and its end.
PurseIsTrue ==
    [][\A c \in Calls :
         call[c].pc = "reading" /\ call'[c].pc = "measured" /\ call'[c].missed = {} =>
           LET asset == call[c].asset
               spendable == Given(call'[c].bal)
           IN /\ spendable <= Free(asset)
              /\ call[c].bal = {balance[asset]} /\ At("landed") = {} =>
                   spendable = Free(asset)]_vars

\* shop.ts:250: two actions are not checked against the same units.  The ledger
\* refuses an action for want of balance only if its own cost was hidden from
\* the check, or another's: one that landed or went up while this was checked.
SpentOnce ==
    \A c \in Calls : call[c].pc = "done" /\ call[c].answer = "overspent" =>
        call[c].cause

\* What the caller is told is what happened: "done" has landed on the terms that
\* were shown if they were to be verified, and what was refused has signed
\* nothing, then or later.
AnswersAreTrue ==
    /\ \A c \in At("landed") : call[c].op = "buy" /\ call[c].verify =>
         call[c].price = {Price(c)}
    /\ \A c \in At("done") :
         IF call[c].answer = "done" THEN call[c].landed \/ call[c].op = "sync"
                                    ELSE call[c].landed => call[c].answer = "failed"

Listed == {call[c].target : c \in {c \in At("done") : call[c].op = "list"
                                                        /\ call[c].answer = "done"}}

\* shop.ts:186: each departure is reported exactly once, and a read that fails
\* reports nothing.  What is told has left; it is told again only where another
\* round held the listing when it was told, or where its own list() came to
\* watch it after that, once for each time; and a listing that list() has
\* answered for is watched, held by a round or told, but for one that came to be
\* watched between the snapshot of a round and its rebuild, which forgets it.
DeparturesTold ==
    \A l \in Lots :
        /\ told[l] <= 1 + echoes[l]
        /\ told[l] > 0 => ~OpenNow(l)
        /\ Held(l) => told[l] <= echoes[l]
        /\ l \in Listed => Held(l) \/ told[l] > 0 \/ l \in wiped

\* Debts, refusals and answers of the shop, in one.
DebtsAreTrue == TypeOK /\ PendingIsTrue /\ SpentOnce /\ AnswersAreTrue
=============================================================================
