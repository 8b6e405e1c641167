# Verification of the Kei SDK

TLA+ specifications of the code in this repository: the in-memory ledger that
every test and every local game runs against, the wallet client on top of it,
and the packages built on that client: claims, the market, the player shop and
the economy. TLC checks small instances; TLAPS proves, for every value of the
constants, what matters most of the ledger, the wallet, the claims, the market's
store and the market's offers.

## The system

`packages/core` is a client for a block-lattice ledger: each account signs its
own chain of blocks; a transfer is a block on the sender's chain and, later, a
receive block on the recipient's. The other packages add no authority of their
own: they read the chain, build blocks through one `KeiClient`, and keep
whatever the chain does not (seeds, unspent proofs, caches, a market's index).

| component (sources under `src/packages`) | state | operations | interacts with |
|---|---|---|---|
| ledger, `core/src/mock/ledger.ts` | blocks, frontiers, balances, tokens, four holdings indexes, receivables, roots, claims, swap locks | `process`: fourteen kinds of block | called by the mock node; notifies its listeners |
| mock node and server, `core/src/mock/node.ts`, `server.ts` | listeners, faucet chain | subscribe, faucet, dispatch | wraps the ledger for a client in process or over HTTP |
| HTTP client, `core/src/http-node.ts` | polls, what each poll announced | one call with a deadline, poll | the server; calls back into the wallet |
| wallet client, `core/src/client.ts` | queue of `submit`, the running drain, `receiveAgain`, listeners | send, submit, receiveAll, start, close | node client; events to the application |
| asset cache, `core/src/asset-cache.ts` | records, lookups under way, slots | resolve | wallet, items; the node |
| claims, `claims/src` | bundles a page holds, records in the browser's storage | ready, add, claim, claimAll, pending | storage and Web Locks shared by tabs; wallet |
| market storage, `market/src/storage.ts`, `store.ts`, `catalog.ts` | one envelope per market: offers, observations, checkpoints | commit, compaction, materialize, paged reads, clear | a shared key-value store with compare-and-swap |
| ingestion, `market/src/account-chain-ingestor.ts` | cursor, budget | ingest | an account-chain provider; market storage |
| market offers, `market/src/market.ts`, `lifecycle.ts` | the sweep timer | offer, accept, cancel, cancelExpired, close | ledger's swaps through `submit` |
| market reads, `market/src/walk.ts`, `directory.ts`, `book.ts`, `history.ts`, `series.ts`, `stored-history.ts`, `instrument.ts` | a directory of accounts; one poll loop per subscription | book, reconcile, chart, ticker, snapshot, subscribe | node, directory, market offers |
| player shop, `player-economy/src` | what is being signed and has not landed; listings watched | list, gift, buy, cancel, funds, sync, close | market, wallet |
| economy, `economy/src` | the recipes and tables of one game | run, stock, publishDrop, verifyAward, closeDrop | wallet, market, ledger's roots |
| facade, `kei/src/kei.ts` | top-up handlers | start, pay, sync, acceptTopUps, close | everything below it |
| seed custody, `kei/src/storage.ts` | stored seed | load, save, clear | browser storage |
| tokens and items, `tokens/src` | none beyond the chain | issue, mint, burn, transfer | wallet (reads, then submit) |
| work, `work/src` | eight precomputed nonces | take, precompute | wallet |
| conversions (`wire`, `blocks`, `amount`, `keys`, `crypto`, `hash`), wallet UI | none | pure functions, rendering | |

### Where it is hard

* `process` awaits a signature check between the check of the frontier and the
  writes, so calls can overlap.
* Two chains race for one lock: an accept and a cancel of the same offer. A
  single operation writes up to six indexes.
* The wallet is four activities interleaving at awaits: the submit queue, the
  drain, the subscription and the application. Calls are lost, time out while
  the block they carry still lands, and another client of the seed may collect
  first.
* Claims and a market's envelope are kept in storage that other tabs or
  processes use at the same time; a page may die between any two writes, and a
  write that was given up may land later.
* Everything above `submit` reads the chain first and acts on what it read:
  funds, offers, plans, caps, listings to sweep.
* Operations of several blocks stop partway: batches, recipes, stock, closing.
* Reads over many accounts take long enough for the market to move, fail for
  one account and not the next, and have to say so.

`PROJECT.json` lists the components with what is modelled of each, and under
`hazards` the places where the code is exposed, with the property that covers
each.

## Modules

Every module is translated from the sources its header names; `PROJECT.json`
maps each definition to its lines. An operator marked *Mutant*, or one that no
action uses, is a faulty form of the definition after it, kept to confirm that
a property can tell the two apart. Variables and fields marked *history* are
read by properties alone.

| modules | model | state and actions |
|---|---|---|
| `Ledger` | `MockLedger` | one variable per map, one action per kind of block (`ProcessSend` ... `ProcessSwapCancel`) |
| `LedgerProperties`, `Exchange` | | what the ledger guarantees; the abstract specification it implements |
| `LedgerProcess` | `process` split at its `await verifyHash` | `Begin`, `Finish`, `Refuse`, any number of calls at once |
| `KeiClient` | `KeiClient` over `HttpNode` or `MockNode` | the queue, the drain, the subscription, the application, a second client of the seed |
| `Claims` | `createClaims` over the browser store | calls of several pages step by step, crashes, failures of storage and node |
| `MarketEnvelope` | one commit of the store, as a function of the envelope | materialize, announce, compaction and retention, validation, pages |
| `MarketStorage`, `AtomicMarketStore` | `updateEnvelope`, `loadEnvelope` and reads over an adapter; the abstract store, which takes as operators what a job does to an envelope | load, swap, confirm, stop, clear, a replacement adrift; a commit in one step |
| `Ingestor` | `ingest` over the atomic store | a call row by row, its cursor, its budget, its failures |
| `Market` | offers, accepts, cancels and the expiry sweep of one wallet | callers and sweeps between their awaits, one timer, other wallets |
| `MarketCoverage`, `MarketReads` | the concurrent walk, the directory, the book and reconciliation | lanes that take accounts one at a time, merged coverage |
| `MarketBooks` | the same under names of its own, to stand beside other modules | |
| `MarketHistory` | trades, series, ticker, candles, stored candles | what has settled, and a question about it |
| `Instrument` | snapshots, subscriptions and orders of one instrument | pages of a poll, its deadline, timers, listeners |
| `Shop` | the player shop and its funds | list, gift, buy, cancel, sync between their awaits; what is in flight |
| `EconomyLedger`, `MerkleTree`, `Recipes`, `Drops`, `Economy` | the chain as a game sees it, trees and proofs, recipes, drop tables, and the game that calls both | one step per block of a run, a batch or a closing |
| `TopUps` | `acceptTopUps` on a server | handlers of several payments side by side |
| `AssetCache` | `AssetCache` and its `Gate` | scans that share lookups, slots and a memory |
| `PlayerServices` | the top-ups of a server beside the inventories of a client | the steps of either, with their constants |
| `Decimals` | the powers of ten that amounts are scaled by | |

**Ledger.** An action takes a block an account could sign on its frontier, with
*any* resulting balance, and applies it if every check in the code passes; a
refused block changes nothing and is no step. Shared helpers keep the code's
names (`RequireDelta`, `CommitDebit`, `EnforceTransferPolicy`, ...). Left out,
because no property tells their values apart: signatures, work,
representatives, names, decimals and metadata. A Merkle root is the set of
leaves it commits to (external: collision resistance). A hash is the place of a
block in its chain. Amounts are the ledger's bigints: there is no overflow.
`Exchange` has people who own amounts, and offers that take what they offer out
of their author's hands and end once, by an exchange in one step or by a
return. The refinement mapping counts as owned what is spendable or receivable,
so that collecting is invisible and an accept is a single step of both legs.
`Serialised` in `LedgerProcess` says whether an account has one call under way
at a time, which `KeiClient.submit` ensures for one client and nothing ensures
for two, or for a call that timed out and is sent again.

**Wallet.** The code between two awaits is one action. The node is reduced to
what this account sees: receivables, balance, and whether a block on its way
still builds on the frontier (`standing`). `transport` is `HttpNode`, which
polls, replaces every refusal by `node-error` and times out, or the in-process
`MockNode`, which announces in microtasks and keeps error codes. Payments and
receivables are one unit each: the properties are about which blocks land and
who is told, not about amounts.

**Claims.** A page has its Map (`held`), which dies with it; all pages share the
store's namespace (`records`). A record is written as a candidate and then given
the wallet's authority, both under one Web Lock. A step of a call is what the
code does between two awaits of storage or node. The node is the four sets a
claim depends on: roots it knows, has closed, has paid to this account, and
roots whose token has no room.

**Market storage.** An adapter is the memory adapter, or a durable one that the
SDK reads back before it believes it and that may drop any write it has
acknowledged (`lost`); `outrun` are the dropped writes whose revision another
commit took before they were read back, which the read-back cannot tell from
those that were kept. Every caller loads, computes and swaps up to `MaxAttempts`
times. A deadline or a signal may end any wait; a replacement already sent then
happens all the same, later (`adrift`). A page shows the facts of its rows, and
when each was last observed, which moves no revision (`Sights`). The random cursor key is the count of
clears. `AtomicMarketStore` is what is promised: whole jobs on what was stored
at that moment, and nothing else but `clear`; `Ingestor` runs over it.

**Market.** Between the reads of a call and the moment its block reaches the
ledger anything may happen: other wallets take and withdraw offers, the clock
passes an expiry, the timer fires, sweeps run side by side, the market is
closed. Whether the wallet has enough is a choice at both places where it is
asked. `coded` says whether the ledger's refusals keep their codes.

**Reads.** `MarketReads` has a directory that forgets the oldest account, lanes
that take accounts from one list, offers that settle meanwhile, and the
coverage each walk claims. `MarketHistory` is arithmetic: its state is what has
settled, the wallet's own blocks, the question asked and which accounts were
unreadable. The live half computes with doubles, which are ratios rounded to
`Precision` binary digits (`Rounded`, after every operation the code has on
numbers); the stored half with integers and exact ratios. Numbers neither
overflow nor underflow, as a raw amount of an asset cannot make them. `Instrument` is a poll loop: a read of pages that a deadline may abort,
a timer, a refresh after an order of one's own, and the wording of a
status (live, stale, failed) reduced to what it claims.

**Shop and economy.** A shop's call reads its purse, puts up its debt, signs,
and takes it down; `close` empties the list while calls run on. Recipes are
planned by the dry run of `plan.ts` and then written block by block; an exchange
is settled through the market's offers. A batch publishes a root for each asset
of what was rolled, an award carries a proof of its leaf and of the table's
salt, and closing asks each recipient first. `MerkleTree` has the shapes of
trees and proofs, over hashes without collisions.

**Top-ups and the cache.** A payment that is received is minted for, or sent
back if the mint throws, while the game spends and mints on its own; a mint is
a block and a read after it, and throws when either does. Scans of the cache
share one lookup per asset, a number of slots handed on in line, and a memory
that forgets the least recently used.

`SumTheorems` and the modules named `...Proofs` hold the theorems and are read by
TLAPS alone. The modules named `MC...` give the constants their values for TLC. `MCWallet`,
`MCMarketData` and `MCEconomy` are sums: a variable `part` is chosen once, and
the run takes the steps of that part while the variables of the others stay as
they began.

## What TLC checks

| run | instance | question |
|---|---|---|
| `LedgerTrades` | issuer and two players, one with a Kei, two tokens, every pair of policies, room for one token each, one to two blocks an account, from a ledger on which the tokens are issued and held | do offers settle once with both legs or none, is nothing created or lost, do indexes, limit and policies hold? `ImplementsExchange` is the refinement |
| `ProcessQueued` | issuer and player, one token capped at 2, two roots over it of which one has two leaves of one account, 4 and 2 blocks, from genesis, two calls at once, one per account | do overlapping calls implement one-step `process`; are Kei and units conserved through issuance and burns; are roots, claims, closes and the cap respected together; does what is on its way reach its owner? |
| `LedgerForks` | the same, but two calls of one account may overlap | no: both are applied on one frontier (finding) |
| `Wallet` | *client:* two receivables (Kei and a token), one payment, over HTTP with one failed call or rival, and in process with a rival. *claims:* one page, two roots, one of a capped token, one failure or crash | are callers and listeners told the truth, does the wallet never race itself, is what arrives collected, are callers answered; is a player who keeps coming back paid? |
| `ClaimsTabs` | two pages, one call each, two roots and one of them with wrong terms too, room for one record, one failure or crash, or a root whose token has no room for a while | is any proof lost, replaced, signed for too early, or kept past the limit? |
| `MarketStorage` | two callers, eight jobs over three offers and two accounts, two attempts, one stop, one clear, one reader, a memory adapter and a durable one that drops writes | is every change one whole job, every answer true, every series of pages one snapshot? `ImplementsAtomic` is the refinement |
| `Market` | two own offers beside another's, one caller, two sweeps, a clock of three times, one failure | are callers told truly, is no listing with an expiry left without a timer, is nothing else swept, does each come home? |
| `SweepOrphans` | the same | no: a listing read while the node is unreachable orphans an expired offer (finding) |
| `MarketData` | *books:* three accounts, five offers, a directory of one, two lanes. *charts:* seven swaps, seven questions, an account unread. *ingest:* a catalog with room for three of four accounts of one and two rows, three calls of at most two accounts, three rows and two pages, four announcements, one failure | is what is answered true, of the market and of its own coverage? Is no account passed over? |
| `Shop` | three calls of four scripts over one listing of one's own and one of another, purse of two coins and two wares, one failure | are debts those of the actions under way, do purses offer only what is free, is a departure told, and again only where two held the listing? |
| `Economy` | *game:* ten recipes, four tables, three calls, two players, a cap that bites, one call lost. *topups:* three payments at 2.5 tenths, a cap that bites, one call lost. *inventory:* two scans of three assets, one of them perhaps late at the node, one slot, a memory of two, one failure | are plans true, is what stands named, do awards verify exactly when owed, does closing take nothing; is what was paid minted for or returned; is every scan served? |
| `Instrument` | three orders of two accounts, one subscription, one failure, a clock of two times that may be set back | is what the listener is told true, are its own orders shown at once, does it keep polling? |

Several properties are conjunctions under one name, one for each question a
user of the component would ask; the parts are defined and explained before
them: `ToldTruly` of the wallet is `AnswersAreTrue`, `CollectedIsReported` and
`RacesAreReal`; `StoreKeepsItsWord` has `AnswersAreTrue`, `OneSnapshot` and
`NothingForgotten`; `BooksTrue` the five parts of `BooksAreTrue`; `ChartsTrue`
the six of `ChartsAreTrue`; `RecipesTrue` is `PlanIsTrue`, `NoListingIsTrue`,
`SoldAsAsked`, `WhatStandsIsNamed`; `PlayersServed` is `TopUpsAreFair` and
`ScansAreServed`; `IngestKeepsItsWord` is `IngestTypes`, `WithinBudget` and
`NobodySkipped`. The type invariant of a module is part of one of them.

Bounds, and why they suffice. Chains are bounded by `MaxHeight`: offer, accept
or cancel, and receipt fit. Two players and an issuer are the least for a
counterparty, a stranger and the owner of a policy. Room for one token
(`MaxAssets`, `MAX_ASSETS_PER_ACCOUNT` = 1 024 in the code) makes the limit bite, as do `MaxPending` 1 for
128, retention of one or two rows for thousands, a directory of one account and
a memory of two records. `MaxRounds` and `MaxAttempts` are 2 for 64 and 8: the
second is the last one and the first is not. `MaxFaults` is 1, the
least that shows an effect. The ingestor has three calls: one that is stopped,
one that goes on from its cursor and may be stopped again, and one that comes
through; four announcements fold rows of the catalog and evict an account that
a page under way has read.
Two callers, sweeps or pages are what a race takes; a third call in the shop
and the economy is the reader or the closer beside two that write. The clock of
the market has a moment before, at and after an expiry, and its timer a horizon
shorter than the distance, so that it is armed more than once. Doubles have
`Precision` 5 digits for 53, and two of the seven swaps are one raw unit apart,
too little for these doubles to tell and enough for the ledger. The amounts of
recipes and top-ups do not divide each other. `MarketStorage` skips, by
an action constraint, reads that are complete with their first row, in which
nothing can be torn, and `ClaimsTabs` looks at a root without room apart from
failures and closings, which `Wallet` has together for one page. Symmetry is of
callers, pages and calls, in runs whose properties are about safety.

Initial states. `LedgerTrades` starts from a ledger that a few issue, mint and
asset_receive blocks leave behind (`InitIssued`), with empty chains: the hashes
of those earlier blocks play no part in what follows. Every other run starts
where the program does, `ProcessQueued` from the genesis blocks.

Fairness. *Wallet:* promise continuations and the node (`Promises`), and the
poll timer (`Timer`): the event loop and a node that answers; the application,
other accounts, the rival and failures owe nothing, and `DrainsEnd` asks for an
answer only if the application itself stops calling `sync`. *Claims:* the steps
of a call, and besides a player who closes the page and comes back again and
again, since a root the node does not know yet is looked at again only by the
next page, and a node that catches up with the issuer. *Market:* the clock, the
timer and every wait of a call or a sweep; over HTTP every wait has a deadline.
*Instrument:* the timer, the deadline of a poll and the promises; nothing is
assumed of the node, which may never answer a page: that the deadline makes up
for it is the point.

Deadlock is checked in `ClaimsTabs` alone, whose pages can always be opened
again. Elsewhere the program may rightly stop: a ledger whose accounts sign
nothing more, a closed wallet, shop or market, a script of calls that has ended.

## What TLAPS proves

Every theorem holds for any accounts, tokens, offers, roots, pages, callers,
amounts and bounds. Each rests on an inductive invariant that TLC has checked on
the run of its module before it was proved; none of the properties is inductive
alone.

| module | theorems | the argument |
|---|---|---|
| `SumTheorems` | lemmas | What a sum over a finite set does when one element is added, taken or changed, that sums keep the order of their terms, add up, and need not visit zeros. Besides, powers of ten, sequences in which nothing occurs twice, and finite sets in a line. The module's folds are recursive functions over subsets, and induction over subsets is done by the least size of a counterexample. |
| `LedgerProofs` | `TypeCorrect`, `Supporting`, `IndexesAlwaysAgree`, `AssetLimitHolds`, `PolicyHolds`, `SettlementIsFinal`, `SupplyStaysCapped`, `CreationIsAccounted`, `ReceivablesAreDelivered`, `ClosingIsFinal`, `NothingMadeOfNothing`, `AlwaysWellKept`, `LedgerImplementsExchange` | One lemma per shared write, one step per action. `LedgerInv`: that a receipt keeps the indexes in agreement needs amounts on their way to be positive, that an accept loses nothing needs the offer's hash free for the leg delivered under it, that issuing resets nothing needs the circulation of unissued tokens to be zero. Conservation is three sums (held, owed, on offer) that every block changes at one or two places. The refinement maps each block to one step of `Exchange` or to none: a receipt and an index write are invisible, an accept moves both legs at once. |
| `LedgerProofs`, of `LedgerProcess` | `QueuedCallsImplementLedger`, `QueuedCallsStayWellKept` | If the calls for each account are queued, any number of overlapping calls of different accounts implement the one-step ledger, so all of the above holds of them. That nobody has two calls under way is their hypothesis and not a result: without it `LedgerForks` refutes it. `QueuedInv`: a call past its await still has a block that builds on the frontier. |
| `KeiClientProofs` | `ClientStaysSound`, `WalletTellsTheTruth`, `WalletNeverForksItself` | `ClientInv` relates what the client believes to what the node has: the queue and its head (`QueueOK`), the blocks on their way and whether each can still land (`FlightsOK`), what became of each job (`OutcomesOK`), the drain (`DrainOK`) and the subscription (`WatchOK`); as long as nobody else could move the frontier, that the flight is the head's and nothing else (`Calm`); that what was collected has been announced but for what went unheard (`Reports`); and that a drain or a payment has no loser's reason without a race (`Reasons`). |
| `ClaimsProofs` | `ClaimsStaySound`, `ProofsStaySafe`, `NoProofIsLost` | `ClaimsInv` says for each point at which a call waits what it still knows: of its record, of the Web Lock, of the authority in the record and of the page's Map. Deliveries are sequences of bundles that are admitted one at a time; what that leaves is shown for the shortest sequence it could fail for. |
| `MarketStorageProofs`, of `MarketStorage` | `StoreIsAtomic`, `AnswersHold`, `StoreStaysTrue`, `SettlementsStand` | First what one commit makes of an envelope, for any page (`Commits`): one row for each offer of the envelope and of the page, terms and settlements kept, watermarks forward, every table within its retention (rows have a rank in the order they leave by), what is folded counted (`Sightings` is a sum), and a list whose revision did not move unchanged. Then the calls. A swap refines a commit because the replacement on its way is the one its job makes of the envelope it expects, and a matching revision means that very envelope (`Faithful`); an answer is true because a number is handed to one replacement only (`NumbersKept`), which is also why nothing is counted twice (`CountInv`), and because the write of a call that waits for its read-back has landed, or was dropped and either is of a revision the store has yet to reach (`Overdue`) or has been outrun; a read that may go on stands at a row of the list as it is now (`Resumable`), and the rows beyond it in their order are the rest of that list. |
| `MarketStorageProofs`, of `Ingestor` | `IngestorKeepsItsWord` | `IngestInv` is about what is still due: the accounts of the traversal that were neither polled nor lost to an exception. They are in the catalog as it is now; beyond the cursor of the call and of the loop (`Ahead`); and, while a page is at hand, in its rest or beyond its next cursor (`Covered`). The step that takes an argument is the cursor a stopped call comes back with: it is behind row k of the list read once more, and if that list has lost no address of the page (`Replayable`) then its row k is not behind row k of the page (`MoreIsNoLater`), so what is due is ahead of it. A cursor that is still accepted is of the same revision, hence of the same list, which is the store's lemma. The budget holds because a page asks for no more accounts than are left (`Afforded`). |
| `MarketProofs` | `MarketStaysSound`, `CallersAreToldTruly`, `SweepsKeepOut`, `ListingsAreWatched` | `MarketInv` says what a call read before its await and which of it cannot have changed since: an offer settles once, its terms never change, a closed market begins no cancel. For the timer: an armed alarm is never later than the first expiry, or a sweep that will look is under way. |
| `MarketProofs`, of `MarketBooks` | `BooksStayTrue` | `BooksInv` follows a read from stage to stage by what it may have lost. `unlisted` are the offers that were there and asked for when the read began and have stayed so; each is of an account the directory named (`OnRoster`), unless it has dropped one, then of an account on the list of the walk (`OnWalk`) or the walk says what it left out, then among what was read of that account (`ChainIsRead`) or cut off by the limit, which is reported, and at last among what is converted (`OnConvert`). No item is passed over, because what was taken is answered or in the hands of a lane and a lane rests only when nothing is left (`LanesSound`). A reconciliation keeps what was read of each offer, which stays so when it has settled (`OnReconcile`). For the book the lemmas are about `Sorted`: what it lists is a set in a line (`SortedIs`), and crosswise products put exact prices in one. |
| `ShopProofs` | `ShopStaysSound`, `DebtsStayTrue`, `PurseStaysTrue`, `DeparturesAreTold` | The argument is about money. Of an asset the wallet owes what the calls that may still land will cost (`Due`), and since a balance was read it has spent what landed unseen by that reading (`Since`): sums over all calls, of which a step changes one term. A reading falls short of the truth by no more than the second (`ReadingHolds`); so a purse that missed nothing is backed by the balance on top of all that is owed (`PurseHolds`), and so is the action it was checked for (`ActionHolds`), until an action of hidden cost goes up. An action that finds too little therefore has a cause. For the stall (`StallHolds`): what was told has left, and the set or the snapshot of a round holds it only if it came back there after it was told, or another round held it then, which is counted (`echoes`). |
| `ServiceProofs`, of `Instrument` | `OrdersStayServed`, `SubscribersAreToldTruly` | `WakeInv`: a subscriber whose own order was answered since its last read began is owed one, and what is owed has a timer, or a read that will begin another. `PriceInv`: what was paid for an order is its units at its price; that a book shows it so is `ExactPrice`, for levels of any decimals. `ReadInv` says what a read under way knows of its moment: its window has begun, the orders that stood throughout are among those that still do or were sold since, and each page that has come (`PageOK`) has every row of the accounts it could read and names the others. The lemmas are about what a page is cut down to: a full page that lacks an order has the limit of better ones, merged coverage is complete only if both pages are, and crosswise products compare prices as fractions do. |
| `ServiceProofs`, of `PlayerServices` | `TopUpsStayFair`, `InventoriesStayServed`, `PlayersAreServed` | `TopUpsInv`: at each await a payment was minted for in full or not at all, and is returned only once its mint seemed to fail; that flooring leaves less than one unit is arithmetic over powers of ten. `InventoryInv`: the slots in use are those lookups that were sent, a lookup that waits is in the line once and nothing waits while a slot is free, and a scan waits for lookups that are under way. |

Assumptions. Those of the constants, which TLC evaluates on the runs:
`ConstantsAssumption` and `NoneIsNoOffer` (the value for "none" is no account,
receivable or lock), `ClientAssumption`, `ClaimsAssumption`,
`StorageAssumption` (which has it that the value for an empty store is no
envelope, and that jobs are jobs) with `RetentionAssumption`,
`MarketAssumption`, `BooksAssumption` (directories and snapshots are lists, an
offer has positive amounts and its assets have decimals, the limits are
positive, and the value for "none" is no answer), `ShopAssumption` (own and foreign listings are not the
same, and what is asked of a call has the type its interface gives it),
`IngestAssumption` (budgets are natural numbers, accounts are in the order of
their addresses, and the value for "none" is no envelope and no cursor),
`InstrumentAssumption` (orders are numbered, a history has a `from` or a window
but not both, and the value for "none" is no read, page or time) and
`ServicesAssumption` (a scan names an asset once). Two kinds of theorem have a hypothesis besides. `Serialised`,
of the two-phase `process`, is what `KeiClient.submit` provides for one client.
And `ListingsAreWatched` supposes `[]OneListingShowsAll`: that the wallet never
has more open offers than one page of `mine()`. Without it the theorem is false,
and so is what the code means to do: the read that arms the timer sees the
newest page only (see below).

Only model-checked:
* Liveness and whatever needs ENABLED: `EveryArrivalCollected`, `DrainsEnd`,
  `CallersAnswered`, `KeepsPolling` and the like. The prover has no rule for
  them.
* `ChartsTrue`: a series or a candle is sorted, cut, folded and merged, and the
  property compares it with a definition of what it should be, which is
  induction over the data.
* `RecipesTrue`: what a plan says is a fold over the steps of a recipe, each of
  which changes the purse the next one sees, and the property compares the fold
  with the run.
* `AwardsTrue` and `BatchesTrue`: the trees of `MerkleTree` are recursive, and
  so is whether a proof leads to a root; the size of a batch is a sum over the
  sequences it is split into.

## Findings

`LedgerForks`. `process` looks for the block itself and at the frontier
(ledger.ts:455, 457), awaits the signature check (458), and then applies the
block without looking again. Of two calls for one account that overlap both are
applied: a chain has two blocks on one, or one block twice. README.md:811 says
of the mock that it enforces one chain per account, and so does ledger.ts:8;
docs/rpc.md:122 has it that a block sent twice is answered by its hash. One
client queues its calls (`submit`); two clients of a seed, or a call over HTTP
that is sent again, do not.

`SweepOrphans`. `sweep` takes the listing of `mine()` for the open offers, but a
chain that could not be read is a gap of the walk's coverage and an empty list.
Nothing throws, no next expiry is found, and the timer is not armed again,
although market.ts:475 says that a transient read failure must not orphan an
expired lock.

## Seen while modelling

Not checked by a run of their own. Each is in the model, and where a property
would fail the property says what it leaves out.

Ledger and wallet:
* Only `send` is refused for a reserve account (ledger.ts:525), while the
  refusal speaks of every move.
* A drain that fails on one lost call is not repeated by the poll, which has
  already marked the receivable as seen (http-node.ts:363).
  `EveryArrivalCollected` holds until the wallet is disturbed.
* A drain goes on past a receivable somebody else collected only when the
  refusal has the code of that (client.ts:373). Over HTTP the transport replaces
  the code, and in process too a rival whose collection moved the frontier under
  the drain's block makes it "fork", which ends the drain. `RacesAreReal` says
  what is left: there was a rival, or a block nobody waits for any more.
* After a time-out the queue drafts on a frontier that the late block moves
  (client.ts:458).
* In process, a call that joins a drain in the microtask between its last look
  at `receiveAgain` and `receiving = null` is answered without being served
  (client.ts:341), and what arrives between the end of `start`'s drain and its
  subscription is announced to nobody (client.ts:212).
* A mint whose read afterwards fails has landed, and `acceptTopUps` sends the
  Kei back as well: kei.ts:560 says that such a payment owes tokens nobody has
  minted.

Claims:
* A proof behind one that cannot be paid is not claimed by itself, because
  `claimAll` ends at the first refusal (api.ts:699, 627), and the hashes of
  claims that landed are dropped when a later one throws (api.ts:695).
* `hydrate` runs once per page, so after a store that could not be listed
  `claimAll` has nothing to claim until the page is loaded again.

Market:
* The compare-and-swap is raced against the deadline, which the comment at
  storage.ts:281-283 says it must not be.
* The durable confirmation compares revisions alone (storage.ts:319). If the
  adapter dropped a write and another commit took its revision before the
  read-back, the dropped one is acknowledged as durable, against
  storage.ts:302-309 ("This SDK labels nothing weaker `durable`"):
  `AnswersAreTrue` excepts exactly that (`outrun`), and TLC refutes it without
  the exception. A commit that was kept and overtaken is reported as
  unconfirmed.
* `clear` waits for no call. A store cleared between a call's load and its
  replacement, and committed to as often as before, looks like no change, and
  takes in what was computed for its former life; the model clears between
  calls only.
* When an offer was last, or first, observed is shown with each row and moves no
  revision, so two pages of one snapshot may be of different moments in that
  respect (store.ts:648, 675-680). The model has the last.
* An evicted offer may be observed as open again, and an evicted checkpoint
  starts its watermark afresh.
* `ingest` that stops within a page which is not the last takes that page's own
  next cursor: the rest of its accounts wait for the next traversal
  (account-chain-ingestor.ts:176), although line 95 speaks of resuming. An
  account over the byte budget blocks the last page for ever.
* When the page that is stopped began the catalog and ended it, the cursor to go
  on with is counted out in a list read once more, and without a cursor there is
  no revision to compare (account-chain-ingestor.ts:176-179, 557-577). If the
  catalog has evicted an account of the page meanwhile, the rows have moved up
  by one and the account that was being polled is passed over: of two accounts
  the first is polled, a third is announced and evicts it, the second meets the
  byte limit, and the traversal goes on behind the second. `NobodySkipped` names
  this exception and the one above, and TLC refutes it without either.
* Publishing an offer may reject although its block landed, when the read-back
  fails, and then arms no timer; `mine()`'s default limit hides older offers
  from the sweep (`NoListingForgotten` and `ExpiredComesHome` are for a wallet
  with no more offers than a page, as the run has); nothing sweeps at startup;
  an accept whose collection fails rejects although it settled (market.ts:594).
* Coverages are merged if they agree in the number of accounts alone. An account
  with exactly `limit` rows is reported as truncated. One unreadable row rejects
  a whole book.
* `series.last` and `summary.last` differ when two trades share the newest time.
* An instrument's `subscribe` registers its stop before it reads the clock: a
  clock that throws leaves a subscription nobody holds, which a later wake
  starts polling. A write of one's own whose answer is lost wakes nobody.
* The application's clock may throw while a page is turned into offers (`expired`,
  market.ts:358). That error has no code, so the read fails like any other, and
  the loop ends only if the clock throws again where the failure is told
  (instrument.ts:629-633).

Shop and economy:
* "reports each departure exactly once" (shop.ts:190-192) has three exceptions,
  which `DeparturesTold` counts one by one: two syncs that overlap may both tell
  one departure; a `list()` that is still reading its offer back adds it to
  `watching` after a sync has told that it left (511), and the next sync tells
  it again; and a listing added between the snapshot of a sync and
  `watching.clear()` (748) is forgotten, so that its departure is never told if
  it leaves before the next sync reads the chain.
* Two purses measured before either debt is up may be spent from twice, contrary
  to shop.ts:250; the ledger then refuses the second. A purchase by hash alone
  has no debt, and a write that was given up leaves none.
* Recipes whose costs or grants name one asset twice pass the dry run and stop
  partway.
* "no-listing" is answered when nothing matches and when every copy was lost to
  somebody; a shelf that is reserved for others is "not-the-counterparty", also
  when a free copy has sold between the two.
* A batch that stops partway loses the proofs of the roots that stand
  (batch.ts:169); closing several roots stops at the first error and names
  none, but can be called again. The digest of a table leaves out its issuer.

## Plan

Everything the first plan named is modelled, but for seed custody and the
precomputed work, which nothing interleaves with, and every safety property is
proved but for the four above. What would come next:

1. That `Exchange` itself settles each offer once; of the ledger, which
   implements it, this is proved (`SettlementIsFinal`).
2. Of the charts, that a series is in order and within its window.
3. Looking offers up by hash, and history read from the store.

## Not modelled

* Conversions and cryptography (`wire`, `blocks`, `amount`, `address`, `keys`,
  `hash`, `ipfs`, `stats`), the parser of swap rows (`swaps`) and ownership
  proofs keep no state and have tests over their inputs.
* Seed custody is one synchronous write and its read-back, with nothing between
  that another call could interleave with.
* Precomputed work is a cache of nonces; a nonce used twice is refused and
  computed again.
* Tokens and items build one block from one read each, and the blocks are
  actions of `Ledger`; a mint with its read is in `TopUps`. The number of issued
  assets is read before the queue (tokens.ts:182), so two issued at once state
  one burn, and the ledger refuses the second.
* History read from the store (`stored-history`, but for its candles), looking
  offers up by hash, the validation of options, browsing and the wording of
  events and errors are left out, and so is the wallet's rendering.
* In `Recipes` accepting an offer is one step, so that a lost race is caught by
  the market's own check; the race between that check and the ledger is in
  `Market`.
* Vendored work code, release scripts and examples are not part of the program.
