------------------------------- MODULE Ledger -------------------------------
(***************************************************************************)
(* The in-memory ledger, src/packages/core/src/mock/ledger.ts.             *)
(*                                                                         *)
(* Every account signs its own chain of blocks; the ledger validates one   *)
(* block against everything recorded so far and then applies it            *)
(* (`process`).  This module treats `process` as one step: its envelope    *)
(* check, the checks of the operation and the writes.  LedgerProcess.tla   *)
(* splits it at its `await`, and shows when the single step is justified.  *)
(*                                                                         *)
(* A refused block changes nothing, so it is no step here.  Signatures,    *)
(* proof of work, representatives and descriptive asset fields are left    *)
(* out: no property tells their values apart.  One Kei is one unit.        *)
(*                                                                         *)
(* An operator that no action uses is a faulty form of the definition that *)
(* follows it, kept to confirm that a property can tell the two apart.     *)
(***************************************************************************)
EXTENDS Integers, FiniteSets, Functions

CONSTANTS
    Accounts,     \* addresses
    Reserve,      \* the accounts whose Kei only a vote may move
    Genesis,      \* [Accounts -> Nat]: the balances of the genesis blocks
    Issuers,      \* the accounts that issue tokens in this instance
    Symbols,      \* normalized token symbols
    Kei,          \* KEI_ASSET, the id that stands for Kei in a swap leg
    None,         \* null
    Roots,        \* Merkle roots
    Entitled,     \* [Roots -> set of leaves]: what each root commits to
    Policies,     \* bound: transfer policies an issue block asks for
    MaxSupplies,  \* bound: supply caps an issue block asks for
    Amounts,      \* bound: token and swap amounts named by blocks
    Kinds,        \* bound: kinds of block signed in this instance
    MaxHeight,    \* bound: [Accounts -> Nat], blocks per chain
    MaxAssets     \* MAX_ASSETS_PER_ACCOUNT

Token == Issuers \X Symbols      \* deriveAssetId(issuer, symbol) is injective
Asset == Token \cup {Kei}
IssuerOf(t) == t[1]

\* A block hash: the n-th block of a chain.  <<a, 0>> is the hash an account's
\* first modelled block builds on: its genesis block, or ZERO_HASH.
Hash == UNION {{a} \X (1 .. MaxHeight[a]) : a \in Accounts}
Origin(a) == <<a, 0>>

TransferPolicy == {"open", "issuer-only", "none"}

Receivable == [from : Accounts, to : Accounts, asset : Asset, amount : Nat]

Lock == [owner : Accounts, asset : Asset, amount : Nat,
         wantAsset : Asset, wantAmount : Nat,
         counterparty : Accounts \cup {None},
         state : {"open", "accepted", "cancelled"},
         settledBy : Hash \cup {None}, acceptedBy : Accounts \cup {None}]

Commit == [issuer : Accounts, asset : Token, closed : BOOLEAN]

Leaf == [account : Accounts, asset : Token, amount : Nat]

StateKinds == {"send", "receive", "change"}
AssetKinds == {"issue", "mint", "burn", "transfer", "asset_receive", "commit",
               "commit_close", "claim", "swap_offer", "swap_accept",
               "swap_cancel"}

ASSUME ConstantsAssumption ==
    /\ Reserve \subseteq Accounts
    /\ IsFiniteSet(Accounts) /\ IsFiniteSet(Symbols)
    /\ Issuers \subseteq Accounts
    /\ Genesis \in [Accounts -> Nat]
    /\ Kei \notin Token
    /\ None \notin Accounts
    /\ None \notin Receivable
    /\ None \notin Lock
    /\ None \notin Commit
    /\ None \notin TransferPolicy
    /\ None \notin Nat
    /\ \A r \in Roots : Entitled[r] \subseteq Leaf
    /\ Policies \subseteq TransferPolicy
    /\ MaxSupplies \subseteq (Nat \ {0}) \cup {None}
    /\ Amounts \subseteq Nat
    /\ Kinds \subseteq StateKinds \cup AssetKinds
    /\ MaxHeight \in [Accounts -> Nat]
    /\ MaxAssets \in Nat \ {0}

VARIABLES
    blocks,             \* hashes of the blocks applied
    frontier,           \* last block of each chain
    balance,            \* Kei balance of each account
    transfer,           \* transfer policy of each token; None: never issued
    maxSupply,          \* supply cap of each token; None: uncapped
    circulating,        \* units of each token in circulation
    issuedByAccount,    \* how many tokens each account has issued
    holdings,           \* units held, by account then token; 0: no entry
    holdingsByAccount,  \* tokens each account has an entry for
    holders,            \* units held, by token then account
    holdersByAsset,     \* accounts each token has an entry for
    receivables,        \* what is on its way, by hash; None: no entry
    commits,            \* published roots; None: not published
    claimed,            \* pairs <<account, root>> already claimed
    locks               \* swap offers, by the hash of the offer block

chainVars == <<blocks, frontier, balance>>
assetVars == <<transfer, maxSupply, circulating, issuedByAccount>>
holdingVars == <<holdings, holdingsByAccount, holders, holdersByAsset>>
dropVars == <<commits, claimed>>
vars == <<blocks, frontier, balance, transfer, maxSupply, circulating,
          issuedByAccount, holdings, holdingsByAccount, holders,
          holdersByAsset, receivables, commits, claimed, locks>>

-----------------------------------------------------------------------------
(* Blocks.  A draft is a block an account may sign on top of its frontier: *)
(* any operation, and any resulting Kei balance, which is what the checks  *)
(* of the ledger have to sort out.                                         *)

KeiSupply == SumFunction(Genesis)

Drafts(a, hash, ops) ==
    [account : {a}, previous : {frontier[a]}, hash : {hash},
     balance : 0 .. KeiSupply, op : ops]

NextHash(a) == <<a, frontier[a][2] + 1>>

SendOps     == [kind : {"send"}, to : Accounts]
ReceiveOps  == [kind : {"receive"}, link : blocks]
ChangeOps   == [kind : {"change"}]
IssueOps    == [kind : {"issue"}, symbol : Symbols, transfer : Policies,
                maxSupply : MaxSupplies]
MintOps     == [kind : {"mint"}, asset : Token, to : Accounts,
                amount : Amounts]
BurnOps     == [kind : {"burn"}, asset : Token, amount : Amounts]
TransferOps == [kind : {"transfer"}, asset : Token, to : Accounts,
                amount : Amounts]
AssetReceiveOps == [kind : {"asset_receive"}, link : blocks]
CommitOps   == [kind : {"commit"}, asset : Token, root : Roots]
CommitCloseOps == [kind : {"commit_close"}, root : Roots]
ClaimOps    == [kind : {"claim"}, root : Roots, asset : Token,
                amount : Amounts]
SwapOfferOps == [kind : {"swap_offer"}, asset : Asset, amount : Amounts,
                 wantAsset : Asset, wantAmount : Amounts,
                 counterparty : Accounts \cup {None}]
SwapAcceptOps == [kind : {"swap_accept"}, offer : blocks, asset : Asset,
                  amount : Amounts]
SwapCancelOps == [kind : {"swap_cancel"}, offer : blocks]

-----------------------------------------------------------------------------
(* Checks shared by the operations.                                        *)

\* validateEnvelope: a block already known is not applied again, and a block
\* builds on the frontier of its account's chain.
Envelope(b) ==
    /\ b.hash \notin blocks
    /\ b.previous = frontier[b.account]

RequireDelta(b, delta) == b.balance = balance[b.account] + delta

RequirePositive(amount) == amount > 0

RequireAsset(t) == transfer[t] # None

RequireHeadroomBefore(t, amount) ==
    maxSupply[t] # None => circulating[t] < maxSupply[t]

\* maxSupply caps what circulates, so a burn frees headroom.
RequireHeadroom(t, amount) ==
    maxSupply[t] # None => circulating[t] + amount <= maxSupply[t]

EnforceTransferPolicyLoosely(t, from, to) ==
    transfer[t] \in {"open", "issuer-only"}

EnforceTransferPolicy(t, from, to) ==
    CASE transfer[t] = "open"        -> TRUE
      [] transfer[t] = "issuer-only" -> IssuerOf(t) \in {from, to}
      [] transfer[t] = "none"        -> FALSE
      [] OTHER                       -> FALSE

RequireCreditOffByOne(a, t) ==
    t \in holdingsByAccount[a] \/ Cardinality(holdingsByAccount[a]) <= MaxAssets

RequireCredit(a, t) ==
    t \in holdingsByAccount[a] \/ Cardinality(holdingsByAccount[a]) < MaxAssets

RequireDebit(a, t, amount) == holdings[a][t] >= amount

RequireReceivableOfAnyone(hash, a) == receivables[hash] # None

RequireReceivable(hash, a) ==
    receivables[hash] # None /\ receivables[hash].to = a

RequireKnownLock(offer) == locks[offer] # None

RequireOpenLock(offer) == locks[offer].state = "open"

\* Whether a policy could ever let this leg settle between these two.
RequireSwappable(x, offerer, counterparty) ==
    x # Kei => /\ RequireAsset(x)
               /\ \/ transfer[x] = "open"
                  \/ /\ transfer[x] = "issuer-only"
                     /\ IssuerOf(x) \in {offerer, counterparty}

-----------------------------------------------------------------------------
(* Writes shared by the operations.                                        *)

CommitBlock(b) ==
    /\ blocks' = blocks \cup {b.hash}
    /\ frontier' = [frontier EXCEPT ![b.account] = b.hash]
    /\ balance' = [balance EXCEPT ![b.account] = b.balance]

CommitCredit(a, t, amount) ==
    /\ holdings' = [holdings EXCEPT ![a][t] = @ + amount]
    /\ holdingsByAccount' = [holdingsByAccount EXCEPT ![a] = @ \cup {t}]
    /\ holders' = [holders EXCEPT ![t][a] = @ + amount]
    /\ holdersByAsset' = [holdersByAsset EXCEPT ![t] = @ \cup {a}]

CommitDebitKeepsZero(a, t, amount) ==
    /\ holdings' = [holdings EXCEPT ![a][t] = @ - amount]
    /\ holders' = [holders EXCEPT ![t][a] = @ - amount]
    /\ UNCHANGED <<holdingsByAccount, holdersByAsset>>

\* An entry that reaches zero is deleted from all four indexes.
CommitDebit(a, t, amount) ==
    LET remaining == holdings[a][t] - amount
        gone == remaining = 0
    IN /\ holdings' = [holdings EXCEPT ![a][t] = remaining]
       /\ holders' = [holders EXCEPT ![t][a] = remaining]
       /\ holdingsByAccount' = [holdingsByAccount EXCEPT
                                  ![a] = IF gone THEN @ \ {t} ELSE @]
       /\ holdersByAsset' = [holdersByAsset EXCEPT
                                  ![t] = IF gone THEN @ \ {a} ELSE @]

ReceivableOf(from, to, asset, amount) ==
    [from |-> from, to |-> to, asset |-> asset, amount |-> amount]

CreateReceivable(hash, receivable) ==
    receivables' = [receivables EXCEPT ![hash] = receivable]

ConsumeReceivableKept(hash) == UNCHANGED receivables

ConsumeReceivable(hash) == receivables' = [receivables EXCEPT ![hash] = None]

-----------------------------------------------------------------------------
(* State blocks: they move Kei.                                            *)

Send(b) ==
    LET amount == balance[b.account] - b.balance
    IN /\ b.account \notin Reserve
       /\ amount > 0
       /\ CreateReceivable(b.hash,
                           ReceivableOf(b.account, b.op.to, Kei, amount))
       /\ UNCHANGED <<assetVars, holdingVars, dropVars, locks>>

Receive(b) ==
    /\ RequireReceivable(b.op.link, b.account)
    /\ receivables[b.op.link].asset = Kei
    /\ RequireDelta(b, receivables[b.op.link].amount)
    /\ ConsumeReceivable(b.op.link)
    /\ UNCHANGED <<assetVars, holdingVars, dropVars, locks>>

Change(b) ==
    /\ RequireDelta(b, 0)
    /\ UNCHANGED <<assetVars, holdingVars, receivables, dropVars, locks>>

-----------------------------------------------------------------------------
(* Asset blocks.                                                           *)

\* The nth token an account issues burns n Kei.
IssuanceBurn(ordinal) == ordinal

Issue(b) ==
    LET t == <<b.account, b.op.symbol>>
        ordinal == issuedByAccount[b.account] + 1
        burn == IssuanceBurn(ordinal)
    IN /\ balance[b.account] >= burn
       /\ RequireDelta(b, -burn)
       /\ t \in Token
       /\ transfer[t] = None
       /\ transfer' = [transfer EXCEPT ![t] = b.op.transfer]
       /\ maxSupply' = [maxSupply EXCEPT ![t] = b.op.maxSupply]
       /\ circulating' = [circulating EXCEPT ![t] = 0]
       /\ issuedByAccount' = [issuedByAccount EXCEPT ![b.account] = ordinal]
       /\ UNCHANGED <<holdingVars, receivables, dropVars, locks>>

Mint(b) ==
    LET t == b.op.asset
    IN /\ RequireDelta(b, 0)
       /\ RequireAsset(t)
       /\ IssuerOf(t) = b.account
       /\ RequirePositive(b.op.amount)
       /\ RequireHeadroom(t, b.op.amount)
       /\ circulating' = [circulating EXCEPT ![t] = @ + b.op.amount]
       /\ CreateReceivable(b.hash,
                           ReceivableOf(b.account, b.op.to, t, b.op.amount))
       /\ UNCHANGED <<transfer, maxSupply, issuedByAccount, holdingVars,
                      dropVars, locks>>

Burn(b) ==
    LET t == b.op.asset
    IN /\ RequireDelta(b, 0)
       /\ RequireAsset(t)
       /\ RequirePositive(b.op.amount)
       /\ RequireDebit(b.account, t, b.op.amount)
       /\ CommitDebit(b.account, t, b.op.amount)
       /\ circulating' = [circulating EXCEPT ![t] = @ - b.op.amount]
       /\ UNCHANGED <<transfer, maxSupply, issuedByAccount, receivables,
                      dropVars, locks>>

Transfer(b) ==
    LET t == b.op.asset
    IN /\ RequireDelta(b, 0)
       /\ RequireAsset(t)
       /\ EnforceTransferPolicy(t, b.account, b.op.to)
       /\ RequirePositive(b.op.amount)
       /\ RequireDebit(b.account, t, b.op.amount)
       /\ CommitDebit(b.account, t, b.op.amount)
       /\ CreateReceivable(b.hash,
                           ReceivableOf(b.account, b.op.to, t, b.op.amount))
       /\ UNCHANGED <<assetVars, dropVars, locks>>

AssetReceive(b) ==
    LET incoming == receivables[b.op.link]
    IN /\ RequireDelta(b, 0)
       /\ RequireReceivable(b.op.link, b.account)
       /\ incoming.asset # Kei
       /\ RequireAsset(incoming.asset)
       /\ RequireCredit(b.account, incoming.asset)
       /\ ConsumeReceivable(b.op.link)
       /\ CommitCredit(b.account, incoming.asset, incoming.amount)
       /\ UNCHANGED <<assetVars, dropVars, locks>>

-----------------------------------------------------------------------------
(* Drops: a root commits to a set of leaves, and a claim mints one of them.*)

PublishCommit(b) ==
    /\ RequireDelta(b, 0)
    /\ RequireAsset(b.op.asset)
    /\ IssuerOf(b.op.asset) = b.account
    /\ commits[b.op.root] = None
    /\ commits' = [commits EXCEPT ![b.op.root] =
                     [issuer |-> b.account, asset |-> b.op.asset,
                      closed |-> FALSE]]
    /\ UNCHANGED <<assetVars, holdingVars, receivables, claimed, locks>>

CommitClose(b) ==
    /\ RequireDelta(b, 0)
    /\ commits[b.op.root] # None
    /\ commits[b.op.root].issuer = b.account
    /\ commits' = [commits EXCEPT ![b.op.root].closed = TRUE]
    /\ UNCHANGED <<assetVars, holdingVars, receivables, claimed, locks>>

VerifyProofOfAccount(root, account, asset, amount) ==
    \E leaf \in Entitled[root] : leaf.account = account

\* verifyProof: a proof exists exactly for the leaves the root commits to.
VerifyProof(root, account, asset, amount) ==
    [account |-> account, asset |-> asset, amount |-> amount] \in Entitled[root]

RequireRootKnown(root) == commits[root] # None

RequireRootOpen(root) == commits[root] # None /\ ~commits[root].closed

RequireUnclaimed(a, root) == <<a, root>> \notin claimed

Claim(b) ==
    LET root == b.op.root
        t == b.op.asset
    IN /\ RequireDelta(b, 0)
       /\ RequireRootOpen(root)
       /\ RequireUnclaimed(b.account, root)
       /\ RequireAsset(t)
       /\ commits[root].asset = t
       /\ IssuerOf(t) = commits[root].issuer
       /\ RequirePositive(b.op.amount)
       /\ VerifyProof(root, b.account, t, b.op.amount)
       /\ RequireHeadroom(t, b.op.amount)
       /\ RequireCredit(b.account, t)
       /\ claimed' = claimed \cup {<<b.account, root>>}
       /\ circulating' = [circulating EXCEPT ![t] = @ + b.op.amount]
       /\ CommitCredit(b.account, t, b.op.amount)
       /\ UNCHANGED <<transfer, maxSupply, issuedByAccount, receivables,
                      commits, locks>>

-----------------------------------------------------------------------------
(* Swaps: an offer locks the offerer's own asset; an accept and a cancel,  *)
(* on different chains, race for the one lock.                             *)

\* Paying `amount` of x: out of the Kei balance, or out of the holdings.
PayOut(b, x, amount) ==
    IF x = Kei
    THEN /\ balance[b.account] >= amount
         /\ RequireDelta(b, -amount)
         /\ UNCHANGED holdingVars
    ELSE /\ RequireDelta(b, 0)
         /\ RequireDebit(b.account, x, amount)
         /\ CommitDebit(b.account, x, amount)

SwapOffer(b) ==
    LET op == b.op
    IN /\ RequirePositive(op.amount)
       /\ RequirePositive(op.wantAmount)
       /\ op.counterparty # b.account
       /\ RequireSwappable(op.asset, b.account, op.counterparty)
       /\ RequireSwappable(op.wantAsset, b.account, op.counterparty)
       /\ PayOut(b, op.asset, op.amount)
       /\ locks' = [locks EXCEPT ![b.hash] =
                      [owner |-> b.account, asset |-> op.asset,
                       amount |-> op.amount, wantAsset |-> op.wantAsset,
                       wantAmount |-> op.wantAmount,
                       counterparty |-> op.counterparty, state |-> "open",
                       settledBy |-> None, acceptedBy |-> None]]
       /\ UNCHANGED <<assetVars, receivables, dropVars>>

DeliverUnderOneKey(b, lock) ==
    receivables' = [receivables EXCEPT
        ![b.op.offer] = ReceivableOf(lock.owner, b.account, lock.asset,
                                     lock.amount)]

DeliverLegsCrossed(b, lock) ==
    receivables' = [receivables EXCEPT
        ![b.hash] = ReceivableOf(b.account, lock.owner, lock.asset,
                                 lock.amount),
        ![b.op.offer] = ReceivableOf(lock.owner, b.account, lock.wantAsset,
                                     lock.wantAmount)]

\* Both legs in one block: the payment is receivable on the offerer's chain
\* under the accept's hash, the locked asset on the accepter's chain under the
\* hash of the offer that locked it.
DeliverBothLegs(b, lock) ==
    receivables' = [receivables EXCEPT
        ![b.hash] = ReceivableOf(b.account, lock.owner, lock.wantAsset,
                                 lock.wantAmount),
        ![b.op.offer] = ReceivableOf(lock.owner, b.account, lock.asset,
                                     lock.amount)]

SwapAccept(b) ==
    LET lock == locks[b.op.offer]
    IN /\ lock # None
       /\ lock.owner # b.account
       /\ RequireOpenLock(b.op.offer)
       /\ lock.counterparty \in {None, b.account}
       /\ b.op.asset = lock.wantAsset /\ b.op.amount = lock.wantAmount
       /\ lock.asset # Kei =>
            EnforceTransferPolicy(lock.asset, lock.owner, b.account)
       /\ lock.wantAsset # Kei =>
            EnforceTransferPolicy(lock.wantAsset, b.account, lock.owner)
       /\ PayOut(b, lock.wantAsset, lock.wantAmount)
       /\ DeliverBothLegs(b, lock)
       /\ locks' = [locks EXCEPT ![b.op.offer] =
                      [@ EXCEPT !.state = "accepted",
                                !.acceptedBy = b.account,
                                !.settledBy = b.hash]]
       /\ UNCHANGED <<assetVars, dropVars>>

SwapCancel(b) ==
    LET lock == locks[b.op.offer]
    IN /\ lock # None
       /\ lock.owner = b.account
       /\ RequireOpenLock(b.op.offer)
       /\ IF lock.asset = Kei
          THEN /\ RequireDelta(b, lock.amount)
               /\ UNCHANGED holdingVars
          ELSE /\ RequireDelta(b, 0)
               /\ RequireCredit(b.account, lock.asset)
               /\ CommitCredit(b.account, lock.asset, lock.amount)
       /\ locks' = [locks EXCEPT ![b.op.offer] =
                      [@ EXCEPT !.state = "cancelled", !.settledBy = b.hash]]
       /\ UNCHANGED <<assetVars, receivables, dropVars>>

-----------------------------------------------------------------------------
(* The ledger: it starts from the genesis blocks, and each step processes  *)
(* one block of one account.                                               *)

Init ==
    /\ blocks = {}
    /\ frontier = [a \in Accounts |-> Origin(a)]
    /\ balance = Genesis
    /\ transfer = [t \in Token |-> None]
    /\ maxSupply = [t \in Token |-> None]
    /\ circulating = [t \in Token |-> 0]
    /\ issuedByAccount = [a \in Accounts |-> 0]
    /\ holdings = [a \in Accounts |-> [t \in Token |-> 0]]
    /\ holdingsByAccount = [a \in Accounts |-> {}]
    /\ holders = [t \in Token |-> [a \in Accounts |-> 0]]
    /\ holdersByAsset = [t \in Token |-> {}]
    /\ receivables = [h \in Hash |-> None]
    /\ commits = [r \in Roots |-> None]
    /\ claimed = {}
    /\ locks = [h \in Hash |-> None]

Signable(a, kind, ops) ==
    IF kind \in Kinds /\ frontier[a][2] < MaxHeight[a]
    THEN Drafts(a, NextHash(a), ops)
    ELSE {}

Process(b) == Envelope(b) /\ CommitBlock(b)

ProcessSend(a) ==
    \E b \in Signable(a, "send", SendOps) : Process(b) /\ Send(b)
ProcessReceive(a) ==
    \E b \in Signable(a, "receive", ReceiveOps) : Process(b) /\ Receive(b)
ProcessChange(a) ==
    \E b \in Signable(a, "change", ChangeOps) : Process(b) /\ Change(b)
ProcessIssue(a) ==
    \E b \in Signable(a, "issue", IssueOps) : Process(b) /\ Issue(b)
ProcessMint(a) ==
    \E b \in Signable(a, "mint", MintOps) : Process(b) /\ Mint(b)
ProcessBurn(a) ==
    \E b \in Signable(a, "burn", BurnOps) : Process(b) /\ Burn(b)
ProcessTransfer(a) ==
    \E b \in Signable(a, "transfer", TransferOps) : Process(b) /\ Transfer(b)
ProcessAssetReceive(a) ==
    \E b \in Signable(a, "asset_receive", AssetReceiveOps) :
        Process(b) /\ AssetReceive(b)
ProcessCommit(a) ==
    \E b \in Signable(a, "commit", CommitOps) : Process(b) /\ PublishCommit(b)
ProcessCommitClose(a) ==
    \E b \in Signable(a, "commit_close", CommitCloseOps) :
        Process(b) /\ CommitClose(b)
ProcessClaim(a) ==
    \E b \in Signable(a, "claim", ClaimOps) : Process(b) /\ Claim(b)
ProcessSwapOffer(a) ==
    \E b \in Signable(a, "swap_offer", SwapOfferOps) :
        Process(b) /\ SwapOffer(b)
ProcessSwapAccept(a) ==
    \E b \in Signable(a, "swap_accept", SwapAcceptOps) :
        Process(b) /\ SwapAccept(b)
ProcessSwapCancel(a) ==
    \E b \in Signable(a, "swap_cancel", SwapCancelOps) :
        Process(b) /\ SwapCancel(b)

Next ==
    \E a \in Accounts :
        \/ ProcessSend(a)
        \/ ProcessReceive(a)
        \/ ProcessChange(a)
        \/ ProcessIssue(a)
        \/ ProcessMint(a)
        \/ ProcessBurn(a)
        \/ ProcessTransfer(a)
        \/ ProcessAssetReceive(a)
        \/ ProcessCommit(a)
        \/ ProcessCommitClose(a)
        \/ ProcessClaim(a)
        \/ ProcessSwapOffer(a)
        \/ ProcessSwapAccept(a)
        \/ ProcessSwapCancel(a)

Spec == Init /\ [][Next]_vars
=============================================================================
