---------------------------- MODULE LedgerProcess ---------------------------
(***************************************************************************)
(* `MockLedger.process` as it runs: the duplicate and the envelope checks, *)
(* then `await verifyHash(...)`, then, in one synchronous stretch, the     *)
(* checks of the operation and the writes.  Calls of process overlap at    *)
(* the await.  Nothing repeats the envelope check after it.                *)
(*                                                                         *)
(* KeiClient.submit queues the blocks of one client, so that a client has  *)
(* at most one call in process.  Serialised = TRUE is a ledger all of      *)
(* whose accounts are driven that way; FALSE is a ledger on which two      *)
(* calls for one account may be in process at once (two clients of one     *)
(* seed, an HTTP call repeated after a timeout, two faucet requests).      *)
(***************************************************************************)
EXTENDS LedgerProperties, Sequences

CONSTANTS
    Calls,       \* bound: calls of process under way at one time
    Serialised   \* whether an account has at most one call under way

ASSUME SerialisedAssumption == Serialised \in BOOLEAN

VARIABLES
    inFlight,    \* [Calls -> block awaiting verifyHash, or None]
    chains       \* the blocks of each account, in the order applied

processVars == <<vars, inFlight, chains>>

\* The kinds of block and the operations of each.
OpsOf(kind) ==
    CASE kind = "send"          -> SendOps
      [] kind = "receive"       -> ReceiveOps
      [] kind = "change"        -> ChangeOps
      [] kind = "issue"         -> IssueOps
      [] kind = "mint"          -> MintOps
      [] kind = "burn"          -> BurnOps
      [] kind = "transfer"      -> TransferOps
      [] kind = "asset_receive" -> AssetReceiveOps
      [] kind = "commit"        -> CommitOps
      [] kind = "commit_close"  -> CommitCloseOps
      [] kind = "claim"         -> ClaimOps
      [] kind = "swap_offer"    -> SwapOfferOps
      [] kind = "swap_accept"   -> SwapAcceptOps
      [] kind = "swap_cancel"   -> SwapCancelOps

Waiting == {inFlight[c] : c \in Calls} \ {None}

\* A new body has a hash no block has; the numbering only has to be fresh.
FreshNumber(a) ==
    1 + Cardinality({h \in blocks \cup {b.hash : b \in Waiting} : h[1] = a})

\* What arrives for an account: a new block built on its frontier, or a block
\* that is already in process, once more.
Arriving(a) ==
    (IF FreshNumber(a) <= MaxHeight[a]
     THEN UNION {Drafts(a, <<a, FreshNumber(a)>>, OpsOf(k)) : k \in Kinds}
     ELSE {})
    \cup {b \in Waiting : b.account = a}

NeverQueued(a) == TRUE

\* The queue of KeiClient.submit: nothing else of this account is in process.
Queued(a) == \A b \in Waiting : b.account # a

\* Everything up to the await.
Begin(c, a) ==
    /\ inFlight[c] = None
    /\ Serialised => Queued(a)
    /\ \E b \in Arriving(a) :
         /\ Envelope(b)
         /\ inFlight' = [inFlight EXCEPT ![c] = b]
    /\ UNCHANGED <<vars, chains>>

Apply(b) ==
    \/ b.op.kind = "send" /\ Send(b)
    \/ b.op.kind = "receive" /\ Receive(b)
    \/ b.op.kind = "change" /\ Change(b)
    \/ b.op.kind = "issue" /\ Issue(b)
    \/ b.op.kind = "mint" /\ Mint(b)
    \/ b.op.kind = "burn" /\ Burn(b)
    \/ b.op.kind = "transfer" /\ Transfer(b)
    \/ b.op.kind = "asset_receive" /\ AssetReceive(b)
    \/ b.op.kind = "commit" /\ PublishCommit(b)
    \/ b.op.kind = "commit_close" /\ CommitClose(b)
    \/ b.op.kind = "claim" /\ Claim(b)
    \/ b.op.kind = "swap_offer" /\ SwapOffer(b)
    \/ b.op.kind = "swap_accept" /\ SwapAccept(b)
    \/ b.op.kind = "swap_cancel" /\ SwapCancel(b)

\* Everything after the await, when no check refuses the block.
Finish(c) ==
    /\ inFlight[c] # None
    /\ LET b == inFlight[c]
       IN /\ Apply(b)
          /\ CommitBlock(b)
          /\ chains' = [chains EXCEPT ![b.account] = Append(@, b)]
    /\ inFlight' = [inFlight EXCEPT ![c] = None]

\* A bad signature, or a check of the operation, refuses the block.
Refuse(c) ==
    /\ inFlight[c] # None
    /\ inFlight' = [inFlight EXCEPT ![c] = None]
    /\ UNCHANGED <<vars, chains>>

ProcessInit ==
    /\ Init
    /\ inFlight = [c \in Calls |-> None]
    /\ chains = [a \in Accounts |-> <<>>]

ProcessNext ==
    \/ \E c \in Calls, a \in Accounts : Begin(c, a)
    \/ \E c \in Calls : Finish(c)
    \/ \E c \in Calls : Refuse(c)

ProcessSpec == ProcessInit /\ [][ProcessNext]_processVars

-----------------------------------------------------------------------------
\* The mock "enforces one chain per account" (README.md:811, and the header of
\* ledger.ts): every block applied builds on the block applied before it on
\* the same account.  It holds only of calls that are queued for each account:
\* of two that wait for the signature check on one frontier both are applied.
OneChain ==
    \A a \in Accounts : \A i \in 1 .. Len(chains[a]) :
        chains[a][i].previous =
            IF i = 1 THEN Origin(a) ELSE chains[a][i - 1].hash

\* Where the accounts are serialised, splitting process at its await changes
\* nothing: the overlapping calls implement the ledger of one-step process.
ImplementsLedger == Spec
=============================================================================
