----------------------------- MODULE LedgerProofs -----------------------------
(***************************************************************************)
(* The ledger, for every value of its constants: type correctness; what is *)
(* settled, locked, created, on its way and closed; the conservation of    *)
(* units; and that the ledger implements Exchange.  Types are proved       *)
(* operation by operation, and so is what a step moves (FlowStep); each    *)
(* lemma named ...Step says what one step may do to one part of the state, *)
(* and the theorems combine them and look at no single operation.  At the  *)
(* end, the ledger whose process is split at its await.                    *)
(***************************************************************************)
EXTENDS LedgerProcess, SumTheorems

-----------------------------------------------------------------------------
(* What the pieces of a step do to the types of the state.                 *)

\* What a signed block is, whatever its operation.
LEMMA SignableBlock ==
    ASSUME ChainsTyped, NEW a \in Accounts, NEW kind, NEW ops,
           NEW b \in Signable(a, kind, ops)
    PROVE  /\ b.account = a
           /\ b.previous = frontier[a]
           /\ b.hash = NextHash(a)
           /\ b.hash \in Hash
           /\ b.hash \in {a} \X (0 .. MaxHeight[a])
           /\ b.balance \in Nat
           /\ b.op \in ops
  <1>1. b \in Drafts(a, NextHash(a), ops) /\ frontier[a][2] < MaxHeight[a]
    BY DEF Signable
  <1>2. /\ b.account = a /\ b.previous = frontier[a] /\ b.hash = NextHash(a)
        /\ b.balance \in 0 .. KeiSupply /\ b.op \in ops
    BY <1>1 DEF Drafts
  <1>3. frontier[a] \in {a} \X (0 .. MaxHeight[a])
    BY DEF ChainsTyped
  <1>4. MaxHeight[a] \in Nat
    BY ConstantsAssumption
  <1>5. frontier[a][2] + 1 \in 1 .. MaxHeight[a]
    BY <1>1, <1>3, <1>4
  <1>6. NextHash(a) \in {a} \X (1 .. MaxHeight[a])
    BY <1>5 DEF NextHash
  <1>7. b.hash \in Hash
    BY <1>2, <1>6 DEF Hash
  <1>8. QED
    BY <1>2, <1>4, <1>6, <1>7

LEMMA ProcessTyped ==
    ASSUME ChainsTyped, NEW a \in Accounts, NEW kind, NEW ops,
           NEW b \in Signable(a, kind, ops), Process(b)
    PROVE  ChainsTyped'
  <1>1. /\ b.account = a /\ b.hash \in Hash /\ b.balance \in Nat
        /\ b.hash \in {a} \X (0 .. MaxHeight[a])
    BY SignableBlock
  <1>2. /\ blocks' = blocks \cup {b.hash}
        /\ frontier' = [frontier EXCEPT ![a] = b.hash]
        /\ balance' = [balance EXCEPT ![a] = b.balance]
    BY <1>1 DEF Process, CommitBlock
  <1>3. blocks' \subseteq Hash
    BY <1>1, <1>2 DEF ChainsTyped
  <1>4. balance' \in [Accounts -> Nat]
    BY <1>1, <1>2 DEF ChainsTyped
  <1>5. \A c \in Accounts : frontier'[c] \in {c} \X (0 .. MaxHeight[c])
    BY <1>1, <1>2 DEF ChainsTyped
  <1>6. b.hash \in Accounts \X Nat
    BY <1>1, ConstantsAssumption
  <1>7. frontier' \in [Accounts -> Accounts \X Nat]
    BY <1>2, <1>6 DEF ChainsTyped
  <1>8. QED
    BY <1>3, <1>4, <1>5, <1>7 DEF ChainsTyped

LEMMA CreditTyped ==
    ASSUME HoldingsTyped, NEW a \in Accounts, NEW t \in Token, NEW n \in Nat,
           CommitCredit(a, t, n)
    PROVE  HoldingsTyped'
  BY DEF HoldingsTyped, CommitCredit

LEMMA DebitTyped ==
    ASSUME HoldingsTyped, NEW a \in Accounts, NEW t \in Token, NEW n \in Nat,
           RequireDebit(a, t, n), CommitDebit(a, t, n)
    PROVE  HoldingsTyped'
  <1>1. holdings[a][t] - n \in Nat
    BY DEF HoldingsTyped, RequireDebit
  <1>2. holdings' \in [Accounts -> [Token -> Nat]]
    BY <1>1 DEF HoldingsTyped, CommitDebit
  <1>3. holders' \in [Token -> [Accounts -> Nat]]
    BY <1>1 DEF HoldingsTyped, CommitDebit
  <1>4. holdingsByAccount' \in [Accounts -> SUBSET Token]
    BY DEF HoldingsTyped, CommitDebit
  <1>5. holdersByAsset' \in [Token -> SUBSET Accounts]
    BY DEF HoldingsTyped, CommitDebit
  <1>6. QED
    BY <1>2, <1>3, <1>4, <1>5 DEF HoldingsTyped

LEMMA ReceivableTyped ==
    ASSUME NEW from \in Accounts, NEW to \in Accounts, NEW x \in Asset,
           NEW n \in Nat
    PROVE  ReceivableOf(from, to, x, n) \in Receivable
  BY DEF ReceivableOf, Receivable

LEMMA PayOutTyped ==
    ASSUME HoldingsTyped, NEW b, b.account \in Accounts, NEW x \in Asset,
           NEW n \in Nat, PayOut(b, x, n)
    PROVE  HoldingsTyped'
  <1>1. CASE x = Kei
    BY <1>1 DEF PayOut, HoldingsTyped, holdingVars
  <1>2. CASE x # Kei
    BY <1>2, DebitTyped DEF PayOut, Asset
  <1>3. QED
    BY <1>1, <1>2

-----------------------------------------------------------------------------
(* Type correctness.                                                       *)

LEMMA TypeInit == Init => TypeOK
  <1> SUFFICES ASSUME Init PROVE TypeOK
    OBVIOUS
  <1> USE ConstantsAssumption DEF Init
  <1>1. ChainsTyped
    BY DEF ChainsTyped, Origin
  <1>2. TokensTyped
    BY DEF TokensTyped
  <1>3. HoldingsTyped
    BY DEF HoldingsTyped
  <1>4. ReceivablesTyped /\ DropsTyped /\ LocksTyped
    BY DEF ReceivablesTyped, DropsTyped, LocksTyped
  <1>5. QED
    BY <1>1, <1>2, <1>3, <1>4 DEF TypeOK

LEMMA TypeStep == TypeOK /\ [Next]_vars => TypeOK'
  <1> SUFFICES ASSUME TypeOK, [Next]_vars PROVE TypeOK'
    OBVIOUS
  <1> USE ConstantsAssumption
  <1>0. CASE UNCHANGED vars
    BY <1>0 DEF vars, TypeOK, ChainsTyped, TokensTyped, HoldingsTyped,
                ReceivablesTyped, DropsTyped, LocksTyped
  <1>1. ASSUME NEW a \in Accounts, ProcessSend(a) PROVE TypeOK'
    <2>1. PICK b \in Signable(a, "send", SendOps) : Process(b) /\ Send(b)
      BY <1>1 DEF ProcessSend
    <2>2. ChainsTyped'
      BY <2>1, ProcessTyped DEF TypeOK
    <2>3. /\ b.account = a /\ b.hash \in Hash /\ b.balance \in Nat
          /\ b.op \in SendOps
      BY SignableBlock DEF TypeOK
    <2>4. balance[a] - b.balance \in Nat
      BY <2>1, <2>3 DEF Send, TypeOK, ChainsTyped
    <2>5. ReceivablesTyped'
      BY <2>1, <2>3, <2>4, ReceivableTyped
         DEF Send, SendOps, CreateReceivable, TypeOK, ReceivablesTyped, Asset
    <2>6. TokensTyped' /\ HoldingsTyped' /\ DropsTyped' /\ LocksTyped'
      BY <2>1 DEF Send, TypeOK, TokensTyped, HoldingsTyped, DropsTyped,
                  LocksTyped, assetVars, holdingVars, dropVars
    <2>7. QED
      BY <2>2, <2>5, <2>6 DEF TypeOK
  <1>2. ASSUME NEW a \in Accounts, ProcessReceive(a) PROVE TypeOK'
    <2>1. PICK b \in Signable(a, "receive", ReceiveOps) :
                 Process(b) /\ Receive(b)
      BY <1>2 DEF ProcessReceive
    <2>2. ChainsTyped'
      BY <2>1, ProcessTyped DEF TypeOK
    <2>3. ReceivablesTyped'
      BY <2>1 DEF Receive, ConsumeReceivable, TypeOK, ReceivablesTyped
    <2>4. TokensTyped' /\ HoldingsTyped' /\ DropsTyped' /\ LocksTyped'
      BY <2>1 DEF Receive, TypeOK, TokensTyped, HoldingsTyped, DropsTyped,
                  LocksTyped, assetVars, holdingVars, dropVars
    <2>5. QED
      BY <2>2, <2>3, <2>4 DEF TypeOK
  <1>3. ASSUME NEW a \in Accounts, ProcessChange(a) PROVE TypeOK'
    <2>1. PICK b \in Signable(a, "change", ChangeOps) :
                 Process(b) /\ Change(b)
      BY <1>3 DEF ProcessChange
    <2>2. ChainsTyped'
      BY <2>1, ProcessTyped DEF TypeOK
    <2>3. /\ TokensTyped' /\ HoldingsTyped' /\ ReceivablesTyped'
          /\ DropsTyped' /\ LocksTyped'
      BY <2>1 DEF Change, TypeOK, TokensTyped, HoldingsTyped,
                  ReceivablesTyped, DropsTyped, LocksTyped, assetVars,
                  holdingVars, dropVars
    <2>4. QED
      BY <2>2, <2>3 DEF TypeOK
  <1>4. ASSUME NEW a \in Accounts, ProcessIssue(a) PROVE TypeOK'
    <2>1. PICK b \in Signable(a, "issue", IssueOps) : Process(b) /\ Issue(b)
      BY <1>4 DEF ProcessIssue
    <2>2. ChainsTyped'
      BY <2>1, ProcessTyped DEF TypeOK
    <2>3. b.account = a /\ b.op \in IssueOps
      BY SignableBlock DEF TypeOK
    <2>4. /\ b.op.transfer \in TransferPolicy
          /\ b.op.maxSupply \in (Nat \ {0}) \cup {None}
      BY <2>3 DEF IssueOps
    <2>5. TokensTyped'
      BY <2>1, <2>3, <2>4 DEF Issue, TypeOK, TokensTyped
    <2>6. /\ HoldingsTyped' /\ ReceivablesTyped' /\ DropsTyped' /\ LocksTyped'
      BY <2>1 DEF Issue, TypeOK, HoldingsTyped, ReceivablesTyped, DropsTyped,
                  LocksTyped, holdingVars, dropVars
    <2>7. QED
      BY <2>2, <2>5, <2>6 DEF TypeOK
  <1>5. ASSUME NEW a \in Accounts, ProcessMint(a) PROVE TypeOK'
    <2>1. PICK b \in Signable(a, "mint", MintOps) : Process(b) /\ Mint(b)
      BY <1>5 DEF ProcessMint
    <2>2. ChainsTyped'
      BY <2>1, ProcessTyped DEF TypeOK
    <2>3. b.account = a /\ b.hash \in Hash /\ b.op \in MintOps
      BY SignableBlock DEF TypeOK
    <2>4. /\ b.op.to \in Accounts /\ b.op.asset \in Token
          /\ b.op.amount \in Nat
      BY <2>3 DEF MintOps
    <2>5. TokensTyped'
      BY <2>1, <2>4 DEF Mint, TypeOK, TokensTyped
    <2>6. ReceivablesTyped'
      BY <2>1, <2>3, <2>4, ReceivableTyped
         DEF Mint, CreateReceivable, TypeOK, ReceivablesTyped, Asset
    <2>7. HoldingsTyped' /\ DropsTyped' /\ LocksTyped'
      BY <2>1 DEF Mint, TypeOK, HoldingsTyped, DropsTyped, LocksTyped,
                  holdingVars, dropVars
    <2>8. QED
      BY <2>2, <2>5, <2>6, <2>7 DEF TypeOK
  <1>6. ASSUME NEW a \in Accounts, ProcessBurn(a) PROVE TypeOK'
    <2>1. PICK b \in Signable(a, "burn", BurnOps) : Process(b) /\ Burn(b)
      BY <1>6 DEF ProcessBurn
    <2>2. ChainsTyped'
      BY <2>1, ProcessTyped DEF TypeOK
    <2>3. b.account = a /\ b.op \in BurnOps
      BY SignableBlock DEF TypeOK
    <2>4. b.op.asset \in Token /\ b.op.amount \in Nat
      BY <2>3 DEF BurnOps
    <2>5. TokensTyped'
      BY <2>1, <2>4 DEF Burn, TypeOK, TokensTyped
    <2>6. HoldingsTyped'
      BY <2>1, <2>3, <2>4, DebitTyped DEF Burn, TypeOK
    <2>7. ReceivablesTyped' /\ DropsTyped' /\ LocksTyped'
      BY <2>1 DEF Burn, TypeOK, ReceivablesTyped, DropsTyped, LocksTyped,
                  dropVars
    <2>8. QED
      BY <2>2, <2>5, <2>6, <2>7 DEF TypeOK
  <1>7. ASSUME NEW a \in Accounts, ProcessTransfer(a) PROVE TypeOK'
    <2>1. PICK b \in Signable(a, "transfer", TransferOps) :
                 Process(b) /\ Transfer(b)
      BY <1>7 DEF ProcessTransfer
    <2>2. ChainsTyped'
      BY <2>1, ProcessTyped DEF TypeOK
    <2>3. b.account = a /\ b.hash \in Hash /\ b.op \in TransferOps
      BY SignableBlock DEF TypeOK
    <2>4. /\ b.op.to \in Accounts /\ b.op.asset \in Token
          /\ b.op.amount \in Nat
      BY <2>3 DEF TransferOps
    <2>5. HoldingsTyped'
      BY <2>1, <2>3, <2>4, DebitTyped DEF Transfer, TypeOK
    <2>6. ReceivablesTyped'
      BY <2>1, <2>3, <2>4, ReceivableTyped
         DEF Transfer, CreateReceivable, TypeOK, ReceivablesTyped, Asset
    <2>7. TokensTyped' /\ DropsTyped' /\ LocksTyped'
      BY <2>1 DEF Transfer, TypeOK, TokensTyped, DropsTyped, LocksTyped,
                  assetVars, dropVars
    <2>8. QED
      BY <2>2, <2>5, <2>6, <2>7 DEF TypeOK
  <1>8. ASSUME NEW a \in Accounts, ProcessAssetReceive(a) PROVE TypeOK'
    <2>1. PICK b \in Signable(a, "asset_receive", AssetReceiveOps) :
                 Process(b) /\ AssetReceive(b)
      BY <1>8 DEF ProcessAssetReceive
    <2>2. ChainsTyped'
      BY <2>1, ProcessTyped DEF TypeOK
    <2>3. b.account = a /\ b.op.link \in Hash
      <3>1. b.account = a /\ b.op \in AssetReceiveOps
        BY SignableBlock DEF TypeOK
      <3>2. QED
        BY <3>1 DEF TypeOK, ChainsTyped, AssetReceiveOps
    <2>4. receivables[b.op.link] \in Receivable
      BY <2>1, <2>3 DEF AssetReceive, RequireReceivable, TypeOK,
                        ReceivablesTyped
    <2>5. /\ receivables[b.op.link].asset \in Token
          /\ receivables[b.op.link].amount \in Nat
      BY <2>1, <2>4 DEF AssetReceive, Receivable, Asset
    <2>6. HoldingsTyped'
      BY <2>1, <2>3, <2>5, CreditTyped DEF AssetReceive, TypeOK
    <2>7. ReceivablesTyped'
      BY <2>1 DEF AssetReceive, ConsumeReceivable, TypeOK, ReceivablesTyped
    <2>8. TokensTyped' /\ DropsTyped' /\ LocksTyped'
      BY <2>1 DEF AssetReceive, TypeOK, TokensTyped, DropsTyped, LocksTyped,
                  assetVars, dropVars
    <2>9. QED
      BY <2>2, <2>6, <2>7, <2>8 DEF TypeOK
  <1>9. ASSUME NEW a \in Accounts, ProcessCommit(a) PROVE TypeOK'
    <2>1. PICK b \in Signable(a, "commit", CommitOps) :
                 Process(b) /\ PublishCommit(b)
      BY <1>9 DEF ProcessCommit
    <2>2. ChainsTyped'
      BY <2>1, ProcessTyped DEF TypeOK
    <2>3. b.account = a /\ b.op \in CommitOps
      BY SignableBlock DEF TypeOK
    <2>4. [issuer |-> b.account, asset |-> b.op.asset, closed |-> FALSE]
            \in Commit
      BY <2>3 DEF CommitOps, Commit
    <2>5. DropsTyped'
      BY <2>1, <2>4 DEF PublishCommit, TypeOK, DropsTyped
    <2>6. /\ TokensTyped' /\ HoldingsTyped' /\ ReceivablesTyped'
          /\ LocksTyped'
      BY <2>1 DEF PublishCommit, TypeOK, TokensTyped, HoldingsTyped,
                  ReceivablesTyped, LocksTyped, assetVars, holdingVars
    <2>7. QED
      BY <2>2, <2>5, <2>6 DEF TypeOK
  <1>10. ASSUME NEW a \in Accounts, ProcessCommitClose(a) PROVE TypeOK'
    <2>1. PICK b \in Signable(a, "commit_close", CommitCloseOps) :
                 Process(b) /\ CommitClose(b)
      BY <1>10 DEF ProcessCommitClose
    <2>2. ChainsTyped'
      BY <2>1, ProcessTyped DEF TypeOK
    <2>3. b.op.root \in Roots
      <3>1. b.op \in CommitCloseOps
        BY SignableBlock DEF TypeOK
      <3>2. QED
        BY <3>1 DEF CommitCloseOps
    <2>4. commits[b.op.root] \in Commit
      BY <2>1, <2>3 DEF CommitClose, TypeOK, DropsTyped
    <2>5. [commits[b.op.root] EXCEPT !.closed = TRUE] \in Commit
      BY <2>4 DEF Commit
    <2>6. DropsTyped'
      BY <2>1, <2>5 DEF CommitClose, TypeOK, DropsTyped
    <2>7. /\ TokensTyped' /\ HoldingsTyped' /\ ReceivablesTyped'
          /\ LocksTyped'
      BY <2>1 DEF CommitClose, TypeOK, TokensTyped, HoldingsTyped,
                  ReceivablesTyped, LocksTyped, assetVars, holdingVars
    <2>8. QED
      BY <2>2, <2>6, <2>7 DEF TypeOK
  <1>11. ASSUME NEW a \in Accounts, ProcessClaim(a) PROVE TypeOK'
    <2>1. PICK b \in Signable(a, "claim", ClaimOps) : Process(b) /\ Claim(b)
      BY <1>11 DEF ProcessClaim
    <2>2. ChainsTyped'
      BY <2>1, ProcessTyped DEF TypeOK
    <2>3. b.account = a /\ b.op \in ClaimOps
      BY SignableBlock DEF TypeOK
    <2>4. /\ b.op.root \in Roots /\ b.op.asset \in Token
          /\ b.op.amount \in Nat
      BY <2>3 DEF ClaimOps
    <2>5. HoldingsTyped'
      BY <2>1, <2>3, <2>4, CreditTyped DEF Claim, TypeOK
    <2>6. TokensTyped'
      BY <2>1, <2>4 DEF Claim, TypeOK, TokensTyped
    <2>7. DropsTyped'
      BY <2>1, <2>3, <2>4 DEF Claim, TypeOK, DropsTyped
    <2>8. ReceivablesTyped' /\ LocksTyped'
      BY <2>1 DEF Claim, TypeOK, ReceivablesTyped, LocksTyped
    <2>9. QED
      BY <2>2, <2>5, <2>6, <2>7, <2>8 DEF TypeOK
  <1>12. ASSUME NEW a \in Accounts, ProcessSwapOffer(a) PROVE TypeOK'
    <2>1. PICK b \in Signable(a, "swap_offer", SwapOfferOps) :
                 Process(b) /\ SwapOffer(b)
      BY <1>12 DEF ProcessSwapOffer
    <2>2. ChainsTyped'
      BY <2>1, ProcessTyped DEF TypeOK
    <2>3. b.account = a /\ b.hash \in Hash /\ b.op \in SwapOfferOps
      BY SignableBlock DEF TypeOK
    <2>4. /\ b.op.asset \in Asset /\ b.op.amount \in Nat
          /\ b.op.wantAsset \in Asset /\ b.op.wantAmount \in Nat
          /\ b.op.counterparty \in Accounts \cup {None}
      BY <2>3 DEF SwapOfferOps
    <2>5. HoldingsTyped'
      BY <2>1, <2>3, <2>4, PayOutTyped DEF SwapOffer, TypeOK
    <2>6. [owner |-> b.account, asset |-> b.op.asset,
           amount |-> b.op.amount, wantAsset |-> b.op.wantAsset,
           wantAmount |-> b.op.wantAmount,
           counterparty |-> b.op.counterparty, state |-> "open",
           settledBy |-> None, acceptedBy |-> None] \in Lock
      BY <2>3, <2>4 DEF Lock
    <2>7. LocksTyped'
      BY <2>1, <2>6 DEF SwapOffer, TypeOK, LocksTyped
    <2>8. TokensTyped' /\ ReceivablesTyped' /\ DropsTyped'
      BY <2>1 DEF SwapOffer, TypeOK, TokensTyped, ReceivablesTyped,
                  DropsTyped, assetVars, dropVars
    <2>9. QED
      BY <2>2, <2>5, <2>7, <2>8 DEF TypeOK
  <1>13. ASSUME NEW a \in Accounts, ProcessSwapAccept(a) PROVE TypeOK'
    <2>1. PICK b \in Signable(a, "swap_accept", SwapAcceptOps) :
                 Process(b) /\ SwapAccept(b)
      BY <1>13 DEF ProcessSwapAccept
    <2>2. ChainsTyped'
      BY <2>1, ProcessTyped DEF TypeOK
    <2>3. b.account = a /\ b.hash \in Hash /\ b.op.offer \in Hash
      <3>1. b.account = a /\ b.hash \in Hash /\ b.op \in SwapAcceptOps
        BY SignableBlock DEF TypeOK
      <3>2. QED
        BY <3>1 DEF TypeOK, ChainsTyped, SwapAcceptOps
    <2> DEFINE lock == locks[b.op.offer]
    <2>4. lock \in Lock
      BY <2>1, <2>3 DEF SwapAccept, TypeOK, LocksTyped
    <2>5. /\ lock.owner \in Accounts /\ lock.asset \in Asset
          /\ lock.amount \in Nat /\ lock.wantAsset \in Asset
          /\ lock.wantAmount \in Nat
      BY <2>4 DEF Lock
    <2>6. HoldingsTyped'
      BY <2>1, <2>3, <2>5, PayOutTyped DEF SwapAccept, TypeOK
    <2>7. /\ ReceivableOf(a, lock.owner, lock.wantAsset, lock.wantAmount)
               \in Receivable
          /\ ReceivableOf(lock.owner, a, lock.asset, lock.amount)
               \in Receivable
      BY <2>5, ReceivableTyped
    <2>8. ReceivablesTyped'
      BY <2>1, <2>3, <2>7 DEF SwapAccept, DeliverBothLegs, TypeOK,
                              ReceivablesTyped
    <2>9. [lock EXCEPT !.state = "accepted", !.acceptedBy = b.account,
                       !.settledBy = b.hash] \in Lock
      BY <2>3, <2>4 DEF Lock
    <2>10. LocksTyped'
      BY <2>1, <2>9 DEF SwapAccept, TypeOK, LocksTyped
    <2>11. TokensTyped' /\ DropsTyped'
      BY <2>1 DEF SwapAccept, TypeOK, TokensTyped, DropsTyped, assetVars,
                  dropVars
    <2>12. QED
      BY <2>2, <2>6, <2>8, <2>10, <2>11 DEF TypeOK
  <1>14. ASSUME NEW a \in Accounts, ProcessSwapCancel(a) PROVE TypeOK'
    <2>1. PICK b \in Signable(a, "swap_cancel", SwapCancelOps) :
                 Process(b) /\ SwapCancel(b)
      BY <1>14 DEF ProcessSwapCancel
    <2>2. ChainsTyped'
      BY <2>1, ProcessTyped DEF TypeOK
    <2>3. b.account = a /\ b.hash \in Hash /\ b.op.offer \in Hash
      <3>1. b.account = a /\ b.hash \in Hash /\ b.op \in SwapCancelOps
        BY SignableBlock DEF TypeOK
      <3>2. QED
        BY <3>1 DEF TypeOK, ChainsTyped, SwapCancelOps
    <2> DEFINE lock == locks[b.op.offer]
    <2>4. lock \in Lock
      BY <2>1, <2>3 DEF SwapCancel, TypeOK, LocksTyped
    <2>5. lock.asset \in Asset /\ lock.amount \in Nat
      BY <2>4 DEF Lock
    <2>6. HoldingsTyped'
      <3>1. CASE lock.asset = Kei
        BY <2>1, <3>1 DEF SwapCancel, TypeOK, HoldingsTyped, holdingVars
      <3>2. CASE lock.asset # Kei
        BY <2>1, <2>3, <2>5, <3>2, CreditTyped DEF SwapCancel, TypeOK, Asset
      <3>3. QED
        BY <3>1, <3>2
    <2>7. [lock EXCEPT !.state = "cancelled", !.settledBy = b.hash] \in Lock
      BY <2>3, <2>4 DEF Lock
    <2>8. LocksTyped'
      BY <2>1, <2>7 DEF SwapCancel, TypeOK, LocksTyped
    <2>9. TokensTyped' /\ ReceivablesTyped' /\ DropsTyped'
      BY <2>1 DEF SwapCancel, TypeOK, TokensTyped, ReceivablesTyped,
                  DropsTyped, assetVars, dropVars
    <2>10. QED
      BY <2>2, <2>6, <2>8, <2>9 DEF TypeOK
  <1>15. QED
    BY <1>0, <1>1, <1>2, <1>3, <1>4, <1>5, <1>6, <1>7, <1>8, <1>9, <1>10,
       <1>11, <1>12, <1>13, <1>14 DEF Next

\* Every value the ledger's maps ever hold is of the type its code declares:
\* in particular no Kei balance and no holding is ever negative.
THEOREM TypeCorrect == Spec => []TypeOK
  <1>1. QED
    BY TypeInit, TypeStep, PTL DEF Spec

-----------------------------------------------------------------------------
(* What a step may do to the locks, the tokens, the receivables and the    *)
(* holdings.                                                               *)

\* A policy, once chosen, is never changed, and never forgotten.
LEMMA PolicyStep ==
    ASSUME TypeOK, [Next]_vars
    PROVE  \A t \in Token : transfer[t] # None => transfer'[t] = transfer[t]
  <1>1. ASSUME NEW a \in Accounts, ProcessIssue(a)
        PROVE  \A t \in Token : transfer[t] # None => transfer'[t] = transfer[t]
    <2>1. PICK b \in Signable(a, "issue", IssueOps) : Process(b) /\ Issue(b)
      BY <1>1 DEF ProcessIssue
    <2>2. QED
      BY <2>1 DEF Issue, TypeOK, TokensTyped
  <1>2. ASSUME NEW a \in Accounts,
               \/ ProcessSend(a) \/ ProcessReceive(a) \/ ProcessChange(a)
               \/ ProcessMint(a) \/ ProcessBurn(a) \/ ProcessTransfer(a)
               \/ ProcessAssetReceive(a) \/ ProcessCommit(a)
               \/ ProcessCommitClose(a) \/ ProcessClaim(a)
               \/ ProcessSwapOffer(a) \/ ProcessSwapAccept(a)
               \/ ProcessSwapCancel(a)
        PROVE  transfer' = transfer
    BY <1>2 DEF ProcessSend, ProcessReceive, ProcessChange, ProcessMint,
                ProcessBurn, ProcessTransfer, ProcessAssetReceive,
                ProcessCommit, ProcessCommitClose, ProcessClaim,
                ProcessSwapOffer, ProcessSwapAccept, ProcessSwapCancel,
                Send, Receive, Change, Mint, Burn, Transfer, AssetReceive,
                PublishCommit, CommitClose, Claim, SwapOffer, SwapAccept,
                SwapCancel, assetVars
  <1>3. CASE UNCHANGED vars
    BY <1>3 DEF vars
  <1>4. QED
    BY <1>1, <1>2, <1>3 DEF Next

\* Blocks are only ever added.
LEMMA BlocksStep == [Next]_vars => blocks \subseteq blocks'
  BY DEF Next, vars, ProcessSend, ProcessReceive, ProcessChange, ProcessIssue,
         ProcessMint, ProcessBurn, ProcessTransfer, ProcessAssetReceive,
         ProcessCommit, ProcessCommitClose, ProcessClaim, ProcessSwapOffer,
         ProcessSwapAccept, ProcessSwapCancel, Process, CommitBlock

\* What the policies let a receivable, and an open offer, be.
Permitted(r) ==
    r.asset # Kei =>
        /\ transfer[r.asset] # None
        /\ transfer[r.asset] = "none" => r.from = IssuerOf(r.asset)
        /\ transfer[r.asset] = "issuer-only" =>
             IssuerOf(r.asset) \in {r.from, r.to}

Offerable(l) ==
    \A x \in {l.asset, l.wantAsset} : x # Kei =>
        /\ transfer[x] \in {"open", "issuer-only"}
        /\ transfer[x] = "issuer-only" => IssuerOf(x) \in {l.owner, l.counterparty}

LEMMA EnforcedIsPermitted ==
    ASSUME NEW x \in Asset, NEW from \in Accounts, NEW to \in Accounts,
           NEW n \in Nat, x # Kei => EnforceTransferPolicy(x, from, to)
    PROVE  Permitted(ReceivableOf(from, to, x, n))
  BY ConstantsAssumption
     DEF Permitted, ReceivableOf, EnforceTransferPolicy, TransferPolicy

-----------------------------------------------------------------------------
(* The locks.                                                              *)

OfferAdded(h, l) ==
    /\ h \in Hash \ blocks /\ h \in blocks'
    /\ l \in Lock
    /\ l.state = "open" /\ l.acceptedBy = None
    /\ l.amount > 0 /\ l.wantAmount > 0
    /\ Offerable(l)
    /\ locks' = [locks EXCEPT ![h] = l]
    /\ receivables' = receivables

OfferAccepted(h, s, a) ==
    /\ h \in Hash /\ s \in Hash /\ a \in Accounts
    /\ locks[h] # None /\ locks[h].state = "open"
    /\ a # locks[h].owner
    /\ locks[h].counterparty \in {None, a}
    /\ locks' = [locks EXCEPT ![h] =
           [@ EXCEPT !.state = "accepted", !.acceptedBy = a, !.settledBy = s]]

OfferCancelled(h, s) ==
    /\ h \in Hash /\ s \in Hash
    /\ locks[h] # None /\ locks[h].state = "open"
    /\ locks' = [locks EXCEPT ![h] =
           [@ EXCEPT !.state = "cancelled", !.settledBy = s]]

\* A step leaves the locks alone, adds an open one under a hash that was not
\* a block's, or settles one that is open.
LEMMA LockStep ==
    ASSUME TypeOK, [Next]_vars
    PROVE  \/ locks' = locks
           \/ \E h, l : OfferAdded(h, l)
           \/ \E h, s, a : OfferAccepted(h, s, a)
           \/ \E h, s : OfferCancelled(h, s)
  <1>1. ASSUME NEW a \in Accounts, ProcessSwapOffer(a)
        PROVE  \E h, l : OfferAdded(h, l)
    <2>1. PICK b \in Signable(a, "swap_offer", SwapOfferOps) :
                 Process(b) /\ SwapOffer(b)
      BY <1>1 DEF ProcessSwapOffer
    <2>2. b.account = a /\ b.hash \in Hash /\ b.op \in SwapOfferOps
      BY SignableBlock DEF TypeOK
    <2>3. /\ b.op.asset \in Asset /\ b.op.amount \in Nat
          /\ b.op.wantAsset \in Asset /\ b.op.wantAmount \in Nat
          /\ b.op.counterparty \in Accounts \cup {None}
      BY <2>2, ConstantsAssumption DEF SwapOfferOps
    <2> DEFINE new == [owner |-> b.account, asset |-> b.op.asset,
                       amount |-> b.op.amount, wantAsset |-> b.op.wantAsset,
                       wantAmount |-> b.op.wantAmount,
                       counterparty |-> b.op.counterparty, state |-> "open",
                       settledBy |-> None, acceptedBy |-> None]
    <2>4. new \in Lock
      BY <2>2, <2>3 DEF Lock
    <2>5. b.hash \notin blocks /\ b.hash \in blocks'
      BY <2>1 DEF Process, Envelope, CommitBlock
    <2>6. /\ b.op.amount > 0 /\ b.op.wantAmount > 0
          /\ locks' = [locks EXCEPT ![b.hash] = new]
          /\ receivables' = receivables
      BY <2>1 DEF SwapOffer, RequirePositive
    <2>7. Offerable(new)
      BY <2>1 DEF SwapOffer, Offerable, RequireSwappable, RequireAsset
    <2>8. OfferAdded(b.hash, new)
      BY <2>2, <2>4, <2>5, <2>6, <2>7 DEF OfferAdded
    <2>9. QED
      BY <2>8
  <1>2. ASSUME NEW a \in Accounts, ProcessSwapAccept(a)
        PROVE  \E h, s, c : OfferAccepted(h, s, c)
    <2>1. PICK b \in Signable(a, "swap_accept", SwapAcceptOps) :
                 Process(b) /\ SwapAccept(b)
      BY <1>2 DEF ProcessSwapAccept
    <2>2. b.account = a /\ b.hash \in Hash /\ b.op \in SwapAcceptOps
      BY SignableBlock DEF TypeOK
    <2>3. b.op.offer \in Hash
      BY <2>2 DEF SwapAcceptOps, TypeOK, ChainsTyped
    <2>4. OfferAccepted(b.op.offer, b.hash, a)
      BY <2>1, <2>2, <2>3 DEF SwapAccept, RequireOpenLock, OfferAccepted
    <2>5. QED
      BY <2>4
  <1>3. ASSUME NEW a \in Accounts, ProcessSwapCancel(a)
        PROVE  \E h, s : OfferCancelled(h, s)
    <2>1. PICK b \in Signable(a, "swap_cancel", SwapCancelOps) :
                 Process(b) /\ SwapCancel(b)
      BY <1>3 DEF ProcessSwapCancel
    <2>2. b.hash \in Hash /\ b.op \in SwapCancelOps
      BY SignableBlock DEF TypeOK
    <2>3. b.op.offer \in Hash
      BY <2>2 DEF SwapCancelOps, TypeOK, ChainsTyped
    <2>4. OfferCancelled(b.op.offer, b.hash)
      BY <2>1, <2>2, <2>3 DEF SwapCancel, RequireOpenLock, OfferCancelled
    <2>5. QED
      BY <2>4
  <1>4. ASSUME NEW a \in Accounts,
               \/ ProcessSend(a) \/ ProcessReceive(a) \/ ProcessChange(a)
               \/ ProcessIssue(a) \/ ProcessMint(a) \/ ProcessBurn(a)
               \/ ProcessTransfer(a) \/ ProcessAssetReceive(a)
               \/ ProcessCommit(a) \/ ProcessCommitClose(a)
               \/ ProcessClaim(a)
        PROVE  locks' = locks
    BY <1>4 DEF ProcessSend, ProcessReceive, ProcessChange, ProcessIssue,
                ProcessMint, ProcessBurn, ProcessTransfer,
                ProcessAssetReceive, ProcessCommit, ProcessCommitClose,
                ProcessClaim, Send, Receive, Change, Issue, Mint, Burn,
                Transfer, AssetReceive, PublishCommit, CommitClose, Claim
  <1>5. CASE UNCHANGED vars
    BY <1>5 DEF vars
  <1>6. QED
    BY <1>1, <1>2, <1>3, <1>4, <1>5 DEF Next

-----------------------------------------------------------------------------
(* The receivables.                                                        *)

ReceivableAdded(h, r) ==
    /\ h \in Hash \ blocks /\ h \in blocks'
    /\ r \in Receivable /\ r.amount > 0
    /\ Permitted(r)
    /\ receivables' = [receivables EXCEPT ![h] = r]

ReceivableConsumed(h) ==
    /\ h \in Hash /\ receivables[h] # None
    /\ IF receivables[h].asset = Kei
       THEN balance' = [balance EXCEPT ![receivables[h].to] =
                          @ + receivables[h].amount]
       ELSE holdings' = [holdings EXCEPT
                          ![receivables[h].to][receivables[h].asset] =
                              @ + receivables[h].amount]
    /\ receivables' = [receivables EXCEPT ![h] = None]

\* The two legs of an accepted offer: r, the payment, and q, what was locked.
BothLegsAdded(h, r, o, q) ==
    /\ h \in Hash \ blocks /\ h \in blocks'
    /\ o \in blocks /\ locks[o] # None
    /\ locks[o].state = "open" /\ locks'[o].state # "open"
    /\ r \in Receivable /\ r.amount = locks[o].wantAmount /\ Permitted(r)
    /\ q \in Receivable /\ q.amount = locks[o].amount /\ Permitted(q)
    /\ receivables' = [receivables EXCEPT ![h] = r, ![o] = q]

LEMMA ReceivableStep ==
    ASSUME TypeOK, [Next]_vars
    PROVE  \/ receivables' = receivables
           \/ \E h, r : ReceivableAdded(h, r)
           \/ \E h : ReceivableConsumed(h)
           \/ \E h, r, o, q : BothLegsAdded(h, r, o, q)
  <1>1. ASSUME NEW a \in Accounts, ProcessSend(a)
        PROVE  \E h, r : ReceivableAdded(h, r)
    <2>1. PICK b \in Signable(a, "send", SendOps) : Process(b) /\ Send(b)
      BY <1>1 DEF ProcessSend
    <2>2. /\ b.account = a /\ b.hash \in Hash /\ b.balance \in Nat
          /\ b.op \in SendOps
      BY SignableBlock DEF TypeOK
    <2> DEFINE n == balance[a] - b.balance
               r == ReceivableOf(a, b.op.to, Kei, n)
    <2>3. n \in Nat /\ n > 0
      BY <2>1, <2>2 DEF Send, TypeOK, ChainsTyped
    <2>4. r \in Receivable /\ r.amount = n /\ r.asset = Kei
      <3>1. b.op.to \in Accounts /\ Kei \in Asset
        BY <2>2 DEF SendOps, Asset
      <3>2. QED
        BY <2>3, <3>1, ReceivableTyped DEF ReceivableOf
    <2>5. receivables' = [receivables EXCEPT ![b.hash] = r]
      BY <2>1, <2>2 DEF Send, CreateReceivable
    <2>6. b.hash \notin blocks /\ b.hash \in blocks'
      BY <2>1 DEF Process, Envelope, CommitBlock
    <2>7. ReceivableAdded(b.hash, r)
      BY <2>2, <2>3, <2>4, <2>5, <2>6 DEF ReceivableAdded, Permitted
    <2>8. QED
      BY <2>7
  <1>2. ASSUME NEW a \in Accounts, ProcessReceive(a)
        PROVE  \E h : ReceivableConsumed(h)
    <2>1. PICK b \in Signable(a, "receive", ReceiveOps) :
                 Process(b) /\ Receive(b)
      BY <1>2 DEF ProcessReceive
    <2>2. b.account = a /\ b.op \in ReceiveOps
      BY SignableBlock DEF TypeOK
    <2>3. b.op.link \in Hash
      BY <2>2 DEF ReceiveOps, TypeOK, ChainsTyped
    <2>4. balance' = [balance EXCEPT ![a] =
                        @ + receivables[b.op.link].amount]
      BY <2>1, <2>2 DEF Process, CommitBlock, Receive, RequireDelta
    <2>5. ReceivableConsumed(b.op.link)
      BY <2>1, <2>2, <2>3, <2>4 DEF Receive, RequireReceivable,
                                    ConsumeReceivable, ReceivableConsumed
    <2>6. QED
      BY <2>5
  <1>3. ASSUME NEW a \in Accounts, ProcessAssetReceive(a)
        PROVE  \E h : ReceivableConsumed(h)
    <2>1. PICK b \in Signable(a, "asset_receive", AssetReceiveOps) :
                 Process(b) /\ AssetReceive(b)
      BY <1>3 DEF ProcessAssetReceive
    <2>2. b.account = a /\ b.op \in AssetReceiveOps
      BY SignableBlock DEF TypeOK
    <2>3. b.op.link \in Hash
      BY <2>2 DEF AssetReceiveOps, TypeOK, ChainsTyped
    <2>4. ReceivableConsumed(b.op.link)
      BY <2>1, <2>2, <2>3 DEF AssetReceive, RequireReceivable, CommitCredit,
                              ConsumeReceivable, ReceivableConsumed
    <2>5. QED
      BY <2>4
  <1>4. ASSUME NEW a \in Accounts, ProcessMint(a)
        PROVE  \E h, r : ReceivableAdded(h, r)
    <2>1. PICK b \in Signable(a, "mint", MintOps) : Process(b) /\ Mint(b)
      BY <1>4 DEF ProcessMint
    <2>2. b.account = a /\ b.hash \in Hash /\ b.op \in MintOps
      BY SignableBlock DEF TypeOK
    <2>3. /\ b.op.to \in Accounts /\ b.op.asset \in Token
          /\ b.op.amount \in Nat
      BY <2>2, ConstantsAssumption DEF MintOps
    <2> DEFINE r == ReceivableOf(a, b.op.to, b.op.asset, b.op.amount)
    <2>4. r \in Receivable
      BY <2>3, ReceivableTyped DEF Asset
    <2>5. /\ r.from = a /\ r.asset = b.op.asset /\ r.amount = b.op.amount
      BY DEF ReceivableOf
    <2>6. /\ b.op.amount > 0 /\ transfer[b.op.asset] # None
          /\ IssuerOf(b.op.asset) = a
          /\ receivables' = [receivables EXCEPT ![b.hash] = r]
      BY <2>1, <2>2 DEF Mint, RequirePositive, RequireAsset, CreateReceivable
    <2>7. Permitted(r)
      BY <2>5, <2>6 DEF Permitted
    <2>8. b.hash \notin blocks /\ b.hash \in blocks'
      BY <2>1 DEF Process, Envelope, CommitBlock
    <2>9. ReceivableAdded(b.hash, r)
      BY <2>2, <2>4, <2>5, <2>6, <2>7, <2>8 DEF ReceivableAdded
    <2>10. QED
      BY <2>9
  <1>5. ASSUME NEW a \in Accounts, ProcessTransfer(a)
        PROVE  \E h, r : ReceivableAdded(h, r)
    <2>1. PICK b \in Signable(a, "transfer", TransferOps) :
                 Process(b) /\ Transfer(b)
      BY <1>5 DEF ProcessTransfer
    <2>2. b.account = a /\ b.hash \in Hash /\ b.op \in TransferOps
      BY SignableBlock DEF TypeOK
    <2>3. /\ b.op.to \in Accounts /\ b.op.asset \in Token
          /\ b.op.asset \in Asset /\ b.op.amount \in Nat
      BY <2>2, ConstantsAssumption DEF TransferOps, Asset
    <2> DEFINE r == ReceivableOf(a, b.op.to, b.op.asset, b.op.amount)
    <2>4. r \in Receivable /\ r.amount = b.op.amount
      BY <2>3, ReceivableTyped DEF ReceivableOf
    <2>5. /\ b.op.amount > 0
          /\ EnforceTransferPolicy(b.op.asset, a, b.op.to)
          /\ receivables' = [receivables EXCEPT ![b.hash] = r]
      BY <2>1, <2>2 DEF Transfer, RequirePositive, CreateReceivable
    <2>6. Permitted(r)
      BY <2>3, <2>5, EnforcedIsPermitted
    <2>7. b.hash \notin blocks /\ b.hash \in blocks'
      BY <2>1 DEF Process, Envelope, CommitBlock
    <2>8. ReceivableAdded(b.hash, r)
      BY <2>2, <2>4, <2>5, <2>6, <2>7 DEF ReceivableAdded
    <2>9. QED
      BY <2>8
  <1>6. ASSUME NEW a \in Accounts, ProcessSwapAccept(a)
        PROVE  \E h, r, o, q : BothLegsAdded(h, r, o, q)
    <2>1. PICK b \in Signable(a, "swap_accept", SwapAcceptOps) :
                 Process(b) /\ SwapAccept(b)
      BY <1>6 DEF ProcessSwapAccept
    <2>2. b.account = a /\ b.hash \in Hash /\ b.op \in SwapAcceptOps
      BY SignableBlock DEF TypeOK
    <2>3. b.op.offer \in blocks /\ b.op.offer \in Hash
      BY <2>2 DEF SwapAcceptOps, TypeOK, ChainsTyped
    <2> DEFINE lock == locks[b.op.offer]
               r == ReceivableOf(a, lock.owner, lock.wantAsset, lock.wantAmount)
               q == ReceivableOf(lock.owner, a, lock.asset, lock.amount)
    <2>4. lock \in Lock /\ lock # None
      BY <2>1, <2>3 DEF SwapAccept, TypeOK, LocksTyped
    <2>5. /\ lock.owner \in Accounts /\ lock.asset \in Asset
          /\ lock.amount \in Nat /\ lock.wantAsset \in Asset
          /\ lock.wantAmount \in Nat
      BY <2>4 DEF Lock
    <2>6. r \in Receivable /\ q \in Receivable
      BY <2>5, ReceivableTyped
    <2>7. /\ lock.asset # Kei => EnforceTransferPolicy(lock.asset, lock.owner, a)
          /\ lock.wantAsset # Kei =>
               EnforceTransferPolicy(lock.wantAsset, a, lock.owner)
      BY <2>1, <2>2 DEF SwapAccept
    <2>8. Permitted(r) /\ Permitted(q)
      BY <2>5, <2>7, EnforcedIsPermitted
    <2>9. r.amount = lock.wantAmount /\ q.amount = lock.amount
      BY DEF ReceivableOf
    <2>10. b.hash \notin blocks /\ b.hash \in blocks'
      BY <2>1 DEF Process, Envelope, CommitBlock
    <2>11. receivables' = [receivables EXCEPT ![b.hash] = r, ![b.op.offer] = q]
      BY <2>1, <2>2 DEF SwapAccept, DeliverBothLegs
    <2>12. lock.state = "open" /\ locks'[b.op.offer].state # "open"
      <3>1. /\ lock.state = "open"
            /\ locks' = [locks EXCEPT ![b.op.offer] =
                           [lock EXCEPT !.state = "accepted",
                                        !.acceptedBy = b.account,
                                        !.settledBy = b.hash]]
        BY <2>1 DEF SwapAccept, RequireOpenLock
      <3>2. locks'[b.op.offer].state = "accepted"
        BY <2>3, <2>4, <3>1 DEF TypeOK, LocksTyped, Lock
      <3>3. QED
        BY <3>1, <3>2
    <2>13. BothLegsAdded(b.hash, r, b.op.offer, q)
      BY <2>2, <2>3, <2>4, <2>6, <2>8, <2>9, <2>10, <2>11, <2>12
         DEF BothLegsAdded
    <2>14. QED
      BY <2>13
  <1>7. ASSUME NEW a \in Accounts,
               \/ ProcessChange(a) \/ ProcessIssue(a) \/ ProcessBurn(a)
               \/ ProcessCommit(a) \/ ProcessCommitClose(a)
               \/ ProcessClaim(a) \/ ProcessSwapOffer(a)
               \/ ProcessSwapCancel(a)
        PROVE  receivables' = receivables
    BY <1>7 DEF ProcessChange, ProcessIssue, ProcessBurn, ProcessCommit,
                ProcessCommitClose, ProcessClaim, ProcessSwapOffer,
                ProcessSwapCancel, Change, Issue, Burn, PublishCommit,
                CommitClose, Claim, SwapOffer, SwapCancel
  <1>8. CASE UNCHANGED vars
    BY <1>8 DEF vars
  <1>9. QED
    BY <1>1, <1>2, <1>3, <1>4, <1>5, <1>6, <1>7, <1>8 DEF Next

-----------------------------------------------------------------------------
(* The holdings.                                                           *)

Credited(a, t, n) ==
    /\ a \in Accounts /\ t \in Token /\ n \in Nat /\ n > 0
    /\ RequireCredit(a, t)
    /\ CommitCredit(a, t, n)

Debited(a, t, n) ==
    /\ a \in Accounts /\ t \in Token /\ n \in Nat /\ n > 0
    /\ RequireDebit(a, t, n)
    /\ CommitDebit(a, t, n)

LEMMA PayOutStep ==
    ASSUME NEW b, b.account \in Accounts, NEW x \in Asset, NEW n \in Nat,
           n > 0, PayOut(b, x, n)
    PROVE  UNCHANGED holdingVars \/ \E t : Debited(b.account, t, n)
  BY DEF PayOut, Debited, Asset

LEMMA HoldingStep ==
    ASSUME TypeOK, PositiveAmounts, [Next]_vars
    PROVE  \/ UNCHANGED holdingVars
           \/ \E a, t, n : Credited(a, t, n)
           \/ \E a, t, n : Debited(a, t, n)
  <1>1. ASSUME NEW a \in Accounts, ProcessBurn(a)
        PROVE  \E c, t, n : Debited(c, t, n)
    <2>1. PICK b \in Signable(a, "burn", BurnOps) : Process(b) /\ Burn(b)
      BY <1>1 DEF ProcessBurn
    <2>2. b.account = a /\ b.op \in BurnOps
      BY SignableBlock DEF TypeOK
    <2>3. b.op.asset \in Token /\ b.op.amount \in Nat
      BY <2>2, ConstantsAssumption DEF BurnOps
    <2>4. Debited(a, b.op.asset, b.op.amount)
      BY <2>1, <2>2, <2>3 DEF Burn, RequirePositive, Debited
    <2>5. QED
      BY <2>4
  <1>2. ASSUME NEW a \in Accounts, ProcessTransfer(a)
        PROVE  \E c, t, n : Debited(c, t, n)
    <2>1. PICK b \in Signable(a, "transfer", TransferOps) :
                 Process(b) /\ Transfer(b)
      BY <1>2 DEF ProcessTransfer
    <2>2. b.account = a /\ b.op \in TransferOps
      BY SignableBlock DEF TypeOK
    <2>3. b.op.asset \in Token /\ b.op.amount \in Nat
      BY <2>2, ConstantsAssumption DEF TransferOps
    <2>4. Debited(a, b.op.asset, b.op.amount)
      BY <2>1, <2>2, <2>3 DEF Transfer, RequirePositive, Debited
    <2>5. QED
      BY <2>4
  <1>3. ASSUME NEW a \in Accounts, ProcessAssetReceive(a)
        PROVE  \E c, t, n : Credited(c, t, n)
    <2>1. PICK b \in Signable(a, "asset_receive", AssetReceiveOps) :
                 Process(b) /\ AssetReceive(b)
      BY <1>3 DEF ProcessAssetReceive
    <2>2. b.account = a /\ b.op \in AssetReceiveOps
      BY SignableBlock DEF TypeOK
    <2>3. b.op.link \in Hash
      BY <2>2 DEF AssetReceiveOps, TypeOK, ChainsTyped
    <2> DEFINE r == receivables[b.op.link]
    <2>4. r \in Receivable /\ r # None
      BY <2>1, <2>3 DEF AssetReceive, RequireReceivable, TypeOK,
                        ReceivablesTyped
    <2>5. r.asset \in Token /\ r.amount \in Nat /\ r.amount > 0
      BY <2>1, <2>3, <2>4 DEF AssetReceive, Receivable, Asset, PositiveAmounts
    <2>6. Credited(a, r.asset, r.amount)
      BY <2>1, <2>2, <2>5 DEF AssetReceive, Credited
    <2>7. QED
      BY <2>6
  <1>4. ASSUME NEW a \in Accounts, ProcessClaim(a)
        PROVE  \E c, t, n : Credited(c, t, n)
    <2>1. PICK b \in Signable(a, "claim", ClaimOps) : Process(b) /\ Claim(b)
      BY <1>4 DEF ProcessClaim
    <2>2. b.account = a /\ b.op \in ClaimOps
      BY SignableBlock DEF TypeOK
    <2>3. b.op.asset \in Token /\ b.op.amount \in Nat
      BY <2>2, ConstantsAssumption DEF ClaimOps
    <2>4. Credited(a, b.op.asset, b.op.amount)
      BY <2>1, <2>2, <2>3 DEF Claim, RequirePositive, Credited
    <2>5. QED
      BY <2>4
  <1>5. ASSUME NEW a \in Accounts, ProcessSwapOffer(a)
        PROVE  UNCHANGED holdingVars \/ \E c, t, n : Debited(c, t, n)
    <2>1. PICK b \in Signable(a, "swap_offer", SwapOfferOps) :
                 Process(b) /\ SwapOffer(b)
      BY <1>5 DEF ProcessSwapOffer
    <2>2. b.account = a /\ b.op \in SwapOfferOps
      BY SignableBlock DEF TypeOK
    <2>3. b.op.asset \in Asset /\ b.op.amount \in Nat
      BY <2>2, ConstantsAssumption DEF SwapOfferOps
    <2>4. b.op.amount > 0 /\ PayOut(b, b.op.asset, b.op.amount)
      BY <2>1 DEF SwapOffer, RequirePositive
    <2>5. QED
      BY <2>2, <2>3, <2>4, PayOutStep
  <1>6. ASSUME NEW a \in Accounts, ProcessSwapAccept(a)
        PROVE  UNCHANGED holdingVars \/ \E c, t, n : Debited(c, t, n)
    <2>1. PICK b \in Signable(a, "swap_accept", SwapAcceptOps) :
                 Process(b) /\ SwapAccept(b)
      BY <1>6 DEF ProcessSwapAccept
    <2>2. b.account = a /\ b.op \in SwapAcceptOps
      BY SignableBlock DEF TypeOK
    <2>3. b.op.offer \in Hash
      BY <2>2 DEF SwapAcceptOps, TypeOK, ChainsTyped
    <2> DEFINE lock == locks[b.op.offer]
    <2>4. lock \in Lock /\ lock # None
      BY <2>1, <2>3 DEF SwapAccept, TypeOK, LocksTyped
    <2>5. /\ lock.wantAsset \in Asset /\ lock.wantAmount \in Nat
          /\ lock.wantAmount > 0
      BY <2>3, <2>4 DEF Lock, PositiveAmounts
    <2>6. PayOut(b, lock.wantAsset, lock.wantAmount)
      BY <2>1 DEF SwapAccept
    <2>7. QED
      BY <2>2, <2>5, <2>6, PayOutStep
  <1>7. ASSUME NEW a \in Accounts, ProcessSwapCancel(a)
        PROVE  UNCHANGED holdingVars \/ \E c, t, n : Credited(c, t, n)
    <2>1. PICK b \in Signable(a, "swap_cancel", SwapCancelOps) :
                 Process(b) /\ SwapCancel(b)
      BY <1>7 DEF ProcessSwapCancel
    <2>2. b.account = a /\ b.op \in SwapCancelOps
      BY SignableBlock DEF TypeOK
    <2>3. b.op.offer \in Hash
      BY <2>2 DEF SwapCancelOps, TypeOK, ChainsTyped
    <2> DEFINE lock == locks[b.op.offer]
    <2>4. lock \in Lock /\ lock # None
      BY <2>1, <2>3 DEF SwapCancel, TypeOK, LocksTyped
    <2>5. lock.asset \in Asset /\ lock.amount \in Nat /\ lock.amount > 0
      BY <2>3, <2>4 DEF Lock, PositiveAmounts
    <2>6. CASE lock.asset = Kei
      BY <2>1, <2>6 DEF SwapCancel
    <2>7. CASE lock.asset # Kei
      <3>1. lock.asset \in Token
        BY <2>5, <2>7 DEF Asset
      <3>2. Credited(a, lock.asset, lock.amount)
        BY <2>1, <2>2, <2>5, <2>7, <3>1 DEF SwapCancel, Credited
      <3>3. QED
        BY <3>2
    <2>8. QED
      BY <2>6, <2>7
  <1>8. ASSUME NEW a \in Accounts,
               \/ ProcessSend(a) \/ ProcessReceive(a) \/ ProcessChange(a)
               \/ ProcessIssue(a) \/ ProcessMint(a) \/ ProcessCommit(a)
               \/ ProcessCommitClose(a)
        PROVE  UNCHANGED holdingVars
    BY <1>8 DEF ProcessSend, ProcessReceive, ProcessChange, ProcessIssue,
                ProcessMint, ProcessCommit, ProcessCommitClose, Send,
                Receive, Change, Issue, Mint, PublishCommit, CommitClose
  <1>9. CASE UNCHANGED vars
    BY <1>9 DEF vars, holdingVars
  <1>10. QED
    BY <1>1, <1>2, <1>3, <1>4, <1>5, <1>6, <1>7, <1>8, <1>9 DEF Next

-----------------------------------------------------------------------------
(* The tokens.                                                             *)

Issued(t) ==
    /\ t \in Token /\ transfer[t] = None
    /\ circulating' = [circulating EXCEPT ![t] = 0]
    /\ \E p \in TransferPolicy : transfer' = [transfer EXCEPT ![t] = p]
    /\ \E m \in (Nat \ {0}) \cup {None} :
         maxSupply' = [maxSupply EXCEPT ![t] = m]

Created(t, n) ==
    /\ t \in Token /\ n \in Nat /\ n > 0
    /\ transfer[t] # None
    /\ RequireHeadroom(t, n)
    /\ circulating' = [circulating EXCEPT ![t] = @ + n]
    /\ UNCHANGED <<transfer, maxSupply>>

Destroyed(t, n) ==
    /\ t \in Token /\ n \in Nat /\ n > 0
    /\ transfer[t] # None
    /\ circulating' = [circulating EXCEPT ![t] = @ - n]
    /\ UNCHANGED <<transfer, maxSupply>>

\* The blocks that create units: a mint, under whose hash they are on their
\* way, and a claim.
Minted(h, t, n) ==
    /\ h \in Hash \ blocks
    /\ receivables' = [receivables EXCEPT ![h] = receivables'[h]]
    /\ receivables'[h] \in Receivable
    /\ receivables'[h].from = IssuerOf(t)
    /\ receivables'[h].asset = t
    /\ receivables'[h].amount = n

Claimed(a, r, t, n) ==
    /\ a \in Accounts /\ r \in Roots
    /\ claimed' = claimed \cup {<<a, r>>} /\ <<a, r>> \notin claimed
    /\ [account |-> a, asset |-> t, amount |-> n] \in Entitled[r]
    /\ commits[r] # None /\ ~commits[r].closed
    /\ commits[r].issuer = IssuerOf(t)

LEMMA SupplyStep ==
    ASSUME TypeOK, [Next]_vars
    PROVE  \/ UNCHANGED <<transfer, maxSupply, circulating>>
           \/ \E t : Issued(t)
           \/ \E t, n : /\ Created(t, n)
                        /\ \/ \E h : Minted(h, t, n)
                           \/ \E a, r : Claimed(a, r, t, n)
           \/ \E t, n : Destroyed(t, n)
  <1>1. ASSUME NEW a \in Accounts, ProcessIssue(a) PROVE \E t : Issued(t)
    <2>1. PICK b \in Signable(a, "issue", IssueOps) : Process(b) /\ Issue(b)
      BY <1>1 DEF ProcessIssue
    <2>2. b.account = a /\ b.op \in IssueOps
      BY SignableBlock DEF TypeOK
    <2>3. /\ b.op.transfer \in TransferPolicy
          /\ b.op.maxSupply \in (Nat \ {0}) \cup {None}
      BY <2>2, ConstantsAssumption DEF IssueOps
    <2>4. Issued(<<a, b.op.symbol>>)
      <3>1. /\ <<a, b.op.symbol>> \in Token
            /\ transfer[<<a, b.op.symbol>>] = None
            /\ circulating' = [circulating EXCEPT ![<<a, b.op.symbol>>] = 0]
            /\ transfer' = [transfer EXCEPT
                              ![<<a, b.op.symbol>>] = b.op.transfer]
            /\ maxSupply' = [maxSupply EXCEPT
                               ![<<a, b.op.symbol>>] = b.op.maxSupply]
        BY <2>1, <2>2 DEF Issue
      <3>2. QED
        BY <2>3, <3>1 DEF Issued
    <2>5. QED
      BY <2>4
  <1>2. ASSUME NEW a \in Accounts, ProcessMint(a)
        PROVE  \E t, n, h : Created(t, n) /\ Minted(h, t, n)
    <2>1. PICK b \in Signable(a, "mint", MintOps) : Process(b) /\ Mint(b)
      BY <1>2 DEF ProcessMint
    <2>2. b.account = a /\ b.hash \in Hash /\ b.op \in MintOps
      BY SignableBlock DEF TypeOK
    <2>3. /\ b.op.to \in Accounts /\ b.op.asset \in Token
          /\ b.op.amount \in Nat
      BY <2>2, ConstantsAssumption DEF MintOps
    <2> DEFINE r == ReceivableOf(a, b.op.to, b.op.asset, b.op.amount)
    <2>4. r \in Receivable
      BY <2>3, ReceivableTyped DEF Asset
    <2>5. receivables' = [receivables EXCEPT ![b.hash] = r]
      BY <2>1, <2>2 DEF Mint, CreateReceivable
    <2>6. receivables'[b.hash] = r
      BY <2>2, <2>5 DEF TypeOK, ReceivablesTyped
    <2>7. b.hash \notin blocks /\ IssuerOf(b.op.asset) = a
      BY <2>1, <2>2 DEF Process, Envelope, Mint
    <2>8. Minted(b.hash, b.op.asset, b.op.amount)
      <3>1. r.from = a /\ r.asset = b.op.asset /\ r.amount = b.op.amount
        BY DEF ReceivableOf
      <3> HIDE DEF r
      <3>2. QED
        BY <2>2, <2>4, <2>5, <2>6, <2>7, <3>1 DEF Minted
    <2>9. Created(b.op.asset, b.op.amount)
      BY <2>1, <2>3 DEF Mint, RequirePositive, RequireAsset, Created
    <2>10. QED
      BY <2>8, <2>9
  <1>3. ASSUME NEW a \in Accounts, ProcessClaim(a)
        PROVE  \E t, n, c, r : Created(t, n) /\ Claimed(c, r, t, n)
    <2>1. PICK b \in Signable(a, "claim", ClaimOps) : Process(b) /\ Claim(b)
      BY <1>3 DEF ProcessClaim
    <2>2. b.account = a /\ b.op \in ClaimOps
      BY SignableBlock DEF TypeOK
    <2>3. /\ b.op.root \in Roots /\ b.op.asset \in Token
          /\ b.op.amount \in Nat
      BY <2>2, ConstantsAssumption DEF ClaimOps
    <2>4. Created(b.op.asset, b.op.amount)
      BY <2>1, <2>3 DEF Claim, RequirePositive, RequireAsset, Created
    <2>5. Claimed(a, b.op.root, b.op.asset, b.op.amount)
      BY <2>1, <2>2, <2>3 DEF Claim, RequireRootOpen, RequireUnclaimed,
                              VerifyProof, Claimed
    <2>6. QED
      BY <2>4, <2>5
  <1>4. ASSUME NEW a \in Accounts, ProcessBurn(a)
        PROVE  \E t, n : Destroyed(t, n)
    <2>1. PICK b \in Signable(a, "burn", BurnOps) : Process(b) /\ Burn(b)
      BY <1>4 DEF ProcessBurn
    <2>2. b.op \in BurnOps
      BY SignableBlock DEF TypeOK
    <2>3. b.op.asset \in Token /\ b.op.amount \in Nat
      BY <2>2, ConstantsAssumption DEF BurnOps
    <2>4. Destroyed(b.op.asset, b.op.amount)
      BY <2>1, <2>3 DEF Burn, assetVars, RequirePositive, RequireAsset, Destroyed
    <2>5. QED
      BY <2>4
  <1>5. ASSUME NEW a \in Accounts,
               \/ ProcessSend(a) \/ ProcessReceive(a) \/ ProcessChange(a)
               \/ ProcessTransfer(a) \/ ProcessAssetReceive(a)
               \/ ProcessCommit(a) \/ ProcessCommitClose(a)
               \/ ProcessSwapOffer(a) \/ ProcessSwapAccept(a)
               \/ ProcessSwapCancel(a)
        PROVE  UNCHANGED <<transfer, maxSupply, circulating>>
    BY <1>5 DEF ProcessSend, ProcessReceive, ProcessChange, ProcessTransfer,
                ProcessAssetReceive, ProcessCommit, ProcessCommitClose,
                ProcessSwapOffer, ProcessSwapAccept, ProcessSwapCancel,
                Send, Receive, Change, Transfer, AssetReceive, PublishCommit,
                CommitClose, SwapOffer, SwapAccept, SwapCancel, assetVars
  <1>6. CASE UNCHANGED vars
    BY <1>6 DEF vars
  <1>7. QED
    BY <1>1, <1>2, <1>3, <1>4, <1>5, <1>6 DEF Next

-----------------------------------------------------------------------------
(* The supporting invariant.                                               *)

LEMMA InvInit == Init => LedgerInv
  BY DEF Init, LedgerInv, PositiveAmounts, FiledUnderBlocks, IssuedInTransit,
         OpenOffersFree, OpenOffers, NoneUnissued

LEMMA InvStep == TypeOK /\ LedgerInv /\ [Next]_vars => LedgerInv'
  <1> SUFFICES ASSUME TypeOK, LedgerInv, [Next]_vars PROVE LedgerInv'
    OBVIOUS
  <1>1. blocks \subseteq blocks' /\ blocks \subseteq Hash
    BY BlocksStep DEF TypeOK, ChainsTyped
  <1>2. receivables \in [Hash -> Receivable \cup {None}]
    BY DEF TypeOK, ReceivablesTyped
  <1>3. locks \in [Hash -> Lock \cup {None}]
    BY DEF TypeOK, LocksTyped
  <1>4. /\ None \notin Lock /\ None \notin Receivable
    BY ConstantsAssumption
  <1> USE DEF LedgerInv
  \* What the step may have done to each of the two maps, at one hash.
  <1>5. \A h \in Hash :
          \/ locks'[h] = locks[h]
          \/ /\ locks[h] = None /\ h \notin blocks /\ h \in blocks'
             /\ locks'[h] \in Lock
             /\ locks'[h].amount > 0 /\ locks'[h].wantAmount > 0
             /\ receivables' = receivables
          \/ /\ locks[h] # None /\ locks[h].state = "open"
             /\ locks'[h] \in Lock /\ locks'[h].state # "open"
             /\ locks'[h].amount = locks[h].amount
             /\ locks'[h].wantAmount = locks[h].wantAmount
    <2> DEFINE Goal == \A h \in Hash :
          \/ locks'[h] = locks[h]
          \/ /\ locks[h] = None /\ h \notin blocks /\ h \in blocks'
             /\ locks'[h] \in Lock
             /\ locks'[h].amount > 0 /\ locks'[h].wantAmount > 0
             /\ receivables' = receivables
          \/ /\ locks[h] # None /\ locks[h].state = "open"
             /\ locks'[h] \in Lock /\ locks'[h].state # "open"
             /\ locks'[h].amount = locks[h].amount
             /\ locks'[h].wantAmount = locks[h].wantAmount
    <2>1. ASSUME NEW g, NEW l, OfferAdded(g, l) PROVE Goal
      BY <1>3, <2>1 DEF OfferAdded, FiledUnderBlocks
    <2>2. ASSUME NEW g, NEW s, NEW a, OfferAccepted(g, s, a) PROVE Goal
      BY <1>3, <2>2 DEF OfferAccepted, Lock
    <2>3. ASSUME NEW g, NEW s, OfferCancelled(g, s) PROVE Goal
      BY <1>3, <2>3 DEF OfferCancelled, Lock
    <2>4. QED
      BY <2>1, <2>2, <2>3, LockStep
  <1>6. \A h \in Hash :
          \/ receivables'[h] = receivables[h]
          \/ receivables'[h] = None
          \/ /\ receivables[h] = None /\ receivables'[h] \in Receivable
             /\ receivables'[h].amount > 0 /\ Permitted(receivables'[h])
             /\ \/ h \notin blocks /\ h \in blocks'
                \/ locks[h] # None /\ locks'[h].state # "open"
    <2> DEFINE Goal == \A h \in Hash :
          \/ receivables'[h] = receivables[h]
          \/ receivables'[h] = None
          \/ /\ receivables[h] = None /\ receivables'[h] \in Receivable
             /\ receivables'[h].amount > 0 /\ Permitted(receivables'[h])
             /\ \/ h \notin blocks /\ h \in blocks'
                \/ locks[h] # None /\ locks'[h].state # "open"
    <2>1. ASSUME NEW g, NEW r, ReceivableAdded(g, r) PROVE Goal
      BY <1>2, <2>1 DEF ReceivableAdded, FiledUnderBlocks
    <2>2. ASSUME NEW g, ReceivableConsumed(g) PROVE Goal
      BY <1>2, <2>2 DEF ReceivableConsumed
    <2>3. ASSUME NEW g, NEW r, NEW o, NEW q, BothLegsAdded(g, r, o, q)
          PROVE  Goal
      <3>1. receivables[o] = None /\ receivables[g] = None /\ g # o
        BY <1>1, <2>3 DEF BothLegsAdded, OpenOffersFree, OpenOffers,
                          FiledUnderBlocks
      <3>2. r.amount > 0 /\ q.amount > 0
        BY <1>1, <2>3 DEF BothLegsAdded, PositiveAmounts
      <3>3. QED
        BY <1>1, <1>2, <2>3, <3>1, <3>2 DEF BothLegsAdded
    <2>4. QED
      BY <2>1, <2>2, <2>3, ReceivableStep
  <1>7. PositiveAmounts'
    BY <1>5, <1>6 DEF PositiveAmounts
  <1>8. FiledUnderBlocks'
    BY <1>1, <1>5, <1>6 DEF FiledUnderBlocks
  <1>9. IssuedInTransit'
    <2>1. \A t \in Token : transfer[t] # None => transfer'[t] = transfer[t]
      BY PolicyStep
    <2>2. \A r \in Receivable : r.asset # Kei => r.asset \in Token
      BY DEF Receivable, Asset
    <2>3. ASSUME NEW h \in Hash, receivables'[h] # None,
                 receivables'[h].asset # Kei
          PROVE  transfer[receivables'[h].asset] # None
                   /\ receivables'[h] \in Receivable
      BY <1>2, <1>6, <2>3 DEF Permitted, IssuedInTransit
    <2>4. QED
      BY <2>1, <2>2, <2>3 DEF IssuedInTransit
  <1>10. OpenOffersFree'
    <2>1. SUFFICES ASSUME NEW h \in Hash, locks'[h] # None,
                          locks'[h].state = "open"
                   PROVE  receivables'[h] = None
      BY DEF OpenOffersFree, OpenOffers
    <2>2. CASE locks'[h] = locks[h]
      BY <1>1, <1>6, <2>1, <2>2 DEF OpenOffersFree, OpenOffers,
                                    FiledUnderBlocks
    <2>3. CASE /\ locks[h] = None /\ h \notin blocks
               /\ receivables' = receivables
      BY <2>3 DEF FiledUnderBlocks
    <2>4. QED
      BY <1>5, <2>1, <2>2, <2>3
  <1>11. NoneUnissued'
    <2>1. TokensTyped /\ None \notin TransferPolicy
      BY ConstantsAssumption DEF TypeOK
    <2>2. ASSUME NEW t, Issued(t) PROVE NoneUnissued'
      BY <2>1, <2>2 DEF Issued, NoneUnissued, TokensTyped
    <2>3. ASSUME NEW t, NEW n, Created(t, n) \/ Destroyed(t, n)
          PROVE  NoneUnissued'
      BY <2>1, <2>3 DEF Created, Destroyed, NoneUnissued, TokensTyped
    <2>4. CASE UNCHANGED <<transfer, maxSupply, circulating>>
      BY <2>4 DEF NoneUnissued
    <2>5. QED
      BY <2>2, <2>3, <2>4, SupplyStep
  <1>12. QED
    BY <1>7, <1>8, <1>9, <1>10, <1>11

\* Nothing on its way or on offer is empty, anonymous or unissued, and no open
\* offer shares its hash with something on its way.
THEOREM Supporting == Spec => []LedgerInv
  <1>1. QED
    BY InvInit, InvStep, TypeCorrect, PTL DEF Spec

-----------------------------------------------------------------------------
(* The properties.                                                         *)

\* The four indexes of the holdings never disagree, for any number of
\* accounts, tokens and blocks.
THEOREM IndexesAlwaysAgree == Spec => []IndexesAgree
  <1>1. Init => IndexesAgree
    BY DEF Init, IndexesAgree
  <1>2. TypeOK /\ LedgerInv /\ IndexesAgree /\ [Next]_vars => IndexesAgree'
    <2> SUFFICES ASSUME TypeOK, LedgerInv, IndexesAgree, [Next]_vars
                 PROVE  IndexesAgree'
      OBVIOUS
    <2>1. HoldingsTyped /\ PositiveAmounts
      BY DEF TypeOK, LedgerInv
    <2>2. CASE UNCHANGED holdingVars
      BY <2>2 DEF holdingVars, IndexesAgree
    <2>3. ASSUME NEW a, NEW t, NEW n, Credited(a, t, n) PROVE IndexesAgree'
      BY <2>1, <2>3 DEF Credited, CommitCredit, IndexesAgree, HoldingsTyped
    <2>4. ASSUME NEW a, NEW t, NEW n, Debited(a, t, n) PROVE IndexesAgree'
      BY <2>1, <2>4 DEF Debited, CommitDebit, RequireDebit, IndexesAgree,
                        HoldingsTyped
    <2>5. QED
      BY <2>1, <2>2, <2>3, <2>4, HoldingStep
  <1>3. QED
    BY <1>1, <1>2, TypeCorrect, Supporting, PTL DEF Spec

\* No chain of blocks brings an account over the per-account asset limit.
THEOREM AssetLimitHolds == Spec => []AssetLimit
  <1>1. Init => AssetLimit
    BY FS_EmptySet, ConstantsAssumption DEF Init, AssetLimit
  <1>2. TypeOK /\ LedgerInv /\ AssetLimit /\ [Next]_vars => AssetLimit'
    <2> SUFFICES ASSUME TypeOK, LedgerInv, AssetLimit, [Next]_vars
                 PROVE  AssetLimit'
      OBVIOUS
    <2>1. HoldingsTyped /\ PositiveAmounts
      BY DEF TypeOK, LedgerInv
    <2>2. IsFiniteSet(Token)
      BY FS_Subset, FS_Product, ConstantsAssumption DEF Token
    <2>3. \A a \in Accounts : IsFiniteSet(holdingsByAccount[a])
      BY <2>1, <2>2, FS_Subset DEF HoldingsTyped
    <2>4. \A a \in Accounts : Cardinality(holdingsByAccount[a]) \in Nat
      BY <2>3, FS_CardinalityType
    <2>5. CASE UNCHANGED holdingVars
      BY <2>5 DEF holdingVars, AssetLimit
    <2>6. ASSUME NEW a, NEW t, NEW n, Credited(a, t, n) PROVE AssetLimit'
      <3>1. holdingsByAccount' =
              [holdingsByAccount EXCEPT ![a] = holdingsByAccount[a] \cup {t}]
        BY <2>6 DEF Credited, CommitCredit
      <3>2. Cardinality(holdingsByAccount[a] \cup {t}) <= MaxAssets
        <4>1. CASE t \in holdingsByAccount[a]
          <5>1. holdingsByAccount[a] \cup {t} = holdingsByAccount[a]
            BY <4>1
          <5>2. QED
            BY <2>6, <5>1 DEF AssetLimit, Credited
        <4>2. CASE t \notin holdingsByAccount[a]
          <5>1. Cardinality(holdingsByAccount[a] \cup {t})
                  = Cardinality(holdingsByAccount[a]) + 1
            BY <2>3, <2>6, <4>2, FS_AddElement DEF Credited
          <5>2. Cardinality(holdingsByAccount[a]) < MaxAssets
            BY <2>6, <4>2 DEF Credited, RequireCredit
          <5>3. QED
            BY <2>4, <2>6, <5>1, <5>2, ConstantsAssumption DEF Credited
        <4>3. QED
          BY <4>1, <4>2
      <3>3. QED
        BY <2>1, <2>6, <3>1, <3>2 DEF AssetLimit, HoldingsTyped, Credited
    <2>7. ASSUME NEW a, NEW t, NEW n, Debited(a, t, n) PROVE AssetLimit'
      <3>1. ASSUME NEW c \in Accounts
            PROVE  holdingsByAccount'[c] \subseteq holdingsByAccount[c]
        BY <2>1, <2>7 DEF Debited, CommitDebit, HoldingsTyped
      <3>2. \A c \in Accounts :
              /\ Cardinality(holdingsByAccount'[c])
                   <= Cardinality(holdingsByAccount[c])
              /\ Cardinality(holdingsByAccount'[c]) \in Nat
        BY <2>3, <3>1, FS_Subset, FS_CardinalityType
      <3>3. QED
        BY <2>4, <3>2, ConstantsAssumption DEF AssetLimit
    <2>8. QED
      BY <2>1, <2>5, <2>6, <2>7, HoldingStep
  <1>3. QED
    BY <1>1, <1>2, TypeCorrect, Supporting, PTL DEF Spec

\* Whatever is on its way or on offer, the policy its issuer chose lets it be.
THEOREM PolicyHolds == Spec => []PolicyRespected
  <1> DEFINE ReceivablesPermitted ==
               \A h \in Hash : receivables[h] # None => Permitted(receivables[h])
             OffersPermitted == \A h \in OpenOffers : Offerable(locks[h])
             Inv == ReceivablesPermitted /\ OffersPermitted
  <1>1. Init => Inv
    BY DEF Init, OpenOffers
  <1>2. TypeOK /\ Inv /\ [Next]_vars => Inv'
    <2> SUFFICES ASSUME TypeOK, Inv, [Next]_vars PROVE Inv'
      OBVIOUS
    <2>1. \A t \in Token : transfer[t] # None => transfer'[t] = transfer[t]
      BY PolicyStep
    <2>2. /\ receivables \in [Hash -> Receivable \cup {None}]
          /\ locks \in [Hash -> Lock \cup {None}]
          /\ blocks \subseteq Hash
      BY DEF TypeOK, ReceivablesTyped, LocksTyped, ChainsTyped
    <2>3. ASSUME NEW r \in Receivable, Permitted(r) PROVE Permitted(r)'
      BY <2>1, <2>3 DEF Permitted, Receivable, Asset
    <2>4. ASSUME NEW l \in Lock, Offerable(l) PROVE Offerable(l)'
      <3>1. l.asset \in Asset /\ l.wantAsset \in Asset
        BY <2>4 DEF Lock
      <3>2. ASSUME NEW x \in {l.asset, l.wantAsset}, x # Kei
            PROVE  transfer'[x] = transfer[x]
        BY <2>1, <2>4, <3>1, <3>2, ConstantsAssumption
           DEF Offerable, Asset, TransferPolicy
      <3>3. QED
        BY <2>4, <3>2 DEF Offerable
    <2>5. ReceivablesPermitted'
      <3>1. ASSUME NEW h \in Hash, receivables'[h] # None
            PROVE  receivables'[h] \in Receivable /\ Permitted(receivables'[h])
        <4>1. CASE receivables' = receivables
          BY <2>2, <3>1, <4>1
        <4>2. ASSUME NEW g, NEW r, ReceivableAdded(g, r)
              PROVE  receivables'[h] \in Receivable /\ Permitted(receivables'[h])
          BY <2>2, <3>1, <4>2 DEF ReceivableAdded
        <4>3. ASSUME NEW g, ReceivableConsumed(g)
              PROVE  receivables'[h] \in Receivable /\ Permitted(receivables'[h])
          BY <2>2, <3>1, <4>3 DEF ReceivableConsumed
        <4>4. ASSUME NEW g, NEW r, NEW o, NEW q, BothLegsAdded(g, r, o, q)
              PROVE  receivables'[h] \in Receivable /\ Permitted(receivables'[h])
          BY <2>2, <3>1, <4>4 DEF BothLegsAdded
        <4>5. QED
          BY <4>1, <4>2, <4>3, <4>4, ReceivableStep
      <3>2. QED
        BY <2>3, <3>1
    <2>6. OffersPermitted'
      <3>1. ASSUME NEW h \in Hash, locks'[h] # None, locks'[h].state = "open"
            PROVE  locks'[h] \in Lock /\ Offerable(locks'[h])
        <4>1. CASE locks' = locks
          BY <2>2, <3>1, <4>1 DEF OpenOffers
        <4>2. ASSUME NEW g, NEW l, OfferAdded(g, l)
              PROVE  locks'[h] \in Lock /\ Offerable(locks'[h])
          BY <2>2, <3>1, <4>2 DEF OfferAdded, OpenOffers
        <4>3. ASSUME NEW g, NEW s, NEW a, OfferAccepted(g, s, a)
              PROVE  locks'[h] \in Lock /\ Offerable(locks'[h])
          BY <2>2, <3>1, <4>3 DEF OfferAccepted, OpenOffers, Lock
        <4>4. ASSUME NEW g, NEW s, OfferCancelled(g, s)
              PROVE  locks'[h] \in Lock /\ Offerable(locks'[h])
          BY <2>2, <3>1, <4>4 DEF OfferCancelled, OpenOffers, Lock
        <4>5. QED
          BY <4>1, <4>2, <4>3, <4>4, LockStep
      <3>2. QED
        BY <2>4, <3>1 DEF OpenOffers
    <2>7. QED
      BY <2>5, <2>6
  <1>3. Inv => PolicyRespected
    BY DEF PolicyRespected, Permitted, Offerable
  <1>4. QED
    BY <1>1, <1>2, <1>3, TypeCorrect, PTL DEF Spec

\* An accept and a cancel never both win an offer, and a settled offer is
\* final, for any number of accounts and offers.
THEOREM SettlementIsFinal == Spec => SettledOnce
  <1> DEFINE Stands(h) ==
        locks[h] # None =>
         /\ locks'[h] # None
         /\ locks[h].state # "open" => locks'[h] = locks[h]
         /\ locks'[h].state = "accepted" =>
              /\ locks'[h].acceptedBy \notin {locks[h].owner, None}
              /\ locks[h].counterparty \in {None, locks'[h].acceptedBy}
  <1> DEFINE Winner ==
        \A h \in Hash : locks[h] # None /\ locks[h].state = "accepted" =>
              /\ locks[h].acceptedBy \notin {locks[h].owner, None}
              /\ locks[h].counterparty \in {None, locks[h].acceptedBy}
  <1>1. Init => Winner
    BY DEF Init
  <1>2. TypeOK /\ LedgerInv /\ Winner /\ [Next]_vars
          => Winner' /\ \A h \in Hash : Stands(h)
    <2> SUFFICES ASSUME TypeOK, LedgerInv, Winner, [Next]_vars
                 PROVE  Winner' /\ \A h \in Hash : Stands(h)
      OBVIOUS
    <2>1. locks \in [Hash -> Lock \cup {None}] /\ None \notin Lock
      BY ConstantsAssumption DEF TypeOK, LocksTyped
    <2>2. CASE locks' = locks
      BY <2>2
    <2>3. ASSUME NEW g, NEW l, OfferAdded(g, l)
          PROVE  Winner' /\ \A h \in Hash : Stands(h)
      <3>1. locks[g] = None
        BY <2>3 DEF OfferAdded, LedgerInv, FiledUnderBlocks
      <3>2. QED
        BY <2>1, <2>3, <3>1 DEF OfferAdded
    <2>4. ASSUME NEW g, NEW s, NEW a, OfferAccepted(g, s, a)
          PROVE  Winner' /\ \A h \in Hash : Stands(h)
      <3>1. locks[g] \in Lock /\ a # None
        BY <2>1, <2>4, ConstantsAssumption DEF OfferAccepted
      <3>2. /\ locks'[g] # None /\ locks'[g].state = "accepted"
            /\ locks'[g].acceptedBy = a
            /\ locks'[g].owner = locks[g].owner
            /\ locks'[g].counterparty = locks[g].counterparty
        BY <2>1, <2>4, <3>1 DEF OfferAccepted, Lock
      <3>3. \A h \in Hash \ {g} : locks'[h] = locks[h]
        BY <2>1, <2>4 DEF OfferAccepted
      <3>4. a # locks[g].owner /\ locks[g].counterparty \in {None, a}
        BY <2>4 DEF OfferAccepted
      <3>5. locks[g].state = "open"
        BY <2>4 DEF OfferAccepted
      <3>6. Winner'
        BY <3>1, <3>2, <3>3, <3>4
      <3>7. QED
        BY <3>1, <3>2, <3>3, <3>4, <3>5, <3>6
    <2>5. ASSUME NEW g, NEW s, OfferCancelled(g, s)
          PROVE  Winner' /\ \A h \in Hash : Stands(h)
      <3>1. locks[g] \in Lock
        BY <2>1, <2>5 DEF OfferCancelled
      <3>2. locks'[g] # None /\ locks'[g].state = "cancelled"
        BY <2>1, <2>5, <3>1 DEF OfferCancelled, Lock
      <3>3. \A h \in Hash \ {g} : locks'[h] = locks[h]
        BY <2>1, <2>5 DEF OfferCancelled
      <3>4. locks[g].state = "open"
        BY <2>5 DEF OfferCancelled
      <3>5. QED
        BY <3>2, <3>3, <3>4
    <2>6. QED
      BY <2>2, <2>3, <2>4, <2>5, LockStep
  <1>3. QED
    BY <1>1, <1>2, TypeCorrect, Supporting, PTL DEF Spec, SettledOnce

-----------------------------------------------------------------------------
(* What is created, delivered and owned.                                   *)

\* Mints, claims and burns, each checking the headroom by itself, never take
\* the units in circulation over the cap.
THEOREM SupplyStaysCapped == Spec => []SupplyCapped
  <1>1. Init => SupplyCapped
    BY DEF Init, SupplyCapped
  <1>2. TypeOK /\ SupplyCapped /\ [Next]_vars => SupplyCapped'
    <2> SUFFICES ASSUME TypeOK, SupplyCapped, [Next]_vars PROVE SupplyCapped'
      OBVIOUS
    <2>1. TokensTyped /\ None \notin Nat
      BY ConstantsAssumption DEF TypeOK
    <2>2. CASE UNCHANGED <<transfer, maxSupply, circulating>>
      BY <2>2 DEF SupplyCapped
    <2>3. ASSUME NEW t, Issued(t) PROVE SupplyCapped'
      BY <2>1, <2>3 DEF Issued, SupplyCapped, TokensTyped
    <2>4. ASSUME NEW t, NEW n, Created(t, n) PROVE SupplyCapped'
      BY <2>1, <2>4 DEF Created, RequireHeadroom, SupplyCapped, TokensTyped
    <2>5. ASSUME NEW t, NEW n, Destroyed(t, n) PROVE SupplyCapped'
      BY <2>1, <2>5 DEF Destroyed, SupplyCapped, TokensTyped
    <2>6. QED
      BY <2>2, <2>3, <2>4, <2>5, SupplyStep
  <1>3. QED
    BY <1>1, <1>2, TypeCorrect, PTL DEF Spec

\* Nothing comes into circulation but by a mint of the issuer or by a first
\* claim of a committed leaf.
THEOREM CreationIsAccounted == Spec => CreatedOnlyByMintOrClaim
  <1> DEFINE Creation(t) ==
        circulating'[t] > circulating[t] =>
          \/ \E h \in Hash :
               /\ receivables[h] = None /\ receivables'[h] # None
               /\ receivables'[h].from = IssuerOf(t)
               /\ receivables'[h].asset = t
               /\ receivables'[h].amount = circulating'[t] - circulating[t]
          \/ \E a \in Accounts, r \in Roots :
               /\ claimed' = claimed \cup {<<a, r>>}
               /\ <<a, r>> \notin claimed
               /\ [account |-> a, asset |-> t,
                   amount |-> circulating'[t] - circulating[t]] \in Entitled[r]
               /\ commits[r] # None /\ ~commits[r].closed
               /\ commits[r].issuer = IssuerOf(t)
  <1>1. TypeOK /\ LedgerInv /\ [Next]_vars => \A t \in Token : Creation(t)
    <2> SUFFICES ASSUME TypeOK, LedgerInv, [Next]_vars, NEW t \in Token
                 PROVE  Creation(t)
      OBVIOUS
    <2>1. /\ circulating \in [Token -> Int]
          /\ None \notin Receivable
          /\ \A h \in Hash \ blocks : receivables[h] = None
      BY ConstantsAssumption DEF TypeOK, TokensTyped, LedgerInv,
                                 FiledUnderBlocks
    <2>2. CASE UNCHANGED <<transfer, maxSupply, circulating>>
      BY <2>1, <2>2
    <2>3. ASSUME NEW u, Issued(u) PROVE Creation(t)
      <3>1. circulating[u] = 0
        BY <2>3 DEF Issued, LedgerInv, NoneUnissued
      <3>2. circulating'[t] = circulating[t]
        BY <2>1, <2>3, <3>1 DEF Issued
      <3>3. QED
        BY <2>1, <3>2
    <2>4. ASSUME NEW u, NEW n, Destroyed(u, n) PROVE Creation(t)
      BY <2>1, <2>4 DEF Destroyed
    <2>5. ASSUME NEW u, NEW n, Created(u, n),
                 \/ \E h : Minted(h, u, n)
                 \/ \E a, r : Claimed(a, r, u, n)
          PROVE  Creation(t)
      <3>1. CASE t # u
        BY <2>1, <2>5, <3>1 DEF Created
      <3>2. CASE t = u
        <4>1. circulating'[t] - circulating[t] = n
          BY <2>1, <2>5, <3>2 DEF Created
        <4>2. CASE \E h : Minted(h, u, n)
          BY <2>1, <3>2, <4>1, <4>2 DEF Minted
        <4>3. CASE \E a, r : Claimed(a, r, u, n)
          BY <3>2, <4>1, <4>3 DEF Claimed
        <4>4. QED
          BY <2>5, <4>2, <4>3
      <3>3. QED
        BY <3>1, <3>2
    <2>6. QED
      BY <2>2, <2>3, <2>4, <2>5, SupplyStep
  <1>2. QED
    BY <1>1, TypeCorrect, Supporting, PTL DEF Spec, CreatedOnlyByMintOrClaim

\* What is on its way is never lost, replaced or paid to somebody else.
THEOREM ReceivablesAreDelivered == Spec => ReceivablesReachTheirOwner
  <1> DEFINE Delivered(h) ==
        receivables[h] # None /\ receivables'[h] # receivables[h] =>
          /\ receivables' = [receivables EXCEPT ![h] = None]
          /\ IF receivables[h].asset = Kei
             THEN balance' = [balance EXCEPT ![receivables[h].to] =
                                @ + receivables[h].amount]
             ELSE holdings' = [holdings EXCEPT
                                 ![receivables[h].to][receivables[h].asset] =
                                     @ + receivables[h].amount]
  <1>1. TypeOK /\ LedgerInv /\ [Next]_vars => \A h \in Hash : Delivered(h)
    <2> SUFFICES ASSUME TypeOK, LedgerInv, [Next]_vars, NEW h \in Hash,
                        receivables[h] # None, receivables'[h] # receivables[h]
                 PROVE  Delivered(h)
      OBVIOUS
    <2>1. /\ receivables \in [Hash -> Receivable \cup {None}]
          /\ blocks \subseteq Hash /\ h \in blocks
      BY DEF TypeOK, ReceivablesTyped, ChainsTyped, LedgerInv,
             FiledUnderBlocks
    <2>2. ASSUME NEW g, NEW r, ReceivableAdded(g, r) PROVE FALSE
      BY <2>1, <2>2 DEF ReceivableAdded
    <2>3. ASSUME NEW g, NEW r, NEW o, NEW q, BothLegsAdded(g, r, o, q)
          PROVE  FALSE
      <3>1. receivables[o] = None /\ o \in Hash
        BY <2>1, <2>3 DEF BothLegsAdded, LedgerInv, OpenOffersFree, OpenOffers
      <3>2. QED
        BY <2>1, <2>3, <3>1 DEF BothLegsAdded
    <2>4. ASSUME NEW g, ReceivableConsumed(g) PROVE Delivered(h)
      <3>1. g = h
        BY <2>1, <2>4 DEF ReceivableConsumed
      <3>2. QED
        BY <2>4, <3>1 DEF ReceivableConsumed
    <2>5. QED
      BY <2>2, <2>3, <2>4, ReceivableStep
  <1>2. QED
    BY <1>1, TypeCorrect, Supporting, PTL DEF Spec, ReceivablesReachTheirOwner

\* Closing a root is final, and so is a claim.
THEOREM ClosingIsFinal == Spec => DropsAreFinal
  <1> DEFINE Final ==
        /\ claimed \subseteq claimed'
        /\ \A r \in Roots : commits[r] # None =>
             /\ commits'[r] # None
             /\ commits'[r].issuer = commits[r].issuer
             /\ commits'[r].asset = commits[r].asset
             /\ commits[r].closed =>
                  /\ commits'[r].closed
                  /\ \A a \in Accounts :
                       <<a, r>> \in claimed' => <<a, r>> \in claimed
  <1>1. TypeOK /\ [Next]_vars => Final
    <2> SUFFICES ASSUME TypeOK, [Next]_vars PROVE Final
      OBVIOUS
    <2>1. commits \in [Roots -> Commit \cup {None}] /\ None \notin Commit
      BY ConstantsAssumption DEF TypeOK, DropsTyped
    <2>2. ASSUME NEW a \in Accounts, ProcessCommit(a) PROVE Final
      <3>1. PICK b \in Signable(a, "commit", CommitOps) :
                   Process(b) /\ PublishCommit(b)
        BY <2>2 DEF ProcessCommit
      <3>2. b.op \in CommitOps
        BY SignableBlock DEF TypeOK
      <3>3. QED
        BY <2>1, <3>1, <3>2 DEF PublishCommit, CommitOps
    <2>3. ASSUME NEW a \in Accounts, ProcessCommitClose(a) PROVE Final
      <3>1. PICK b \in Signable(a, "commit_close", CommitCloseOps) :
                   Process(b) /\ CommitClose(b)
        BY <2>3 DEF ProcessCommitClose
      <3>2. b.op \in CommitCloseOps
        BY SignableBlock DEF TypeOK
      <3>3. QED
        BY <2>1, <3>1, <3>2 DEF CommitClose, CommitCloseOps, Commit
    <2>4. ASSUME NEW a \in Accounts, ProcessClaim(a) PROVE Final
      <3>1. PICK b \in Signable(a, "claim", ClaimOps) : Process(b) /\ Claim(b)
        BY <2>4 DEF ProcessClaim
      <3>2. QED
        BY <2>1, <3>1 DEF Claim, RequireRootOpen
    <2>5. ASSUME NEW a \in Accounts,
                 \/ ProcessSend(a) \/ ProcessReceive(a) \/ ProcessChange(a)
                 \/ ProcessIssue(a) \/ ProcessMint(a) \/ ProcessBurn(a)
                 \/ ProcessTransfer(a) \/ ProcessAssetReceive(a)
                 \/ ProcessSwapOffer(a) \/ ProcessSwapAccept(a)
                 \/ ProcessSwapCancel(a)
          PROVE  UNCHANGED dropVars
      BY <2>5 DEF ProcessSend, ProcessReceive, ProcessChange, ProcessIssue,
                  ProcessMint, ProcessBurn, ProcessTransfer,
                  ProcessAssetReceive, ProcessSwapOffer, ProcessSwapAccept,
                  ProcessSwapCancel, Send, Receive, Change, Issue, Mint,
                  Burn, Transfer, AssetReceive, SwapOffer, SwapAccept,
                  SwapCancel
    <2>6. UNCHANGED dropVars => Final
      BY DEF dropVars
    <2>7. CASE UNCHANGED vars
      BY <2>6, <2>7 DEF vars, dropVars
    <2>8. QED
      BY <2>2, <2>3, <2>4, <2>5, <2>6, <2>7 DEF Next
  <1>2. QED
    BY <1>1, TypeCorrect, PTL DEF Spec, DropsAreFinal

-----------------------------------------------------------------------------
(* Every block as a flow of units: between what accounts can spend, what   *)
(* is on its way, what offers hold and what circulates.                    *)

Stock == [a \in Accounts |-> [x \in Asset |-> Spendable(a, x)]]

Moved(a, x, n) == Stock' = [Stock EXCEPT ![a][x] = @ + n]

\* An account pays out what is then on its way: a send and a transfer.
Paying(a, h, r) ==
    /\ a \in Accounts /\ h \in Hash /\ r \in Receivable
    /\ r.from = a /\ r.amount > 0 /\ Stock[a][r.asset] >= r.amount
    /\ receivables[h] = None
    /\ Moved(a, r.asset, -r.amount)
    /\ receivables' = [receivables EXCEPT ![h] = r]
    /\ UNCHANGED <<locks, circulating, issuedByAccount>>

\* What is on its way arrives: a receive, of Kei or of a token.
Collecting(h) ==
    /\ h \in Hash /\ receivables[h] # None
    /\ Moved(receivables[h].to, receivables[h].asset, receivables[h].amount)
    /\ receivables' = [receivables EXCEPT ![h] = None]
    /\ UNCHANGED <<locks, circulating, issuedByAccount>>

\* The nth issuance of an account burns n Kei.
Issuing(a) ==
    /\ a \in Accounts
    /\ Stock[a][Kei] >= issuedByAccount[a] + 1
    /\ Moved(a, Kei, -(issuedByAccount[a] + 1))
    /\ issuedByAccount' = [issuedByAccount EXCEPT ![a] = @ + 1]
    /\ UNCHANGED <<receivables, locks, circulating>>

\* Units come into circulation on their way to somebody: a mint.
Minting(h, r) ==
    /\ h \in Hash /\ r \in Receivable
    /\ r.asset # Kei /\ r.amount > 0
    /\ receivables[h] = None
    /\ receivables' = [receivables EXCEPT ![h] = r]
    /\ circulating' = [circulating EXCEPT ![r.asset] = @ + r.amount]
    /\ UNCHANGED <<Stock, locks, issuedByAccount>>

\* Units come into circulation in somebody's hands: a claim.
Claiming(a, t, n) ==
    /\ a \in Accounts /\ t \in Token /\ n \in Nat /\ n > 0
    /\ Moved(a, t, n)
    /\ circulating' = [circulating EXCEPT ![t] = @ + n]
    /\ UNCHANGED <<receivables, locks, issuedByAccount>>

Burning(a, t, n) ==
    /\ a \in Accounts /\ t \in Token /\ n \in Nat /\ n > 0
    /\ Stock[a][t] >= n
    /\ Moved(a, t, -n)
    /\ circulating' = [circulating EXCEPT ![t] = @ - n]
    /\ UNCHANGED <<receivables, locks, issuedByAccount>>

Offering(h, l) ==
    /\ h \in Hash /\ l \in Lock /\ locks[h] = None
    /\ l.state = "open" /\ l.acceptedBy = None
    /\ l.amount > 0 /\ l.wantAmount > 0
    /\ Stock[l.owner][l.asset] >= l.amount
    /\ Moved(l.owner, l.asset, -l.amount)
    /\ locks' = [locks EXCEPT ![h] = l]
    /\ UNCHANGED <<receivables, circulating, issuedByAccount>>

\* The two legs of an accepted offer go on their way together: the payment
\* under the accept's own hash, what was locked under the offer's.
Payment(h, a) == ReceivableOf(a, locks[h].owner, locks[h].wantAsset, locks[h].wantAmount)
Delivery(h, a) == ReceivableOf(locks[h].owner, a, locks[h].asset, locks[h].amount)

Accepting(h, s, a) ==
    /\ h \in Hash /\ s \in Hash /\ a \in Accounts
    /\ locks[h] # None /\ locks[h].state = "open"
    /\ a # locks[h].owner /\ locks[h].counterparty \in {None, a}
    /\ Stock[a][locks[h].wantAsset] >= locks[h].wantAmount
    /\ h # s /\ receivables[h] = None /\ receivables[s] = None
    /\ Moved(a, locks[h].wantAsset, -locks[h].wantAmount)
    /\ receivables' = [receivables EXCEPT ![s] = Payment(h, a), ![h] = Delivery(h, a)]
    /\ locks' = [locks EXCEPT ![h] =
           [@ EXCEPT !.state = "accepted", !.acceptedBy = a, !.settledBy = s]]
    /\ UNCHANGED <<circulating, issuedByAccount>>

Cancelling(h, s) ==
    /\ h \in Hash /\ s \in Hash
    /\ locks[h] # None /\ locks[h].state = "open"
    /\ Moved(locks[h].owner, locks[h].asset, locks[h].amount)
    /\ locks' = [locks EXCEPT ![h] = [@ EXCEPT !.state = "cancelled", !.settledBy = s]]
    /\ UNCHANGED <<receivables, circulating, issuedByAccount>>

Flow ==
    \/ UNCHANGED <<Stock, receivables, locks, circulating, issuedByAccount>>
    \/ \E a, h, r : Paying(a, h, r)
    \/ \E h : Collecting(h)
    \/ \E a : Issuing(a)
    \/ \E h, r : Minting(h, r)
    \/ \E a, t, n : Claiming(a, t, n) \/ Burning(a, t, n)
    \/ \E h, l : Offering(h, l)
    \/ \E h, s, a : Accepting(h, s, a)
    \/ \E h, s : Cancelling(h, s)

LEMMA StockType ==
    ASSUME TypeOK
    PROVE  /\ Stock \in [Accounts -> [Asset -> Nat]]
           /\ \A a \in Accounts : Stock[a][Kei] = balance[a]
           /\ \A a \in Accounts, t \in Token : Stock[a][t] = holdings[a][t]
  BY ConstantsAssumption
     DEF Stock, Spendable, Asset, TypeOK, ChainsTyped, HoldingsTyped

\* The Kei of one account changes, and no holdings.
LEMMA KeiMoves ==
    ASSUME TypeOK, NEW a \in Accounts, NEW n \in Int,
           balance' = [balance EXCEPT ![a] = @ + n], holdings' = holdings
    PROVE  Moved(a, Kei, n)
  <1>1. Kei \notin Token /\ Kei \in Asset
    BY ConstantsAssumption DEF Asset
  <1>2. ASSUME NEW c \in Accounts, NEW x \in Asset
        PROVE  Stock'[c][x] = [Stock EXCEPT ![a][Kei] = @ + n][c][x]
    <2>1. CASE x = Kei
      BY <1>1, <2>1, StockType DEF Stock, Spendable, TypeOK, ChainsTyped
    <2>2. CASE x # Kei
      BY <1>1, <2>2, StockType DEF Stock, Spendable
    <2>3. QED
      BY <2>1, <2>2
  <1>3. QED
    BY <1>2, StockType DEF Moved, Stock

\* The holdings of one token of one account change, and no Kei.
LEMMA TokensMove ==
    ASSUME TypeOK, NEW a \in Accounts, NEW t \in Token, NEW n \in Int,
           holdings' = [holdings EXCEPT ![a][t] = @ + n], balance' = balance
    PROVE  Moved(a, t, n)
  <1>1. Kei \notin Token /\ t \in Asset
    BY ConstantsAssumption DEF Asset
  <1>2. ASSUME NEW c \in Accounts, NEW x \in Asset
        PROVE  Stock'[c][x] = [Stock EXCEPT ![a][t] = @ + n][c][x]
    <2>1. CASE x = Kei
      BY <1>1, <2>1, StockType DEF Stock, Spendable
    <2>2. CASE x # Kei
      <3>1. x \in Token
        BY <2>2 DEF Asset
      <3>2. QED
        BY <1>1, <2>2, <3>1, StockType
           DEF Stock, Spendable, TypeOK, HoldingsTyped
    <2>3. QED
      BY <2>1, <2>2
  <1>3. QED
    BY <1>2, StockType DEF Moved, Stock

LEMMA NothingMoves ==
    ASSUME UNCHANGED <<balance, holdings>>
    PROVE  UNCHANGED Stock
  BY DEF Stock, Spendable

LEMMA Delta ==
    ASSUME TypeOK, NEW b, b.account \in Accounts, Process(b), NEW n \in Int, RequireDelta(b, n)
    PROVE  /\ balance' = [balance EXCEPT ![b.account] = @ + n]
           /\ n = 0 => balance' = balance
  BY DEF Process, CommitBlock, RequireDelta, TypeOK, ChainsTyped

LEMMA PaidOut ==
    ASSUME TypeOK, NEW b, b.account \in Accounts, Process(b), NEW x \in Asset,
           NEW n \in Nat, PayOut(b, x, n)
    PROVE  /\ Stock[b.account][x] >= n
           /\ Moved(b.account, x, -n)
  <1>1. CASE x = Kei
    BY <1>1, Delta, KeiMoves, StockType DEF PayOut, holdingVars
  <1>2. CASE x # Kei
    <2>1. /\ x \in Token /\ RequireDelta(b, 0) /\ holdings[b.account][x] >= n
          /\ holdings' = [holdings EXCEPT ![b.account][x] = @ - n]
      BY <1>2 DEF PayOut, Asset, RequireDebit, CommitDebit
    <2>2. holdings' = [holdings EXCEPT ![b.account][x] = @ + (-n)]
      BY <2>1 DEF TypeOK, HoldingsTyped
    <2>3. balance' = balance
      BY <2>1, Delta
    <2>4. Moved(b.account, x, -n)
      BY <2>1, <2>2, <2>3, TokensMove, -n \in Int
    <2>5. QED
      BY <2>1, <2>4, StockType
  <1>3. QED
    BY <1>1, <1>2

\* Every block is one of the flows.
LEMMA FlowStep ==
    ASSUME TypeOK, LedgerInv, [Next]_vars
    PROVE  Flow
  <1> USE ConstantsAssumption
  <1>1. ASSUME NEW a \in Accounts, ProcessSend(a) PROVE Flow
    <2>1. PICK b \in Signable(a, "send", SendOps) : Process(b) /\ Send(b)
      BY <1>1 DEF ProcessSend
    <2>2. /\ b.account = a /\ b.hash \in Hash /\ b.balance \in Nat
          /\ b.op \in SendOps
      BY SignableBlock DEF TypeOK
    <2> DEFINE n == balance[a] - b.balance
               r == ReceivableOf(a, b.op.to, Kei, n)
    <2>3. n \in Nat /\ n > 0 /\ balance[a] >= n /\ -n \in Int
      BY <2>1, <2>2 DEF Send, TypeOK, ChainsTyped
    <2>4. r \in Receivable /\ r.amount = n /\ r.asset = Kei /\ r.from = a
      <3>1. b.op.to \in Accounts /\ Kei \in Asset
        BY <2>2 DEF SendOps, Asset
      <3>2. QED
        BY <2>3, <3>1, ReceivableTyped DEF ReceivableOf
    <2>5. receivables' = [receivables EXCEPT ![b.hash] = r]
      BY <2>1, <2>2 DEF Send, CreateReceivable
    <2>6. receivables[b.hash] = None
      BY <2>1, <2>2 DEF Process, Envelope, LedgerInv, FiledUnderBlocks
    <2>7. balance' = [balance EXCEPT ![a] = @ + (-n)] /\ holdings' = holdings
      <3>1. balance[a] + (-n) = b.balance
        BY <2>2 DEF TypeOK, ChainsTyped
      <3>2. QED
        BY <2>1, <2>2, <3>1 DEF Send, Process, CommitBlock, holdingVars
    <2>8. Moved(a, Kei, -n)
      BY <2>3, <2>7, KeiMoves
    <2>9. UNCHANGED <<locks, circulating, issuedByAccount>>
      BY <2>1 DEF Send, assetVars
    <2>10. Paying(a, b.hash, r)
      BY <2>2, <2>3, <2>4, <2>5, <2>6, <2>8, <2>9, StockType DEF Paying
    <2>11. QED
      BY <2>10 DEF Flow
  <1>2. ASSUME NEW a \in Accounts, ProcessReceive(a) PROVE Flow
    <2>1. PICK b \in Signable(a, "receive", ReceiveOps) :
                 Process(b) /\ Receive(b)
      BY <1>2 DEF ProcessReceive
    <2>2. b.account = a /\ b.op \in ReceiveOps
      BY SignableBlock DEF TypeOK
    <2>3. b.op.link \in Hash
      BY <2>2 DEF ReceiveOps, TypeOK, ChainsTyped
    <2> DEFINE r == receivables[b.op.link]
    <2>4. r # None /\ r.to = a /\ r.asset = Kei /\ RequireDelta(b, r.amount)
      BY <2>1, <2>2 DEF Receive, RequireReceivable
    <2>5. r.amount \in Int
      BY <2>3, <2>4 DEF TypeOK, ReceivablesTyped, Receivable
    <2>6. balance' = [balance EXCEPT ![a] = @ + r.amount]
      BY <2>1, <2>2, <2>4, <2>5, Delta
    <2>7. /\ holdings' = holdings
          /\ receivables' = [receivables EXCEPT ![b.op.link] = None]
          /\ UNCHANGED <<locks, circulating, issuedByAccount>>
      BY <2>1 DEF Receive, ConsumeReceivable, holdingVars, assetVars
    <2>8. Moved(a, Kei, r.amount)
      BY <2>5, <2>6, <2>7, KeiMoves
    <2>9. Collecting(b.op.link)
      BY <2>3, <2>4, <2>7, <2>8 DEF Collecting
    <2>10. QED
      BY <2>9 DEF Flow
  <1>3. ASSUME NEW a \in Accounts, ProcessChange(a) PROVE Flow
    <2>1. PICK b \in Signable(a, "change", ChangeOps) : Process(b) /\ Change(b)
      BY <1>3 DEF ProcessChange
    <2>2. b.account = a
      BY SignableBlock DEF TypeOK
    <2>3. balance' = balance
      BY <2>1, <2>2, Delta DEF Change
    <2>4. UNCHANGED <<holdings, receivables, locks, circulating, issuedByAccount>>
      BY <2>1 DEF Change, holdingVars, assetVars
    <2>5. QED
      BY <2>3, <2>4, NothingMoves DEF Flow
  <1>4. ASSUME NEW a \in Accounts, ProcessIssue(a) PROVE Flow
    <2>1. PICK b \in Signable(a, "issue", IssueOps) : Process(b) /\ Issue(b)
      BY <1>4 DEF ProcessIssue
    <2>2. b.account = a
      BY SignableBlock DEF TypeOK
    <2> DEFINE t == <<a, b.op.symbol>>
               n == issuedByAccount[a] + 1
    <2>3. n \in Nat /\ -n \in Int
      BY DEF TypeOK, TokensTyped
    <2>4. /\ balance[a] >= n /\ RequireDelta(b, -n)
          /\ t \in Token /\ transfer[t] = None
          /\ circulating' = [circulating EXCEPT ![t] = 0]
          /\ issuedByAccount' = [issuedByAccount EXCEPT ![a] = n]
          /\ UNCHANGED <<holdings, receivables, locks>>
      BY <2>1, <2>2 DEF Issue, IssuanceBurn, holdingVars
    <2>5. circulating' = circulating
      BY <2>4 DEF TypeOK, TokensTyped, LedgerInv, NoneUnissued
    <2>6. Moved(a, Kei, -n)
      BY <2>1, <2>2, <2>3, <2>4, Delta, KeiMoves
    <2>7. Issuing(a)
      BY <2>4, <2>5, <2>6, StockType DEF Issuing
    <2>8. QED
      BY <2>7 DEF Flow
  <1>5. ASSUME NEW a \in Accounts, ProcessMint(a) PROVE Flow
    <2>1. PICK b \in Signable(a, "mint", MintOps) : Process(b) /\ Mint(b)
      BY <1>5 DEF ProcessMint
    <2>2. b.account = a /\ b.hash \in Hash /\ b.op \in MintOps
      BY SignableBlock DEF TypeOK
    <2>3. /\ b.op.to \in Accounts /\ b.op.asset \in Token
          /\ b.op.amount \in Nat
      BY <2>2 DEF MintOps
    <2> DEFINE r == ReceivableOf(a, b.op.to, b.op.asset, b.op.amount)
    <2>4. r \in Receivable /\ r.asset = b.op.asset /\ r.amount = b.op.amount
      BY <2>3, ReceivableTyped DEF Asset, ReceivableOf
    <2>5. /\ RequireDelta(b, 0) /\ b.op.amount > 0
          /\ circulating' = [circulating EXCEPT ![r.asset] = @ + r.amount]
          /\ receivables' = [receivables EXCEPT ![b.hash] = r]
          /\ UNCHANGED <<holdings, locks, issuedByAccount>>
      BY <2>1, <2>2, <2>4 DEF Mint, RequirePositive, CreateReceivable, holdingVars
    <2>6. receivables[b.hash] = None
      BY <2>1, <2>2 DEF Process, Envelope, LedgerInv, FiledUnderBlocks
    <2>7. UNCHANGED Stock
      BY <2>1, <2>2, <2>5, Delta, NothingMoves
    <2>8. Minting(b.hash, r)
      BY <2>2, <2>3, <2>4, <2>5, <2>6, <2>7 DEF Minting
    <2>9. QED
      BY <2>8 DEF Flow
  <1>6. ASSUME NEW a \in Accounts, ProcessBurn(a) PROVE Flow
    <2>1. PICK b \in Signable(a, "burn", BurnOps) : Process(b) /\ Burn(b)
      BY <1>6 DEF ProcessBurn
    <2>2. b.account = a /\ b.op \in BurnOps
      BY SignableBlock DEF TypeOK
    <2> DEFINE t == b.op.asset
               n == b.op.amount
    <2>3. t \in Token /\ n \in Nat /\ -n \in Int
      <3>1. t \in Token /\ n \in Nat
        BY <2>2 DEF BurnOps
      <3>2. QED
        BY <3>1
    <2>4. /\ RequireDelta(b, 0) /\ n > 0 /\ holdings[a][t] >= n
          /\ holdings' = [holdings EXCEPT ![a][t] = @ - n]
          /\ circulating' = [circulating EXCEPT ![t] = @ - n]
          /\ UNCHANGED <<receivables, locks, issuedByAccount>>
      BY <2>1, <2>2 DEF Burn, RequirePositive, RequireDebit, CommitDebit
    <2>5. holdings' = [holdings EXCEPT ![a][t] = @ + (-n)]
      BY <2>3, <2>4 DEF TypeOK, HoldingsTyped
    <2>6. Moved(a, t, -n)
      <3>1. balance' = balance
        BY <2>1, <2>2, <2>4, Delta
      <3>2. QED
        BY <2>3, <2>5, <3>1, TokensMove
    <2>7. Burning(a, t, n)
      BY <2>3, <2>4, <2>6, StockType DEF Burning
    <2>8. QED
      BY <2>7 DEF Flow
  <1>7. ASSUME NEW a \in Accounts, ProcessTransfer(a) PROVE Flow
    <2>1. PICK b \in Signable(a, "transfer", TransferOps) :
                 Process(b) /\ Transfer(b)
      BY <1>7 DEF ProcessTransfer
    <2>2. b.account = a /\ b.hash \in Hash /\ b.op \in TransferOps
      BY SignableBlock DEF TypeOK
    <2> DEFINE t == b.op.asset
               n == b.op.amount
               r == ReceivableOf(a, b.op.to, t, n)
    <2>3. /\ b.op.to \in Accounts /\ t \in Token /\ n \in Nat /\ -n \in Int
      <3>1. b.op.to \in Accounts /\ t \in Token /\ n \in Nat
        BY <2>2 DEF TransferOps
      <3>2. QED
        BY <3>1
    <2>4. r \in Receivable /\ r.asset = t /\ r.amount = n /\ r.from = a
      BY <2>3, ReceivableTyped DEF Asset, ReceivableOf
    <2>5. /\ RequireDelta(b, 0) /\ n > 0 /\ holdings[a][t] >= n
          /\ holdings' = [holdings EXCEPT ![a][t] = @ - n]
          /\ receivables' = [receivables EXCEPT ![b.hash] = r]
          /\ UNCHANGED <<locks, circulating, issuedByAccount>>
      BY <2>1, <2>2 DEF Transfer, RequirePositive, RequireDebit, CommitDebit,
                        CreateReceivable, assetVars
    <2>6. holdings' = [holdings EXCEPT ![a][t] = @ + (-n)]
      BY <2>3, <2>5 DEF TypeOK, HoldingsTyped
    <2>7. Moved(a, t, -n)
      <3>1. balance' = balance
        BY <2>1, <2>2, <2>5, Delta
      <3>2. QED
        BY <2>3, <2>6, <3>1, TokensMove
    <2>8. receivables[b.hash] = None
      BY <2>1, <2>2 DEF Process, Envelope, LedgerInv, FiledUnderBlocks
    <2>9. Paying(a, b.hash, r)
      BY <2>2, <2>3, <2>4, <2>5, <2>7, <2>8, StockType DEF Paying
    <2>10. QED
      BY <2>9 DEF Flow
  <1>8. ASSUME NEW a \in Accounts, ProcessAssetReceive(a) PROVE Flow
    <2>1. PICK b \in Signable(a, "asset_receive", AssetReceiveOps) :
                 Process(b) /\ AssetReceive(b)
      BY <1>8 DEF ProcessAssetReceive
    <2>2. b.account = a /\ b.op \in AssetReceiveOps
      BY SignableBlock DEF TypeOK
    <2>3. b.op.link \in Hash
      BY <2>2 DEF AssetReceiveOps, TypeOK, ChainsTyped
    <2> DEFINE r == receivables[b.op.link]
    <2>4. r # None /\ r.to = a /\ r.asset # Kei /\ RequireDelta(b, 0)
      BY <2>1, <2>2 DEF AssetReceive, RequireReceivable
    <2>5. r.asset \in Token /\ r.amount \in Int
      BY <2>3, <2>4 DEF TypeOK, ReceivablesTyped, Receivable, Asset
    <2>6. /\ holdings' = [holdings EXCEPT ![a][r.asset] = @ + r.amount]
          /\ receivables' = [receivables EXCEPT ![b.op.link] = None]
          /\ UNCHANGED <<locks, circulating, issuedByAccount>>
      BY <2>1, <2>2 DEF AssetReceive, ConsumeReceivable, CommitCredit, assetVars
    <2>7. balance' = balance
      BY <2>1, <2>2, <2>4, Delta
    <2>8. Moved(a, r.asset, r.amount)
      BY <2>5, <2>6, <2>7, TokensMove
    <2>9. Collecting(b.op.link)
      BY <2>3, <2>4, <2>6, <2>8 DEF Collecting
    <2>10. QED
      BY <2>9 DEF Flow
  <1>9. ASSUME NEW a \in Accounts, ProcessCommit(a) \/ ProcessCommitClose(a)
        PROVE  Flow
    <2>1. PICK b : /\ b.account = a /\ Process(b) /\ RequireDelta(b, 0)
                   /\ UNCHANGED <<holdings, receivables, locks, circulating,
                                  issuedByAccount>>
      <3>1. CASE ProcessCommit(a)
        BY <3>1, SignableBlock
           DEF ProcessCommit, PublishCommit, TypeOK, holdingVars, assetVars
      <3>2. CASE ProcessCommitClose(a)
        BY <3>2, SignableBlock
           DEF ProcessCommitClose, CommitClose, TypeOK, holdingVars, assetVars
      <3>3. QED
        BY <1>9, <3>1, <3>2
    <2>2. balance' = balance
      BY <2>1, Delta
    <2>3. QED
      BY <2>1, <2>2, NothingMoves DEF Flow
  <1>10. ASSUME NEW a \in Accounts, ProcessClaim(a) PROVE Flow
    <2>1. PICK b \in Signable(a, "claim", ClaimOps) : Process(b) /\ Claim(b)
      BY <1>10 DEF ProcessClaim
    <2>2. b.account = a /\ b.op \in ClaimOps
      BY SignableBlock DEF TypeOK
    <2> DEFINE t == b.op.asset
               n == b.op.amount
    <2>3. t \in Token /\ n \in Nat /\ n \in Int
      <3>1. t \in Token /\ n \in Nat
        BY <2>2 DEF ClaimOps
      <3>2. QED
        BY <3>1
    <2>4. /\ RequireDelta(b, 0) /\ n > 0
          /\ holdings' = [holdings EXCEPT ![a][t] = @ + n]
          /\ circulating' = [circulating EXCEPT ![t] = @ + n]
          /\ UNCHANGED <<receivables, locks, issuedByAccount>>
      BY <2>1, <2>2 DEF Claim, RequirePositive, CommitCredit
    <2>5. Moved(a, t, n)
      <3>1. balance' = balance
        BY <2>1, <2>2, <2>4, Delta
      <3>2. QED
        BY <2>3, <2>4, <3>1, TokensMove
    <2>6. Claiming(a, t, n)
      BY <2>3, <2>4, <2>5 DEF Claiming
    <2>7. QED
      BY <2>6 DEF Flow
  <1>11. ASSUME NEW a \in Accounts, ProcessSwapOffer(a) PROVE Flow
    <2>1. PICK b \in Signable(a, "swap_offer", SwapOfferOps) :
                 Process(b) /\ SwapOffer(b)
      BY <1>11 DEF ProcessSwapOffer
    <2>2. b.account = a /\ b.hash \in Hash /\ b.op \in SwapOfferOps
      BY SignableBlock DEF TypeOK
    <2>3. /\ b.op.asset \in Asset /\ b.op.amount \in Nat
          /\ b.op.wantAsset \in Asset /\ b.op.wantAmount \in Nat
          /\ b.op.counterparty \in Accounts \cup {None}
      BY <2>2 DEF SwapOfferOps
    <2> DEFINE l == [owner |-> a, asset |-> b.op.asset,
                     amount |-> b.op.amount, wantAsset |-> b.op.wantAsset,
                     wantAmount |-> b.op.wantAmount,
                     counterparty |-> b.op.counterparty, state |-> "open",
                     settledBy |-> None, acceptedBy |-> None]
    <2>4. /\ l \in Lock /\ l.owner = a /\ l.asset = b.op.asset
          /\ l.amount = b.op.amount /\ l.wantAmount = b.op.wantAmount
          /\ l.state = "open" /\ l.acceptedBy = None
      BY <2>3 DEF Lock
    <2>5. /\ b.op.amount > 0 /\ b.op.wantAmount > 0
          /\ PayOut(b, b.op.asset, b.op.amount)
          /\ locks' = [locks EXCEPT ![b.hash] = l]
          /\ UNCHANGED <<receivables, circulating, issuedByAccount>>
      BY <2>1, <2>2 DEF SwapOffer, RequirePositive, assetVars
    <2>6. locks[b.hash] = None
      BY <2>1, <2>2 DEF Process, Envelope, LedgerInv, FiledUnderBlocks
    <2>7. Stock[a][l.asset] >= l.amount /\ Moved(a, l.asset, -l.amount)
      BY <2>1, <2>2, <2>3, <2>4, <2>5, PaidOut
    <2> HIDE DEF l
    <2>8. Offering(b.hash, l)
      BY <2>2, <2>4, <2>5, <2>6, <2>7 DEF Offering
    <2>9. QED
      BY <2>8 DEF Flow
  <1>12. ASSUME NEW a \in Accounts, ProcessSwapAccept(a) PROVE Flow
    <2>1. PICK b \in Signable(a, "swap_accept", SwapAcceptOps) :
                 Process(b) /\ SwapAccept(b)
      BY <1>12 DEF ProcessSwapAccept
    <2>2. b.account = a /\ b.hash \in Hash /\ b.op \in SwapAcceptOps
      BY SignableBlock DEF TypeOK
    <2> DEFINE h == b.op.offer
               l == locks[h]
    <2>3. h \in Hash /\ h \in blocks
      BY <2>2 DEF SwapAcceptOps, TypeOK, ChainsTyped
    <2>4. /\ l # None /\ l.owner # a /\ l.state = "open"
          /\ l.counterparty \in {None, a}
          /\ PayOut(b, l.wantAsset, l.wantAmount)
          /\ receivables' = [receivables EXCEPT ![b.hash] = Payment(h, a),
                                               ![h] = Delivery(h, a)]
          /\ locks' = [locks EXCEPT ![h] =
                 [@ EXCEPT !.state = "accepted", !.acceptedBy = a,
                           !.settledBy = b.hash]]
          /\ UNCHANGED <<circulating, issuedByAccount>>
      BY <2>1, <2>2 DEF SwapAccept, RequireOpenLock, DeliverBothLegs, Payment,
                        Delivery, assetVars
    <2>5. b.hash \notin blocks
      BY <2>1 DEF Process, Envelope
    <2>6. receivables[b.hash] = None /\ receivables[h] = None /\ h # b.hash
      BY <2>2, <2>3, <2>4, <2>5
         DEF LedgerInv, FiledUnderBlocks, OpenOffersFree, OpenOffers
    <2>7. l \in Lock /\ l.wantAsset \in Asset /\ l.wantAmount \in Nat
      <3>1. l \in Lock
        BY <2>3, <2>4 DEF TypeOK, LocksTyped
      <3>2. QED
        BY <3>1 DEF Lock
    <2>8. /\ Stock[a][l.wantAsset] >= l.wantAmount
          /\ Moved(a, l.wantAsset, -l.wantAmount)
      BY <2>1, <2>2, <2>4, <2>7, PaidOut
    <2>9. Accepting(h, b.hash, a)
      BY <2>2, <2>3, <2>4, <2>6, <2>8 DEF Accepting
    <2>10. QED
      BY <2>9 DEF Flow
  <1>13. ASSUME NEW a \in Accounts, ProcessSwapCancel(a) PROVE Flow
    <2>1. PICK b \in Signable(a, "swap_cancel", SwapCancelOps) :
                 Process(b) /\ SwapCancel(b)
      BY <1>13 DEF ProcessSwapCancel
    <2>2. b.account = a /\ b.hash \in Hash /\ b.op \in SwapCancelOps
      BY SignableBlock DEF TypeOK
    <2> DEFINE h == b.op.offer
               l == locks[h]
    <2>3. h \in Hash
      BY <2>2 DEF SwapCancelOps, TypeOK, ChainsTyped
    <2>4. /\ l # None /\ l.owner = a /\ l.state = "open"
          /\ locks' = [locks EXCEPT ![h] =
                 [@ EXCEPT !.state = "cancelled", !.settledBy = b.hash]]
          /\ UNCHANGED <<receivables, circulating, issuedByAccount>>
      BY <2>1, <2>2 DEF SwapCancel, RequireOpenLock, assetVars
    <2>5. l \in Lock /\ l.asset \in Asset /\ l.amount \in Int
      <3>1. l \in Lock
        BY <2>3, <2>4 DEF TypeOK, LocksTyped
      <3>2. QED
        BY <3>1 DEF Lock
    <2>6. Moved(a, l.asset, l.amount)
      <3>1. CASE l.asset = Kei
        <4>1. RequireDelta(b, l.amount) /\ holdings' = holdings
          BY <2>1, <3>1 DEF SwapCancel, holdingVars
        <4>2. QED
          BY <2>1, <2>2, <2>5, <3>1, <4>1, Delta, KeiMoves
      <3>2. CASE l.asset # Kei
        <4>1. /\ RequireDelta(b, 0)
              /\ holdings' = [holdings EXCEPT ![a][l.asset] = @ + l.amount]
          BY <2>1, <2>2, <3>2 DEF SwapCancel, CommitCredit
        <4>2. balance' = balance /\ l.asset \in Token
          BY <2>1, <2>2, <2>5, <3>2, <4>1, Delta DEF Asset
        <4>3. QED
          BY <2>5, <4>1, <4>2, TokensMove
      <3>3. QED
        BY <3>1, <3>2
    <2>7. Cancelling(h, b.hash)
      BY <2>2, <2>3, <2>4, <2>6 DEF Cancelling
    <2>8. QED
      BY <2>7 DEF Flow
  <1>14. CASE UNCHANGED vars
    BY <1>14, NothingMoves DEF vars, Flow
  <1>15. QED
    BY <1>1, <1>2, <1>3, <1>4, <1>5, <1>6, <1>7, <1>8, <1>9, <1>10, <1>11,
       <1>12, <1>13, <1>14 DEF Next

-----------------------------------------------------------------------------
(* What one changed entry does to each of the sums.                        *)

StockSum(s, x) == SumFunction([a \in Accounts |-> s[a][x]])
WaySum(w, who, x) == SumFunction([h \in Hash |-> Due(w[h], who, x)])
LockSum(l, x) == SumFunction([h \in Hash |-> Held(l[h], x)])
Triangle(n) == (n * (n + 1)) \div 2
TriangleSum(n) == SumFunction([a \in Accounts |-> Triangle(n[a])])

LEMMA FiniteHash == IsFiniteSet(Hash)
  <1>1. \A a \in Accounts : IsFiniteSet({a} \X (1 .. MaxHeight[a]))
    <2> TAKE a \in Accounts
    <2>1. MaxHeight[a] \in Int /\ 1 \in Int
      BY ConstantsAssumption
    <2>2. IsFiniteSet(1 .. MaxHeight[a])
      BY <2>1, FS_Interval
    <2>3. IsFiniteSet({a})
      BY FS_Singleton
    <2>4. QED
      BY <2>2, <2>3, FS_Product
  <1> DEFINE parts == {{a} \X (1 .. MaxHeight[a]) : a \in Accounts}
  <1>2. IsFiniteSet(parts)
    <2> DEFINE part == [a \in Accounts |-> {a} \X (1 .. MaxHeight[a])]
    <2>1. part \in Surjection(Accounts, parts)
      BY DEF Surjection
    <2>2. QED
      BY <2>1, FS_Surjection, ConstantsAssumption
  <1>3. \A p \in parts : IsFiniteSet(p)
    BY <1>1
  <1>4. IsFiniteSet(UNION parts)
    BY <1>2, <1>3, FS_UNION
  <1>5. QED
    BY <1>4 DEF Hash

\* What the next issuance adds to what an account burned.
LEMMA TriangleGrows ==
    ASSUME NEW n \in Nat
    PROVE  Triangle(n) \in Nat /\ Triangle(n + 1) = Triangle(n) + (n + 1)
  <1> DEFINE p == n * (n + 1)
  <1>1. (n + 1) * (n + 1 + 1) = p + 2 * (n + 1)
    OBVIOUS
  <1>2. p \in Nat
    OBVIOUS
  <1> HIDE DEF p
  <1>3. p \div 2 \in Nat /\ (p + 2 * (n + 1)) \div 2 = p \div 2 + (n + 1)
    BY <1>2
  <1>4. QED
    BY <1>1, <1>3 DEF Triangle, p

LEMMA DueType ==
    ASSUME NEW r \in Receivable \cup {None}, NEW who \in SUBSET Accounts, NEW x \in Asset
    PROVE  Due(r, who, x) \in Nat
  BY DEF Due, Receivable

LEMMA HeldType ==
    ASSUME NEW l \in Lock \cup {None}, NEW x \in Asset
    PROVE  Held(l, x) \in Nat
  BY DEF Held, Lock

LEMMA SumsTyped ==
    /\ \A s \in [Accounts -> [Asset -> Int]], x \in Asset : StockSum(s, x) \in Int
    /\ \A w \in [Hash -> Receivable \cup {None}], who \in SUBSET Accounts, x \in Asset :
         WaySum(w, who, x) \in Nat
    /\ \A l \in [Hash -> Lock \cup {None}], x \in Asset : LockSum(l, x) \in Nat
    /\ \A n \in [Accounts -> Nat] : TriangleSum(n) \in Int
  <1>1. IsFiniteSet(Accounts)
    BY ConstantsAssumption
  <1>2. ASSUME NEW s \in [Accounts -> [Asset -> Int]], NEW x \in Asset
        PROVE  StockSum(s, x) \in Int
    <2> DEFINE f == [c \in Accounts |-> s[c][x]]
    <2>1. f \in [Accounts -> Int]
      OBVIOUS
    <2> HIDE DEF f
    <2>2. SumFunction(f) \in Int
      BY <1>1, <2>1, SumType
    <2>3. QED
      BY <2>2 DEF StockSum, f
  <1>3. ASSUME NEW w \in [Hash -> Receivable \cup {None}], NEW who \in SUBSET Accounts, NEW x \in Asset
        PROVE  WaySum(w, who, x) \in Nat
    <2> DEFINE f == [k \in Hash |-> Due(w[k], who, x)]
    <2>1. f \in [Hash -> Int] /\ \A k \in Hash : f[k] \in Nat
      BY DueType
    <2> HIDE DEF f
    <2>2. SumFunction(f) \in Nat
      BY <2>1, SumType, FiniteHash
    <2>3. QED
      BY <2>2 DEF WaySum, f
  <1>4. ASSUME NEW l \in [Hash -> Lock \cup {None}], NEW x \in Asset
        PROVE  LockSum(l, x) \in Nat
    <2> DEFINE f == [k \in Hash |-> Held(l[k], x)]
    <2>1. f \in [Hash -> Int] /\ \A k \in Hash : f[k] \in Nat
      BY HeldType
    <2> HIDE DEF f
    <2>2. SumFunction(f) \in Nat
      BY <2>1, SumType, FiniteHash
    <2>3. QED
      BY <2>2 DEF LockSum, f
  <1>5. ASSUME NEW n \in [Accounts -> Nat] PROVE TriangleSum(n) \in Int
    <2> DEFINE f == [c \in Accounts |-> Triangle(n[c])]
    <2>1. f \in [Accounts -> Int]
      BY TriangleGrows
    <2> HIDE DEF f
    <2>2. SumFunction(f) \in Int
      BY <1>1, <2>1, SumType
    <2>3. QED
      BY <2>2 DEF TriangleSum, f
  <1>6. QED
    BY <1>2, <1>3, <1>4, <1>5

LEMMA WaySumMoves ==
    ASSUME NEW w \in [Hash -> Receivable \cup {None}], NEW h \in Hash,
           NEW r \in Receivable \cup {None}, NEW who \in SUBSET Accounts, NEW x \in Asset,
           NEW z, z = [w EXCEPT ![h] = r]
    PROVE  WaySum(z, who, x) =
             WaySum(w, who, x) + (Due(r, who, x) - Due(w[h], who, x))
  <1> DEFINE f == [k \in Hash |-> Due(w[k], who, x)]
             g == [k \in Hash |-> Due(z[k], who, x)]
  <1>1. f \in [Hash -> Int] /\ g \in [Hash -> Int]
    BY DueType
  <1>2. g = [f EXCEPT ![h] = g[h]]
    OBVIOUS
  <1>3. g[h] = Due(r, who, x) /\ f[h] = Due(w[h], who, x)
    OBVIOUS
  <1> HIDE DEF f, g
  <1>4. SumFunction(g) = SumFunction(f) + (g[h] - f[h])
    BY <1>1, <1>2, g[h] \in Int, SumUpdate, FiniteHash
  <1>5. QED
    BY <1>3, <1>4 DEF WaySum, f, g

LEMMA LockSumMoves ==
    ASSUME NEW w \in [Hash -> Lock \cup {None}], NEW h \in Hash,
           NEW l \in Lock \cup {None}, NEW x \in Asset, NEW z, z = [w EXCEPT ![h] = l]
    PROVE  LockSum(z, x) = LockSum(w, x) + (Held(l, x) - Held(w[h], x))
  <1> DEFINE f == [k \in Hash |-> Held(w[k], x)]
             g == [k \in Hash |-> Held(z[k], x)]
  <1>1. f \in [Hash -> Int] /\ g \in [Hash -> Int]
    BY HeldType
  <1>2. g = [f EXCEPT ![h] = g[h]]
    OBVIOUS
  <1>3. g[h] = Held(l, x) /\ f[h] = Held(w[h], x)
    OBVIOUS
  <1> HIDE DEF f, g
  <1>4. SumFunction(g) = SumFunction(f) + (g[h] - f[h])
    BY <1>1, <1>2, g[h] \in Int, SumUpdate, FiniteHash
  <1>5. QED
    BY <1>3, <1>4 DEF LockSum, f, g

LEMMA TriangleSumMoves ==
    ASSUME NEW w \in [Accounts -> Nat], NEW a \in Accounts,
           NEW z, z = [w EXCEPT ![a] = @ + 1]
    PROVE  TriangleSum(z) = TriangleSum(w) + (w[a] + 1)
  <1> DEFINE f == [c \in Accounts |-> Triangle(w[c])]
             g == [c \in Accounts |-> Triangle(z[c])]
  <1>1. f \in [Accounts -> Int] /\ g \in [Accounts -> Int]
    BY TriangleGrows
  <1>2. g = [f EXCEPT ![a] = g[a]]
    OBVIOUS
  <1>3. g[a] = f[a] + (w[a] + 1)
    BY TriangleGrows
  <1>4. f[a] \in Int /\ w[a] + 1 \in Int /\ g[a] \in Int
    BY <1>1
  <1>5. IsFiniteSet(Accounts)
    BY ConstantsAssumption
  <1> HIDE DEF f, g
  <1>6. SumFunction(g) = SumFunction(f) + (g[a] - f[a])
    BY <1>1, <1>2, <1>4, <1>5, SumUpdate
  <1>7. SumFunction(f) \in Int
    BY <1>1, <1>5, SumType
  <1>8. QED
    BY <1>3, <1>4, <1>6, <1>7 DEF TriangleSum, f, g

-----------------------------------------------------------------------------
(* Conservation.                                                           *)

LEMMA SumsOfState ==
    /\ \A x \in Asset : InHand(x) = StockSum(Stock, x)
    /\ \A who \in SUBSET Accounts, x \in Asset : Incoming(who, x) = WaySum(receivables, who, x)
    /\ \A x \in Asset : Locked(x) = LockSum(locks, x)
    /\ Burned = TriangleSum(issuedByAccount)
  <1>1. ASSUME NEW x \in Asset PROVE InHand(x) = StockSum(Stock, x)
    <2>1. [a \in Accounts |-> Spendable(a, x)] = [a \in Accounts |-> Stock[a][x]]
      BY DEF Stock
    <2>2. QED
      BY <2>1 DEF InHand, StockSum
  <1>2. QED
    BY <1>1 DEF Incoming, WaySum, Locked, LockSum, Burned, BurnedBy, TriangleSum, Triangle

LEMMA SumsOfNextState ==
    /\ \A x \in Asset : InHand(x)' = StockSum(Stock', x)
    /\ \A who \in SUBSET Accounts, x \in Asset : Incoming(who, x)' = WaySum(receivables', who, x)
    /\ \A x \in Asset : Locked(x)' = LockSum(locks', x)
    /\ Burned' = TriangleSum(issuedByAccount')
  <1>1. ASSUME NEW x \in Asset PROVE InHand(x)' = StockSum(Stock', x)
    <2>1. [a \in Accounts |-> Spendable(a, x)]' = [a \in Accounts |-> Stock'[a][x]]
      BY DEF Stock
    <2>2. QED
      BY <2>1 DEF InHand, StockSum
  <1>2. QED
    BY <1>1 DEF Incoming, WaySum, Locked, LockSum, Burned, BurnedBy, TriangleSum, Triangle

LEMMA SumsAreNumbers ==
    ASSUME TypeOK
    PROVE  /\ \A x \in Asset : InHand(x) \in Int
           /\ \A who \in SUBSET Accounts, x \in Asset : Incoming(who, x) \in Nat
           /\ \A x \in Asset : Locked(x) \in Nat
           /\ Burned \in Int
  <1>1. /\ Stock \in [Accounts -> [Asset -> Int]]
        /\ receivables \in [Hash -> Receivable \cup {None}]
        /\ locks \in [Hash -> Lock \cup {None}]
        /\ issuedByAccount \in [Accounts -> Nat]
    BY StockType DEF TypeOK, ReceivablesTyped, LocksTyped, TokensTyped
  <1>2. QED
    BY <1>1, SumsTyped, SumsOfState

LEMMA StockMoves ==
    ASSUME TypeOK, NEW a \in Accounts, NEW x \in Asset, NEW n \in Int,
           Moved(a, x, n), NEW y \in Asset
    PROVE  InHand(y)' = InHand(y) + (IF y = x THEN n ELSE 0)
  <1> DEFINE f == [c \in Accounts |-> Stock[c][y]]
             g == [c \in Accounts |-> Stock'[c][y]]
  <1>1. Stock \in [Accounts -> [Asset -> Int]]
    BY StockType
  <1>2. Stock' = [Stock EXCEPT ![a][x] = @ + n]
    BY DEF Moved
  <1>3. f \in [Accounts -> Int] /\ g \in [Accounts -> Int]
    BY <1>1, <1>2
  <1>4. g = [f EXCEPT ![a] = g[a]]
    BY <1>1, <1>2
  <1>5. g[a] - f[a] = IF y = x THEN n ELSE 0
    BY <1>1, <1>2
  <1>6. IsFiniteSet(Accounts)
    BY ConstantsAssumption
  <1> HIDE DEF f, g
  <1>7. SumFunction(g) = SumFunction(f) + (g[a] - f[a])
    BY <1>3, <1>4, <1>6, g[a] \in Int, SumUpdate
  <1>8. StockSum(Stock', y) = StockSum(Stock, y) + (IF y = x THEN n ELSE 0)
    BY <1>5, <1>7 DEF StockSum, f, g
  <1>9. QED
    BY <1>8, SumsOfState, SumsOfNextState

LEMMA WayMoves ==
    ASSUME TypeOK, NEW h \in Hash, NEW r \in Receivable \cup {None},
           receivables' = [receivables EXCEPT ![h] = r], NEW who \in SUBSET Accounts,
           NEW x \in Asset
    PROVE  Incoming(who, x)' =
             Incoming(who, x) + (Due(r, who, x) - Due(receivables[h], who, x))
  <1>1. receivables \in [Hash -> Receivable \cup {None}]
    BY DEF TypeOK, ReceivablesTyped
  <1>2. WaySum(receivables', who, x) = WaySum(receivables, who, x)
                 + (Due(r, who, x) - Due(receivables[h], who, x))
    BY <1>1, WaySumMoves
  <1>3. QED
    BY <1>2, SumsOfState, SumsOfNextState

LEMMA LegsMove ==
    ASSUME TypeOK, NEW h \in Hash, NEW s \in Hash, h # s,
           receivables[h] = None, receivables[s] = None,
           NEW p \in Receivable, NEW d \in Receivable,
           receivables' = [receivables EXCEPT ![s] = p, ![h] = d], NEW who \in SUBSET Accounts,
           NEW x \in Asset
    PROVE  Incoming(who, x)' =
             Incoming(who, x) + Due(p, who, x) + Due(d, who, x)
  <1>0. receivables \in [Hash -> Receivable \cup {None}]
    BY DEF TypeOK, ReceivablesTyped
  <1> DEFINE f == [k \in Hash |-> Due(receivables[k], who, x)]
             e == [k \in Hash |-> IF k = s THEN Due(p, who, x) ELSE f[k]]
             g == [k \in Hash |-> Due(receivables'[k], who, x)]
  <1>1. /\ Due(p, who, x) \in Nat /\ Due(d, who, x) \in Nat
        /\ f \in [Hash -> Int] /\ e \in [Hash -> Int] /\ g \in [Hash -> Int]
    BY <1>0, DueType
  <1>2. e = [f EXCEPT ![s] = e[s]] /\ g = [e EXCEPT ![h] = g[h]]
    BY <1>0
  <1>3. /\ e[s] = Due(p, who, x) /\ f[s] = 0
        /\ g[h] = Due(d, who, x) /\ e[h] = 0
    BY <1>0 DEF Due
  <1> HIDE DEF f, e, g
  <1>4. SumFunction(e) = SumFunction(f) + (e[s] - f[s])
    BY <1>1, <1>2, e[s] \in Int, SumUpdate, FiniteHash
  <1>5. SumFunction(g) = SumFunction(e) + (g[h] - e[h])
    BY <1>1, <1>2, g[h] \in Int, SumUpdate, FiniteHash
  <1>6. SumFunction(f) \in Int
    BY <1>1, SumType, FiniteHash
  <1>7. WaySum(receivables', who, x) =
             WaySum(receivables, who, x) + Due(p, who, x) + Due(d, who, x)
    BY <1>1, <1>3, <1>4, <1>5, <1>6 DEF WaySum, f, g
  <1>8. QED
    BY <1>7, SumsOfState, SumsOfNextState

LEMMA TransitMoves ==
    ASSUME TypeOK, NEW h \in Hash, NEW r \in Receivable \cup {None},
           receivables' = [receivables EXCEPT ![h] = r], NEW x \in Asset
    PROVE  InTransit(x)' = InTransit(x)
             + (Due(r, Accounts, x) - Due(receivables[h], Accounts, x))
  BY WayMoves, Accounts \in SUBSET Accounts DEF InTransit

LEMMA LockMoves ==
    ASSUME TypeOK, NEW h \in Hash, NEW l \in Lock \cup {None},
           locks' = [locks EXCEPT ![h] = l], NEW x \in Asset
    PROVE  Locked(x)' = Locked(x) + (Held(l, x) - Held(locks[h], x))
  <1>1. locks \in [Hash -> Lock \cup {None}]
    BY DEF TypeOK, LocksTyped
  <1>2. LockSum(locks', x) = LockSum(locks, x) + (Held(l, x) - Held(locks[h], x))
    BY <1>1, LockSumMoves
  <1>3. QED
    BY <1>2, SumsOfState, SumsOfNextState

LEMMA SumsStay ==
    /\ UNCHANGED Stock => \A x \in Asset : InHand(x)' = InHand(x)
    /\ UNCHANGED receivables => \A who \in SUBSET Accounts, x \in Asset : Incoming(who, x)' = Incoming(who, x)
    /\ UNCHANGED locks => \A x \in Asset : Locked(x)' = Locked(x)
    /\ UNCHANGED issuedByAccount => Burned' = Burned
  BY SumsOfState, SumsOfNextState

\* What there is of an asset, wherever it is, and what a step adds to it.
Total(x) == InHand(x) + InTransit(x) + Locked(x)

Balanced ==
    /\ Total(Kei)' + Burned' = Total(Kei) + Burned
    /\ \A t \in Token : Total(t)' - circulating'[t] = Total(t) - circulating[t]

LEMMA DueAndHeld ==
    /\ \A r \in Receivable : /\ r.to \in Accounts /\ r.asset \in Asset
                             /\ r.amount \in Nat /\ -r.amount \in Int
    /\ \A r \in Receivable, x \in Asset :
         Due(r, Accounts, x) = IF x = r.asset THEN r.amount ELSE 0
    /\ \A l \in Lock : /\ l.owner \in Accounts
                       /\ l.asset \in Asset /\ l.amount \in Nat /\ -l.amount \in Int
                       /\ l.wantAsset \in Asset /\ l.wantAmount \in Nat
                       /\ -l.wantAmount \in Int
    /\ \A l \in Lock, x \in Asset :
         Held(l, x) = IF l.state = "open" /\ x = l.asset THEN l.amount ELSE 0
    /\ \A x \in Asset : Due(None, Accounts, x) = 0 /\ Held(None, x) = 0
  <1>1. None \notin Receivable /\ None \notin Lock
    BY ConstantsAssumption
  <1>2. \A n \in Nat : -n \in Int
    OBVIOUS
  <1>3. \A r \in Receivable : r.to \in Accounts /\ r.asset \in Asset /\ r.amount \in Nat
    BY DEF Receivable
  <1>4. \A l \in Lock : /\ l.owner \in Accounts
                        /\ l.asset \in Asset /\ l.amount \in Nat
                        /\ l.wantAsset \in Asset /\ l.wantAmount \in Nat
    BY DEF Lock
  <1>5. QED
    BY <1>1, <1>2, <1>3, <1>4 DEF Due, Held

\* Payments, receipts, issuances and trades only move an asset about; a mint, a
\* claim and a token burn add to it what they add to circulation.
LEMMA FlowsBalance ==
    ASSUME TypeOK, Flow
    PROVE  Balanced
  <1>1. /\ \A y \in Asset : InHand(y) \in Int /\ InTransit(y) \in Int /\ Locked(y) \in Int
        /\ Burned \in Int /\ circulating \in [Token -> Int]
        /\ issuedByAccount \in [Accounts -> Nat]
    BY SumsAreNumbers DEF InTransit, TypeOK, TokensTyped
  <1>2. /\ \A h \in Hash : receivables[h] # None => receivables[h] \in Receivable
        /\ \A h \in Hash : locks[h] # None => locks[h] \in Lock
    BY DEF TypeOK, ReceivablesTyped, LocksTyped
  <1>3. /\ Kei \in Asset /\ Kei \notin Token /\ \A t \in Token : t \in Asset
    BY ConstantsAssumption DEF Asset
  <1>4. CASE UNCHANGED <<Stock, receivables, locks, circulating, issuedByAccount>>
    BY <1>3, <1>4, SumsStay DEF Balanced, Total, InTransit
  <1>5. ASSUME NEW a, NEW h, NEW r, Paying(a, h, r) PROVE Balanced
    <2>1. /\ a \in Accounts /\ h \in Hash /\ r \in Receivable
          /\ receivables[h] = None
          /\ Moved(a, r.asset, -r.amount)
          /\ receivables' = [receivables EXCEPT ![h] = r]
          /\ UNCHANGED <<locks, circulating, issuedByAccount>>
      BY <1>5 DEF Paying
    <2>2. \A y \in Asset : Total(y)' = Total(y)
      <3> TAKE y \in Asset
      <3>1. InHand(y)' = InHand(y) + (IF y = r.asset THEN -r.amount ELSE 0)
        BY <2>1, StockMoves, DueAndHeld
      <3>2. InTransit(y)' = InTransit(y) + (IF y = r.asset THEN r.amount ELSE 0)
        <4>1. r \in Receivable \cup {None} /\ None \in Receivable \cup {None}
          BY <2>1
        <4>2. InTransit(y)' = InTransit(y) + (Due(r, Accounts, y) - Due(receivables[h], Accounts, y))
          BY <2>1, <4>1, TransitMoves
        <4>3. QED
          BY <1>1, <2>1, <4>2, DueAndHeld
      <3>3. Locked(y)' = Locked(y)
        BY <2>1, SumsStay
      <3>4. QED
        BY <1>1, <2>1, <3>1, <3>2, <3>3, DueAndHeld DEF Total
    <2>3. QED
      BY <1>3, <2>1, <2>2, SumsStay DEF Balanced
  <1>6. ASSUME NEW h, Collecting(h) PROVE Balanced
    <2> DEFINE r == receivables[h]
    <2>1. /\ h \in Hash /\ r \in Receivable
          /\ Moved(r.to, r.asset, r.amount)
          /\ receivables' = [receivables EXCEPT ![h] = None]
          /\ UNCHANGED <<locks, circulating, issuedByAccount>>
      BY <1>2, <1>6 DEF Collecting
    <2>2. \A y \in Asset : Total(y)' = Total(y)
      <3> TAKE y \in Asset
      <3>1. InHand(y)' = InHand(y) + (IF y = r.asset THEN r.amount ELSE 0)
        BY <2>1, StockMoves, DueAndHeld
      <3>2. InTransit(y)' = InTransit(y) - (IF y = r.asset THEN r.amount ELSE 0)
        <4>1. r \in Receivable \cup {None} /\ None \in Receivable \cup {None}
          BY <2>1
        <4>2. InTransit(y)' = InTransit(y) + (Due(None, Accounts, y) - Due(r, Accounts, y))
          BY <2>1, <4>1, TransitMoves
        <4>3. QED
          BY <1>1, <2>1, <4>2, DueAndHeld
      <3>3. Locked(y)' = Locked(y)
        BY <2>1, SumsStay
      <3>4. QED
        BY <1>1, <2>1, <3>1, <3>2, <3>3, DueAndHeld DEF Total
    <2>3. QED
      BY <1>3, <2>1, <2>2, SumsStay DEF Balanced
  <1>7. ASSUME NEW a, Issuing(a) PROVE Balanced
    <2> DEFINE n == issuedByAccount[a] + 1
    <2>1. /\ a \in Accounts /\ Moved(a, Kei, -n)
          /\ issuedByAccount' = [issuedByAccount EXCEPT ![a] = @ + 1]
          /\ UNCHANGED <<receivables, locks, circulating>>
      BY <1>7 DEF Issuing
    <2>2. n \in Nat /\ -n \in Int
      BY <1>1, <2>1
    <2>3. Burned' = Burned + n
      <3>1. TriangleSum(issuedByAccount') = TriangleSum(issuedByAccount) + n
        BY <1>1, <2>1, TriangleSumMoves
      <3>2. QED
        BY <3>1, SumsOfState, SumsOfNextState
    <2> HIDE DEF n
    <2>4. \A y \in Asset : Total(y)' = Total(y) + (IF y = Kei THEN -n ELSE 0)
      <3> TAKE y \in Asset
      <3>1. InHand(y)' = InHand(y) + (IF y = Kei THEN -n ELSE 0)
        BY <1>3, <2>1, <2>2, StockMoves
      <3>2. InTransit(y)' = InTransit(y) /\ Locked(y)' = Locked(y)
        BY <2>1, SumsStay DEF InTransit
      <3>3. QED
        BY <1>1, <2>2, <3>1, <3>2 DEF Total
    <2>5. Total(Kei) \in Int
      BY <1>1, <1>3 DEF Total
    <2>6. Total(Kei)' = Total(Kei) - n
      BY <1>3, <2>2, <2>4, <2>5
    <2>7. \A t \in Token : Total(t)' = Total(t)
      <3> TAKE t \in Token
      <3>1. t \in Asset /\ t # Kei /\ Total(t) \in Int
        BY <1>1, <1>3 DEF Total
      <3>2. QED
        BY <2>4, <3>1
    <2>8. QED
      BY <1>1, <2>1, <2>2, <2>3, <2>5, <2>6, <2>7 DEF Balanced
  <1>8. ASSUME NEW h, NEW r, Minting(h, r) PROVE Balanced
    <2>1. /\ h \in Hash /\ r \in Receivable /\ r.asset # Kei
          /\ receivables[h] = None
          /\ receivables' = [receivables EXCEPT ![h] = r]
          /\ circulating' = [circulating EXCEPT ![r.asset] = @ + r.amount]
          /\ UNCHANGED <<Stock, locks, issuedByAccount>>
      BY <1>8 DEF Minting
    <2>2. r.asset \in Token /\ r.amount \in Nat
      BY <2>1, DueAndHeld DEF Asset
    <2>3. \A y \in Asset : Total(y)' = Total(y) + (IF y = r.asset THEN r.amount ELSE 0)
      <3> TAKE y \in Asset
      <3>1. InTransit(y)' = InTransit(y) + (IF y = r.asset THEN r.amount ELSE 0)
        <4>1. r \in Receivable \cup {None} /\ None \in Receivable \cup {None}
          BY <2>1
        <4>2. InTransit(y)' = InTransit(y) + (Due(r, Accounts, y) - Due(receivables[h], Accounts, y))
          BY <2>1, <4>1, TransitMoves
        <4>3. QED
          BY <1>1, <2>1, <4>2, DueAndHeld
      <3>2. InHand(y)' = InHand(y) /\ Locked(y)' = Locked(y)
        BY <2>1, SumsStay
      <3>3. QED
        BY <1>1, <2>2, <3>1, <3>2 DEF Total
    <2>4. \A y \in Asset : Total(y) \in Int
      BY <1>1 DEF Total
    <2>5. QED
      BY <1>1, <1>3, <2>1, <2>2, <2>3, <2>4, SumsStay DEF Balanced
  <1>9. ASSUME NEW a, NEW t, NEW n, Claiming(a, t, n) PROVE Balanced
    <2>1. /\ a \in Accounts /\ t \in Token /\ n \in Nat /\ Moved(a, t, n)
          /\ circulating' = [circulating EXCEPT ![t] = @ + n]
          /\ UNCHANGED <<receivables, locks, issuedByAccount>>
      BY <1>9 DEF Claiming
    <2>2. \A y \in Asset : Total(y)' = Total(y) + (IF y = t THEN n ELSE 0)
      <3> TAKE y \in Asset
      <3>1. InHand(y)' = InHand(y) + (IF y = t THEN n ELSE 0)
        BY <1>3, <2>1, n \in Int, StockMoves
      <3>2. InTransit(y)' = InTransit(y) /\ Locked(y)' = Locked(y)
        BY <2>1, SumsStay DEF InTransit
      <3>3. QED
        BY <1>1, <2>1, <3>1, <3>2 DEF Total
    <2>3. \A y \in Asset : Total(y) \in Int
      BY <1>1 DEF Total
    <2>4. QED
      BY <1>1, <1>3, <2>1, <2>2, <2>3, SumsStay DEF Balanced
  <1>10. ASSUME NEW a, NEW t, NEW n, Burning(a, t, n) PROVE Balanced
    <2>1. /\ a \in Accounts /\ t \in Token /\ n \in Nat /\ Moved(a, t, -n)
          /\ circulating' = [circulating EXCEPT ![t] = @ - n]
          /\ UNCHANGED <<receivables, locks, issuedByAccount>>
      BY <1>10 DEF Burning
    <2>2. \A y \in Asset : Total(y)' = Total(y) + (IF y = t THEN -n ELSE 0)
      <3> TAKE y \in Asset
      <3>1. InHand(y)' = InHand(y) + (IF y = t THEN -n ELSE 0)
        BY <1>3, <2>1, -n \in Int, StockMoves
      <3>2. InTransit(y)' = InTransit(y) /\ Locked(y)' = Locked(y)
        BY <2>1, SumsStay DEF InTransit
      <3>3. QED
        BY <1>1, <2>1, <3>1, <3>2 DEF Total
    <2>3. \A y \in Asset : Total(y) \in Int
      BY <1>1 DEF Total
    <2>4. QED
      BY <1>1, <1>3, <2>1, <2>2, <2>3, SumsStay DEF Balanced
  <1>11. ASSUME NEW h, NEW l, Offering(h, l) PROVE Balanced
    <2>1. /\ h \in Hash /\ l \in Lock /\ locks[h] = None /\ l.state = "open"
          /\ Moved(l.owner, l.asset, -l.amount)
          /\ locks' = [locks EXCEPT ![h] = l]
          /\ UNCHANGED <<receivables, circulating, issuedByAccount>>
      BY <1>11 DEF Offering
    <2>2. \A y \in Asset : Total(y)' = Total(y)
      <3> TAKE y \in Asset
      <3>1. InHand(y)' = InHand(y) + (IF y = l.asset THEN -l.amount ELSE 0)
        BY <2>1, StockMoves, DueAndHeld
      <3>2. Locked(y)' = Locked(y) + (IF y = l.asset THEN l.amount ELSE 0)
        <4>1. Locked(y)' = Locked(y) + (Held(l, y) - Held(locks[h], y))
          BY <2>1, LockMoves
        <4>2. QED
          BY <1>1, <2>1, <4>1, DueAndHeld
      <3>3. InTransit(y)' = InTransit(y)
        BY <2>1, SumsStay DEF InTransit
      <3>4. QED
        BY <1>1, <2>1, <3>1, <3>2, <3>3, DueAndHeld DEF Total
    <2>3. QED
      BY <1>3, <2>1, <2>2, SumsStay DEF Balanced
  <1>12. ASSUME NEW h, NEW s, NEW a, Accepting(h, s, a) PROVE Balanced
    <2> DEFINE l == locks[h]
               p == Payment(h, a)
               d == Delivery(h, a)
               m == [l EXCEPT !.state = "accepted", !.acceptedBy = a, !.settledBy = s]
    <2>1. /\ h \in Hash /\ s \in Hash /\ a \in Accounts
          /\ l \in Lock /\ l.state = "open"
          /\ h # s /\ receivables[h] = None /\ receivables[s] = None
          /\ Moved(a, l.wantAsset, -l.wantAmount)
          /\ receivables' = [receivables EXCEPT ![s] = p, ![h] = d]
          /\ locks' = [locks EXCEPT ![h] = m]
          /\ UNCHANGED <<circulating, issuedByAccount>>
      BY <1>2, <1>12 DEF Accepting
    <2>2. m \in Lock /\ m.state # "open"
      BY <2>1 DEF Lock
    <2>3. /\ p \in Receivable /\ p.asset = l.wantAsset /\ p.amount = l.wantAmount
          /\ d \in Receivable /\ d.asset = l.asset /\ d.amount = l.amount
      BY <2>1, ReceivableTyped, DueAndHeld DEF Payment, Delivery, ReceivableOf
    <2> HIDE DEF p, d, m
    <2>4. \A y \in Asset : Total(y)' = Total(y)
      <3> TAKE y \in Asset
      <3>1. InHand(y)' = InHand(y) + (IF y = l.wantAsset THEN -l.wantAmount ELSE 0)
        BY <2>1, StockMoves, DueAndHeld
      <3>2. InTransit(y)' = InTransit(y) + Due(p, Accounts, y) + Due(d, Accounts, y)
        BY <2>1, <2>3, Accounts \in SUBSET Accounts, LegsMove DEF InTransit
      <3>3. Locked(y)' = Locked(y) + (Held(m, y) - Held(l, y))
        BY <2>1, <2>2, LockMoves
      <3>4. /\ Due(p, Accounts, y) = IF y = l.wantAsset THEN l.wantAmount ELSE 0
            /\ Due(d, Accounts, y) = IF y = l.asset THEN l.amount ELSE 0
            /\ Held(m, y) = 0
            /\ Held(l, y) = IF y = l.asset THEN l.amount ELSE 0
            /\ l.amount \in Nat /\ l.wantAmount \in Nat
        BY <2>1, <2>2, <2>3, DueAndHeld
      <3>5. QED
        BY <1>1, <3>1, <3>2, <3>3, <3>4 DEF Total
    <2>5. QED
      BY <1>3, <2>1, <2>4, SumsStay DEF Balanced
  <1>13. ASSUME NEW h, NEW s, Cancelling(h, s) PROVE Balanced
    <2> DEFINE l == locks[h]
               m == [l EXCEPT !.state = "cancelled", !.settledBy = s]
    <2>1. /\ h \in Hash /\ s \in Hash /\ l \in Lock /\ l.state = "open"
          /\ Moved(l.owner, l.asset, l.amount)
          /\ locks' = [locks EXCEPT ![h] = m]
          /\ UNCHANGED <<receivables, circulating, issuedByAccount>>
      BY <1>2, <1>13 DEF Cancelling
    <2>2. m \in Lock /\ m.state # "open"
      BY <2>1 DEF Lock
    <2> HIDE DEF m
    <2>3. \A y \in Asset : Total(y)' = Total(y)
      <3> TAKE y \in Asset
      <3>1. InHand(y)' = InHand(y) + (IF y = l.asset THEN l.amount ELSE 0)
        BY <2>1, StockMoves, DueAndHeld
      <3>2. Locked(y)' = Locked(y) - (IF y = l.asset THEN l.amount ELSE 0)
        <4>1. Locked(y)' = Locked(y) + (Held(m, y) - Held(l, y))
          BY <2>1, <2>2, LockMoves
        <4>2. QED
          BY <1>1, <2>1, <2>2, <4>1, DueAndHeld
      <3>3. InTransit(y)' = InTransit(y)
        BY <2>1, SumsStay DEF InTransit
      <3>4. QED
        BY <1>1, <2>1, <3>1, <3>2, <3>3, DueAndHeld DEF Total
    <2>4. QED
      BY <1>3, <2>1, <2>3, SumsStay DEF Balanced
  <1>14. QED
    BY <1>4, <1>5, <1>6, <1>7, <1>8, <1>9, <1>10, <1>11, <1>12, <1>13 DEF Flow

LEMMA ConservedInit == Init => Conserved
  <1> SUFFICES ASSUME Init PROVE Conserved
    OBVIOUS
  <1> USE ConstantsAssumption
  <1>1. IsFiniteSet(Accounts) /\ Kei \notin Token
    OBVIOUS
  <1>2. InHand(Kei) = KeiSupply
    <2>1. [a \in Accounts |-> Spendable(a, Kei)] = Genesis
      BY DEF Init, Spendable
    <2>2. QED
      BY <2>1 DEF InHand, KeiSupply
  <1>3. \A t \in Token : InHand(t) = 0
    <2> TAKE t \in Token
    <2> DEFINE f == [a \in Accounts |-> Spendable(a, t)]
    <2>1. f \in [Accounts -> Int] /\ \A a \in Accounts : f[a] = 0
      BY DEF Init, Spendable
    <2> HIDE DEF f
    <2>2. SumFunction(f) = 0
      BY <1>1, <2>1, SumType
    <2>3. QED
      BY <2>2 DEF InHand, f
  <1>4. \A x \in Asset : InTransit(x) = 0
    <2> TAKE x \in Asset
    <2> DEFINE f == [h \in Hash |-> Due(receivables[h], Accounts, x)]
    <2>1. f \in [Hash -> Int] /\ \A h \in Hash : f[h] = 0
      BY DEF Init, Due
    <2> HIDE DEF f
    <2>2. SumFunction(f) = 0
      BY <2>1, SumType, FiniteHash
    <2>3. QED
      BY <2>2 DEF InTransit, Incoming, f
  <1>5. \A x \in Asset : Locked(x) = 0
    <2> TAKE x \in Asset
    <2> DEFINE f == [h \in Hash |-> Held(locks[h], x)]
    <2>1. f \in [Hash -> Int] /\ \A h \in Hash : f[h] = 0
      BY DEF Init, Held
    <2> HIDE DEF f
    <2>2. SumFunction(f) = 0
      BY <2>1, SumType, FiniteHash
    <2>3. QED
      BY <2>2 DEF Locked, f
  <1>6. Burned = 0
    <2> DEFINE f == [a \in Accounts |-> BurnedBy(a)]
    <2>1. f \in [Accounts -> Int] /\ \A a \in Accounts : f[a] = 0
      BY DEF Init, BurnedBy
    <2> HIDE DEF f
    <2>2. SumFunction(f) = 0
      BY <1>1, <2>1, SumType
    <2>3. QED
      BY <2>2 DEF Burned, f
  <1>7. KeiSupply \in Int
    BY <1>1, SumType DEF KeiSupply
  <1>8. KeiConserved
    BY <1>2, <1>4, <1>5, <1>6, <1>7 DEF KeiConserved, Asset
  <1>9. SupplyAccounted
    BY <1>3, <1>4, <1>5 DEF SupplyAccounted, Init, Asset
  <1>10. QED
    BY <1>8, <1>9 DEF Conserved

LEMMA ConservedStep == TypeOK /\ TypeOK' /\ LedgerInv /\ Conserved /\ [Next]_vars => Conserved'
  <1> SUFFICES ASSUME TypeOK, TypeOK', LedgerInv, Conserved, [Next]_vars
               PROVE  Conserved'
    OBVIOUS
  <1>1. Balanced
    BY FlowStep, FlowsBalance
  <1>2. /\ \A y \in Asset : Total(y) \in Int
        /\ Burned \in Int /\ circulating \in [Token -> Int]
    BY SumsAreNumbers DEF Total, InTransit, TypeOK, TokensTyped
  <1>3. /\ \A y \in Asset : Total(y)' \in Int
        /\ circulating' \in [Token -> Int]
    <2>1. /\ Stock' \in [Accounts -> [Asset -> Int]]
          /\ receivables' \in [Hash -> Receivable \cup {None}]
          /\ locks' \in [Hash -> Lock \cup {None}]
          /\ circulating' \in [Token -> Int]
      <3>1. Stock' \in [Accounts -> [Asset -> Nat]]
        BY ConstantsAssumption
           DEF Stock, Spendable, Asset, TypeOK, ChainsTyped, HoldingsTyped
      <3>2. QED
        BY <3>1 DEF TypeOK, ReceivablesTyped, LocksTyped, TokensTyped
    <2>2. QED
      BY <2>1, SumsTyped, SumsOfNextState DEF Total, InTransit
  <1>4. \A t \in Token : t \in Asset
    BY DEF Asset
  <1>5. KeiConserved'
    BY <1>1 DEF Balanced, Total, Conserved, KeiConserved
  <1>6. SupplyAccounted'
    <2>1. \A t \in Token : Total(t) = circulating[t]
      BY DEF Conserved, SupplyAccounted, Total
    <2>2. \A t \in Token : Total(t)' = circulating'[t]
      BY <1>1, <1>2, <1>3, <1>4, <2>1 DEF Balanced
    <2>3. QED
      BY <2>2 DEF SupplyAccounted, Total
  <1>7. QED
    BY <1>5, <1>6 DEF Conserved

\* No chains of blocks of any accounts, however their sends, receipts, mints,
\* claims, burns, offers, accepts and cancels interleave, create or destroy a
\* unit of Kei, or a unit of a token that its circulation does not count.
THEOREM NothingMadeOfNothing == Spec => []Conserved
  <1>1. TypeOK /\ LedgerInv /\ Conserved /\ [Next]_vars => Conserved'
    BY TypeStep, ConservedStep
  <1>2. QED
    BY <1>1, ConservedInit, TypeCorrect, Supporting, PTL DEF Spec

\* And no balance or holding is negative meanwhile.
THEOREM AlwaysWellKept == Spec => []WellKept
  <1>1. TypeOK /\ Conserved => WellKept
    BY DEF WellKept
  <1>2. QED
    BY <1>1, TypeCorrect, NothingMadeOfNothing, PTL

-----------------------------------------------------------------------------
(* The ledger implements the exchange: each flow is one step of what       *)
(* accounts own and offer, or invisible there.                             *)

LEMMA WealthIs ==
    ASSUME TypeOK
    PROVE  /\ Wealth \in [Accounts -> [Asset -> Nat]]
           /\ \A c \in Accounts, y \in Asset :
                /\ Incoming({c}, y) \in Nat /\ Stock[c][y] \in Nat
                /\ Wealth[c][y] = Stock[c][y] + Incoming({c}, y)
  <1>1. ASSUME NEW c \in Accounts, NEW y \in Asset
        PROVE  /\ Incoming({c}, y) \in Nat /\ Stock[c][y] \in Nat
               /\ Own(c, y) = Stock[c][y] + Incoming({c}, y)
               /\ Own(c, y) \in Nat
    <2>1. Incoming({c}, y) \in Nat
      BY SumsAreNumbers, {c} \in SUBSET Accounts
    <2>2. Stock[c][y] \in Nat /\ Stock[c][y] = Spendable(c, y)
      BY StockType DEF Stock
    <2>3. QED
      BY <2>1, <2>2 DEF Own
  <1>2. \A c \in Accounts, y \in Asset : Wealth[c][y] = Own(c, y)
    BY DEF Wealth
  <1>3. Wealth \in [Accounts -> [Asset -> Nat]]
    <2>1. \A c \in Accounts, y \in Asset : Own(c, y) \in Nat
      BY <1>1
    <2>2. QED
      BY <2>1 DEF Wealth
  <1>4. QED
    BY <1>1, <1>2, <1>3

LEMMA WealthTyped == TypeOK => Wealth \in [Accounts -> [Asset -> Nat]]
  BY WealthIs

LEMMA NextWealthTyped == TypeOK' => (Wealth \in [Accounts -> [Asset -> Nat]])'
  BY WealthTyped, PTL

\* What the next state's accounts own, piece by piece.
LEMMA NextWealth ==
    \A c \in Accounts, y \in Asset : Wealth'[c][y] = Stock'[c][y] + Incoming({c}, y)'
  <1>1. \A c \in Accounts, y \in Asset : Stock'[c][y] = Spendable(c, y)'
    BY DEF Stock
  <1>2. QED
    BY <1>1 DEF Wealth, Own

LEMMA Pieces ==
    ASSUME TypeOK, NEW c \in Accounts, NEW y \in Asset
    PROVE  /\ Stock[c][y] \in Nat /\ Incoming({c}, y) \in Nat
           /\ Wealth[c][y] = Stock[c][y] + Incoming({c}, y)
           /\ Wealth'[c][y] = Stock'[c][y] + Incoming({c}, y)'
  BY WealthIs, NextWealth

LEMMA MovedEntry ==
    ASSUME TypeOK, NEW a \in Accounts, NEW x \in Asset, NEW n \in Int, Moved(a, x, n)
    PROVE  \A c \in Accounts, y \in Asset :
             Stock'[c][y] = Stock[c][y] + (IF c = a /\ y = x THEN n ELSE 0)
  BY StockType DEF Moved

\* What a receivable is due to one account.
DueTo(r, c, y) == IF c = r.to /\ y = r.asset THEN r.amount ELSE 0

LEMMA DueOne ==
    /\ \A r \in Receivable, c \in Accounts, y \in Asset :
         Due(r, {c}, y) = DueTo(r, c, y) /\ DueTo(r, c, y) \in Nat
    /\ \A c \in Accounts, y \in Asset : Due(None, {c}, y) = 0
  <1>1. None \notin Receivable
    BY ConstantsAssumption
  <1>2. QED
    BY <1>1, DueAndHeld DEF Due, DueTo

LEMMA ArrivesWealth ==
    ASSUME TypeOK, NEW h \in Hash, NEW r \in Receivable, receivables[h] = None,
           receivables' = [receivables EXCEPT ![h] = r],
           NEW c \in Accounts, NEW y \in Asset
    PROVE  Incoming({c}, y)' = Incoming({c}, y) + DueTo(r, c, y)
  <1>1. r \in Receivable \cup {None} /\ {c} \in SUBSET Accounts
    OBVIOUS
  <1>2. Incoming({c}, y)' =
          Incoming({c}, y) + (Due(r, {c}, y) - Due(receivables[h], {c}, y))
    BY <1>1, WayMoves
  <1>3. Incoming({c}, y) \in Nat
    BY WealthIs
  <1>4. QED
    BY <1>2, <1>3, DueOne

LEMMA LeavesWealth ==
    ASSUME TypeOK, NEW h \in Hash, receivables[h] # None,
           receivables' = [receivables EXCEPT ![h] = None],
           NEW c \in Accounts, NEW y \in Asset
    PROVE  Incoming({c}, y)' = Incoming({c}, y) - DueTo(receivables[h], c, y)
  <1>1. /\ None \in Receivable \cup {None} /\ {c} \in SUBSET Accounts
        /\ receivables[h] \in Receivable
    BY DEF TypeOK, ReceivablesTyped
  <1>2. Incoming({c}, y)' =
          Incoming({c}, y) + (Due(None, {c}, y) - Due(receivables[h], {c}, y))
    BY <1>1, WayMoves
  <1>3. Incoming({c}, y) \in Nat
    BY WealthIs
  <1>4. QED
    BY <1>1, <1>2, <1>3, DueOne

LEMMA IncomingStays ==
    ASSUME UNCHANGED receivables, NEW c \in Accounts, NEW y \in Asset
    PROVE  Incoming({c}, y)' = Incoming({c}, y)
  BY SumsStay, {c} \in SUBSET Accounts

LEMMA OfferedMoves ==
    ASSUME TypeOK, NEW h \in Hash, NEW l \in Lock \cup {None},
           locks' = [locks EXCEPT ![h] = l]
    PROVE  Offered' = [Offered EXCEPT ![h] = OfferView(l)]
  BY DEF Offered, TypeOK, LocksTyped, OfferView

LEMMA OneEntry ==
    ASSUME NEW f \in [Accounts -> [Asset -> Int]], NEW a \in Accounts, NEW x \in Asset,
           NEW v \in Int, NEW g, g = [f EXCEPT ![a][x] = v]
    PROVE  /\ g \in [Accounts -> [Asset -> Int]]
           /\ \A c \in Accounts, y \in Asset :
                g[c][y] = IF c = a /\ y = x THEN v ELSE f[c][y]
  <1>1. f[a] \in [Asset -> Int] /\ [f[a] EXCEPT ![x] = v] \in [Asset -> Int]
    OBVIOUS
  <1>2. g = [f EXCEPT ![a] = [f[a] EXCEPT ![x] = v]]
    OBVIOUS
  <1>3. QED
    BY <1>1, <1>2

LEMMA SameWealth ==
    ASSUME NEW f \in [Accounts -> [Asset -> Int]], NEW g \in [Accounts -> [Asset -> Int]],
           \A c \in Accounts, y \in Asset : f[c][y] = g[c][y]
    PROVE  f = g
  <1>1. \A c \in Accounts : f[c] = g[c]
    OBVIOUS
  <1>2. QED
    BY <1>1

\* Units of one asset handed by one account to another.
HandOver(f, a, b, x, n) == [f EXCEPT ![a][x] = @ - n, ![b][x] = @ + n]
Handed(f, a, b, x, n, c, y) == f[c][y] + (IF c = a /\ y = x THEN -n ELSE 0)
                                       + (IF c = b /\ y = x THEN n ELSE 0)

LEMMA EntriesMoved ==
    ASSUME NEW f \in [Accounts -> [Asset -> Nat]],
           NEW a \in Accounts, NEW b \in Accounts, NEW x \in Asset, NEW n \in Nat, a # b
    PROVE  /\ HandOver(f, a, b, x, n) \in [Accounts -> [Asset -> Int]]
           /\ \A c \in Accounts, y \in Asset :
                HandOver(f, a, b, x, n)[c][y] = Handed(f, a, b, x, n, c, y)
  <1>1. f \in [Accounts -> [Asset -> Int]]
    OBVIOUS
  <1>2. f[a][x] - n \in Int
    OBVIOUS
  <1>3. PICK e : e = [f EXCEPT ![a][x] = f[a][x] - n]
    OBVIOUS
  <1>4. /\ e \in [Accounts -> [Asset -> Int]]
        /\ \A c \in Accounts, y \in Asset :
             e[c][y] = IF c = a /\ y = x THEN f[a][x] - n ELSE f[c][y]
    BY <1>1, <1>2, <1>3, OneEntry
  <1>5. e[b][x] + n \in Int
    BY <1>4
  <1>6. PICK k : k = [e EXCEPT ![b][x] = e[b][x] + n]
    OBVIOUS
  <1>7. /\ k \in [Accounts -> [Asset -> Int]]
        /\ \A c \in Accounts, y \in Asset :
             k[c][y] = IF c = b /\ y = x THEN e[b][x] + n ELSE e[c][y]
    BY <1>4, <1>5, <1>6, OneEntry
  <1>8. ASSUME NEW c \in Accounts, NEW y \in Asset
        PROVE  k[c][y] = Handed(f, a, b, x, n, c, y)
    <2>1. f[c][y] \in Nat /\ f[b][x] \in Nat /\ f[a][x] \in Nat
      OBVIOUS
    <2>2. QED
      BY <1>4, <1>7, <2>1 DEF Handed
  <1>9. k = HandOver(f, a, b, x, n)
    BY <1>3, <1>6 DEF HandOver
  <1>10. QED
    BY <1>7, <1>8, <1>9

LEMMA WealthHandedOver ==
    ASSUME TypeOK
    PROVE  \A a, b \in Accounts, x \in Asset, n \in Nat : a # b =>
             /\ HandOver(Wealth, a, b, x, n) \in [Accounts -> [Asset -> Int]]
             /\ \A c \in Accounts, y \in Asset :
                  HandOver(Wealth, a, b, x, n)[c][y] = Handed(Wealth, a, b, x, n, c, y)
  <1>1. SUFFICES ASSUME NEW a \in Accounts, NEW b \in Accounts, NEW x \in Asset,
                        NEW n \in Nat, a # b
                 PROVE  /\ HandOver(Wealth, a, b, x, n) \in [Accounts -> [Asset -> Int]]
                        /\ \A c \in Accounts, y \in Asset :
                             HandOver(Wealth, a, b, x, n)[c][y]
                               = Handed(Wealth, a, b, x, n, c, y)
    OBVIOUS
  <1>2. Wealth \in [Accounts -> [Asset -> Nat]]
    BY WealthTyped
  <1>3. HandOver(Wealth, a, b, x, n) \in [Accounts -> [Asset -> Int]]
    BY <1>1, <1>2, EntriesMoved
  <1>4. \A c \in Accounts, y \in Asset :
          HandOver(Wealth, a, b, x, n)[c][y] = Handed(Wealth, a, b, x, n, c, y)
    BY <1>1, <1>2, EntriesMoved
  <1>5. QED
    BY <1>3, <1>4

LEMMA ReplacedEntry ==
    ASSUME NEW f \in [Accounts -> [Asset -> Int]], NEW h \in [Accounts -> [Asset -> Int]],
           NEW a \in Accounts, NEW x \in Asset, NEW v \in Int,
           \A c \in Accounts, y \in Asset :
             h[c][y] = IF c = a /\ y = x THEN v ELSE f[c][y]
    PROVE  h = [f EXCEPT ![a][x] = v]
  <1>2. PICK g : g = [f EXCEPT ![a][x] = v]
    OBVIOUS
  <1>3. /\ g \in [Accounts -> [Asset -> Int]]
        /\ \A c \in Accounts, y \in Asset :
             g[c][y] = IF c = a /\ y = x THEN v ELSE f[c][y]
    BY <1>2, OneEntry
  <1>4. h = g
    BY <1>3, SameWealth
  <1>5. QED
    BY <1>2, <1>4

LEMMA ViewIs ==
    ASSUME NEW l \in Lock
    PROVE  /\ OfferView(l) # None
           /\ OfferView(l).owner = l.owner
           /\ OfferView(l).asset = l.asset /\ OfferView(l).amount = l.amount
           /\ OfferView(l).wantAsset = l.wantAsset
           /\ OfferView(l).wantAmount = l.wantAmount
           /\ OfferView(l).counterparty = l.counterparty
           /\ OfferView(l).state = l.state /\ OfferView(l).acceptedBy = l.acceptedBy
  <1>1. l # None
    BY ConstantsAssumption
  <1>2. OfferView(l) \in OfferTerms
    BY <1>1 DEF OfferView, OfferTerms, Lock
  <1>3. QED
    BY <1>1, <1>2, NoneIsNoOffer DEF OfferView

LEMMA ViewAccepted ==
    ASSUME NEW l \in Lock, NEW a \in Accounts, NEW s \in Hash
    PROVE  OfferView([l EXCEPT !.state = "accepted", !.acceptedBy = a, !.settledBy = s])
             = [OfferView(l) EXCEPT !.state = "accepted", !.acceptedBy = a]
  <1>1. /\ l # None
        /\ [l EXCEPT !.state = "accepted", !.acceptedBy = a, !.settledBy = s] \in Lock
    BY ConstantsAssumption DEF Lock
  <1>2. [l EXCEPT !.state = "accepted", !.acceptedBy = a, !.settledBy = s] # None
    BY <1>1, ConstantsAssumption
  <1>3. OfferView([l EXCEPT !.state = "accepted", !.acceptedBy = a, !.settledBy = s])
           = [owner |-> l.owner, asset |-> l.asset, amount |-> l.amount,
              wantAsset |-> l.wantAsset, wantAmount |-> l.wantAmount,
              counterparty |-> l.counterparty, state |-> "accepted", acceptedBy |-> a]
    BY <1>2 DEF OfferView, Lock
  <1>4. OfferView(l) = [owner |-> l.owner, asset |-> l.asset, amount |-> l.amount,
                        wantAsset |-> l.wantAsset, wantAmount |-> l.wantAmount,
                        counterparty |-> l.counterparty, state |-> l.state,
                        acceptedBy |-> l.acceptedBy]
    BY <1>1 DEF OfferView
  <1>5. [OfferView(l) EXCEPT !.state = "accepted", !.acceptedBy = a]
           = [owner |-> l.owner, asset |-> l.asset, amount |-> l.amount,
              wantAsset |-> l.wantAsset, wantAmount |-> l.wantAmount,
              counterparty |-> l.counterparty, state |-> "accepted", acceptedBy |-> a]
    <2>1. PICK v : v = [OfferView(l) EXCEPT !.state = "accepted"]
      OBVIOUS
    <2>2. v = [owner |-> l.owner, asset |-> l.asset, amount |-> l.amount,
                wantAsset |-> l.wantAsset, wantAmount |-> l.wantAmount,
                counterparty |-> l.counterparty, state |-> "accepted", acceptedBy |-> l.acceptedBy]
      BY <1>4, <2>1
    <2>3. [v EXCEPT !.acceptedBy = a]
           = [owner |-> l.owner, asset |-> l.asset, amount |-> l.amount,
              wantAsset |-> l.wantAsset, wantAmount |-> l.wantAmount,
              counterparty |-> l.counterparty, state |-> "accepted", acceptedBy |-> a]
      BY <2>2
    <2>4. QED
      BY <2>1, <2>3
  <1>6. QED
    BY <1>3, <1>5, Zenon

LEMMA ViewCancelled ==
    ASSUME NEW l \in Lock, NEW s \in Hash
    PROVE  OfferView([l EXCEPT !.state = "cancelled", !.settledBy = s])
             = [OfferView(l) EXCEPT !.state = "cancelled"]
  <1>1. /\ l # None
        /\ [l EXCEPT !.state = "cancelled", !.settledBy = s] \in Lock
    BY ConstantsAssumption DEF Lock
  <1>2. [l EXCEPT !.state = "cancelled", !.settledBy = s] # None
    BY <1>1, ConstantsAssumption
  <1>3. OfferView([l EXCEPT !.state = "cancelled", !.settledBy = s])
           = [owner |-> l.owner, asset |-> l.asset, amount |-> l.amount,
              wantAsset |-> l.wantAsset, wantAmount |-> l.wantAmount,
              counterparty |-> l.counterparty, state |-> "cancelled", acceptedBy |-> l.acceptedBy]
    BY <1>2 DEF OfferView, Lock
  <1>4. OfferView(l) = [owner |-> l.owner, asset |-> l.asset, amount |-> l.amount,
                        wantAsset |-> l.wantAsset, wantAmount |-> l.wantAmount,
                        counterparty |-> l.counterparty, state |-> l.state,
                        acceptedBy |-> l.acceptedBy]
    BY <1>1 DEF OfferView
  <1>5. [OfferView(l) EXCEPT !.state = "cancelled"]
           = [owner |-> l.owner, asset |-> l.asset, amount |-> l.amount,
              wantAsset |-> l.wantAsset, wantAmount |-> l.wantAmount,
              counterparty |-> l.counterparty, state |-> "cancelled", acceptedBy |-> l.acceptedBy]
    BY <1>4
  <1>6. QED
    BY <1>3, <1>5, Zenon

\* Units out of somebody's hands, and units into them, at nobody's expense.
LEMMA Spent ==
    ASSUME TypeOK, TypeOK', NEW a \in Accounts, NEW x \in Asset, NEW n \in Nat,
           n > 0, Stock[a][x] >= n, Moved(a, x, -n), UNCHANGED <<receivables, locks>>
    PROVE  Promise!Destroy(a, x)
  <1>1. /\ Wealth \in [Accounts -> [Asset -> Nat]]
        /\ Wealth' \in [Accounts -> [Asset -> Nat]]
    BY WealthTyped, NextWealthTyped
  <1>2. -n \in Int
    OBVIOUS
  <1>3. ASSUME NEW c \in Accounts, NEW y \in Asset
        PROVE  Wealth'[c][y] = Wealth[c][y] + (IF c = a /\ y = x THEN -n ELSE 0)
    <2>1. Stock'[c][y] = Stock[c][y] + (IF c = a /\ y = x THEN -n ELSE 0)
      BY <1>2, MovedEntry
    <2>2. QED
      <3>1. Incoming({c}, y)' = Incoming({c}, y)
        BY IncomingStays
      <3>2. QED
        BY <2>1, <3>1, Pieces
  <1>4. Wealth[a][x] \in Nat /\ Wealth'[a][x] = Wealth[a][x] - n /\ Wealth[a][x] >= n
    BY <1>1, <1>3, WealthIs
  <1>5. Wealth[a][x] - Wealth'[a][x] = n /\ n \in 1 .. Wealth[a][x]
    BY <1>4
  <1>6. Wealth' = [Wealth EXCEPT ![a][x] = @ - n]
    <2>1. /\ Wealth \in [Accounts -> [Asset -> Int]]
          /\ Wealth' \in [Accounts -> [Asset -> Int]]
      BY <1>1
    <2>2. Wealth[a][x] - n \in Int
      BY <1>4
    <2>3. \A c \in Accounts, y \in Asset :
            Wealth'[c][y] = IF c = a /\ y = x THEN Wealth[a][x] - n ELSE Wealth[c][y]
      BY <1>1, <1>3
    <2>4. Wealth' = [Wealth EXCEPT ![a][x] = Wealth[a][x] - n]
      BY <2>1, <2>2, <2>3, ReplacedEntry
    <2>5. QED
      BY <2>4
  <1>7. UNCHANGED Offered
    BY DEF Offered, OfferView
  <1>8. QED
    BY <1>5, <1>6, <1>7 DEF Promise!Destroy

LEMMA Gained ==
    ASSUME TypeOK, TypeOK', NEW a \in Accounts, NEW x \in Asset, NEW n \in Nat,
           n > 0, x # Kei, UNCHANGED locks,
           \A c \in Accounts, y \in Asset :
             Wealth'[c][y] = Wealth[c][y] + (IF c = a /\ y = x THEN n ELSE 0)
    PROVE  Promise!Create(a, x)
  <1>1. /\ Wealth \in [Accounts -> [Asset -> Nat]]
        /\ Wealth' \in [Accounts -> [Asset -> Nat]]
    BY WealthTyped, NextWealthTyped
  <1>2. Wealth[a][x] \in Nat /\ Wealth'[a][x] = Wealth[a][x] + n
    BY <1>1
  <1>3. Wealth'[a][x] - Wealth[a][x] = n
    BY <1>2
  <1>4. Wealth' = [Wealth EXCEPT ![a][x] = @ + n]
    <2>1. /\ Wealth \in [Accounts -> [Asset -> Int]]
          /\ Wealth' \in [Accounts -> [Asset -> Int]]
      BY <1>1
    <2>2. Wealth[a][x] + n \in Int
      BY <1>2
    <2>3. \A c \in Accounts, y \in Asset :
            Wealth'[c][y] = IF c = a /\ y = x THEN Wealth[a][x] + n ELSE Wealth[c][y]
      BY <1>1
    <2>4. Wealth' = [Wealth EXCEPT ![a][x] = Wealth[a][x] + n]
      BY <2>1, <2>2, <2>3, ReplacedEntry
    <2>5. QED
      BY <2>4
  <1>5. UNCHANGED Offered
    BY DEF Offered, OfferView
  <1>6. QED
    BY <1>3, <1>4, <1>5 DEF Promise!Create

LEMMA FlowImplements ==
    ASSUME TypeOK, TypeOK', Flow
    PROVE  [Promise!Next]_<<Wealth, Offered>>
  <1>1. /\ Wealth \in [Accounts -> [Asset -> Nat]]
        /\ Wealth' \in [Accounts -> [Asset -> Nat]]
    BY WealthTyped, NextWealthTyped
  <1>0. Wealth \in [Accounts -> [Asset -> Int]] /\ Wealth' \in [Accounts -> [Asset -> Int]]
    BY <1>1
  <1>2. /\ \A h \in Hash : receivables[h] # None => receivables[h] \in Receivable
        /\ \A h \in Hash : locks[h] # None => locks[h] \in Lock
        /\ issuedByAccount \in [Accounts -> Nat]
    BY DEF TypeOK, ReceivablesTyped, LocksTyped, TokensTyped
  <1>3. /\ Kei \in Asset /\ Kei \notin Token /\ \A t \in Token : t \in Asset
    BY ConstantsAssumption DEF Asset
  <1>4. UNCHANGED locks => UNCHANGED Offered
    BY DEF Offered, OfferView
  <1>5. CASE UNCHANGED <<Stock, receivables, locks, circulating, issuedByAccount>>
    <2>1. \A c \in Accounts, y \in Asset : Wealth'[c][y] = Wealth[c][y]
      BY <1>5, WealthIs, NextWealth, IncomingStays
    <2>2. QED
      BY <1>1, <1>4, <1>5, <2>1
  <1>6. ASSUME NEW a, NEW h, NEW r, Paying(a, h, r)
        PROVE  [Promise!Next]_<<Wealth, Offered>>
    <2> DEFINE x == r.asset
               n == r.amount
    <2>1. /\ a \in Accounts /\ h \in Hash /\ r \in Receivable
          /\ r.from = a /\ n > 0 /\ Stock[a][x] >= n
          /\ receivables[h] = None
          /\ Moved(a, x, -n)
          /\ receivables' = [receivables EXCEPT ![h] = r]
          /\ UNCHANGED locks
      BY <1>6 DEF Paying
    <2>2. r.to \in Accounts /\ x \in Asset /\ n \in Nat /\ -n \in Int
      BY <2>1, DueAndHeld
    <2>3. ASSUME NEW c \in Accounts, NEW y \in Asset
          PROVE  Wealth'[c][y] = Wealth[c][y] + (IF c = a /\ y = x THEN -n ELSE 0)
                                   + (IF c = r.to /\ y = x THEN n ELSE 0)
      <3>1. Stock'[c][y] = Stock[c][y] + (IF c = a /\ y = x THEN -n ELSE 0)
        BY <2>1, <2>2, MovedEntry
      <3>2. Incoming({c}, y)' = Incoming({c}, y) + (IF c = r.to /\ y = x THEN n ELSE 0)
        BY <2>1, ArrivesWealth DEF DueTo
      <3>3. QED
        BY <2>2, <3>1, <3>2, Pieces
    <2>4. CASE r.to = a
      <3>1. \A c \in Accounts, y \in Asset : Wealth'[c][y] = Wealth[c][y]
        BY <1>1, <2>2, <2>3, <2>4
      <3>2. QED
        BY <1>1, <1>4, <2>1, <3>1
    <2>5. CASE r.to # a
      <3>0. Wealth[a][x] \in Nat /\ Wealth[a][x] >= n
        <4>1. /\ Stock[a][x] \in Nat /\ Incoming({a}, x) \in Nat
              /\ Wealth[a][x] = Stock[a][x] + Incoming({a}, x)
          BY <2>1, <2>2, Pieces
        <4>2. QED
          BY <2>1, <2>2, <4>1
      <3>1. Wealth'[a][x] = Wealth[a][x] - n
        BY <2>1, <2>2, <2>3, <2>5, <3>0
      <3>2. Wealth[a][x] - Wealth'[a][x] = n /\ n \in 1 .. Wealth[a][x]
        BY <2>1, <2>2, <3>0, <3>1
      <3>3. Wealth' = [Wealth EXCEPT ![a][x] = @ - n, ![r.to][x] = @ + n]
        <4> DEFINE b == r.to
        <4>1. a \in Accounts /\ b \in Accounts /\ x \in Asset /\ n \in Nat /\ a # b
          BY <2>1, <2>2, <2>5
        <4>2. \A c \in Accounts, y \in Asset :
                Wealth'[c][y] = Wealth[c][y] + (IF c = a /\ y = x THEN -n ELSE 0)
                                   + (IF c = b /\ y = x THEN n ELSE 0)
          BY <2>3
        <4> HIDE DEF b, x, n
        <4>3. Wealth' = [Wealth EXCEPT ![a][x] = @ - n, ![b][x] = @ + n]
          <5> DEFINE g == HandOver(Wealth, a, b, x, n)
          <5>1. /\ g \in [Accounts -> [Asset -> Int]]
                /\ \A c \in Accounts, y \in Asset :
                     g[c][y] = Handed(Wealth, a, b, x, n, c, y)
            BY <4>1, WealthHandedOver, ZenonT(30)
          <5>2. \A c \in Accounts, y \in Asset : Wealth'[c][y] = g[c][y]
            <6> TAKE c \in Accounts, y \in Asset
            <6>1. Wealth[c][y] \in Nat
              BY <1>1
            <6>2. QED
              BY <4>1, <4>2, <5>1, <6>1 DEF Handed
          <5> HIDE DEF g
          <5>3. Wealth' = g
            BY <1>0, <5>1, <5>2, SameWealth
          <5>4. QED
            BY <5>3 DEF g, HandOver
        <4>4. QED
          BY <4>3 DEF b
      <3>4. Promise!Pay(a, r.to, x)
        BY <1>4, <2>1, <2>5, <3>2, <3>3 DEF Promise!Pay
      <3>5. QED
        BY <2>1, <2>2, <3>4 DEF Promise!Next
    <2>6. QED
      BY <2>4, <2>5
  <1>7. ASSUME NEW h, Collecting(h)
        PROVE  [Promise!Next]_<<Wealth, Offered>>
    <2> DEFINE r == receivables[h]
    <2>1. /\ h \in Hash /\ r \in Receivable /\ r # None
          /\ Moved(r.to, r.asset, r.amount)
          /\ receivables' = [receivables EXCEPT ![h] = None]
          /\ UNCHANGED locks
      BY <1>2, <1>7 DEF Collecting
    <2>2. r.to \in Accounts /\ r.asset \in Asset /\ r.amount \in Nat
      BY <2>1, DueAndHeld
    <2>3. ASSUME NEW c \in Accounts, NEW y \in Asset
          PROVE  Wealth'[c][y] = Wealth[c][y]
      <3>1. Stock'[c][y] = Stock[c][y] + DueTo(r, c, y)
        BY <2>1, <2>2, MovedEntry DEF DueTo
      <3>2. Incoming({c}, y)' = Incoming({c}, y) - DueTo(r, c, y)
        BY <2>1, LeavesWealth
      <3>3. DueTo(r, c, y) \in Nat
        BY <2>1, DueOne
      <3>4. QED
        BY <3>1, <3>2, <3>3, Pieces
    <2>4. QED
      BY <1>1, <1>4, <2>1, <2>3
  <1>8. ASSUME NEW a, Issuing(a)
        PROVE  [Promise!Next]_<<Wealth, Offered>>
    <2> DEFINE n == issuedByAccount[a] + 1
    <2>1. /\ a \in Accounts /\ Stock[a][Kei] >= n /\ Moved(a, Kei, -n)
          /\ UNCHANGED <<receivables, locks>>
      BY <1>8 DEF Issuing
    <2>2. n \in Nat /\ n > 0 /\ -n \in Int
      BY <1>2, <2>1
    <2> HIDE DEF n
    <2>3. Promise!Destroy(a, Kei)
      BY <1>1, <1>3, <1>4, <2>1, <2>2, Spent
    <2>4. QED
      BY <1>3, <2>1, <2>3 DEF Promise!Next
  <1>9. ASSUME NEW h, NEW r, Minting(h, r)
        PROVE  [Promise!Next]_<<Wealth, Offered>>
    <2> DEFINE x == r.asset
               n == r.amount
    <2>1. /\ h \in Hash /\ r \in Receivable /\ r.asset # Kei /\ n > 0
          /\ receivables[h] = None
          /\ receivables' = [receivables EXCEPT ![h] = r]
          /\ UNCHANGED <<Stock, locks>>
      BY <1>9 DEF Minting
    <2>2. r.to \in Accounts /\ x \in Asset /\ n \in Nat
      BY <2>1, DueAndHeld
    <2>3. ASSUME NEW c \in Accounts, NEW y \in Asset
          PROVE  Wealth'[c][y] = Wealth[c][y] + (IF c = r.to /\ y = x THEN n ELSE 0)
      <3>1. Incoming({c}, y)' = Incoming({c}, y) + (IF c = r.to /\ y = x THEN n ELSE 0)
        BY <2>1, ArrivesWealth DEF DueTo
      <3>2. Stock'[c][y] = Stock[c][y]
        BY <2>1
      <3>3. QED
        BY <2>2, <3>1, <3>2, Pieces
    <2>4. Promise!Create(r.to, x)
      BY <1>1, <1>4, <2>1, <2>2, <2>3, Gained
    <2>5. QED
      BY <2>2, <2>4 DEF Promise!Next
  <1>10. ASSUME NEW a, NEW t, NEW n, Claiming(a, t, n)
         PROVE  [Promise!Next]_<<Wealth, Offered>>
    <2>1. /\ a \in Accounts /\ t \in Token /\ n \in Nat /\ n > 0 /\ n \in Int
          /\ Moved(a, t, n) /\ UNCHANGED <<receivables, locks>>
      BY <1>10 DEF Claiming
    <2>2. ASSUME NEW c \in Accounts, NEW y \in Asset
          PROVE  Wealth'[c][y] = Wealth[c][y] + (IF c = a /\ y = t THEN n ELSE 0)
      <3>1. Stock'[c][y] = Stock[c][y] + (IF c = a /\ y = t THEN n ELSE 0)
        BY <1>3, <2>1, MovedEntry
      <3>2. Incoming({c}, y)' = Incoming({c}, y)
        BY <2>1, IncomingStays
      <3>3. QED
        BY <2>1, <3>1, <3>2, Pieces
    <2>3. t \in Asset /\ t # Kei
      BY <1>3, <2>1
    <2>4. Promise!Create(a, t)
      BY <1>1, <1>4, <2>1, <2>2, <2>3, Gained
    <2>5. QED
      BY <2>1, <2>3, <2>4 DEF Promise!Next
  <1>11. ASSUME NEW a, NEW t, NEW n, Burning(a, t, n)
         PROVE  [Promise!Next]_<<Wealth, Offered>>
    <2>1. /\ a \in Accounts /\ t \in Asset /\ n \in Nat /\ n > 0 /\ -n \in Int
          /\ Stock[a][t] >= n /\ Moved(a, t, -n) /\ UNCHANGED <<receivables, locks>>
      BY <1>3, <1>11 DEF Burning
    <2>2. Promise!Destroy(a, t)
      BY <1>1, <1>4, <2>1, Spent
    <2>3. QED
      BY <2>1, <2>2 DEF Promise!Next
  <1>12. ASSUME NEW h, NEW l, Offering(h, l)
         PROVE  [Promise!Next]_<<Wealth, Offered>>
    <2> DEFINE a == l.owner
               x == l.asset
               n == l.amount
    <2>1. /\ h \in Hash /\ l \in Lock /\ locks[h] = None
          /\ l.state = "open" /\ l.acceptedBy = None
          /\ n > 0 /\ l.wantAmount > 0
          /\ Stock[a][x] >= n /\ Moved(a, x, -n)
          /\ locks' = [locks EXCEPT ![h] = l]
          /\ UNCHANGED receivables
      BY <1>12 DEF Offering
    <2>2. a \in Accounts /\ x \in Asset /\ n \in Nat /\ -n \in Int
      BY <2>1 DEF Lock
    <2>3. ASSUME NEW c \in Accounts, NEW y \in Asset
          PROVE  Wealth'[c][y] = IF c = a /\ y = x THEN Wealth[a][x] - n ELSE Wealth[c][y]
      <3>1. Stock'[c][y] = Stock[c][y] + (IF c = a /\ y = x THEN -n ELSE 0)
        BY <2>1, <2>2, MovedEntry
      <3>2. Incoming({c}, y)' = Incoming({c}, y)
        BY <2>1, IncomingStays
      <3>3. QED
        BY <2>2, <3>1, <3>2, Pieces
    <2>4. Wealth[a][x] >= n /\ Wealth[a][x] - n \in Int
      <3>1. /\ Stock[a][x] \in Nat /\ Incoming({a}, x) \in Nat
            /\ Wealth[a][x] = Stock[a][x] + Incoming({a}, x)
        BY <2>2, Pieces
      <3>2. QED
        BY <2>1, <2>2, <3>1
    <2>5. Wealth' = [Wealth EXCEPT ![a][x] = @ - n]
      <3>1. \A c \in Accounts, y \in Asset :
              Wealth'[c][y] = IF c = a /\ y = x THEN Wealth[a][x] - n ELSE Wealth[c][y]
        BY <2>3
      <3> HIDE DEF a, x, n
      <3>2. Wealth' = [Wealth EXCEPT ![a][x] = Wealth[a][x] - n]
        BY <1>0, <2>2, <2>4, <3>1, ReplacedEntry
      <3>3. QED
        BY <3>2
    <2>6. /\ Offered[h] = None /\ Offered' = [Offered EXCEPT ![h] = OfferView(l)]
          /\ Offered'[h] = OfferView(l)
      <3>1. Offered' = [Offered EXCEPT ![h] = OfferView(l)]
        BY <2>1, OfferedMoves
      <3>2. Offered[h] = None
        BY <2>1 DEF Offered, OfferView
      <3>3. Offered'[h] = OfferView(l)
        BY <2>1, <3>1 DEF Offered
      <3>4. QED
        BY <3>1, <3>2, <3>3
    <2>7. /\ OfferView(l) # None
          /\ OfferView(l).state = "open" /\ OfferView(l).acceptedBy = None
          /\ OfferView(l).amount = n /\ OfferView(l).wantAmount = l.wantAmount
          /\ OfferView(l).owner = a /\ OfferView(l).asset = x
      BY <2>1, ViewIs
    <2>8. Promise!Offer(h)
      BY <2>1, <2>4, <2>5, <2>6, <2>7 DEF Promise!Offer
    <2>9. QED
      BY <2>1, <2>8 DEF Promise!Next
  <1>13. ASSUME NEW h, NEW s, NEW a, Accepting(h, s, a)
         PROVE  [Promise!Next]_<<Wealth, Offered>>
    <2> DEFINE l == locks[h]
               o == l.owner
               w == l.wantAsset
               k == l.wantAmount
               p == Payment(h, a)
               d == Delivery(h, a)
               m == [l EXCEPT !.state = "accepted", !.acceptedBy = a, !.settledBy = s]
    <2>1. /\ h \in Hash /\ s \in Hash /\ a \in Accounts
          /\ l \in Lock /\ l # None /\ l.state = "open"
          /\ a # o /\ l.counterparty \in {None, a}
          /\ Stock[a][w] >= k
          /\ h # s /\ receivables[h] = None /\ receivables[s] = None
          /\ Moved(a, w, -k)
          /\ receivables' = [receivables EXCEPT ![s] = p, ![h] = d]
          /\ locks' = [locks EXCEPT ![h] = m]
      BY <1>2, <1>13 DEF Accepting
    <2>2. /\ o \in Accounts /\ w \in Asset /\ k \in Nat /\ -k \in Int
          /\ l.asset \in Asset /\ l.amount \in Nat /\ m \in Lock
      <3>1. /\ o \in Accounts /\ w \in Asset /\ k \in Nat
            /\ l.asset \in Asset /\ l.amount \in Nat /\ m \in Lock
        BY <2>1 DEF Lock
      <3>2. QED
        BY <3>1
    <2>3. /\ p \in Receivable /\ p.to = o /\ p.asset = w /\ p.amount = k
          /\ d \in Receivable /\ d.to = a /\ d.asset = l.asset /\ d.amount = l.amount
      BY <2>1, <2>2 DEF Payment, Delivery, ReceivableOf, Receivable
    <2> HIDE DEF p, d
    <2>4. ASSUME NEW c \in Accounts, NEW y \in Asset
          PROVE  Wealth'[c][y] = Wealth[c][y] + (IF c = a /\ y = w THEN -k ELSE 0)
                                   + (IF c = o /\ y = w THEN k ELSE 0)
                                   + (IF c = a /\ y = l.asset THEN l.amount ELSE 0)
      <3>1. Stock'[c][y] = Stock[c][y] + (IF c = a /\ y = w THEN -k ELSE 0)
        BY <2>1, <2>2, MovedEntry
      <3>2. Incoming({c}, y)' = Incoming({c}, y) + Due(p, {c}, y) + Due(d, {c}, y)
        <4> HIDE DEF m
        <4>1. {c} \in SUBSET Accounts
          OBVIOUS
        <4>2. /\ h \in Hash /\ s \in Hash /\ h # s
              /\ receivables[h] = None /\ receivables[s] = None
              /\ p \in Receivable /\ d \in Receivable
              /\ receivables' = [receivables EXCEPT ![s] = p, ![h] = d]
          BY <2>1, <2>3
        <4>3. QED
          BY <4>1, <4>2, LegsMove
      <3>3. /\ Due(p, {c}, y) = IF c = o /\ y = w THEN k ELSE 0
            /\ Due(d, {c}, y) = IF c = a /\ y = l.asset THEN l.amount ELSE 0
        BY <2>3, DueOne DEF DueTo
      <3>4. /\ Stock[c][y] \in Nat /\ Incoming({c}, y) \in Nat
            /\ Wealth[c][y] = Stock[c][y] + Incoming({c}, y)
            /\ Wealth'[c][y] = Stock'[c][y] + Incoming({c}, y)'
        BY Pieces
      <3>5. QED
        BY <2>2, <3>1, <3>2, <3>3, <3>4
    <2>5. Wealth' = [[Wealth EXCEPT ![a][w] = @ - k, ![o][w] = @ + k]
                        EXCEPT ![a][l.asset] = @ + l.amount]
      <3> DEFINE z == l.asset
                 v == l.amount
      <3>1. /\ a \in Accounts /\ o \in Accounts /\ w \in Asset /\ z \in Asset
            /\ k \in Nat /\ v \in Nat /\ a # o
        BY <2>1, <2>2
      <3>2. \A c \in Accounts, y \in Asset :
              Wealth'[c][y] = Wealth[c][y] + (IF c = a /\ y = w THEN -k ELSE 0)
                                + (IF c = o /\ y = w THEN k ELSE 0)
                                + (IF c = a /\ y = z THEN v ELSE 0)
        BY <2>4
      <3> HIDE DEF l, o, w, k, z, v
      <3>3. Wealth' = [[Wealth EXCEPT ![a][w] = @ - k, ![o][w] = @ + k]
                          EXCEPT ![a][z] = @ + v]
        <4> DEFINE g == HandOver(Wealth, a, o, w, k)
        <4>1. /\ g \in [Accounts -> [Asset -> Int]]
              /\ \A c \in Accounts, y \in Asset :
                   g[c][y] = Handed(Wealth, a, o, w, k, c, y)
          BY <3>1, WealthHandedOver, ZenonT(30)
        <4> HIDE DEF g
        <4>2. g[a][z] + v \in Int
          BY <3>1, <4>1
        <4>3. PICK e : e = [g EXCEPT ![a][z] = g[a][z] + v]
          OBVIOUS
        <4>4. /\ e \in [Accounts -> [Asset -> Int]]
              /\ \A c \in Accounts, y \in Asset :
                   e[c][y] = IF c = a /\ y = z THEN g[a][z] + v ELSE g[c][y]
          BY <3>1, <4>1, <4>2, <4>3, OneEntry
        <4>5. \A c \in Accounts, y \in Asset : Wealth'[c][y] = e[c][y]
          <5> TAKE c \in Accounts, y \in Asset
          <5>1. Wealth[c][y] \in Nat
            BY <1>1
          <5>2. Wealth'[c][y] = g[c][y] + (IF c = a /\ y = z THEN v ELSE 0)
            BY <3>1, <3>2, <4>1, <5>1 DEF Handed
          <5>3. g[c][y] \in Int
            BY <4>1
          <5>4. QED
            BY <3>1, <4>4, <5>2, <5>3
        <4>6. Wealth' = e
          BY <1>0, <4>4, <4>5, SameWealth
        <4>7. QED
          BY <4>3, <4>6 DEF g, HandOver
      <3>4. QED
        BY <3>3 DEF z, v
    <2>6. Wealth[a][w] >= k
      <3>1. /\ Stock[a][w] \in Nat /\ Incoming({a}, w) \in Nat
            /\ Wealth[a][w] = Stock[a][w] + Incoming({a}, w)
        BY <2>1, <2>2, Pieces
      <3>2. QED
        BY <2>1, <2>2, <3>1
    <2>7. /\ Offered[h] = OfferView(l) /\ Offered[h] # None
          /\ Offered[h].state = "open" /\ Offered[h].owner = o
          /\ Offered[h].asset = l.asset /\ Offered[h].amount = l.amount
          /\ Offered[h].wantAsset = w /\ Offered[h].wantAmount = k
          /\ Offered[h].counterparty = l.counterparty
      BY <2>1, ViewIs DEF Offered
    <2>8. OfferView(m) = [OfferView(l) EXCEPT !.state = "accepted", !.acceptedBy = a]
      BY <2>1, <2>2, ViewAccepted
    <2> HIDE DEF m
    <2>9. Offered' = [Offered EXCEPT ![h] = OfferView(m)]
      BY <2>1, <2>2, OfferedMoves
    <2>10. Offered' = [Offered EXCEPT ![h] = [@ EXCEPT !.state = "accepted",
                                                       !.acceptedBy = a]]
      BY <2>7, <2>8, <2>9
    <2>11. Promise!Settle(h, a)
      BY <2>1, <2>5, <2>6, <2>7, <2>10 DEF Promise!Settle
    <2>12. QED
      BY <2>1, <2>11 DEF Promise!Next
  <1>14. ASSUME NEW h, NEW s, Cancelling(h, s)
         PROVE  [Promise!Next]_<<Wealth, Offered>>
    <2> DEFINE l == locks[h]
               a == l.owner
               x == l.asset
               n == l.amount
               m == [l EXCEPT !.state = "cancelled", !.settledBy = s]
    <2>1. /\ h \in Hash /\ s \in Hash /\ l \in Lock /\ l # None /\ l.state = "open"
          /\ Moved(a, x, n)
          /\ locks' = [locks EXCEPT ![h] = m]
          /\ UNCHANGED receivables
      BY <1>2, <1>14 DEF Cancelling
    <2>2. a \in Accounts /\ x \in Asset /\ n \in Nat /\ m \in Lock
      BY <2>1 DEF Lock
    <2>3. ASSUME NEW c \in Accounts, NEW y \in Asset
          PROVE  Wealth'[c][y] = IF c = a /\ y = x THEN Wealth[a][x] + n ELSE Wealth[c][y]
      <3>1. Stock'[c][y] = Stock[c][y] + (IF c = a /\ y = x THEN n ELSE 0)
        BY <2>1, <2>2, MovedEntry
      <3>2. Incoming({c}, y)' = Incoming({c}, y)
        BY <2>1, IncomingStays
      <3>3. QED
        BY <2>2, <3>1, <3>2, Pieces
    <2>4. Wealth[a][x] + n \in Int
      BY <1>1, <2>2
    <2>5. Wealth' = [Wealth EXCEPT ![a][x] = @ + n]
      <3>1. \A c \in Accounts, y \in Asset :
              Wealth'[c][y] = IF c = a /\ y = x THEN Wealth[a][x] + n ELSE Wealth[c][y]
        BY <2>3
      <3> HIDE DEF l, a, x, n, m
      <3>2. Wealth' = [Wealth EXCEPT ![a][x] = Wealth[a][x] + n]
        BY <1>0, <2>2, <2>4, <3>1, ReplacedEntry
      <3>3. QED
        BY <3>2
    <2>6. /\ Offered[h] = OfferView(l) /\ Offered[h] # None
          /\ Offered[h].state = "open" /\ Offered[h].owner = a
          /\ Offered[h].asset = x /\ Offered[h].amount = n
      BY <2>1, ViewIs DEF Offered
    <2>7. OfferView(m) = [OfferView(l) EXCEPT !.state = "cancelled"]
      BY <2>1, <2>2, ViewCancelled
    <2> HIDE DEF m
    <2>8. Offered' = [Offered EXCEPT ![h] = [@ EXCEPT !.state = "cancelled"]]
      <3>1. Offered' = [Offered EXCEPT ![h] = OfferView(m)]
        BY <2>1, <2>2, OfferedMoves
      <3>2. QED
        BY <2>6, <2>7, <3>1
    <2>9. Promise!Cancel(h)
      BY <2>1, <2>5, <2>6, <2>8 DEF Promise!Cancel
    <2>10. QED
      BY <2>1, <2>9 DEF Promise!Next
  <1>15. QED
    BY <1>5, <1>6, <1>7, <1>8, <1>9, <1>10, <1>11, <1>12, <1>13, <1>14 DEF Flow

LEMMA ExchangeInit == Init => Promise!Init
  <1> SUFFICES ASSUME Init PROVE Promise!Init
    OBVIOUS
  <1>1. Wealth \in [Accounts -> [Asset -> Nat]]
    BY TypeInit, WealthTyped
  <1>2. Offered = [h \in Hash |-> None]
    BY DEF Offered, OfferView, Init
  <1>3. QED
    BY <1>1, <1>2 DEF Promise!Init

\* Whatever the interleaving of the chains, what people own and offer changes
\* only as Exchange says: an accepted swap moves both legs in one step and
\* each offer ends once.
THEOREM LedgerImplementsExchange == Spec => ImplementsExchange
  <1>1. Init => Promise!Init
    BY ExchangeInit
  <1>2. TypeOK /\ TypeOK' /\ LedgerInv /\ [Next]_vars => [Promise!Next]_<<Wealth, Offered>>
    <2>1. SUFFICES ASSUME TypeOK, LedgerInv, [Next]_vars, TypeOK'
                   PROVE  [Promise!Next]_<<Wealth, Offered>>
      OBVIOUS
    <2>2. Flow
      BY <2>1, FlowStep
    <2>3. QED
      BY <2>1, <2>2, FlowImplements
  <1>3. QED
    BY <1>1, <1>2, TypeCorrect, Supporting, PTL DEF Spec, ImplementsExchange, Promise!Spec

-----------------------------------------------------------------------------
(***************************************************************************)
(* Where the calls for one account are queued, process, split at its       *)
(* await, is the one-step process of Ledger.tla: for any number of calls   *)
(* of any accounts under way at the same time.                             *)
(***************************************************************************)
\* A block of kind k that builds on f.  No part of it depends on the state, so
\* that the provers see the same formula before and after a step.
Builds(b, k, f, ops) ==
    /\ b.account \in Accounts
    /\ f[2] < MaxHeight[b.account]
    /\ b \in [account : {b.account}, previous : {f},
              hash : {<<b.account, f[2] + 1>>}, balance : 0 .. KeiSupply,
              op : ops]

\* A block whose envelope was checked before the await, and still holds.
Ready(b) == \E k \in Kinds : Builds(b, k, frontier[b.account], OpsOf(k))

\* The inductive invariant of the queued calls: every call under way has a
\* block that is still ready, no two of them are for one account, and an
\* account's blocks are numbered from one to its frontier.
QueuedInv ==
    /\ DOMAIN inFlight = Calls
    /\ \A c \in Calls : inFlight[c] # None => Ready(inFlight[c])
    /\ \A c, d \in Calls :
         c # d /\ inFlight[c] # None /\ inFlight[d] # None =>
           inFlight[c].account # inFlight[d].account
    /\ \A a \in Accounts : {h \in blocks : h[1] = a}
                             = {a} \X (1 .. frontier[a][2])

LEMMA BuildsIsSignable ==
    ASSUME NEW b, NEW k \in Kinds, NEW ops
    PROVE  /\ Builds(b, k, frontier[b.account], ops)
                => b \in Signable(b.account, k, ops)
           /\ \A a \in Accounts : b \in Signable(a, k, ops)
                => b.account = a /\ Builds(b, k, frontier[a], ops)
  BY DEF Builds, Signable, Drafts, NextHash

LEMMA OpsKind ==
    ASSUME NEW k \in Kinds, NEW op \in OpsOf(k)
    PROVE  op.kind = k
  <1>1. k \in StateKinds \cup AssetKinds
    BY ConstantsAssumption
  <1>2. CASE k \in {"send", "receive", "change", "issue", "mint", "burn",
                    "transfer"}
    BY <1>2 DEF OpsOf, SendOps, ReceiveOps, ChangeOps, IssueOps, MintOps,
                BurnOps, TransferOps
  <1>3. CASE k \in {"asset_receive", "commit", "commit_close", "claim",
                    "swap_offer", "swap_accept", "swap_cancel"}
    BY <1>3 DEF OpsOf, AssetReceiveOps, CommitOps, CommitCloseOps, ClaimOps,
                SwapOfferOps, SwapAcceptOps, SwapCancelOps
  <1>4. QED
    BY <1>1, <1>2, <1>3 DEF StateKinds, AssetKinds

\* Applying a ready block is processing it in one step.
LEMMA ReadyProcess ==
    ASSUME NEW b, Ready(b), Envelope(b), Apply(b), CommitBlock(b)
    PROVE  Next
  <1> DEFINE a == b.account
  <1>1. a \in Accounts
    BY DEF Ready, Builds
  <1>2. PICK k \in Kinds : b \in Signable(a, k, OpsOf(k))
    BY BuildsIsSignable DEF Ready
  <1>3. b.op \in OpsOf(k)
    BY <1>2 DEF Signable, Drafts
  <1>4. b.op.kind = k
    BY <1>3, OpsKind
  <1>5. Process(b)
    BY DEF Process
  <1>6. CASE b.op.kind = "send" /\ Send(b)
    BY <1>1, <1>2, <1>4, <1>5, <1>6 DEF OpsOf, ProcessSend, Next
  <1>7. CASE b.op.kind = "receive" /\ Receive(b)
    BY <1>1, <1>2, <1>4, <1>5, <1>7 DEF OpsOf, ProcessReceive, Next
  <1>8. CASE b.op.kind = "change" /\ Change(b)
    BY <1>1, <1>2, <1>4, <1>5, <1>8 DEF OpsOf, ProcessChange, Next
  <1>9. CASE b.op.kind = "issue" /\ Issue(b)
    BY <1>1, <1>2, <1>4, <1>5, <1>9 DEF OpsOf, ProcessIssue, Next
  <1>10. CASE b.op.kind = "mint" /\ Mint(b)
    BY <1>1, <1>2, <1>4, <1>5, <1>10 DEF OpsOf, ProcessMint, Next
  <1>11. CASE b.op.kind = "burn" /\ Burn(b)
    BY <1>1, <1>2, <1>4, <1>5, <1>11 DEF OpsOf, ProcessBurn, Next
  <1>12. CASE b.op.kind = "transfer" /\ Transfer(b)
    BY <1>1, <1>2, <1>4, <1>5, <1>12 DEF OpsOf, ProcessTransfer, Next
  <1>13. CASE b.op.kind = "asset_receive" /\ AssetReceive(b)
    BY <1>1, <1>2, <1>4, <1>5, <1>13 DEF OpsOf, ProcessAssetReceive, Next
  <1>14. CASE b.op.kind = "commit" /\ PublishCommit(b)
    BY <1>1, <1>2, <1>4, <1>5, <1>14 DEF OpsOf, ProcessCommit, Next
  <1>15. CASE b.op.kind = "commit_close" /\ CommitClose(b)
    BY <1>1, <1>2, <1>4, <1>5, <1>15 DEF OpsOf, ProcessCommitClose, Next
  <1>16. CASE b.op.kind = "claim" /\ Claim(b)
    BY <1>1, <1>2, <1>4, <1>5, <1>16 DEF OpsOf, ProcessClaim, Next
  <1>17. CASE b.op.kind = "swap_offer" /\ SwapOffer(b)
    BY <1>1, <1>2, <1>4, <1>5, <1>17 DEF OpsOf, ProcessSwapOffer, Next
  <1>18. CASE b.op.kind = "swap_accept" /\ SwapAccept(b)
    BY <1>1, <1>2, <1>4, <1>5, <1>18 DEF OpsOf, ProcessSwapAccept, Next
  <1>19. CASE b.op.kind = "swap_cancel" /\ SwapCancel(b)
    BY <1>1, <1>2, <1>4, <1>5, <1>19 DEF OpsOf, ProcessSwapCancel, Next
  <1>20. QED
    BY <1>6, <1>7, <1>8, <1>9, <1>10, <1>11, <1>12, <1>13, <1>14, <1>15,
       <1>16, <1>17, <1>18, <1>19 DEF Apply

\* The envelope of a ready block needs no second look.
LEMMA ReadyEnvelope ==
    ASSUME TypeOK, NEW b, Ready(b),
           \A a \in Accounts : {h \in blocks : h[1] = a}
                                 = {a} \X (1 .. frontier[a][2])
    PROVE  /\ Envelope(b)
           /\ b.hash = NextHash(b.account)
           /\ b.hash[1] = b.account
           /\ b.previous = frontier[b.account]
  <1>1. b.account \in Accounts
    BY DEF Ready, Builds
  <1>2. /\ b.hash = <<b.account, frontier[b.account][2] + 1>>
        /\ b.previous = frontier[b.account]
    BY DEF Ready, Builds
  <1>3. /\ b.account \in Accounts
        /\ frontier[b.account][2] \in Nat
    BY <1>1, ConstantsAssumption DEF TypeOK, ChainsTyped
  <1>4. b.hash = NextHash(b.account)
    BY <1>2 DEF NextHash
  <1>5. b.hash \notin {b.account} \X (1 .. frontier[b.account][2])
    BY <1>2, <1>3
  <1>6. b.hash \notin blocks
    BY <1>2, <1>3, <1>5
  <1>7. QED
    BY <1>2, <1>4, <1>6 DEF Envelope

\* Operations that name an earlier block can name more of them later on.
LEMMA OpsGrow ==
    ASSUME blocks \subseteq blocks', NEW k \in Kinds
    PROVE  OpsOf(k) \subseteq OpsOf(k)'
  <1>1. k \in StateKinds \cup AssetKinds
    BY ConstantsAssumption
  <1>2. CASE k \in {"send", "receive", "change", "issue", "mint", "burn",
                    "transfer"}
    BY <1>2 DEF OpsOf, SendOps, ReceiveOps, ChangeOps, IssueOps, MintOps,
                BurnOps, TransferOps
  <1>3. CASE k \in {"asset_receive", "commit", "commit_close", "claim",
                    "swap_offer", "swap_accept", "swap_cancel"}
    BY <1>3 DEF OpsOf, AssetReceiveOps, CommitOps, CommitCloseOps,
                ClaimOps, SwapOfferOps, SwapAcceptOps, SwapCancelOps
  <1>4. QED
    BY <1>1, <1>2, <1>3 DEF StateKinds, AssetKinds

\* A call's block stays ready while blocks of other accounts are processed.
LEMMA ReadyKept ==
    ASSUME NEW d, Ready(inFlight[d]), inFlight'[d] = inFlight[d],
           blocks \subseteq blocks',
           frontier'[inFlight[d].account] = frontier[inFlight[d].account]
    PROVE  Ready(inFlight[d])'
  <1>1. PICK k \in Kinds :
               Builds(inFlight[d], k, frontier[inFlight[d].account], OpsOf(k))
    BY DEF Ready
  <1>2. OpsOf(k) \subseteq OpsOf(k)'
    BY OpsGrow
  <1>3. \A b, f, ops, more :
          Builds(b, k, f, ops) /\ ops \subseteq more => Builds(b, k, f, more)
    BY DEF Builds
  <1>4. Builds(inFlight'[d], k, frontier'[inFlight'[d].account], OpsOf(k)')
    BY <1>1, <1>2, <1>3
  <1>5. QED
    BY <1>4 DEF Ready

\* While nothing of an account is under way, its next number is free.
LEMMA FreshIsNext ==
    ASSUME TypeOK, QueuedInv, NEW a \in Accounts, Queued(a)
    PROVE  FreshNumber(a) = frontier[a][2] + 1
  <1>1. frontier[a][2] \in Nat
    BY ConstantsAssumption DEF TypeOK, ChainsTyped
  <1>2. \A b \in Waiting : Ready(b)
    BY DEF Waiting, QueuedInv
  <1>3. \A b \in Waiting : b.hash[1] = b.account
    BY <1>2, ReadyEnvelope DEF QueuedInv
  <1>4. \A b \in Waiting : b.hash[1] # a
    BY <1>3 DEF Queued
  <1>5. {h \in blocks \cup {b.hash : b \in Waiting} : h[1] = a}
          = {h \in blocks : h[1] = a}
    BY <1>4
  <1>6. {h \in blocks : h[1] = a} = {a} \X (1 .. frontier[a][2])
    BY DEF QueuedInv
  <1> DEFINE n == frontier[a][2]
  <1>7. IsFiniteSet({a}) /\ Cardinality({a}) = 1
    BY FS_Singleton
  <1>8. IsFiniteSet(1 .. n) /\ Cardinality(1 .. n) = n
    <2>1. 1 \in Int /\ n \in Int
      BY <1>1
    <2>2. /\ IsFiniteSet(1 .. n)
          /\ Cardinality(1 .. n) = IF 1 > n THEN 0 ELSE n - 1 + 1
      BY <2>1, FS_Interval
    <2>3. QED
      BY <1>1, <2>2
  <1>9. Cardinality({a} \X (1 .. n)) = Cardinality({a}) * Cardinality(1 .. n)
    BY <1>7, <1>8, FS_Product
  <1>10. Cardinality({a} \X (1 .. n)) = n
    BY <1>1, <1>7, <1>8, <1>9
  <1> DEFINE own == {h \in blocks \cup {b.hash : b \in Waiting} : h[1] = a}
  <1>11. own = {a} \X (1 .. n)
    BY <1>5, <1>6
  <1>12. FreshNumber(a) = 1 + Cardinality(own)
    BY DEF FreshNumber
  <1> HIDE DEF own
  <1>13. QED
    BY <1>1, <1>10, <1>11, <1>12

LEMMA BeginStep ==
    ASSUME Serialised, TypeOK, QueuedInv, NEW c \in Calls, NEW a \in Accounts,
           Begin(c, a)
    PROVE  QueuedInv'
  <1>1. inFlight[c] = None /\ Queued(a) /\ UNCHANGED vars
    BY DEF Begin
  <1>2. PICK b \in Arriving(a) : inFlight' = [inFlight EXCEPT ![c] = b]
    BY DEF Begin
  <1>3. b \notin {w \in Waiting : w.account = a}
    BY <1>1 DEF Queued
  <1>4. /\ FreshNumber(a) <= MaxHeight[a]
        /\ \E k \in Kinds : b \in Drafts(a, <<a, FreshNumber(a)>>, OpsOf(k))
    BY <1>2, <1>3 DEF Arriving
  <1>5. FreshNumber(a) = frontier[a][2] + 1
    BY <1>1, FreshIsNext
  <1>6. frontier[a][2] \in Nat /\ MaxHeight[a] \in Nat
    BY ConstantsAssumption DEF TypeOK, ChainsTyped
  <1>7. PICK k \in Kinds : b \in Drafts(a, <<a, FreshNumber(a)>>, OpsOf(k))
    BY <1>4
  <1>8. b.account = a /\ Builds(b, k, frontier[b.account], OpsOf(k))
    <2>1. b.account = a
      BY <1>7 DEF Drafts
    <2>2. b \in Signable(a, k, OpsOf(k))
      BY <1>4, <1>5, <1>6, <1>7 DEF Signable, NextHash
    <2>3. QED
      BY <2>1, <2>2, BuildsIsSignable
  <1>9. \A d \in Calls : d # c /\ inFlight[d] # None => inFlight[d].account # a
    BY <1>1 DEF Queued, Waiting
  <1>10. \A d \in Calls : d # c => inFlight'[d] = inFlight[d]
    BY <1>2 DEF QueuedInv
  <1>11. inFlight'[c] = b /\ DOMAIN inFlight' = Calls
    BY <1>2 DEF QueuedInv
  <1>12. ASSUME NEW d \in Calls, inFlight'[d] # None
         PROVE  Ready(inFlight[d])'
    <2>1. CASE d = c
      <3>1. OpsOf(k) \subseteq OpsOf(k)'
        BY <1>1, OpsGrow DEF vars
      <3>2. Builds(inFlight'[c], k, frontier'[inFlight'[c].account],
                   OpsOf(k)')
        BY <1>1, <1>8, <1>11, <3>1 DEF Builds, vars
      <3>3. QED
        BY <2>1, <3>2 DEF Ready
    <2>2. CASE d # c
      BY <1>1, <1>10, <1>12, <2>2, ReadyKept DEF QueuedInv, vars
    <2>3. QED
      BY <2>1, <2>2
  <1>13. \A d, e \in Calls :
           d # e /\ inFlight'[d] # None /\ inFlight'[e] # None =>
             inFlight'[d].account # inFlight'[e].account
    BY <1>8, <1>9, <1>10, <1>11 DEF QueuedInv
  <1>14. \A x \in Accounts : {h \in blocks' : h[1] = x}
                               = {x} \X (1 .. frontier'[x][2])
    BY <1>1 DEF QueuedInv, vars
  <1>15. QED
    BY <1>11, <1>12, <1>13, <1>14 DEF QueuedInv

LEMMA FinishStep ==
    ASSUME TypeOK, QueuedInv, NEW c \in Calls, Finish(c)
    PROVE  Next /\ QueuedInv'
  <1> DEFINE b == inFlight[c]
             a == b.account
  <1>1. /\ b # None /\ Apply(b) /\ CommitBlock(b)
        /\ inFlight' = [inFlight EXCEPT ![c] = None]
    BY DEF Finish
  <1>2. Ready(b) /\ a \in Accounts
    BY <1>1 DEF QueuedInv, Ready, Builds
  <1>3. /\ Envelope(b) /\ b.hash = NextHash(a) /\ b.hash[1] = a
    BY <1>2, ReadyEnvelope DEF QueuedInv
  <1>4. Next
    BY <1>1, <1>2, <1>3, ReadyProcess
  <1>5. /\ blocks' = blocks \cup {b.hash}
        /\ frontier' = [frontier EXCEPT ![a] = b.hash]
    BY <1>1 DEF CommitBlock
  <1>6. \A x \in Accounts : x # a => frontier'[x] = frontier[x]
    BY <1>5 DEF TypeOK, ChainsTyped
  <1>7. frontier'[a] = <<a, frontier[a][2] + 1>> /\ frontier[a][2] \in Nat
    BY <1>2, <1>3, <1>5, ConstantsAssumption DEF TypeOK, ChainsTyped, NextHash
  <1>8. \A d \in Calls : /\ d # c => inFlight'[d] = inFlight[d]
                         /\ inFlight'[c] = None
    BY <1>1 DEF QueuedInv
  <1>9. DOMAIN inFlight' = Calls
    BY <1>1 DEF QueuedInv
  <1>10. ASSUME NEW d \in Calls, inFlight'[d] # None
         PROVE  Ready(inFlight[d])'
    <2>1. d # c /\ inFlight'[d] = inFlight[d] /\ inFlight[d] # None
      BY <1>8, <1>10
    <2>2. Ready(inFlight[d]) /\ inFlight[d].account # a
      BY <1>1, <2>1 DEF QueuedInv
    <2>3. frontier'[inFlight[d].account] = frontier[inFlight[d].account]
      BY <1>6, <2>2 DEF Ready, Builds
    <2>4. blocks \subseteq blocks'
      BY <1>5
    <2>5. QED
      BY <2>1, <2>2, <2>3, <2>4, ReadyKept
  <1>11. \A d, e \in Calls :
           d # e /\ inFlight'[d] # None /\ inFlight'[e] # None =>
             inFlight'[d].account # inFlight'[e].account
    BY <1>8 DEF QueuedInv
  <1>12. ASSUME NEW x \in Accounts
         PROVE  {h \in blocks' : h[1] = x} = {x} \X (1 .. frontier'[x][2])
    <2>1. CASE x # a
      BY <1>3, <1>5, <1>6, <2>1 DEF QueuedInv
    <2>2. CASE x = a
      <3>1. {h \in blocks' : h[1] = a} = {h \in blocks : h[1] = a} \cup {b.hash}
        BY <1>3, <1>5
      <3>2. {h \in blocks : h[1] = a} = {a} \X (1 .. frontier[a][2])
        BY <1>2 DEF QueuedInv
      <3>3. b.hash = <<a, frontier[a][2] + 1>>
        BY <1>3 DEF NextHash
      <3>4. 1 .. (frontier[a][2] + 1)
              = (1 .. frontier[a][2]) \cup {frontier[a][2] + 1}
        BY <1>7
      <3>5. frontier'[a][2] = frontier[a][2] + 1
        BY <1>7
      <3>6. QED
        BY <2>2, <3>1, <3>2, <3>3, <3>4, <3>5
    <2>3. QED
      BY <2>1, <2>2
  <1>13. QED
    BY <1>4, <1>9, <1>10, <1>11, <1>12 DEF QueuedInv

LEMMA IdleStep ==
    ASSUME QueuedInv, UNCHANGED vars,
           inFlight' = inFlight
             \/ \E c \in Calls : inFlight' = [inFlight EXCEPT ![c] = None]
    PROVE  QueuedInv'
  <1>1. /\ DOMAIN inFlight' = Calls
        /\ \A d \in Calls : inFlight'[d] # None => inFlight'[d] = inFlight[d]
    BY DEF QueuedInv
  <1>2. ASSUME NEW d \in Calls, inFlight'[d] # None
        PROVE  Ready(inFlight[d])'
    BY <1>1, <1>2, ReadyKept DEF QueuedInv, vars
  <1>3. \A x \in Accounts : {h \in blocks' : h[1] = x}
                              = {x} \X (1 .. frontier'[x][2])
    BY DEF QueuedInv, vars
  <1>4. QED
    BY <1>1, <1>2, <1>3 DEF QueuedInv

LEMMA QueuedInit == ProcessInit => QueuedInv
  <1> SUFFICES ASSUME ProcessInit PROVE QueuedInv
    OBVIOUS
  <1>1. \A a \in Accounts : frontier[a][2] = 0 /\ blocks = {}
    BY DEF ProcessInit, Init, Origin
  <1>2. QED
    BY <1>1 DEF ProcessInit, QueuedInv

\* One step of the overlapping calls is one step of the ledger, or none.
LEMMA QueuedStep ==
    ASSUME Serialised
    PROVE  TypeOK /\ QueuedInv /\ [ProcessNext]_processVars
             => [Next]_vars /\ QueuedInv'
  <1> SUFFICES ASSUME TypeOK, QueuedInv, [ProcessNext]_processVars
               PROVE  [Next]_vars /\ QueuedInv'
    OBVIOUS
  <1>1. ASSUME NEW c \in Calls, NEW a \in Accounts, Begin(c, a)
        PROVE  UNCHANGED vars /\ QueuedInv'
    BY <1>1, BeginStep DEF Begin
  <1>2. ASSUME NEW c \in Calls, Finish(c) PROVE Next /\ QueuedInv'
    BY <1>2, FinishStep
  <1>3. ASSUME NEW c \in Calls, Refuse(c) PROVE UNCHANGED vars /\ QueuedInv'
    BY <1>3, IdleStep DEF Refuse
  <1>4. CASE UNCHANGED processVars
    BY <1>4, IdleStep DEF processVars
  <1>5. QED
    BY <1>1, <1>2, <1>3, <1>4 DEF ProcessNext, processVars

LEMMA QueuedAlways ==
    ASSUME Serialised
    PROVE  ProcessSpec => [](TypeOK /\ QueuedInv)
  <1>1. ProcessInit => TypeOK /\ QueuedInv
    BY QueuedInit, TypeInit DEF ProcessInit
  <1>2. TypeOK /\ QueuedInv /\ [ProcessNext]_processVars
          => TypeOK' /\ QueuedInv'
    BY QueuedStep, TypeStep
  <1>3. QED
    BY <1>1, <1>2, PTL DEF ProcessSpec

\* Where the calls for one account are queued, process with its await does
\* nothing the one-step ledger does not: every theorem of the ledger is one of
\* the program so driven.
THEOREM QueuedCallsImplementLedger ==
    ASSUME Serialised
    PROVE  ProcessSpec => ImplementsLedger
  <1>1. ProcessInit => Init
    BY DEF ProcessInit
  <1>2. TypeOK /\ QueuedInv /\ [ProcessNext]_processVars => [Next]_vars
    BY QueuedStep
  <1>3. QED
    BY <1>1, <1>2, QueuedAlways, PTL DEF ProcessSpec, Spec, ImplementsLedger

\* One of what it inherits: calls that overlap at the await, but are queued for each
\* account, lose and duplicate nothing.
THEOREM QueuedCallsStayWellKept ==
    ASSUME Serialised
    PROVE  ProcessSpec => []WellKept
  <1>1. ProcessSpec => Spec
    BY QueuedCallsImplementLedger DEF ImplementsLedger
  <1>2. QED
    BY <1>1, AlwaysWellKept, PTL
=============================================================================
