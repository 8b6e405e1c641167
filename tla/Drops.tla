-------------------------------- MODULE Drops --------------------------------
(***************************************************************************)
(* Loot tables of packages/economy: the declaration and the roll           *)
(* (drops.ts), and publishing a batch, checking an award and closing a     *)
(* batch (batch.ts), block by block; claims are the players'.              *)
(*                                                                         *)
(* A table is [id, issuer, rows, nothing], its rows [symbol, raw, weight]; *)
(* a batch is a sequence of [asset, owed], one root each.                  *)
(***************************************************************************)
EXTENDS EconomyLedger, MerkleTree

-----------------------------------------------------------------------------
(***************************************************************************)
(* drops.ts                                                                *)
(***************************************************************************)
\* digestOf(): the declaration, of which who issues it is no part.
Digest(table) == <<table.id, table.nothing, table.rows>>

TotalWeight(table) ==
    FoldLeft(LAMBDA sum, row : sum + row.weight, table.nothing, table.rows)

\* The target lies beyond the weights of the rows up to i.
Past(table, i, target) ==
    target >= FoldLeft(LAMBDA sum, row : sum + row.weight, 0, SubSeq(table.rows, 1, i))

\* rollDropTable(): the row an integer target falls on, 0 for nothing.
RollDropTable(table, target) ==
    IF \A i \in DOMAIN table.rows : Past(table, i, target) THEN 0
    ELSE CHOOSE i \in DOMAIN table.rows :
           /\ ~Past(table, i, target)
           /\ \A j \in 1 .. i - 1 : Past(table, j, target)

\* dropSalt(): the nonce of a call is the call, fresh by construction.
DropSalt(digest, nonce) == <<digest, nonce>>

\* describeRef() and resolveStack(): a symbol is an asset only with an issuer.
Resolve(row, issuer) ==
    IF row.symbol = "KEI" THEN {"kei"}
    ELSE {s \in Assets : SymbolOf[s] = row.symbol /\ IssuerOf[s] = issuer}

-----------------------------------------------------------------------------
(***************************************************************************)
(* publishDrop()                                                           *)
(***************************************************************************)
\* What the rolls come to: the assets in the order they were first rolled.
Batch(table, players, roll) ==
    LET Row(p) == RollDropTable(table, roll[p])
        Asset(p) == CHOOSE s \in Resolve(table.rows[Row(p)], Issuer) : TRUE
        winners == SelectSeq(players, LAMBDA p : Row(p) # 0)
        assets == FoldLeft(LAMBDA seen, p : IF Contains(seen, Asset(p)) THEN seen
                                            ELSE Append(seen, Asset(p)), <<>>, winners)
    IN [i \in DOMAIN assets |->
          [asset |-> assets[i],
           owed |-> [p \in {q \in Range(winners) : Asset(q) = assets[i]} |->
                       table.rows[Row(p)].raw]]]

Total(owed) == FoldFunction(+, 0, owed)

\* Mutant: every entitlement has room, and all of them together need not.
HeadroomEach(entry) ==
    \A p \in DOMAIN entry.owed : HasRoom(entry.asset, entry.owed[p])

\* assertCommitHeadroom(): the batch on its own, entitlements of earlier
\* batches not counted.
Headroom(entry) == HasRoom(entry.asset, Total(entry.owed))

Salt(c) == DropSalt(Digest(call[c].table), c)

RootAt(c, i) == CommitRoot(call[c].batch[i].asset, call[c].batch[i].owed, Salt(c))

Landed(c) == [root |-> RootAt(c, call[c].wrote + 1), by |-> Issuer,
              asset |-> call[c].batch[call[c].wrote + 1].asset]

\* The rows are resolved, the players rolled and the batch is checked.
Drop(c) ==
    LET table == call[c].table players == call[c].players
    IN /\ call[c].pc = "ready" /\ call[c].op = "drop"
       /\ IsInjective(players)
       /\ \A i \in DOMAIN table.rows : Resolve(table.rows[i], Issuer) # {}
       /\ \E roll \in [Range(players) -> 0 .. TotalWeight(table) - 1] :
            LET batch == Batch(table, players, roll)
            IN call' = [call EXCEPT ![c] =
                 [pc |-> IF \A i \in DOMAIN batch : Headroom(batch[i])
                         THEN "publishing" ELSE "done",
                  op |-> "drop", table |-> table, batch |-> batch, wrote |-> 0,
                  lost |-> FALSE, named |-> 0,
                  answer |-> IF \A i \in DOMAIN batch : Headroom(batch[i])
                             THEN None ELSE "no-headroom"]]
       /\ UNCHANGED <<chain, faults>>

Publishable(c) ==
    LET new == Landed(c)
    IN IssuerOf[new.asset] = Issuer /\ \A r \in roots : r.root # new.root

\* One commit block.  What stops it throws, and the error names the roots
\* that stand; the proofs go with the result that is not returned.
Publish(c) ==
    /\ call[c].pc = "publishing" /\ call[c].wrote < Len(call[c].batch)
    /\ IF Publishable(c)
       THEN /\ roots' = roots \cup {Landed(c)}
            /\ call' = [call EXCEPT ![c].wrote = @ + 1, ![c].named = @ + 1]
       ELSE /\ call' = [call EXCEPT ![c].pc = "done", ![c].answer = "stopped"]
            /\ UNCHANGED roots
    /\ UNCHANGED <<balance, circulating, offers, closed, claimed, faults>>

PublishLost(c) ==
    /\ call[c].pc = "publishing" /\ call[c].wrote < Len(call[c].batch) /\ Fault
    /\ \/ /\ Publishable(c)
          /\ roots' = roots \cup {Landed(c)}
          /\ call' = [call EXCEPT ![c].wrote = @ + 1, ![c].lost = TRUE,
                                  ![c].pc = "done", ![c].answer = "stopped"]
       \/ /\ call' = [call EXCEPT ![c].pc = "done", ![c].answer = "stopped"]
          /\ UNCHANGED roots
    /\ UNCHANGED <<balance, circulating, offers, closed, claimed>>

DropEnds(c) ==
    /\ call[c].pc = "publishing" /\ call[c].wrote = Len(call[c].batch)
    /\ call' = [call EXCEPT ![c].pc = "done", ![c].answer = "done"]
    /\ UNCHANGED <<chain, faults>>

-----------------------------------------------------------------------------
(***************************************************************************)
(* Awards: what a batch that was returned hands its players.               *)
(***************************************************************************)
Returned == {c \in Calls : call[c].op = "drop" /\ call[c].pc = "done" /\ call[c].answer = "done"}

AwardFor(c, i, p) ==
    LET asset == call[c].batch[i].asset owed == call[c].batch[i].owed
    IN [root |-> RootAt(c, i), asset |-> asset, raw |-> owed[p],
        proof |-> ProofFor(asset, owed, Salt(c), p), digest |-> Digest(call[c].table),
        nonce |-> c, saltProof |-> SaltProof(asset, owed, Salt(c))]

\* One batch pays a player once, under the root of what was rolled.
Awards(p) == {AwardFor(w[1], w[2], p) : w \in
    {v \in Returned \X (1 .. Cardinality(Assets)) :
       v[2] \in DOMAIN call[v[1]].batch /\ p \in DOMAIN call[v[1]].batch[v[2]].owed}}

\* What the ledger asks of a claim.
Claimable(p, award) ==
    /\ \E r \in roots \ closed : r.root = award.root /\ r.asset = award.asset
                                 /\ IssuerOf[r.asset] = r.by
    /\ <<p, award.root>> \notin claimed
    /\ HasRoom(award.asset, award.raw)
    /\ VerifyProof(LeafHash(p, award.asset, award.raw), award.proof, award.root)

\* A player claims an award: the claim mints.
Claim(p) ==
    /\ \E award \in Awards(p) :
         /\ Claimable(p, award)
         /\ claimed' = claimed \cup {<<p, award.root>>}
         /\ circulating' = [circulating EXCEPT ![award.asset] = @ + award.raw]
         /\ balance' = [balance EXCEPT ![p][award.asset] = @ + award.raw]
    /\ UNCHANGED <<offers, roots, closed, call, faults>>

\* Mutant: who published the batch says what a symbol means.
AnchoredByBatch(award, table) == \E r \in roots : r.root = award.root /\
    \E i \in DOMAIN table.rows : award.asset \in Resolve(table.rows[i], r.by)
                                 /\ table.rows[i].raw = award.raw

\* The table's issuer says what its symbols mean, never the batch's.
Anchored(award, table) ==
    \E i \in DOMAIN table.rows : award.asset \in Resolve(table.rows[i], table.issuer)
                                 /\ table.rows[i].raw = award.raw

\* verifyAward() and checkDropBinding()
VerifyAward(p, award, table) ==
    /\ \E r \in roots \ closed : r.root = award.root /\ r.asset = award.asset
    /\ award.digest = Digest(table)
    /\ VerifyProof(SaltLeaf(DropSalt(award.digest, award.nonce)), award.saltProof, award.root)
    /\ VerifyProof(LeafHash(p, award.asset, award.raw), award.proof, award.root)
    /\ table.issuer # None
    /\ Anchored(award, table)

-----------------------------------------------------------------------------
(***************************************************************************)
(* closeRoots()                                                            *)
(***************************************************************************)
Entitled(d) == UNION {{<<p, RootAt(d, i)>> : p \in DOMAIN call[d].batch[i].owed} :
                        i \in DOMAIN call[d].batch}

Close(c) ==
    LET d == call[c].of
    IN /\ call[c].pc = "ready" /\ call[c].op = "close"
       /\ d \in Returned
       /\ call' = [call EXCEPT ![c] =
            [pc |-> "asking", op |-> "close", of |-> d, force |-> call[c].force,
             ask |-> SetToSeq(Entitled(d)), unclaimed |-> {}, closes |-> 0, answer |-> None]]
       /\ UNCHANGED <<chain, faults>>

\* hasClaimed(), one recipient after the other.
Ask(c) ==
    /\ call[c].pc = "asking" /\ call[c].ask # <<>>
    /\ LET e == Head(call[c].ask)
       IN call' = [call EXCEPT ![c].ask = Tail(@),
                               ![c].unclaimed = IF e \in claimed THEN @ ELSE @ \cup {e}]
    /\ UNCHANGED <<chain, faults>>

MayClose(c) == call[c].unclaimed = {} \/ call[c].force

Asked(c) ==
    /\ call[c].pc = "asking" /\ call[c].ask = <<>>
    /\ call' = [call EXCEPT ![c].pc = IF MayClose(c) THEN "closing" ELSE "done",
                            ![c].answer = IF MayClose(c) THEN None ELSE "unclaimed-drop"]
    /\ UNCHANGED <<chain, faults>>

\* One commit_close block, of a root that may be closed already.
CloseRoot(c) ==
    LET d == call[c].of
    IN /\ call[c].pc = "closing" /\ call[c].closes < Len(call[d].batch)
       /\ closed' = closed \cup {r \in roots : r.root = RootAt(d, call[c].closes + 1)}
       /\ call' = [call EXCEPT ![c].closes = @ + 1]
       /\ UNCHANGED <<balance, circulating, offers, roots, claimed, faults>>

CloseLost(c) ==
    LET d == call[c].of
    IN /\ call[c].pc = "closing" /\ call[c].closes < Len(call[d].batch) /\ Fault
       /\ \/ closed' = closed \cup {r \in roots : r.root = RootAt(d, call[c].closes + 1)}
          \/ UNCHANGED closed
       /\ call' = [call EXCEPT ![c].pc = "done", ![c].answer = "stopped"]
       /\ UNCHANGED <<balance, circulating, offers, roots, claimed>>

CloseEnds(c) ==
    /\ call[c].pc = "closing" /\ call[c].closes = Len(call[call[c].of].batch)
    /\ call' = [call EXCEPT ![c].pc = "done", ![c].answer = "done"]
    /\ UNCHANGED <<chain, faults>>
=============================================================================
