---------------------------- MODULE MarketCoverage ----------------------------
(***************************************************************************)
(* What a walk over accounts says of itself, and how the coverages of two  *)
(* walks of one scope become one (packages/market/src/walk.ts).            *)
(***************************************************************************)
EXTENDS Integers, FiniteSets, Sequences, FiniteSetsExt, TLC

\* failed: the reasons by account.
Coverage(asked, failed, truncated, lost, skipped) ==
    [asked |-> asked, read |-> asked - Cardinality(DOMAIN failed),
     failed |-> failed, truncated |-> truncated, dropped |-> lost,
     skipped |-> skipped,
     complete |-> failed = <<>> /\ truncated = {} /\ lost = 0 /\ skipped = {}]

\* coverageProblem() is null.
Sound(c) ==
    /\ c.asked - c.read = Cardinality(DOMAIN c.failed)
    /\ c.read \in 0..c.asked
    /\ \A a \in DOMAIN c.failed : c.failed[a] # {}
    /\ c.complete => /\ c.read = c.asked /\ c.truncated = {}
                     /\ c.dropped = 0 /\ c.skipped = {}

\* Every reason once, by account.
Unite(f, g) ==
    [a \in DOMAIN f \cup DOMAIN g |->
        (IF a \in DOMAIN f THEN f[a] ELSE {}) \cup
        (IF a \in DOMAIN g THEN g[a] ELSE {})]

Mergeable(c, d) ==
    /\ c.asked = d.asked
    /\ Cardinality(DOMAIN c.failed \cup DOMAIN d.failed) <= c.asked

\* Parts that do not describe the same scope are refused.
Merge(c, d) ==
    Coverage(c.asked, Unite(c.failed, d.failed), c.truncated \cup d.truncated,
             Max({c.dropped, d.dropped}), c.skipped \cup d.skipped)
=============================================================================
