------------------------------ MODULE MCWallet ------------------------------
(***************************************************************************)
(* The wallet's page for TLC, one part of it at a time: the client, or the *)
(* claims over the page's storage.  `part` is chosen once; what belongs to *)
(* the other part stays as it began.                                       *)
(***************************************************************************)
EXTENDS KeiClient

CONSTANTS r1, r2, p1, d1, d2, t1, c1

VARIABLES part, tab, held, calls, records, claimed, ended, known, full, mishaps

Right(r) == [root |-> r, terms |-> "right"]

\* Two drops, one of a token with a cap.
Claiming == INSTANCE Claims WITH
    Roots <- {d1, d2}, Tabs <- {t1}, Calls <- {c1}, PerTab <- 1, Capped <- {d2},
    Deliveries <- {<<Right(d1)>>, <<Right(d2)>>},
    AutoClaim <- TRUE, MaxPending <- 2, MaxFaults <- 1,
    closed <- ended, faults <- mishaps

page == <<tab, held, calls, records, claimed, ended, known, full, mishaps>>
all == <<vars, part, page>>

WalletInit ==
    /\ Init
    /\ part \in {"client", "claims"}
    /\ part = "claims" => transport = "http"
    /\ Claiming!Init

WalletNext ==
    \/ part = "client" /\ Next /\ UNCHANGED <<part, page>>
    \/ part = "claims" /\ Claiming!Next /\ UNCHANGED <<part, vars>>

\* The fairness of FairSpec and of Claims!LiveSpec, each in its part.
Client == part = "client"
Page == part = "claims"

WalletSpec ==
    /\ WalletInit /\ [][WalletNext]_all
    /\ WF_vars(Client /\ Promises)
    /\ WF_vars(Client /\ Timer)
    /\ WF_page(Page /\ Claiming!Step(c1))
    /\ SF_page(Page /\ Claiming!Open(c1, t1))
    /\ SF_page(Page /\ Claiming!Leave(t1))
    /\ WF_page(Page /\ \E r \in {d1, d2} : Claiming!Learn(r))

\* No caller of receiveAll is forgotten: a drain ends, and one that ends well has
\* collected what was waiting for all who joined it.
CallersAnswered == CallersServed /\ DrainsEnd

\* Whatever was lost or closed half-way, a player who keeps coming back is paid
\* for every proof kept, once all of them can be paid.
PaidInTheEnd == Claiming!PaidInTheEnd
=============================================================================
