-------------------------------- MODULE Claims ------------------------------
(***************************************************************************)
(* What a wallet does with the bundles a game hands it: createClaims,      *)
(* src/packages/claims/src/api.ts, over the browser store of store.ts.     *)
(*                                                                         *)
(* A bundle is one root and the terms it states.  Retained, it is a record *)
(* in the namespace all tabs of the wallet share, written first as a       *)
(* candidate and then with the wallet's authority; only an admitted record *)
(* may be signed for.  A claim lands at the node or is refused; a record   *)
(* goes when its root is claimed or closed.                                *)
(*                                                                         *)
(* A step of a call is what add, claim, claimAll, pending or ready does    *)
(* between two awaits; a call moves through pc, and `todo` is the bundles  *)
(* it has still to go through, the one it is at first.  Calls of one tab   *)
(* share `held`, calls of all tabs the records.                            *)
(* The text of records (versions, integrity, sizes) is left out: here a    *)
(* record is either exactly what was written or not there.                 *)
(*                                                                         *)
(* An operator that no action uses is a faulty form of the definition that *)
(* follows it, kept to confirm that a property can tell the two apart.     *)
(***************************************************************************)
EXTENDS Integers, FiniteSets, SequencesExt

CONSTANTS
    Roots,        \* roots this wallet has a leaf in
    Deliveries,   \* sequences of bundles the game hands over
    Tabs,         \* pages of this wallet
    Calls,        \* bound: calls of the API under way at one time,
    PerTab,       \*   and of one page
    Capped,       \* roots whose asset may have no room
    AutoClaim,    \* the option of that name
    MaxPending,   \* MAX_PENDING_CLAIMS (128)
    MaxFaults     \* bound: calls of node or storage that fail, and crashes

Terms == {"right", "wrong"}
Bundle == [root : Roots, terms : Terms]
Record == [root : Roots, terms : Terms, admitted : BOOLEAN]

ASSUME ClaimsAssumption ==
    /\ Deliveries \subseteq Seq(Bundle) \ {<<>>}
    /\ Capped \subseteq Roots
    /\ AutoClaim \in BOOLEAN
    /\ PerTab \in Nat \ {0}
    /\ MaxPending \in Nat \ {0}
    /\ MaxFaults \in Nat

VARIABLES
    tab,       \* each page: "closed", "starting" or "open"
    held,      \* each page's bundles, in the order of its Map
    calls,     \* what each call is doing, or Idle
    records,   \* the namespace in the browser's storage, in its order
    claimed,   \* at the node: roots this account has claimed
    closed,    \* at the node: roots the issuer has closed
    known,     \* at the node: roots whose commit it has applied
    full,      \* at the node: roots whose asset has no room for the claim
    faults

ledger == <<claimed, closed, known, full>>
vars == <<tab, held, calls, records, ledger, faults>>

Idle == [kind |-> "none", tab |-> "none", phase |-> "none", pc |-> "idle",
         todo |-> <<>>]

Init ==
    /\ tab = [t \in Tabs |-> "closed"]
    /\ held = [t \in Tabs |-> <<>>]
    /\ calls = [c \in Calls |-> Idle]
    /\ records = <<>>
    /\ claimed = {}
    /\ closed = {}
    /\ known = {}
    /\ full = {}
    /\ faults = 0

RootsIn(list) == {list[i].root : i \in DOMAIN list}

\* Map.delete, and filter in the store: the entry for r, of which there is one.
Without(list, r) ==
    IF r \in RootsIn(list)
    THEN RemoveAt(list, CHOOSE i \in DOMAIN list : list[i].root = r)
    ELSE list

\* Map.set, and findIndex or push in the store: an entry keeps its place.
With(list, entry) ==
    IF entry.root \in RootsIn(list)
    THEN [i \in DOMAIN list |-> IF list[i].root = entry.root THEN entry ELSE list[i]]
    ELSE Append(list, entry)

RecordFor(b, admitted) == [root |-> b.root, terms |-> b.terms, admitted |-> admitted]
AdmittedIn(recs) == {b \in Bundle : RecordFor(b, TRUE) \in ToSet(recs)}
Admitted(b) == b \in AdmittedIn(records)

\* The bundle a call is at.
Current(c) == Head(calls[c].todo)
PageOf(c) == calls[c].tab
Holding(c) == held[PageOf(c)]

Becomes(c, phase, pc, todo) ==
    /\ calls' = [calls EXCEPT ![c] = [@ EXCEPT !.phase = phase, !.pc = pc, !.todo = todo]]
    /\ UNCHANGED tab
Goto(c, pc) == Becomes(c, calls[c].phase, pc, calls[c].todo)

\* The call returns or throws; ready does neither to its caller.
Ends(c) ==
    /\ calls' = [calls EXCEPT ![c] = Idle]
    /\ tab' = IF calls[c].kind = "ready" THEN [tab EXCEPT ![PageOf(c)] = "open"] ELSE tab

Fault == faults < MaxFaults /\ faults' = faults + 1

\* Every operation of the store holds the lock of the namespace.
Unlocked == \A c \in Calls : calls[c].pc # "authorise"

At(c, pc) == calls[c].pc = pc
AtStore(c, pc) == At(c, pc) /\ Unlocked

\* The proofs of an earlier page are only looked over, never claimed.
GoesOnAfterAdd(c) == calls[c].kind = "claimAll" \/ (AutoClaim /\ calls[c].kind = "add")

\* Whether this call claims what it has reconciled.
GoesOnToClaim(c) ==
    calls[c].kind = "claimAll" \/ (AutoClaim /\ calls[c].kind \in {"ready", "add"})

-----------------------------------------------------------------------------
(* hydrate, the first thing ready does                                     *)

List(c) ==
    /\ AtStore(c, "list")
    /\ Becomes(c, "hydrate", "read", records)
    /\ UNCHANGED <<held, records, claimed, closed, known, full, faults>>

\* One record of those listed, held if it is still there and admitted.
Read(c) ==
    /\ AtStore(c, "read") /\ calls[c].todo # <<>>
    /\ held' = [held EXCEPT ![PageOf(c)] =
                  @ \o SetToSeq({b \in AdmittedIn(records) : b.root = Current(c).root})]
    /\ Becomes(c, "hydrate", "read", Tail(calls[c].todo))
    /\ UNCHANGED <<records, claimed, closed, known, full, faults>>

Hydrated(c) ==
    /\ At(c, "read") /\ calls[c].todo = <<>>
    /\ IF Holding(c) = <<>> THEN Ends(c)
       ELSE Becomes(c, "reconcile", "reconcile", Holding(c))
    /\ UNCHANGED <<held, records, claimed, closed, known, full, faults>>

-----------------------------------------------------------------------------
(* retain, persist and admit                                               *)

\* The terms this page holds for a root, none or one.
HeldFor(c, r) == {b \in ToSet(Holding(c)) : b.root = r}

\* A bundle that is held is looked up in the store once more; a new one must
\* fit and is admitted.  Other terms for a held root are refused.
Retain(c) ==
    /\ At(c, "retain")
    /\ IF calls[c].todo = <<>>
       THEN IF AutoClaim THEN Becomes(c, "reconcile", "reconcile", Holding(c)) ELSE Ends(c)
       ELSE LET existing == HeldFor(c, Current(c).root)
            IN IF existing # {}
               THEN IF existing = {Current(c)} THEN Goto(c, "verify") ELSE Ends(c)
               ELSE IF Len(Holding(c)) >= MaxPending THEN Ends(c) ELSE Goto(c, "admit")
    /\ UNCHANGED <<held, records, claimed, closed, known, full, faults>>

Fits(b) == b.root \in RootsIn(records) \/ Len(records) < MaxPending

\* This root has been admitted, on these terms or on others.
Stands(b) == b.root \in {a.root : a \in AdmittedIn(records)}

\* admit, up to the write of the candidate.  It holds the lock.
Admit(c) ==
    /\ AtStore(c, "admit")
    /\ IF Stands(Current(c))
       THEN /\ IF Admitted(Current(c)) THEN Goto(c, "confirm") ELSE Ends(c)
            /\ UNCHANGED records
       ELSE IF Fits(Current(c))
       THEN /\ records' = With(records, RecordFor(Current(c), FALSE))
            /\ Goto(c, "authorise")
       ELSE Ends(c) /\ UNCHANGED records
    /\ UNCHANGED <<held, claimed, closed, known, full, faults>>

\* The candidate is there: its authority is written beside it.
Authorise(c) ==
    /\ At(c, "authorise")
    /\ records' = With(records, RecordFor(Current(c), TRUE))
    /\ Goto(c, "confirm")
    /\ UNCHANGED <<held, claimed, closed, known, full, faults>>

\* What was admitted is read back, and only then held and signed for.
Verify(c) ==
    /\ AtStore(c, "verify") \/ AtStore(c, "confirm")
    /\ IF Admitted(Current(c))
       THEN /\ held' = IF At(c, "confirm") THEN [held EXCEPT ![PageOf(c)] = With(@, Current(c))]
                       ELSE held
            /\ IF calls[c].phase = "retain"
               THEN Becomes(c, "retain", "retain", Tail(calls[c].todo))
               ELSE Goto(c, "submit")
       ELSE Ends(c) /\ UNCHANGED held
    /\ UNCHANGED <<records, claimed, closed, known, full, faults>>

-----------------------------------------------------------------------------
(* claim: after retain                                                     *)

Payable(b) ==
    /\ b.terms = "right"
    /\ b.root \in known \ (claimed \cup closed \cup full)

Submit(c) ==
    /\ At(c, "submit")
    /\ IF Payable(Current(c))
       THEN claimed' = claimed \cup {Current(c).root} /\ Goto(c, "remove")
       ELSE Ends(c) /\ UNCHANGED claimed
    /\ UNCHANGED <<held, records, closed, known, full, faults>>

\* removePersisted: it never throws.
RemovePersisted(c) ==
    /\ AtStore(c, "remove")
    /\ records' = Without(records, Current(c).root)
    /\ Goto(c, "forget")
    /\ UNCHANGED <<held, claimed, closed, known, full, faults>>

\* held.delete, and on to the next bundle.
Forget(c) ==
    /\ At(c, "forget")
    /\ held' = [held EXCEPT ![PageOf(c)] = Without(@, Current(c).root)]
    /\ IF calls[c].kind = "claim" THEN Ends(c)
       ELSE Becomes(c, calls[c].phase, IF calls[c].phase = "reconcile" THEN "reconcile" ELSE "next",
                    Tail(calls[c].todo))
    /\ UNCHANGED <<records, claimed, closed, known, full, faults>>

-----------------------------------------------------------------------------
(* reconcile, pending and claimAll                                         *)

Reconcile(c) ==
    /\ At(c, "reconcile")
    /\ IF calls[c].todo = <<>>
       THEN IF GoesOnToClaim(c) \/ calls[c].kind = "pending" THEN Goto(c, "pending") ELSE Ends(c)
       ELSE Goto(c, IF Current(c).root \in claimed THEN "remove" ELSE "commit")
    /\ UNCHANGED <<held, records, claimed, closed, known, full, faults>>

\* A root the node does not know is taken for a closed one.
GoneIfUnknown(r) == r \notin known \/ r \in closed

Gone(r) == r \in known /\ r \in closed

\* A root the node does not know is dropped from memory and kept in the store.
CommitInfo(c) ==
    /\ At(c, "commit")
    /\ LET r == Current(c).root
       IN IF Gone(r) THEN Goto(c, "remove") /\ UNCHANGED held
          ELSE /\ Becomes(c, "reconcile", "reconcile", Tail(calls[c].todo))
               /\ held' = IF r \in known THEN held
                          ELSE [held EXCEPT ![PageOf(c)] = Without(@, r)]
    /\ UNCHANGED <<records, claimed, closed, known, full, faults>>

\* What is left is described, and claimed one after the other.
Pending(c) ==
    /\ At(c, "pending")
    /\ IF GoesOnToClaim(c) THEN Becomes(c, "claim", "next", Holding(c)) ELSE Ends(c)
    /\ UNCHANGED <<held, records, claimed, closed, known, full, faults>>

NextClaim(c) ==
    /\ At(c, "next")
    /\ IF calls[c].todo = <<>> THEN Ends(c)
       ELSE LET existing == HeldFor(c, Current(c).root)
            IN IF existing = {} THEN Becomes(c, "claim", "next", Tail(calls[c].todo))
               ELSE Becomes(c, "claim", "retain",
                            <<CHOOSE b \in existing : TRUE>> \o Tail(calls[c].todo))
    /\ UNCHANGED <<held, records, claimed, closed, known, full, faults>>

-----------------------------------------------------------------------------
(* what the page asks for                                                  *)

Begin(c, kind, t, phase, pc, todo) ==
    /\ calls[c] = Idle
    /\ Cardinality({d \in Calls : PageOf(d) = t}) < PerTab
    /\ calls' = [calls EXCEPT ![c] = [kind |-> kind, tab |-> t, phase |-> phase,
                                     pc |-> pc, todo |-> todo]]

\* Kei.start makes a new API, with nothing held, and waits for ready.
Open(c, t) ==
    /\ tab[t] = "closed"
    /\ Begin(c, "ready", t, "hydrate", "list", <<>>)
    /\ tab' = [tab EXCEPT ![t] = "starting"]
    /\ UNCHANGED <<held, records, claimed, closed, known, full, faults>>

\* What of a delivery is new to the list, each root where it first appears.
Additions(delivery, list) ==
    LET from[i \in 0 .. Len(delivery)] ==
            IF i = 0 THEN <<>>
            ELSE IF delivery[i].root \in RootsIn(list) \cup RootsIn(from[i - 1]) THEN from[i - 1]
            ELSE Append(from[i - 1], delivery[i])
    IN from[Len(delivery)]

\* add, up to its first retain: nothing is kept of a delivery that contradicts
\* itself or what is held, or that would not fit.
AddBundles(c, t, delivery) ==
    /\ tab[t] = "open"
    /\ LET additions == Additions(delivery, held[t])
           agreed == \A a, b \in ToSet(delivery) \cup ToSet(held[t]) : a.root = b.root => a = b
       IN /\ agreed
          /\ Len(held[t]) + Len(additions) <= MaxPending
          /\ Begin(c, "add", t, "retain",
                   IF additions = <<>> THEN "retain" ELSE "admit", additions)
    /\ UNCHANGED <<tab, held, records, claimed, closed, known, full, faults>>

Claim(c, t, b) ==
    /\ tab[t] = "open"
    /\ Begin(c, "claim", t, "claim", "retain", <<b>>)
    /\ UNCHANGED <<tab, held, records, claimed, closed, known, full, faults>>

ClaimAll(c, t) ==
    /\ tab[t] = "open"
    /\ Begin(c, "claimAll", t, "reconcile", "reconcile", held[t])
    /\ UNCHANGED <<tab, held, records, claimed, closed, known, full, faults>>

AskPending(c, t) ==
    /\ tab[t] = "open"
    /\ Begin(c, "pending", t, "reconcile", "reconcile", held[t])
    /\ UNCHANGED <<tab, held, records, claimed, closed, known, full, faults>>

\* The page goes: what it held and what it was doing are gone with it.
Closes(t) ==
    /\ tab' = [tab EXCEPT ![t] = "closed"]
    /\ held' = [held EXCEPT ![t] = <<>>]
    /\ calls' = [c \in Calls |-> IF PageOf(c) = t THEN Idle ELSE calls[c]]
    /\ UNCHANGED <<records, claimed, closed, known, full>>

Leave(t) ==
    /\ tab[t] = "open"
    /\ \A c \in Calls : PageOf(c) # t
    /\ Closes(t)
    /\ UNCHANGED faults

\* In the middle of a call; the browser takes back the lock.
Crash(t) ==
    /\ \E c \in Calls : PageOf(c) = t
    /\ Closes(t)
    /\ Fault

-----------------------------------------------------------------------------
(* what fails                                                              *)

\* An entry the store cannot read, or cannot remove, is reported and passed over.
StorePassedOver(c) ==
    /\ \/ /\ AtStore(c, "read") /\ calls[c].todo # <<>>
          /\ Becomes(c, "hydrate", "read", Tail(calls[c].todo))
       \/ AtStore(c, "remove") /\ Goto(c, "forget")
    /\ Fault
    /\ UNCHANGED <<held, records, claimed, closed, known, full>>

\* Nobody looks at what admit and readAdmitted answered.
UnretainedIgnored(c) ==
    /\ held' = [held EXCEPT ![PageOf(c)] = With(@, Current(c))]
    /\ Goto(c, "submit")

Unretained(c) == Ends(c) /\ UNCHANGED held

\* The list cannot be had: nothing is held until the page is loaded again.  A
\* bundle is not kept or not read back: the call throws.  A candidate that could
\* not be given its authority stays.
StoreRefuses(c) ==
    /\ \/ AtStore(c, "list") /\ Ends(c) /\ UNCHANGED held
       \/ /\ \/ AtStore(c, "admit") \/ At(c, "authorise")
             \/ AtStore(c, "confirm") \/ AtStore(c, "verify")
          /\ Unretained(c)
    /\ Fault
    /\ UNCHANGED <<records, claimed, closed, known, full>>

\* The node does not answer: the call throws.  A claim describes its asset to the
\* caller before it submits.
NodeFails(c) ==
    /\ \/ At(c, "reconcile") /\ calls[c].todo # <<>>
       \/ At(c, "commit") \/ At(c, "submit")
       \/ At(c, "pending") /\ Holding(c) # <<>>
    /\ Ends(c)
    /\ Fault
    /\ UNCHANGED <<held, records, claimed, closed, known, full>>

\* The claim lands and the answer is lost.
AnswerLost(c) ==
    /\ At(c, "submit")
    /\ Payable(Current(c))
    /\ claimed' = claimed \cup {Current(c).root}
    /\ Ends(c)
    /\ Fault
    /\ UNCHANGED <<held, records, closed, known, full>>

-----------------------------------------------------------------------------
(* the ledger                                                              *)

Learn(r) ==
    /\ r \notin known
    /\ known' = known \cup {r}
    /\ UNCHANGED <<tab, held, calls, records, claimed, closed, full, faults>>

Close(r) ==
    /\ r \in known \ closed
    /\ closed' = closed \cup {r}
    /\ UNCHANGED <<tab, held, calls, records, claimed, known, full, faults>>

Fill(r) ==
    /\ r \in Capped \ full
    /\ full' = full \cup {r}
    /\ UNCHANGED <<tab, held, calls, records, claimed, closed, known, faults>>

Free(r) ==
    /\ r \in full
    /\ full' = full \ {r}
    /\ UNCHANGED <<tab, held, calls, records, claimed, closed, known, faults>>

-----------------------------------------------------------------------------

Step(c) ==
    \/ List(c) \/ Read(c) \/ Hydrated(c) \/ Retain(c) \/ Admit(c) \/ Authorise(c) \/ Verify(c)
    \/ Submit(c) \/ RemovePersisted(c) \/ Forget(c)
    \/ Reconcile(c) \/ CommitInfo(c) \/ Pending(c) \/ NextClaim(c)

Asks(c, t) ==
    \/ \E d \in Deliveries : AddBundles(c, t, d)
    \/ \E b \in UNION {ToSet(d) : d \in Deliveries} : Claim(c, t, b)
    \/ ClaimAll(c, t)
    \/ AskPending(c, t)

Next ==
    \/ \E c \in Calls :
         \/ Step(c) \/ StorePassedOver(c) \/ StoreRefuses(c) \/ NodeFails(c) \/ AnswerLost(c)
         \/ \E t \in Tabs : Open(c, t) \/ Asks(c, t)
    \/ \E t \in Tabs : Leave(t) \/ Crash(t)
    \/ \E r \in Roots : Learn(r) \/ Close(r) \/ Fill(r) \/ Free(r)

Spec == Init /\ [][Next]_vars

\* What has been asked of the browser and the node is answered.  The player
\* keeps coming back: a page does not stay open, or closed, for good.  A node
\* catches up with the issuer.
LiveSpec ==
    /\ Spec
    /\ \A c \in Calls : WF_vars(Step(c))
    /\ \A t \in Tabs : SF_vars(\E c \in Calls : Open(c, t)) /\ SF_vars(Leave(t))
    /\ WF_vars(\E r \in Roots : Learn(r))

-----------------------------------------------------------------------------

OnePerRoot(list) == \A i, j \in DOMAIN list : list[i].root = list[j].root => i = j

\* Every variable has its type, and the Map of a page and the namespace of the
\* store have one entry for a root (held, api.ts; parseBrowserNamespace, store.ts).
TypeOK ==
    /\ tab \in [Tabs -> {"closed", "starting", "open"}]
    /\ \A t \in Tabs : held[t] \in Seq(Bundle) /\ OnePerRoot(held[t])
    /\ \A c \in Calls : calls[c] # Idle => /\ PageOf(c) \in Tabs
                                          /\ ToSet(calls[c].todo) \subseteq Bundle \cup Record
    /\ records \in Seq(Record) /\ OnePerRoot(records)
    /\ claimed \subseteq Roots /\ closed \subseteq known /\ known \subseteq Roots
    /\ full \subseteq Capped
    /\ faults \in 0 .. MaxFaults

Settled == claimed \cup closed

\* A proof that was admitted leaves the store, or gives way to other terms, only
\* after the node has said that its root is claimed or closed: a root alone does
\* not give the bundle back (reconcile, api.ts; admit, store.ts).
NothingLost ==
    [][\A b \in AdmittedIn(records) \ AdmittedIn(records') : b.root \in Settled]_vars

\* What any page holds would be there after a reload, on the same terms, as long
\* as it is worth anything: no other page has replaced or removed it (retain,
\* persist and admit under the lock).
HeldIsDurable ==
    \A t \in Tabs : \A b \in ToSet(held[t]) : Admitted(b) \/ b.root \in Settled

\* No block is signed for a bundle that a reload would not recover (verifyAdmitted
\* before submitAsset), whatever the store and other pages did in between.
SignedIsDurable ==
    \A c \in Calls : At(c, "submit") => Admitted(Current(c)) \/ Current(c).root \in Settled

\* Pages that fill the store together stay within the limit past which hydrate
\* loads nothing at all (claim-store-overflow).
WithinLimit == Len(records) <= MaxPending

\* What pages and store say of the proofs, in one.
ProofsAreSafe == TypeOK /\ HeldIsDurable /\ SignedIsDurable /\ WithinLimit

Waiting(r) == r \in {b.root : b \in AdmittedIn(records)}

\* If in the end every proof kept is for the right amount and its asset has room,
\* no proof is kept for good: each is claimed or its root is found closed, whatever
\* failed or was closed half-way before (ready, reconcile and claimAll).
PaidInTheEnd ==
    (<>[](\A b \in AdmittedIn(records) : b.terms = "right" /\ b.root \notin full))
        => \A r \in Roots : []<>~Waiting(r)
=============================================================================
