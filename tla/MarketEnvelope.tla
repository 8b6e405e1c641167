---------------------------- MODULE MarketEnvelope ----------------------------
(***************************************************************************)
(* The value a market store keeps (packages/market/src/storage.ts), what   *)
(* one commit makes of it (store.ts and catalog.ts), and the pages read    *)
(* from it.  Nothing here waits: storage.ts awaits its adapter, and that   *)
(* is MarketStorage's part.                                                *)
(*                                                                         *)
(* Network, instrument and author of an offer are its `terms'; addresses,  *)
(* instruments and sources of a discovery row are its `who'.  Hashes and   *)
(* addresses are numbers because pages are ordered by them.  The retention *)
(* counters, which only ever grow, are kept as the set of tables whose     *)
(* counter is not zero.                                                    *)
(***************************************************************************)
EXTENDS Integers, FiniteSets, Sequences, SequencesExt, FiniteSetsExt

CONSTANTS
    MaxObservations, MaxOffers, MaxCheckpoints, MaxQuarantine,
    MaxSources      \* provenance entries one offer may carry: 32 in the code

ASSUME RetentionAssumption ==
    /\ MaxObservations \in Nat \ {0}
    /\ MaxOffers \in Nat \ {0}
    /\ MaxCheckpoints \in Nat \ {0}
    /\ MaxQuarantine \in Nat \ {0}
    /\ MaxSources \in Nat \ {0}

\* null: no envelope, no id, no settlement.
Null == 0

Settled(o) == o.state # "open"

EmptyEnvelope(key) ==
    [revision |-> 0, catalogRevision |-> 0, offerRevision |-> 0,
     cursorKey |-> key, observations |-> {}, offers |-> {},
     checkpoints |-> {}, quarantine |-> <<>>, dropped |-> {}]

(***************************************************************************)
(* The jobs a caller may ask for.  `materialize' carries one provider page *)
(* of one account: its offers, how many rows the adapter had to reject and *)
(* the watermark.  `announce' carries one participant observation.         *)
(***************************************************************************)
Materialize(offers, rejected, checkpoint) ==
    [kind |-> "materialize", offers |-> offers, rejected |-> rejected,
     checkpoint |-> checkpoint]

Announce(who, id, at) ==
    [kind |-> "announce", who |-> who, id |-> id, at |-> at]

\* What offerOf makes of one provider row: its facts, seen once by one source.
Observed(hash, terms, state, by, settledAt, source, at) ==
    [hash |-> hash, terms |-> terms, state |-> state, by |-> by,
     settledAt |-> settledAt, sources |-> {source}, last |-> at]

Offer == [hash : Int, terms : Int, state : {"open", "accepted", "cancelled"}, by : Int,
          settledAt : Nat, sources : SUBSET Int, last : Int]

Observation == [who : Int, id : Int, first : Int, last : Int, count : Int]

Watermark == [key : Int, at : Int, gen : Int, newest : Int, source : Int]

\* A row that arrives was seen by one source; an announcement has an id.
Arriving == {o \in Offer : \E source \in o.sources : o.sources = {source}}

Reasons == {"immutable-conflict", "provenance-overflow", "rejected"}
Tables == {"observations", "offers", "checkpoints", "quarantine"}

Envelope ==
    [revision : Nat, catalogRevision : Nat, offerRevision : Nat, cursorKey : Nat,
     observations : SUBSET Observation, offers : SUBSET Offer,
     checkpoints : SUBSET Watermark, quarantine : Seq(Reasons), dropped : SUBSET Tables]

Job ==
    [kind : {"materialize"}, offers : Seq(Arriving), rejected : Nat, checkpoint : Watermark]
      \cup [kind : {"announce"}, who : Int, id : Int \ {Null}, at : Int]

(***************************************************************************)
(* What is checked of a row, when it arrives and whenever it is loaded.    *)
(***************************************************************************)
\* An open offer carries no settlement; a settled one says by what and when.
IsOffer(o) ==
    IF o.state = "open"
    THEN o.by = Null /\ o.settledAt = Null
    ELSE o.state \in {"accepted", "cancelled"} /\ o.by # Null /\ o.settledAt # Null

IsStoredOffer(o) ==
    /\ IsOffer(o)
    /\ Cardinality(o.sources) \in 1..MaxSources

\* A folded row has lost its id, never its first and last time and its count.
IsObservation(o) == o.count >= 1 /\ o.first <= o.last

IsCheckpoint(c) == c.gen >= 1 /\ c.at >= 0

\* A page is refused whole, before the store is touched, if one of its rows
\* is malformed or was not seen by the source its watermark speaks for.
WellFormed(job) ==
    \/ job.kind = "announce"
    \/ /\ IsCheckpoint(job.checkpoint)
       /\ \A i \in DOMAIN job.offers :
            /\ IsOffer(job.offers[i])
            /\ job.checkpoint.source \in job.offers[i].sources

-----------------------------------------------------------------------------
(***************************************************************************)
(* Reconciling an observed offer with the stored one.                      *)
(***************************************************************************)
Contradicts(previous, observed) ==
    \/ previous.terms # observed.terms
    \/ /\ Settled(previous)
       /\ Settled(observed)
       /\ <<previous.state, previous.by>> # <<observed.state, observed.by>>

\* Mutant: the page committed last wins.
LifecycleOfLast(previous, observed) == observed

Lifecycle(previous, observed) ==
    IF ~Settled(previous) /\ Settled(observed) THEN observed ELSE previous

Merged(previous, observed) ==
    [Lifecycle(previous, observed) EXCEPT
        !.sources = previous.sources \cup observed.sources,
        !.settledAt = Max({previous.settledAt, observed.settledAt}),
        !.last = Max({previous.last, observed.last})]

\* One of: a new row, a quarantined one, or the stored row replaced.
Reconcile(offers, observed) ==
    LET known == {o \in offers : o.hash = observed.hash}
    IN  IF known = {}
        THEN [offers |-> offers \cup {observed}, reasons |-> <<>>]
        ELSE LET previous == CHOOSE o \in known : TRUE
                 merged == Merged(previous, observed)
             IN  IF Contradicts(previous, observed)
                 THEN [offers |-> offers, reasons |-> <<"immutable-conflict">>]
                 ELSE IF Cardinality(merged.sources) > MaxSources
                 THEN [offers |-> offers, reasons |-> <<"provenance-overflow">>]
                 ELSE [offers |-> (offers \ known) \cup {merged}, reasons |-> <<>>]

\* What the revision of the offers speaks for: a later sight of the same facts
\* changes nothing but the time a page shows for it.
Facts(o) == [o EXCEPT !.last = Null]

\* observedAt, then generation, then the text of what was observed.
Newer(c, prior) ==
    \/ c.at > prior.at
    \/ c.at = prior.at /\ c.gen > prior.gen
    \/ c.at = prior.at /\ c.gen = prior.gen /\ c.newest > prior.newest

Watermarks(checkpoints, c) ==
    LET prior == {p \in checkpoints : p.key = c.key}
    IN  IF \E p \in prior : ~Newer(c, p)
        THEN checkpoints
        ELSE (checkpoints \ prior) \cup {c}

\* The rows of a page are taken in order, each against what the last one left.
TakeIn(offers, rows) ==
    LET taken[i \in 0..Len(rows)] ==
            IF i = 0 THEN [offers |-> offers, reasons |-> <<>>]
            ELSE LET r == Reconcile(taken[i - 1].offers, rows[i])
                 IN  [offers |-> r.offers, reasons |-> taken[i - 1].reasons \o r.reasons]
    IN  taken[Len(rows)]

Materialized(env, job) ==
    LET page == TakeIn(env.offers, job.offers)
        changed == {Facts(o) : o \in page.offers} # {Facts(o) : o \in env.offers}
    IN  [env EXCEPT
            !.offerRevision = IF changed THEN @ + 1 ELSE @,
            !.offers = page.offers,
            !.checkpoints = Watermarks(@, job.checkpoint),
            !.quarantine = @ \o page.reasons
                             \o [i \in 1..job.rejected |-> "rejected"]]

-----------------------------------------------------------------------------
(***************************************************************************)
(* Announcing a participant.                                               *)
(***************************************************************************)
SameId(env, job) == {o \in env.observations : o.id # Null /\ o.id = job.id}

Replayed(env, job) == SameId(env, job) # {}

\* An id used again with other facts throws, and nothing is written.
Refuses(env, job) ==
    /\ job.kind = "announce"
    /\ \E o \in SameId(env, job) : <<o.who, o.last>> # <<job.who, job.at>>

Announced(env, job) ==
    IF Replayed(env, job)
    THEN env
    ELSE [env EXCEPT
             !.catalogRevision = @ + 1,
             !.observations = @ \cup
                {[who |-> job.who, id |-> job.id, first |-> job.at,
                  last |-> job.at, count |-> 1]}]

-----------------------------------------------------------------------------
(***************************************************************************)
(* Compaction: every commit leaves each table within its retention.        *)
(***************************************************************************)
Excess(rows, max) == Cardinality(rows) - max

\* The rows that leave a table of more than `max', the first ones by `before'.
Evicted(rows, max, before(_, _)) ==
    {r \in rows : Cardinality({q \in rows : before(q, r)}) < Excess(rows, max)}

\* How many announcements the rows stand for.
Sightings(rows) == SumFunction([o \in rows |-> o.count])

\* One row for each participant: the earliest and the latest sight of it, and
\* how many announcements it stands for.
Fold(observations) ==
    LET Of(who) == {o \in observations : o.who = who}
        One(who) ==
            IF Cardinality(Of(who)) = 1
            THEN CHOOSE o \in Of(who) : TRUE
            ELSE [who |-> who, id |-> Null,
                  first |-> Min({o.first : o \in Of(who)}),
                  last |-> Max({o.last : o \in Of(who)}),
                  count |-> Sightings(Of(who))]
    IN  {One(who) : who \in {o.who : o \in observations}}

LessRecent(q, r) == q.last < r.last \/ (q.last = r.last /\ q.who < r.who)

OlderCheckpoint(q, r) == q.at < r.at \/ (q.at = r.at /\ q.key < r.key)

\* Settled rows leave before open ones, then the least recently observed.
LeavesFirst(q, r) ==
    IF Settled(q) # Settled(r)
    THEN Settled(q)
    ELSE \/ q.last < r.last
         \/ q.last = r.last /\ q.settledAt < r.settledAt
         \/ q.last = r.last /\ q.settledAt = r.settledAt /\ q.hash < r.hash

\* The catalog's and the offers' own revision jump to the commit's when rows
\* were folded or evicted, so that no cursor outlives them.
Compact(env, revision) ==
    LET overfull == Cardinality(env.observations) > MaxObservations
        folded == IF overfull THEN Fold(env.observations) ELSE env.observations
        observations == Evicted(folded, MaxObservations, LessRecent)
        offers == Evicted(env.offers, MaxOffers, LeavesFirst)
        checkpoints == Evicted(env.checkpoints, MaxCheckpoints, OlderCheckpoint)
        excess == Len(env.quarantine) - MaxQuarantine
    IN  [env EXCEPT
            !.revision = revision,
            !.catalogRevision = IF overfull THEN revision ELSE @,
            !.offerRevision = IF offers # {} THEN revision ELSE @,
            !.observations = folded \ observations,
            !.offers = @ \ offers,
            !.checkpoints = @ \ checkpoints,
            !.quarantine = IF excess > 0
                           THEN SubSeq(@, excess + 1, Len(@)) ELSE @,
            !.dropped = @ \cup
                (IF observations # {} THEN {"observations"} ELSE {}) \cup
                (IF offers # {} THEN {"offers"} ELSE {}) \cup
                (IF checkpoints # {} THEN {"checkpoints"} ELSE {}) \cup
                (IF excess > 0 THEN {"quarantine"} ELSE {})]

Change(env, job) ==
    IF job.kind = "materialize" THEN Materialized(env, job)
                                ELSE Announced(env, job)

\* What one commit leaves, when the job is not refused.
After(env, job) == Compact(Change(env, job), env.revision + 1)

\* No revision of a table is ahead of the store's own.
RevisionsInOrder(env) ==
    /\ env.revision \in Nat
    /\ env.catalogRevision \in 0..env.revision
    /\ env.offerRevision \in 0..env.revision

WithinRetention(env) ==
    /\ Cardinality(env.observations) <= MaxObservations
    /\ Cardinality(env.offers) <= MaxOffers
    /\ Cardinality(env.checkpoints) <= MaxCheckpoints
    /\ Len(env.quarantine) <= MaxQuarantine

\* validateEnvelope: what load() accepts, and what no commit may fail.
Opens(env) ==
    /\ RevisionsInOrder(env)
    /\ WithinRetention(env)
    /\ \A o \in env.offers : IsStoredOffer(o)
    /\ \A o \in env.observations : IsObservation(o)
    /\ \A c \in env.checkpoints : IsCheckpoint(c)

-----------------------------------------------------------------------------
(***************************************************************************)
(* Pages.  Rows in their order, each with the key a cursor resumes after.  *)
(***************************************************************************)
Kinds == {"offers", "trades", "participants"}

Participant(env, who) ==
    LET rows == {o \in env.observations : o.who = who}
    IN  [key |-> <<who>>,
         first |-> Min({o.first : o \in rows}),
         last |-> Max({o.last : o \in rows}),
         count |-> Sightings(rows)]

Rows(kind, env) ==
    CASE kind = "offers" -> {[key |-> <<o.hash>>, offer |-> Facts(o)] :
                                o \in env.offers}
      [] kind = "trades" -> {[key |-> <<o.settledAt, o.hash>>,
                              offer |-> Facts(o)] :
                                o \in {p \in env.offers : p.state = "accepted"}}
      [] OTHER -> {Participant(env, o.who) : o \in env.observations}

\* Keys are compared as text, field by field.
Below(k, l) ==
    \/ k[1] < l[1]
    \/ Len(k) = 2 /\ k[1] = l[1] /\ k[2] < l[2]

\* The rows as a sequence: each is where as many are below it as before it.
InOrder(rows) ==
    [i \in 1..Cardinality(rows) |->
        CHOOSE r \in rows : Cardinality({q \in rows : Below(q.key, r.key)}) = i - 1]

\* Beside the facts a page says when it was that each offer was last observed.
Sights(offers) == {[hash |-> o.hash, last |-> o.last] : o \in offers}

Shown(kind, env, rows) ==
    IF kind = "participants"
    THEN {}
    ELSE {o \in env.offers : \E i \in DOMAIN rows : rows[i].offer.hash = o.hash}

View(kind, env) == InOrder(Rows(kind, env))

RevisionOf(kind, env) ==
    IF kind = "participants" THEN env.catalogRevision ELSE env.offerRevision

\* A cursor names the snapshot and the last row given, signed with the store's
\* key: another key is a bad cursor, another revision a stale one.
Cursor(kind, env, row) ==
    [key |-> env.cursorKey, revision |-> RevisionOf(kind, env), after |-> row.key]

\* Mutant: any cursor this store signed is good.
AcceptsStale(kind, env, cursor) == cursor.key = env.cursorKey

Accepts(kind, env, cursor) ==
    /\ cursor.key = env.cursorKey
    /\ cursor.revision = RevisionOf(kind, env)

Beyond(kind, env, cursor) ==
    InOrder({r \in Rows(kind, env) : Below(cursor.after, r.key)})
=============================================================================
