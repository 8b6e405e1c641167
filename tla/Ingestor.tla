------------------------------- MODULE Ingestor -------------------------------
(***************************************************************************)
(* ingest() of packages/market/src/account-chain-ingestor.ts: a caller     *)
(* polls every account of the catalog under a budget and comes back with   *)
(* the cursor of the last call, until a call says that it has been through *)
(* the catalog.  Participants are announced meanwhile.                     *)
(*                                                                         *)
(* Catalog and store are the atomic store that MarketStorage implements.   *)
(* Polling one account (its checkpoint, the provider's answer, the commit) *)
(* is one step: nothing of the call changes while it waits.                *)
(***************************************************************************)
EXTENDS MarketEnvelope

CONSTANTS
    Absent,          \* no envelope, cursor or row
    Accounts,        \* numbers: pages are ordered by address
    Window,          \* rows the provider has for each account
    Bulky,           \* accounts whose rows weigh double
    MaxAccounts, MaxRequests, PerRequest, MaxResultRows, MaxScanned,
    MaxBytes, MaxPages,                      \* the budget
    MaxIngests, MaxFaults, MaxAnnouncements  \* bounds of a run

CursorRecord == [key : Int, revision : Int, after : Seq(Int)]

ASSUME IngestAssumption ==
    /\ Accounts \subseteq Nat
    /\ \A a \in Accounts : Window[a] \in Nat
    /\ MaxAccounts \in Nat /\ MaxRequests \in Nat /\ PerRequest \in Nat
    /\ MaxResultRows \in Nat /\ MaxScanned \in Nat /\ MaxBytes \in Nat
    /\ MaxPages \in Nat
    /\ MaxIngests \in Nat /\ MaxFaults \in Nat /\ MaxAnnouncements \in Nat
    /\ Absent \notin Envelope /\ Absent \notin CursorRecord

VARIABLES
    envelope,    \* as in the store
    epoch,
    pc,          \* "idle", "loop", "rows" or "cursor"
    request,     \* the cursor this call was given, or Absent
    cursor,      \* where the loop is, or Absent
    page,        \* the rows of the page at hand
    pageNext,    \* its next cursor, or Absent
    index,       \* rows of the page done
    resumeAfter, \* rows of the page not to be polled again
    used,        \* consumed so far: accounts, requests, pages, rows, ...
    stop,        \* why the loop ends, or "none"
    pageFailed,
    ingests, faults, announcements,
    owed,        \* history: accounts there from the beginning of the traversal
                 \* on, and neither polled nor reported as failed
    cutOff,      \* history: rows behind a stop within a page that had a next,
                 \* and rows of a list that shrank while they were polled
    outcome      \* what the last call said: "none", "more", "traversed", "threw"

Store == INSTANCE AtomicMarketStore WITH
    Jobs <- {}, None <- Absent, stored <- envelope, life <- epoch

progress == <<pc, request, cursor, page, pageNext, index, resumeAfter, used,
              stop, pageFailed>>
history == <<owed, cutOff, outcome>>
bounds == <<ingests, faults, announcements>>
ingestVars == <<envelope, epoch, progress, history, bounds>>

Nothing == [accounts |-> 0, requests |-> 0, pages |-> 0, rows |-> 0,
            scanned |-> 0, bytes |-> 0]

IngestInit ==
    /\ Store!Init
    /\ pc = "idle" /\ request = Absent /\ cursor = Absent
    /\ page = <<>> /\ pageNext = Absent /\ index = 0 /\ resumeAfter = 0
    /\ used = Nothing /\ stop = "none" /\ pageFailed = FALSE
    /\ ingests = 0 /\ faults = 0 /\ announcements = 0
    /\ owed = {} /\ cutOff = {} /\ outcome = "none"

Roster == View("participants", Store!Current)

AddressesOf(rows) == {rows[i].key[1] : i \in DOMAIN rows}

-----------------------------------------------------------------------------
(***************************************************************************)
(* The catalog.                                                            *)
(***************************************************************************)
Remaining == {o.who : o \in envelope'.observations}

\* The catalog forgets a row while the page at hand is the whole of it.
Overtaken ==
    /\ pc \in {"rows", "cursor"} /\ cursor = Absent /\ pageNext = Absent
    /\ ~(AddressesOf(page) \subseteq Remaining)

AnnounceAccount(a) ==
    /\ announcements < MaxAnnouncements
    /\ announcements' = announcements + 1
    /\ Store!Commit(Announce(a, announcements + 1, announcements))
    /\ owed' = owed \cap Remaining
    /\ cutOff' = IF Overtaken THEN cutOff \cup AddressesOf(page) ELSE cutOff
    /\ UNCHANGED <<pc, request, cursor, page, pageNext, index, resumeAfter, used,
                   stop, pageFailed, outcome, ingests, faults>>

Readable(at) == at = Absent \/ Accepts("participants", Store!Current, at)

From(at) == IF at = Absent THEN Roster ELSE Beyond("participants", Store!Current, at)

FirstOf(n, rest) == SubSeq(rest, 1, Min({n, Len(rest)}))

NextOf(n, rest) ==
    IF n < Len(rest) THEN Cursor("participants", Store!Current, rest[n]) ELSE Absent

-----------------------------------------------------------------------------
(***************************************************************************)
(* One call.                                                               *)
(***************************************************************************)
\* The caller goes on where the last call said, or from the start when it had
\* been through the catalog or had thrown.
Ingest ==
    /\ pc = "idle"
    /\ ingests < MaxIngests
    /\ ingests' = ingests + 1
    /\ pc' = "loop"
    /\ request' = IF outcome = "more" THEN cursor ELSE Absent
    /\ cursor' = request'
    /\ IF outcome = "more"
       THEN UNCHANGED <<owed, cutOff>>
       ELSE owed' = AddressesOf(Roster) /\ cutOff' = {}
    /\ used' = Nothing /\ stop' = "none" /\ pageFailed' = FALSE
    /\ page' = <<>> /\ pageNext' = Absent /\ index' = 0 /\ resumeAfter' = 0
    /\ outcome' = "none"
    /\ UNCHANGED <<envelope, epoch, faults, announcements>>

MayReadPage ==
    /\ used.pages < MaxPages
    /\ used.accounts < MaxAccounts
    /\ used.requests < MaxRequests

\* No page asks for more accounts than can still be polled.
Room == Min({MaxAccounts - used.accounts, MaxRequests - used.requests,
             MaxResultRows - used.rows})

\* The result: a cursor to go on with, or the end of the traversal.
Return(at, traversed) ==
    /\ pc' = "idle"
    /\ cursor' = IF at = Absent THEN request ELSE at
    /\ outcome' = IF traversed THEN "traversed" ELSE "more"

Throw ==
    /\ pc' = "idle"
    /\ cursor' = Absent
    /\ outcome' = "threw"

ReadPage ==
    /\ pc = "loop"
    /\ stop = "none"
    /\ MayReadPage
    /\ Room > 0
    /\ IF Readable(cursor)
       THEN LET rest == From(cursor)
            IN  /\ page' = FirstOf(Room, rest)
                /\ pageNext' = NextOf(Room, rest)
                /\ pc' = "rows"
                /\ used' = [used EXCEPT !.pages = @ + 1]
                /\ UNCHANGED <<cursor, outcome>>
       ELSE /\ Throw    \* stale-market-cursor
            /\ UNCHANGED <<page, pageNext, used>>
    /\ index' = 0
    /\ resumeAfter' = 0
    /\ pageFailed' = FALSE
    /\ UNCHANGED <<envelope, epoch, request, stop, owed, cutOff, bounds>>

LeaveLoop ==
    /\ pc = "loop"
    /\ ~MayReadPage \/ Room <= 0
    /\ stop' = "limit"
    /\ Return(cursor, FALSE)
    /\ UNCHANGED <<envelope, epoch, request, page, pageNext, index, resumeAfter,
                   used, pageFailed, owed, cutOff, bounds>>

\* How many rows the next request may bring.
RequestLimit == Min({PerRequest, MaxResultRows - used.rows,
                     MaxScanned - used.scanned})

OnRow == pc = "rows" /\ index < Len(page)

Account == page[index + 1].key[1]

\* The loop over the page is left before its end.
Break(reason) ==
    /\ stop' = reason
    /\ pc' = "cursor"
    /\ cutOff' = IF pageNext = Absent THEN cutOff
                 ELSE cutOff \cup AddressesOf(SubSeq(page, index + 1, Len(page)))

BudgetSpent ==
    /\ OnRow
    /\ RequestLimit < 1
    /\ Break("scan_limit")
    /\ resumeAfter' = index
    /\ UNCHANGED <<envelope, epoch, request, cursor, page, pageNext, index, used,
                   pageFailed, owed, outcome, bounds>>

\* The newest rows of the account, as many as were asked for.
Brought(a) == Min({Window[a], RequestLimit})

Bytes(a) == Brought(a) * (IF a \in Bulky THEN 2 ELSE 1)

Prior(a) == {c \in Store!Current.checkpoints : c.key = a}

\* The page of account a: its rows, and the watermark one generation on.
PageOf(a) ==
    Materialize(
        [i \in 1..Brought(a) |-> Observed(10 * a + i, 1, "open", Null, Null, 1, 1)],
        0,
        [key |-> a, at |-> 1, newest |-> 0, source |-> 1,
         gen |-> 1 + Max({0} \cup {c.gen : c \in Prior(a)})])

Asked == [used EXCEPT !.accounts = @ + 1, !.requests = @ + 1]

Poll ==
    /\ OnRow
    /\ RequestLimit >= 1
    /\ used.bytes + Bytes(Account) <= MaxBytes
    /\ LET scanned == used.scanned + Brought(Account)
       IN  /\ used' = [Asked EXCEPT !.rows = @ + Brought(Account),
                                    !.scanned = scanned,
                                    !.bytes = @ + Bytes(Account)]
           /\ stop' = IF scanned >= MaxScanned THEN "scan_limit" ELSE stop
    /\ Store!Commit(PageOf(Account))
    /\ owed' = owed \ {Account}
    /\ index' = index + 1
    /\ resumeAfter' = index + 1
    /\ UNCHANGED <<pc, request, cursor, page, pageNext, pageFailed, cutOff,
                   outcome, bounds>>

\* What the provider answered is too long to keep: the account is to be asked
\* again by the next call.
TooLong ==
    /\ OnRow
    /\ RequestLimit >= 1
    /\ used.bytes + Bytes(Account) > MaxBytes
    /\ used' = [Asked EXCEPT !.scanned = @ + Brought(Account)]
    /\ Break("byte_limit")
    /\ resumeAfter' = index
    /\ UNCHANGED <<envelope, epoch, request, cursor, page, pageNext, index,
                   pageFailed, owed, outcome, bounds>>

Fault == faults < MaxFaults /\ faults' = faults + 1

\* The provider or the checkpoint cannot be read: reported, and passed over.
PollFails ==
    /\ OnRow
    /\ RequestLimit >= 1
    /\ Fault
    /\ used' = Asked
    /\ pageFailed' = TRUE
    /\ owed' = owed \ {Account}
    /\ index' = index + 1
    /\ resumeAfter' = index + 1
    /\ UNCHANGED <<envelope, epoch, pc, request, cursor, page, pageNext, stop,
                   cutOff, outcome, ingests, announcements>>

\* The deadline passes, or the caller aborts, while the provider is asked.
PollStopped ==
    /\ OnRow
    /\ RequestLimit >= 1
    /\ Fault
    /\ used' = Asked
    /\ Break("deadline")
    /\ resumeAfter' = index
    /\ UNCHANGED <<envelope, epoch, request, cursor, page, pageNext, index,
                   pageFailed, owed, outcome, ingests, announcements>>

\* The deadline has passed between two reads, or the store does not commit:
\* the call throws, and its caller has no new cursor.
Interrupted ==
    /\ pc # "idle"
    /\ Fault
    /\ Throw
    /\ UNCHANGED <<envelope, epoch, request, page, pageNext, index, resumeAfter,
                   used, stop, pageFailed, owed, cutOff, ingests, announcements>>

EndPage ==
    /\ pc = "rows"
    /\ index = Len(page)
    /\ IF stop # "none" \/ pageFailed
       THEN /\ pc' = "cursor"
            /\ stop' = IF stop # "none" THEN stop ELSE "provider_error"
            /\ UNCHANGED <<cursor, outcome>>
       ELSE /\ UNCHANGED stop
            /\ IF pageNext = Absent
               THEN Return(Absent, TRUE)
               ELSE /\ cursor' = pageNext
                    /\ pc' = "loop"
                    /\ UNCHANGED outcome
    /\ UNCHANGED <<envelope, epoch, request, page, pageNext, index, resumeAfter,
                   used, pageFailed, owed, cutOff, bounds>>

\* Mutant: the account that was being polled counts as done.
ResumeAtOneOn ==
    IF pageNext # Absent THEN pageNext ELSE NextOf(resumeAfter + 1, From(cursor))

\* nextCursor(): the page's own next cursor, if it has one; on the last page
\* the rows done are read once more for the cursor behind them.
ResumeAt ==
    IF pageNext # Absent THEN pageNext
    ELSE IF resumeAfter = 0 THEN cursor
    ELSE NextOf(resumeAfter, From(cursor))

Resume ==
    /\ pc = "cursor"
    /\ IF pageNext = Absent /\ resumeAfter > 0 /\ ~Readable(cursor)
       THEN Throw
       ELSE Return(ResumeAt, FALSE)
    /\ UNCHANGED <<envelope, epoch, request, page, pageNext, index, resumeAfter,
                   used, stop, pageFailed, owed, cutOff, bounds>>

-----------------------------------------------------------------------------
Work == ReadPage \/ LeaveLoop \/ BudgetSpent \/ Poll \/ TooLong \/ EndPage \/ Resume

IngestNext ==
    \/ \E a \in Accounts : AnnounceAccount(a)
    \/ Ingest \/ Work \/ PollFails \/ PollStopped \/ Interrupted

IngestSpec == IngestInit /\ [][IngestNext]_ingestVars

-----------------------------------------------------------------------------
(***************************************************************************)
(* Properties.                                                             *)
(***************************************************************************)
IngestTypes ==
    /\ envelope # Absent => Opens(envelope)
    /\ pc \in {"idle", "loop", "rows", "cursor"}
    /\ index \in 0..Len(page)
    /\ resumeAfter \in 0..Len(page)
    /\ outcome \in {"none", "more", "traversed", "threw"}
    /\ owed \subseteq Accounts
    /\ cutOff \subseteq Accounts

\* No call takes more than its budget of accounts, requests, rows, blocks,
\* bytes and pages, wherever it stops (ingest).
WithinBudget ==
    /\ used.accounts <= MaxAccounts
    /\ used.requests <= MaxRequests
    /\ used.pages <= MaxPages
    /\ used.rows <= MaxResultRows
    /\ used.scanned <= MaxScanned
    /\ used.bytes <= MaxBytes

\* A traversal resumed from the cursor of every call before it has, when a
\* call says it is through, attempted every account that was in the catalog
\* from its beginning on, however often it was stopped, failed and replayed,
\* and whatever was announced, folded and evicted meanwhile.  The exceptions:
\* accounts behind a stop within a page that is not the last, for nextCursor()
\* takes that page's own next cursor and passes over them; and those of a
\* catalog read in one page that forgets a row before the page is done, for
\* nextCursor() then counts the rows done in a list that has become shorter.
NobodySkipped == outcome = "traversed" => owed \subseteq cutOff

\* What a call of ingest() keeps to, in one.
IngestKeepsItsWord == IngestTypes /\ WithinBudget /\ NobodySkipped
=============================================================================
