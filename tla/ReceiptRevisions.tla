-------------------------- MODULE ReceiptRevisions --------------------------
(***************************************************************************)
(* Drafts, confirmations and corrections of receipts                       *)
(* (services/receipt_revision_service.py) in the transactions that the     *)
(* service runs: PostgreSQL at READ COMMITTED, one statement per step.     *)
(* What a transaction has read or written stays in its record until it     *)
(* commits; a statement waits for a row or key that another open           *)
(* transaction has written.  One account owns all receipts.                *)
(*                                                                         *)
(* The lookups of a draft and of the ledger take no lock: a draft may be   *)
(* confirmed, and the ledger moved on, before the transaction that read    *)
(* them writes.  Two history variables note such commits; the properties   *)
(* say what holds of every receipt and answer that none of them touched.   *)
(*                                                                         *)
(* A request that is refused before it writes (replay, MUTATION_CONFLICT,  *)
(* VERSION_CONFLICT, RECONCILIATION_GAP, 404) changes nothing and is no    *)
(* step.  The content of a request is which lines it has, which of them    *)
(* have a comparison price, whether the store is known and how the sum of  *)
(* the lines compares with the printed total.                              *)
(***************************************************************************)
EXTENDS Naturals

CONSTANTS
    Receipts, Lines, MaxVersion,  \* as in PriceBook
    MutationIds,  \* client generated, one key per account and operation
    Requests,     \* the requests that clients send
    Sessions,     \* request handlers, each with a transaction of its own
    NoRequest     \* "none"

Operations == {"draft", "confirm", "revision"}
Body == [lines : SUBSET Lines, priced : SUBSET Lines, store : BOOLEAN,
         sum : {"balanced", "gap", "unverifiable"}, valid : BOOLEAN]
Request == [op : Operations, receipt : Receipts, id : MutationIds,
            expected : 0..MaxVersion, body : Body, accept : BOOLEAN]

ASSUME RevisionsAssumption ==
    /\ MaxVersion \in Nat
    /\ Requests \subseteq Request
    /\ \A q \in Requests : q.body.priced \subseteq q.body.lines
    /\ NoRequest \notin Requests

VARIABLES
    receipt,   \* receipts: version and status
    revision,  \* receipt_revisions with their lines, by receipt and number
    current,   \* observations with is_current; v1 observations as revision 0
    ledger,    \* account_ledgers.price_data_version, 0 without a row
    mutations, \* receipt_mutations: requests and their stored answers
    tx,        \* what each request's open transaction has read and written
    overwritten, \* history: receipts with a revision that WritesOver
    overtaken    \* history: a confirmation wrote the ledger over another's value

vars == <<receipt, revision, current, ledger, mutations, tx, overwritten, overtaken>>
Tables == <<receipt, revision, current, ledger, mutations, overwritten, overtaken>>

Confirming(q) == q.op # "draft"
SameKey(p, q) == p.op = q.op /\ p.id = q.id

\* dated and total name the requests whose date and printed total the row mirrors.
ReceiptRow == [version : 0..MaxVersion, status : {"READY_FOR_REVIEW", "CONFIRMED"},
               dated : Requests \cup {NoRequest}, total : Requests \cup {NoRequest}]
Reconciled == {"balanced", "gap", "gap_accepted", "unverifiable"}

\* A line or an observation is a row of its own: the request that inserted it
\* and its line ID.  Those of v1 and of the backfill have no request.
LineRows == (Requests \cup {NoRequest}) \X Lines
Rows(q, lines) == {q} \X lines

RevisionRow == [status : {"none", "draft", "confirmed"}, by : Requests \cup {NoRequest},
                sum : Reconciled, lines : SUBSET LineRows]
Row(status, q, sum, lines) == [status |-> status, by |-> q, sum |-> sum, lines |-> lines]
NoRow == Row("none", NoRequest, "unverifiable", {})
Mutation == [req : Requests, revision : 1..MaxVersion, pricesAt : Nat]

Phases == {"idle", "checked", "insert", "reuse", "cleared", "updated", "written",
           "opening", "read", "withdrawn", "published", "bumped"}
Transaction == [phase : Phases, req : Requests \cup {NoRequest}, found : RevisionRow,
                cleared : SUBSET LineRows, opened : BOOLEAN, pricesAt : Nat,
                withdrawn : SUBSET LineRows]
NoTransaction == [phase |-> "idle", req |-> NoRequest, found |-> NoRow, cleared |-> {},
                  opened |-> FALSE, pricesAt |-> 0, withdrawn |-> {}]

\* Receipts that wait for review, that v1 confirmed after the migration, and
\* that v1 confirmed before it and the backfill of migration 007 gave revision 1.
Init ==
    \E legacy, backfilled \in SUBSET Receipts :
        /\ legacy \cap backfilled = {}
        /\ MaxVersion > 0 \/ backfilled = {}
        /\ receipt = [r \in Receipts |->
             [version |-> IF r \in backfilled THEN 1 ELSE 0,
              status |-> IF r \in legacy \cup backfilled THEN "CONFIRMED"
                         ELSE "READY_FOR_REVIEW",
              dated |-> NoRequest, total |-> NoRequest]]
        /\ revision = [r \in Receipts |-> [n \in 1..MaxVersion |->
             IF r \in backfilled /\ n = 1 THEN 
                 Row("confirmed", NoRequest, "unverifiable", Rows(NoRequest, Lines))
             ELSE NoRow]]
        /\ current = [r \in Receipts |->
             IF r \in legacy \cup backfilled THEN Rows(NoRequest, Lines) ELSE {}]
        /\ ledger \in {0, 1}
        /\ mutations = {}
        /\ tx = [s \in Sessions |-> NoTransaction]
        /\ overwritten = {}
        /\ overtaken = FALSE

-----------------------------------------------------------------------------
(* The open transactions                                                   *)

Phase(s) == tx[s].phase
Req(s) == tx[s].req
Number(q) == q.expected + 1
Target(s) == Number(Req(s))
OldRow(s) == revision[Req(s).receipt][Target(s)]
Others(s) == Sessions \ {s}
To(s, phase) == tx' = [tx EXCEPT ![s].phase = phase]
Stop(s) == tx' = [tx EXCEPT ![s] = NoTransaction]

\* price_data_version as readers see it.
Shown == IF ledger = 0 THEN 1 ELSE ledger

\* The unique key (receipt, revision), or the row that has it, is taken.
HoldsRow == {"updated", "written", "opening", "read", "withdrawn", "published", "bumped"}
SameRow(s, t) == Req(s).receipt = Req(t).receipt /\ Target(s) = Target(t)
RowFree(s) == \A t \in Others(s) : Phase(t) \in HoldsRow => ~SameRow(s, t)

\* Committed lines with an ID that the transaction inserts: lines that came
\* after its DELETE, which of course does not delete them.
Clashes(s) == {row \in OldRow(s).lines \ tx[s].cleared : row[2] \in Req(s).body.lines}

\* Transactions that deleted such a line and have not ended.  They wait for the
\* row of the revision that s has updated: the database ends s or one of them.
Deleting(s) == {t \in Others(s) : /\ Phase(t) = "cleared"
                                  /\ SameRow(s, t)
                                  /\ Clashes(s) \cap tx[t].cleared # {}}
DeadlockOf(s, t) == Phase(s) = "updated" /\ t \in Deleting(s)

-----------------------------------------------------------------------------
(* Statements                                                              *)

\* reconcile: a gap must be accepted before a confirmation, a draft may keep it.
GapAllowed(q) == q.body.sum = "gap" /\ Confirming(q) => q.accept
ReconciledSum(q) ==
    IF q.body.sum = "gap" /\ Confirming(q) THEN "gap_accepted" ELSE q.body.sum

\* A plausible bug: the stored answer is looked up without the lock.
KeyUnlocked(q) == TRUE

\* pg_advisory_xact_lock on account, operation and mutation ID.
KeyFree(q) == \A t \in Sessions : Phase(t) # "idle" => ~SameKey(Req(t), q)

\* A stored answer is replayed, or refused if the content differs.
Answered(q) == \E m \in mutations : SameKey(m.req, q)

\* The status from which each route starts.
StartStatus(op) == IF op = "revision" THEN "CONFIRMED" ELSE "READY_FOR_REVIEW"

\* Store and products belong to the account and every line has its own ID.
Owned(q) == q.body.valid

\* The checks of _apply, on rows that it reads without a lock.
Begin(s, q) ==
    /\ Phase(s) = "idle"
    /\ KeyFree(q)
    /\ ~Answered(q)
    /\ receipt[q.receipt].status = StartStatus(q.op)
    /\ receipt[q.receipt].version = q.expected
    /\ q.expected < MaxVersion
    /\ Owned(q)
    /\ GapAllowed(q)
    /\ tx' = [tx EXCEPT ![s] = [NoTransaction EXCEPT
                !.phase = "checked", !.req = q]]
    /\ UNCHANGED Tables

\* A plausible bug: the lookup does not ask for drafts only.
FindAnyRow(s) ==
    /\ Phase(s) = "checked"
    /\ IF OldRow(s) # NoRow
       THEN tx' = [tx EXCEPT ![s].phase = "reuse", ![s].found = OldRow(s)]
       ELSE To(s, "insert")
    /\ UNCHANGED Tables

\* _upsert_revision looks for a draft with the next number, without a lock.
FindDraft(s) ==
    /\ Phase(s) = "checked"
    /\ IF OldRow(s).status = "draft"
       THEN tx' = [tx EXCEPT ![s].phase = "reuse", ![s].found = OldRow(s)]
       ELSE To(s, "insert")
    /\ UNCHANGED Tables

\* INSERT of the revision and its lines: waits for an open transaction with the
\* same key, see Conflict for one that has committed.
InsertRevision(s) ==
    /\ Phase(s) = "insert"
    /\ RowFree(s)
    /\ OldRow(s) = NoRow
    /\ To(s, "written")
    /\ UNCHANGED Tables

\* DELETE of the lines of the draft, as the statement sees them.  Of two that
\* see the same lines one waits for the other: OverwriteDraft settles which.
ClearLines(s) ==
    /\ Phase(s) = "reuse"
    /\ tx' = [tx EXCEPT ![s].phase = "cleared", ![s].cleared = OldRow(s).lines]
    /\ UNCHANGED Tables

\* UPDATE of the row by primary key, whatever it is by then.
OverwriteDraft(s) ==
    /\ Phase(s) = "cleared"
    /\ RowFree(s)
    /\ To(s, "updated")
    /\ UNCHANGED Tables

\* _write_lines: INSERT of the new lines, see Conflict for one that exists and
\* EndDeadlock for one that another transaction has deleted.
WriteLines(s) ==
    /\ Phase(s) = "updated"
    /\ Clashes(s) = {}
    /\ To(s, "written")
    /\ UNCHANGED Tables

\* _price_data_version: the value stays in the session's identity map, so the
\* later increment starts from it.
ReadLedger(s) ==
    /\ Phase(s) = "written"
    /\ IF ledger = 0 THEN To(s, "opening")
       ELSE tx' = [tx EXCEPT ![s].phase = "read", ![s].pricesAt = ledger]
    /\ UNCHANGED Tables

\* The account's first ledger row: waits for another open INSERT of it.
OpenLedger(s) ==
    /\ Phase(s) = "opening"
    /\ ledger = 0
    /\ \A t \in Others(s) : ~tx[t].opened
    /\ tx' = [tx EXCEPT ![s].phase = "read", ![s].pricesAt = 1, ![s].opened = TRUE]
    /\ UNCHANGED Tables

\* A plausible bug: the observations of the revision before stay in force.
WithdrawNothing(s) ==
    /\ Phase(s) = "read"
    /\ Confirming(Req(s))
    /\ To(s, "withdrawn")
    /\ UNCHANGED Tables

\* _publish_prices: the observations to put out of force, as its first
\* statement sees them ...
Withdraw(s) ==
    /\ Phase(s) = "read"
    /\ Confirming(Req(s))
    /\ tx' = [tx EXCEPT ![s].phase = "withdrawn", ![s].withdrawn = current[Req(s).receipt]]
    /\ UNCHANGED Tables

\* ... which waits for an open transaction that changed the same rows.
PublishPrices(s) ==
    /\ Phase(s) = "withdrawn"
    /\ \A t \in Others(s) :
         /\ Phase(t) \in {"published", "bumped"}
         /\ Req(t).receipt = Req(s).receipt
         => tx[t].withdrawn \cap tx[s].withdrawn = {}
    /\ To(s, "published")
    /\ UNCHANGED Tables

\* _bump_price_data_version: the UPDATE waits for an open one, then writes the
\* value that was read plus one.
BumpLedger(s) ==
    /\ Phase(s) = "published"
    /\ \A t \in Others(s) : Phase(t) # "bumped"
    /\ tx' = [tx EXCEPT ![s].phase = "bumped", ![s].pricesAt = @ + 1]
    /\ UNCHANGED Tables

\* Only a qualified line of a known store gets an observation.
Published(s) == IF Req(s).body.store THEN Rows(Req(s), Req(s).body.priced) ELSE {}

\* The row as written.  The UPDATE of a reused draft names only the columns
\* whose value differs from the row as found, so a draft never writes the status.
NewRow(s) ==
    LET sum == ReconciledSum(Req(s))
        reused == tx[s].found # NoRow
    IN Row(IF Confirming(Req(s)) THEN "confirmed"
           ELSE IF reused THEN OldRow(s).status ELSE "draft",
           Req(s),
           IF reused /\ sum = tx[s].found.sum THEN OldRow(s).sum ELSE sum,
           (OldRow(s).lines \ tx[s].cleared) \cup Rows(Req(s), Req(s).body.lines))

\* The row was confirmed after it was found as a draft, or another request has
\* saved it since, and lines and columns of both are in what is now confirmed.
WritesOver(s) ==
    \/ OldRow(s).status # tx[s].found.status
    \/ Confirming(Req(s)) /\ OldRow(s).by # tx[s].found.by

CommitRevision(s) ==
    /\ revision' = [revision EXCEPT ![Req(s).receipt] = [@ EXCEPT ![Target(s)] = NewRow(s)]]
    /\ mutations' = mutations \cup
         {[req |-> Req(s), revision |-> Target(s), pricesAt |-> tx[s].pricesAt]}
    /\ overwritten' = IF WritesOver(s) THEN overwritten \cup {Req(s).receipt} ELSE overwritten
    /\ Stop(s)

\* A plausible bug: a draft moves the receipt's version as a confirmation does.
CommitDraftAsRevision(s) ==
    /\ Phase(s) = "read"
    /\ ~Confirming(Req(s))
    /\ ledger' = IF tx[s].opened THEN 1 ELSE ledger
    /\ receipt' = [receipt EXCEPT ![Req(s).receipt].version = Target(s)]
    /\ CommitRevision(s)
    /\ UNCHANGED <<current, overtaken>>

CommitDraft(s) ==
    /\ Phase(s) = "read"
    /\ ~Confirming(Req(s))
    /\ ledger' = IF tx[s].opened THEN 1 ELSE ledger
    /\ CommitRevision(s)
    /\ UNCHANGED <<receipt, current, overtaken>>

\* A plausible bug: the receipt gets the status of the revision's own enumeration.
MirroredStatus(s) ==
    [version |-> Target(s), status |-> NewRow(s).status, dated |-> Req(s),
     total |-> IF Req(s).body.sum = "unverifiable"
               THEN receipt[Req(s).receipt].total ELSE Req(s)]

\* _apply_receipt_fields: the date is mirrored also when it is unknown, a total
\* only when one was printed.
Mirrored(s) ==
    [version |-> Target(s), status |-> "CONFIRMED", dated |-> Req(s),
     total |-> IF Req(s).body.sum = "unverifiable"
               THEN receipt[Req(s).receipt].total ELSE Req(s)]

CommitConfirmation(s) ==
    LET r == Req(s).receipt IN
    /\ Phase(s) = "bumped"
    /\ receipt' = [receipt EXCEPT ![r] = Mirrored(s)]
    /\ current' = [current EXCEPT ![r] = (@ \ tx[s].withdrawn) \cup Published(s)]
    /\ ledger' = tx[s].pricesAt
    /\ overtaken' = (overtaken \/ ledger' # Shown + 1)
    /\ CommitRevision(s)

\* A plausible bug: a duplicate number does not end the transaction.
ConflictOnlyOnLines(s) ==
    /\ \/ Phase(s) = "updated" /\ \E row \in Clashes(s) : \A t \in Deleting(s) : row \notin tx[t].cleared
       \/ Phase(s) = "opening" /\ ledger # 0
    /\ Stop(s)
    /\ UNCHANGED Tables

\* A statement meets a committed row with its unique key: the transaction fails.
Conflict(s) ==
    /\ \/ Phase(s) = "insert" /\ OldRow(s) # NoRow
       \/ /\ Phase(s) = "updated"
          /\ \E row \in Clashes(s) : \A t \in Deleting(s) : row \notin tx[t].cleared
       \/ Phase(s) = "opening" /\ ledger # 0
    /\ Stop(s)
    /\ UNCHANGED Tables

\* The database ends one of two transactions that wait for each other.
EndDeadlock(s) ==
    /\ \E t \in Others(s) : DeadlockOf(s, t) \/ DeadlockOf(t, s)
    /\ Stop(s)
    /\ UNCHANGED Tables

\* The process dies or loses its connection: the database rolls back.
Crash(s) ==
    /\ Phase(s) # "idle"
    /\ Stop(s)
    /\ UNCHANGED Tables

Step(s) ==
    \/ FindDraft(s)
    \/ InsertRevision(s)
    \/ ClearLines(s)
    \/ OverwriteDraft(s)
    \/ WriteLines(s)
    \/ ReadLedger(s)
    \/ OpenLedger(s)
    \/ Withdraw(s)
    \/ PublishPrices(s)
    \/ BumpLedger(s)
    \/ CommitDraft(s)
    \/ CommitConfirmation(s)
    \/ Conflict(s)
    \/ EndDeadlock(s)

Next ==
    \E s \in Sessions :
        \/ \E q \in Requests : Begin(s, q)
        \/ Step(s)
        \/ Crash(s)

Spec == Init /\ [][Next]_vars
FairSpec == Spec /\ \A s \in Sessions : SF_vars(Step(s))

-----------------------------------------------------------------------------
(* Properties                                                              *)

\* Columns and transaction records keep their types (models/receipt_revision.py).
TypeOK ==
    /\ receipt \in [Receipts -> ReceiptRow]
    /\ revision \in [Receipts -> [1..MaxVersion -> RevisionRow]]
    /\ current \in [Receipts -> SUBSET LineRows]
    /\ ledger \in Nat
    /\ mutations \subseteq Mutation
    /\ tx \in [Sessions -> Transaction]
    /\ overwritten \subseteq Receipts
    /\ overtaken \in BOOLEAN

\* The revision of an answered confirmation is what its request said.
AsAnswered(m) ==
    revision[m.req.receipt][m.revision]
        = Row("confirmed", m.req, ReconciledSum(m.req), Rows(m.req, m.req.body.lines))

\* A confirmation that was answered stays what it was: no later draft, retry or
\* correction changes its row or its lines (_upsert_revision, "bekreftede rader
\* roeres ikke"; models/receipt_revision.py:3-6).  The code breaks this: a draft
\* found before the confirmation is written over after it.
AcknowledgedStays == \A m \in mutations : Confirming(m.req) => AsAnswered(m)

\* Revisions are numbered without a gap: confirmed up to the receipt's version,
\* at most a draft after it (receipt.version + 1 in _apply).
NumberedWithoutGap(r) ==
    \A n \in 1..MaxVersion :
        revision[r][n].status \in
            IF n <= receipt[r].version THEN {"confirmed"}
            ELSE IF n = receipt[r].version + 1 THEN {"none", "draft"}
            ELSE {"none"}

\* The receipt shows the date of its current revision and the newest printed
\* total of any of them (_apply_receipt_fields).
MirrorsRevisions(r) ==
    receipt[r].version > 0 =>
        /\ receipt[r].dated = revision[r][receipt[r].version].by
        /\ \A n \in 1..receipt[r].version :
             LET q == revision[r][n].by IN
             /\ q # NoRequest
             /\ q.body.sum # "unverifiable"
             /\ \A k \in (n + 1)..receipt[r].version :
                    revision[r][k].by.body.sum = "unverifiable"
             => receipt[r].total = q

\* The stored revisions of a receipt are its history: what was answered stays,
\* the numbers have no gap, and the receipt mirrors the newest of them.  So it
\* is while no request has written over a draft that was confirmed after the
\* request found it, or confirmed one that another request has saved since.
RevisionsStand ==
    \A r \in Receipts \ overwritten :
        /\ \A m \in mutations : Confirming(m.req) /\ m.req.receipt = r => AsAnswered(m)
        /\ NumberedWithoutGap(r)
        /\ MirrorsRevisions(r)

\* The prices in force are the qualified lines of the current revision, no
\* line of an older one and none of a draft (_publish_prices, module docstring),
\* on the same condition.
CurrentIsLatest ==
    \A r \in Receipts \ overwritten :
        receipt[r].version > 0 =>
            LET q == revision[r][receipt[r].version].by IN
            q # NoRequest =>
                current[r] = IF q.body.store THEN Rows(q, q.body.priced) ELSE {}

\* A mutation ID is answered once; every retry gets that answer (_replay).
AnsweredOnce == \A m, n \in mutations : SameKey(m.req, n.req) => m = n

\* No two confirmations are answered with the same price_data_version, so a
\* client that compares versions sees each of them (_bump_price_data_version).
DistinctVersions ==
    \A m, n \in mutations :
        Confirming(m.req) /\ Confirming(n.req) /\ m.pricesAt = n.pricesAt => m = n

\* The answers stand: one for a mutation ID (_replay), whatever overlaps; and no
\* price_data_version for two confirmations (_bump_price_data_version), until
\* one of them writes the ledger over another, see LedgerMonotone.
AnswersStand ==
    /\ AnsweredOnce
    /\ ~overtaken => DistinctVersions

\* price_data_version never goes back (models/account_ledger.py:11).  The code
\* breaks this: the value is read long before it is written.
LedgerMonotone == [][ledger' >= ledger]_vars

\* The transactions implement the abstract book: whatever they interleave, their
\* commits replace prices, number and price_data_version in one step, and a
\* draft, a failure and a crash leave all three alone.  This is a guarantee up
\* to the first commit that writes over a revision or over the ledger.
InBook(rows) == {<<IF row[1] = NoRequest THEN 0 ELSE Number(row[1]), row[2]>> : row \in rows}
Book == INSTANCE PriceBook WITH
            version <- [r \in Receipts |-> receipt[r].version],
            prices <- [r \in Receipts |-> InBook(current[r])],
            ledger <- Shown
NothingLost == overwritten = {} /\ ~overtaken
ImplementsBook ==
    /\ Book!BookInit
    /\ [][NothingLost' => [Book!BookNext]_(Book!bookVars)]_vars

\* Every request ends: of the waits for mutation IDs, keys, lines, observations
\* and the ledger only those for a draft's row and its lines can form a circle,
\* and the database ends it.
Finishes == \A s \in Sessions : Phase(s) # "idle" ~> Phase(s) = "idle"
=============================================================================
