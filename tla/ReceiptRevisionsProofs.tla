----------------------- MODULE ReceiptRevisionsProofs -----------------------
(***************************************************************************)
(* Proofs about ReceiptRevisions for every value of its constants: any     *)
(* number of receipts, lines, revisions, requests and transactions, in any *)
(* interleaving of their statements.                                       *)
(***************************************************************************)
EXTENDS ReceiptRevisions, TLAPS

-----------------------------------------------------------------------------
(* The inductive invariant                                                 *)

\* Phases that have the value of the ledger, and those that have withdrawn prices.
Valued == {"read", "withdrawn", "published", "bumped"}
Withdrawn == {"withdrawn", "published", "bumped"}

\* A request in work has its types and was made for a revision that exists or
\* is the next one; it has no answer yet.
Requested(s) ==
    Phase(s) # "idle" =>
        /\ Req(s) \in Requests
        /\ Req(s).expected < MaxVersion
        /\ Req(s).receipt \notin overwritten => Req(s).expected <= receipt[Req(s).receipt].version
        /\ ~Answered(Req(s))

\* Who holds a row that it inserted holds it over nothing.  Who found a draft
\* finds it as it was, unless another request has saved it; only an answered
\* request has saved a row.
Held(s) ==
    /\ tx[s].found = NoRow \/ tx[s].found.status = "draft"
    /\ Phase(s) \in {"idle", "checked", "insert"} => tx[s].found = NoRow
    /\ Phase(s) \in {"reuse", "cleared", "updated"} => tx[s].found.status = "draft"
    /\ tx[s].found = NoRow /\ Phase(s) \in HoldsRow => OldRow(s) = NoRow
    /\ tx[s].found.status = "draft" /\ OldRow(s).by = tx[s].found.by =>
         /\ OldRow(s) = tx[s].found
         /\ Phase(s) # "reuse" => OldRow(s).lines \subseteq tx[s].cleared
    /\ tx[s].found.by # NoRequest => Answered(tx[s].found.by)

\* A confirmation withdraws what is in force, if its number is still to come.
Withdraws(s) ==
    Phase(s) \in Withdrawn =>
        /\ Confirming(Req(s))
        /\ Req(s).receipt \notin overwritten /\ OldRow(s).status # "confirmed" =>
             tx[s].withdrawn = current[Req(s).receipt]

\* Who opens the ledger does so alone.
Counts(s) ==
    /\ tx[s].opened => ledger = 0 /\ Phase(s) \in Valued
    /\ ledger = 0 /\ Phase(s) \in Valued => tx[s].opened
    /\ Phase(s) \in Valued => tx[s].pricesAt # 0

Sound(s) == Requested(s) /\ Held(s) /\ Withdraws(s) /\ Counts(s)

\* Two transactions never share a mutation ID, the row of a revision or the first
\* ledger row.
Apart(s, t) ==
    /\ Phase(s) # "idle" /\ Phase(t) # "idle" => ~SameKey(Req(s), Req(t))
    /\ Phase(s) \in HoldsRow /\ Phase(t) \in HoldsRow => ~SameRow(s, t)
    /\ ~(tx[s].opened /\ tx[t].opened)

\* No confirmation was answered with a price_data_version ahead of the ledger.
AnsweredBehind == ~overtaken => \A m \in mutations : Confirming(m.req) => m.pricesAt <= Shown

\* A row names the request that saved it last, which has its answer.
RowsAnswered ==
    \A r \in Receipts, n \in 1..MaxVersion :
        revision[r][n].by # NoRequest => Answered(revision[r][n].by)

\* The history and the prices of one receipt.
PricesOf(r) ==
    receipt[r].version > 0 =>
        LET q == revision[r][receipt[r].version].by IN
        q # NoRequest => current[r] = IF q.body.store THEN Rows(q, q.body.priced) ELSE {}
History(r) ==
    /\ \A m \in mutations : Confirming(m.req) /\ m.req.receipt = r => AsAnswered(m)
    /\ NumberedWithoutGap(r)
    /\ MirrorsRevisions(r)
    /\ PricesOf(r)

Transactions ==
    /\ \A s \in Sessions : Sound(s)
    /\ \A s, t \in Sessions : s # t => Apart(s, t)

Stands ==
    /\ \A r \in Receipts \ overwritten : History(r)
    /\ AnswersStand
    /\ AnsweredBehind
    /\ RowsAnswered

RevisionsInv == TypeOK /\ Transactions /\ Stands

-----------------------------------------------------------------------------
(* Types                                                                   *)

\* A request has the types of its fields.
LEMMA RequestTypes ==
    ASSUME NEW q \in Requests
    PROVE  /\ q \in Request
           /\ q.receipt \in Receipts
           /\ q.expected \in 0..MaxVersion
           /\ q.body.lines \in SUBSET Lines /\ q.body.priced \in SUBSET Lines
           /\ q.body.sum \in {"balanced", "gap", "unverifiable"}
           /\ q # NoRequest
  BY RevisionsAssumption DEF Request, Body

\* The rows of a request are rows.
LEMMA RowsType ==
    ASSUME NEW q \in Requests \cup {NoRequest}, NEW lines \in SUBSET Lines
    PROVE  Rows(q, lines) \in SUBSET LineRows
  BY DEF Rows, LineRows

\* No row is a row, and no transaction is a transaction.
LEMMA NoRowType == NoRow \in RevisionRow /\ NoRow.status = "none" /\ NoRow.by = NoRequest
                   /\ NoRow.lines = {}
  BY DEF NoRow, Row, RevisionRow, Reconciled

LEMMA NoTransactionType ==
    /\ NoTransaction \in Transaction
    /\ NoTransaction.phase = "idle" /\ ~NoTransaction.opened /\ NoTransaction.found = NoRow
  <1>1. NoTransaction.phase = "idle" /\ ~NoTransaction.opened /\ NoTransaction.found = NoRow
    BY DEF NoTransaction
  <1>2. NoTransaction \in Transaction
    BY NoRowType DEF NoTransaction, Transaction, Phases
  <1> QED BY <1>1, <1>2

\* The fields of a transaction.
LEMMA TransactionTypes ==
    ASSUME TypeOK, NEW s \in Sessions
    PROVE  /\ tx[s] \in Transaction
           /\ Phase(s) \in Phases
           /\ Req(s) \in Requests \cup {NoRequest}
           /\ tx[s].found \in RevisionRow
           /\ tx[s].pricesAt \in Nat
           /\ tx[s].opened \in BOOLEAN
           /\ tx[s].cleared \in SUBSET LineRows
           /\ tx[s].withdrawn \in SUBSET LineRows
  BY DEF TypeOK, Transaction, Phase, Req

\* What a transaction becomes when it moves on: f is the record it has then.
LEMMA Moves ==
    ASSUME TypeOK, NEW s \in Sessions, NEW f \in Transaction, tx' = [tx EXCEPT ![s] = f]
    PROVE  /\ tx' \in [Sessions -> Transaction] /\ tx'[s] = f
           /\ \A t \in Sessions \ {s} : tx'[t] = tx[t]
  BY DEF TypeOK

\* A step to another phase changes nothing else.
LEMMA PhaseStep ==
    ASSUME TypeOK, NEW s \in Sessions, NEW phase \in Phases, To(s, phase)
    PROVE  /\ tx' \in [Sessions -> Transaction]
           /\ \A t \in Sessions \ {s} : tx'[t] = tx[t]
           /\ tx'[s].phase = phase
           /\ \A f \in {"req", "found", "cleared", "opened", "pricesAt", "withdrawn"} :
                tx'[s][f] = tx[s][f]
  <1> DEFINE x == [tx[s] EXCEPT !.phase = phase]
  <1>1. tx \in [Sessions -> Transaction] /\ tx[s] \in Transaction
    BY DEF TypeOK
  <1>2. tx' = [tx EXCEPT ![s] = x]
    BY DEF To
  <1>3. x \in Transaction /\ x.phase = phase
    BY <1>1 DEF Transaction
  <1>4. \A f \in {"req", "found", "cleared", "opened", "pricesAt", "withdrawn"} :
          x[f] = tx[s][f]
    BY <1>1 DEF Transaction
  <1> HIDE DEF x
  <1> QED BY <1>1, <1>2, <1>3, <1>4

-----------------------------------------------------------------------------
(* Steps of one transaction                                                *)

\* The properties speak of the tables only, and so do the facts of the others.
LEMMA StandsAlone ==
    ASSUME Stands, UNCHANGED Tables
    PROVE  Stands'
  BY DEF Stands, History, AsAnswered, NumberedWithoutGap, MirrorsRevisions, PricesOf,
         AnswersStand, AnsweredOnce, DistinctVersions, AnsweredBehind, RowsAnswered,
         Answered, Shown, Tables

LEMMA SoundAlone ==
    ASSUME NEW t \in Sessions, Sound(t), UNCHANGED Tables, tx'[t] = tx[t]
    PROVE  Sound(t)'
  BY DEF Sound, Requested, Held, Withdraws, Counts, Answered, Phase, Req, OldRow, Target,
         Number, Tables

LEMMA ApartAlone ==
    ASSUME NEW s \in Sessions, NEW t \in Sessions, Apart(s, t),
           tx'[s] = tx[s], tx'[t] = tx[t]
    PROVE  Apart(s, t)'
  BY DEF Apart, Phase, Req, SameRow, Target, Number

LEMMA ApartSymmetric ==
    ASSUME NEW s \in Sessions, NEW t \in Sessions
    PROVE  Apart(s, t)' <=> Apart(t, s)'
  BY DEF Apart, SameKey, SameRow

\* A step that changes no table keeps the invariant when the transaction that
\* takes it is sound after it, and apart from the others.
LEMMA OwnStep ==
    ASSUME RevisionsInv, NEW s \in Sessions, UNCHANGED Tables,
           tx' \in [Sessions -> Transaction],
           \A t \in Sessions \ {s} : tx'[t] = tx[t],
           Sound(s)', \A t \in Sessions \ {s} : Apart(s, t)'
    PROVE  RevisionsInv'
  <1>1. TypeOK'
    BY DEF RevisionsInv, TypeOK, Tables
  <1>2. Stands'
    BY StandsAlone DEF RevisionsInv
  <1>3. ASSUME NEW t \in Sessions PROVE Sound(t)'
    <2>1. CASE t = s
      BY <2>1
    <2>2. CASE t # s
      BY <2>2, SoundAlone DEF RevisionsInv, Transactions
    <2> QED BY <2>1, <2>2
  <1>4. ASSUME NEW t \in Sessions, NEW u \in Sessions, t # u PROVE Apart(t, u)'
    <2>1. CASE t = s
      BY <1>4, <2>1
    <2>2. CASE u = s
      BY <1>4, <2>2, ApartSymmetric
    <2>3. CASE t # s /\ u # s
      BY <1>4, <2>3, ApartAlone DEF RevisionsInv, Transactions
    <2> QED BY <2>1, <2>2, <2>3
  <1> QED BY <1>1, <1>2, <1>3, <1>4 DEF RevisionsInv, Transactions

\* Who goes to another phase stays apart from the others, unless it takes a row
\* or the first ledger row.
LEMMA StaysApart ==
    ASSUME NEW s \in Sessions, NEW t \in Sessions, Apart(s, t),
           tx'[t] = tx[t], Phase(s) # "idle", tx'[s].req = tx[s].req,
           tx'[s].opened = tx[s].opened,
           tx'[s].phase \in HoldsRow => Phase(s) \in HoldsRow
    PROVE  Apart(s, t)'
  BY DEF Apart, Phase, Req, SameRow, Target, Number

\* An end without a commit: nothing is left to be sound.
LEMMA IdleSound ==
    ASSUME NEW s \in Sessions, tx'[s] = NoTransaction
    PROVE  Sound(s)' /\ \A t \in Sessions \ {s} : Apart(s, t)'
  <1>1. tx'[s].phase = "idle" /\ ~tx'[s].opened /\ tx'[s].found = NoRow
        /\ tx'[s].found.status = "none" /\ tx'[s].found.by = NoRequest
    BY NoTransactionType, NoRowType
  <1>2. Sound(s)'
    BY <1>1 DEF Sound, Requested, Held, Withdraws, Counts, Phase, HoldsRow, Withdrawn, Valued
  <1>3. \A t \in Sessions \ {s} : Apart(s, t)'
    BY <1>1 DEF Apart, Phase, HoldsRow
  <1> QED BY <1>2, <1>3

LEMMA StopKeeps ==
    ASSUME RevisionsInv, NEW s \in Sessions, Stop(s), UNCHANGED Tables
    PROVE  RevisionsInv'
  <1>1. tx'[s] = NoTransaction /\ tx' \in [Sessions -> Transaction]
        /\ \A t \in Sessions \ {s} : tx'[t] = tx[t]
    BY NoTransactionType, Moves DEF RevisionsInv, Stop
  <1> QED BY <1>1, IdleSound, OwnStep

\* What the invariant says of an open transaction and of the others, and what a
\* step to another phase leaves of it.
LEMMA OpenTransaction ==
    ASSUME RevisionsInv, NEW s \in Sessions, Phase(s) # "idle"
    PROVE  /\ Requested(s) /\ Held(s) /\ Withdraws(s) /\ Counts(s)
           /\ Req(s) \in Requests /\ Req(s).receipt \in Receipts
           /\ Req(s).expected \in Nat /\ Target(s) = Req(s).expected + 1
           /\ Target(s) \in 1..MaxVersion
           /\ OldRow(s) \in RevisionRow
           /\ receipt[Req(s).receipt].version \in Nat
           /\ \A t \in Sessions \ {s} : Apart(s, t) /\ Sound(t)
  <1>1. Sound(s) /\ \A t \in Sessions \ {s} : Apart(s, t) /\ Sound(t)
    BY DEF RevisionsInv, Transactions
  <1>2. Req(s) \in Requests /\ Req(s).expected < MaxVersion
    BY <1>1 DEF Sound, Requested
  <1>3. Req(s).receipt \in Receipts /\ Req(s).expected \in 0..MaxVersion
    BY <1>2, RequestTypes
  <1>4. Req(s).expected \in Nat /\ Target(s) = Req(s).expected + 1
        /\ Target(s) \in 1..MaxVersion
    BY <1>2, <1>3, RevisionsAssumption DEF Target, Number
  <1>5. OldRow(s) \in RevisionRow /\ receipt[Req(s).receipt].version \in Nat
    BY <1>3, <1>4, RevisionsAssumption DEF OldRow, RevisionsInv, TypeOK, ReceiptRow
  <1> QED BY <1>1, <1>2, <1>3, <1>4, <1>5 DEF Sound

LEMMA StillRequested ==
    ASSUME RevisionsInv, NEW s \in Sessions, Phase(s) # "idle", UNCHANGED Tables,
           tx'[s].req = tx[s].req
    PROVE  Requested(s)' /\ Req(s)' = Req(s) /\ Target(s)' = Target(s) /\ OldRow(s)' = OldRow(s)
  BY OpenTransaction DEF Requested, Answered, Phase, Req, Target, Number, OldRow, Tables

\* A request begins: the checks of _apply have passed.
LEMMA BeginKeeps ==
    ASSUME RevisionsInv, NEW s \in Sessions, NEW q \in Requests, Begin(s, q)
    PROVE  RevisionsInv'
  <1> DEFINE x == [NoTransaction EXCEPT !.phase = "checked", !.req = q]
  <1>1. x \in Transaction /\ x.phase = "checked" /\ x.req = q /\ ~x.opened /\ x.found = NoRow
    BY NoTransactionType, NoRowType DEF NoTransaction, Transaction, Phases
  <1>2. tx' = [tx EXCEPT ![s] = x]
    BY DEF Begin
  <1> HIDE DEF x
  <1>3. /\ tx' \in [Sessions -> Transaction] /\ tx'[s] = x
        /\ \A t \in Sessions \ {s} : tx'[t] = tx[t]
    BY <1>1, <1>2, Moves DEF RevisionsInv
  <1>4. UNCHANGED Tables
    BY DEF Begin
  <1>5. receipt[q.receipt].version \in Nat /\ q.expected \in Nat
    BY RequestTypes, RevisionsAssumption DEF RevisionsInv, TypeOK, ReceiptRow
  <1>6. Sound(s)'
    <2>1. Requested(s)'
      BY <1>1, <1>3, <1>4, <1>5 DEF Requested, Begin, Answered, Phase, Req, Tables
    <2>2. Held(s)' /\ Withdraws(s)' /\ Counts(s)'
      BY <1>1, <1>3, NoRowType DEF Held, Withdraws, Counts, Phase, HoldsRow, Withdrawn, Valued
    <2> QED BY <2>1, <2>2 DEF Sound
  <1>7. ASSUME NEW t \in Sessions \ {s} PROVE Apart(s, t)'
    BY <1>1, <1>3 DEF Apart, Begin, KeyFree, SameKey, Phase, Req, HoldsRow
  <1> QED BY <1>3, <1>4, <1>6, <1>7, OwnStep

\* A draft is found as it is, or none.
LEMMA FindDraftKeeps ==
    ASSUME RevisionsInv, NEW s \in Sessions, FindDraft(s)
    PROVE  RevisionsInv'
  <1>1. UNCHANGED Tables /\ Phase(s) = "checked" /\ Phase(s) # "idle"
    BY DEF FindDraft
  <1>2. /\ Held(s) /\ ~tx[s].opened /\ tx[s].found = NoRow /\ OldRow(s) \in RevisionRow
        /\ Req(s).receipt \in Receipts /\ Target(s) \in 1..MaxVersion
    BY <1>1, OpenTransaction DEF Held, Counts, Valued
  <1>3. OldRow(s).by # NoRequest => Answered(OldRow(s).by)
    BY <1>2 DEF OldRow, RevisionsInv, Stands, RowsAnswered
  <1>4. /\ tx' \in [Sessions -> Transaction]
        /\ \A t \in Sessions \ {s} : tx'[t] = tx[t]
        /\ tx'[s].req = tx[s].req /\ tx'[s].opened = tx[s].opened
        /\ \/ OldRow(s).status = "draft" /\ tx'[s].phase = "reuse" /\ tx'[s].found = OldRow(s)
           \/ tx'[s].phase = "insert" /\ tx'[s].found = NoRow
    <2>1. CASE OldRow(s).status = "draft"
      <3> DEFINE row == OldRow(s)
                 x == [tx[s] EXCEPT !.phase = "reuse", !.found = row]
      <3>1. tx[s] \in Transaction /\ row \in RevisionRow
        BY <1>2 DEF RevisionsInv, TypeOK
      <3>2. tx' = [tx EXCEPT ![s] = x]
        BY <2>1 DEF FindDraft
      <3> HIDE DEF row
      <3>3. x \in Transaction /\ x.phase = "reuse" /\ x.found = row
            /\ x.req = tx[s].req /\ x.opened = tx[s].opened
        BY <3>1 DEF Transaction, Phases
      <3> HIDE DEF x
      <3>4. tx' \in [Sessions -> Transaction] /\ tx'[s] = x
            /\ \A t \in Sessions \ {s} : tx'[t] = tx[t]
        BY <3>2, <3>3, Moves DEF RevisionsInv
      <3> QED BY <2>1, <3>3, <3>4 DEF row
    <2>2. CASE OldRow(s).status # "draft"
      <3>1. To(s, "insert") /\ "insert" \in Phases
        BY <2>2 DEF FindDraft, Phases
      <3> QED BY <1>2, <3>1, PhaseStep DEF RevisionsInv
    <2> QED BY <2>1, <2>2
  <1>5. Sound(s)'
    <2>1. Requested(s)' /\ OldRow(s)' = OldRow(s)
      BY <1>1, <1>4, StillRequested
    <2>2. Held(s)'
      BY <1>1, <1>3, <1>4, <2>1, NoRowType DEF Held, Phase, HoldsRow, Answered, Tables
    <2>3. Withdraws(s)' /\ Counts(s)'
      BY <1>2, <1>4 DEF Withdraws, Counts, Phase, Withdrawn, Valued
    <2> QED BY <2>1, <2>2, <2>3 DEF Sound
  <1>6. ASSUME NEW t \in Sessions \ {s} PROVE Apart(s, t)'
    BY <1>1, <1>4, OpenTransaction, StaysApart DEF HoldsRow
  <1> QED BY <1>1, <1>4, <1>5, <1>6, OwnStep

\* A step that takes a row that is free.
LEMMA TakesRow ==
    ASSUME RevisionsInv, NEW s \in Sessions, Phase(s) # "idle", RowFree(s),
           tx'[s].req = tx[s].req, tx'[s].opened = tx[s].opened,
           NEW t \in Sessions \ {s}, tx'[t] = tx[t]
    PROVE  Apart(s, t)'
  <1>1. Apart(s, t)
    BY OpenTransaction
  <1>2. Phase(t) \in HoldsRow => ~SameRow(s, t)
    BY DEF RowFree, Others, SameRow
  <1> QED BY <1>1, <1>2 DEF Apart, Phase, Req, SameRow, Target, Number

\* The INSERT of a revision: its number is free and the unique key keeps away
\* who inserts it too.
LEMMA InsertRevisionKeeps ==
    ASSUME RevisionsInv, NEW s \in Sessions, InsertRevision(s)
    PROVE  RevisionsInv'
  <1>1. UNCHANGED Tables /\ Phase(s) = "insert" /\ Phase(s) # "idle" /\ OldRow(s) = NoRow
        /\ RowFree(s)
    BY DEF InsertRevision
  <1>2. /\ tx' \in [Sessions -> Transaction]
        /\ \A t \in Sessions \ {s} : tx'[t] = tx[t]
        /\ tx'[s].phase = "written"
        /\ \A f \in {"req", "found", "cleared", "opened", "pricesAt", "withdrawn"} :
             tx'[s][f] = tx[s][f]
    BY PhaseStep DEF InsertRevision, RevisionsInv, Phases
  <1>3. ~tx[s].opened /\ tx[s].found = NoRow
    BY <1>1, OpenTransaction DEF Held, Counts, Valued
  <1>4. Sound(s)'
    <2>1. Requested(s)' /\ Req(s)' = Req(s) /\ OldRow(s)' = OldRow(s)
      BY <1>1, <1>2, StillRequested
    <2>2. Held(s)' /\ Withdraws(s)' /\ Counts(s)'
      BY <1>1, <1>2, <1>3, <2>1, NoRowType
         DEF Held, Withdraws, Counts, Phase, Withdrawn, Valued, Tables
    <2> QED BY <2>1, <2>2 DEF Sound
  <1>5. \A t \in Sessions \ {s} : Apart(s, t)'
    BY <1>1, <1>2, TakesRow
  <1> QED BY <1>1, <1>2, <1>4, <1>5, OwnStep

\* The lines of the draft go, those that the statement sees.
LEMMA ClearLinesKeeps ==
    ASSUME RevisionsInv, NEW s \in Sessions, ClearLines(s)
    PROVE  RevisionsInv'
  <1>1. UNCHANGED Tables /\ Phase(s) = "reuse" /\ Phase(s) # "idle"
    BY DEF ClearLines
  <1>2. Held(s) /\ ~tx[s].opened /\ OldRow(s).lines \in SUBSET LineRows
    BY <1>1, OpenTransaction DEF Counts, Valued, RevisionRow
  <1>3. /\ tx' \in [Sessions -> Transaction]
        /\ \A t \in Sessions \ {s} : tx'[t] = tx[t]
        /\ tx'[s].phase = "cleared" /\ tx'[s].cleared = OldRow(s).lines
        /\ tx'[s].req = tx[s].req /\ tx'[s].found = tx[s].found
        /\ tx'[s].opened = tx[s].opened
    <2> DEFINE lines == OldRow(s).lines
               x == [tx[s] EXCEPT !.phase = "cleared", !.cleared = lines]
    <2>1. tx[s] \in Transaction
      BY DEF RevisionsInv, TypeOK
    <2>2. tx' = [tx EXCEPT ![s] = x]
      BY DEF ClearLines
    <2>3. lines \in SUBSET LineRows /\ lines = OldRow(s).lines
      BY <1>2
    <2> HIDE DEF lines
    <2>4. x \in Transaction /\ x.phase = "cleared" /\ x.cleared = lines
      BY <2>1, <2>3 DEF Transaction, Phases
    <2>5. x.req = tx[s].req /\ x.found = tx[s].found /\ x.opened = tx[s].opened
      BY <2>1 DEF Transaction
    <2> HIDE DEF x
    <2>6. tx' \in [Sessions -> Transaction] /\ tx'[s] = x
          /\ \A t \in Sessions \ {s} : tx'[t] = tx[t]
      BY <2>2, <2>4, Moves DEF RevisionsInv
    <2> QED BY <2>3, <2>4, <2>5, <2>6
  <1>4. Sound(s)'
    <2>1. Requested(s)' /\ Req(s)' = Req(s) /\ OldRow(s)' = OldRow(s)
      BY <1>1, <1>3, StillRequested
    <2>2. Held(s)'
      BY <1>1, <1>2, <1>3, <2>1 DEF Held, Phase, HoldsRow, Answered, Tables
    <2>3. Withdraws(s)' /\ Counts(s)'
      BY <1>2, <1>3 DEF Withdraws, Counts, Phase, Withdrawn, Valued
    <2> QED BY <2>1, <2>2, <2>3 DEF Sound
  <1>5. ASSUME NEW t \in Sessions \ {s} PROVE Apart(s, t)'
    BY <1>1, <1>3, OpenTransaction, StaysApart DEF HoldsRow
  <1> QED BY <1>1, <1>3, <1>4, <1>5, OwnStep

\* The draft's row is overwritten, whatever it is by then.
LEMMA OverwriteDraftKeeps ==
    ASSUME RevisionsInv, NEW s \in Sessions, OverwriteDraft(s)
    PROVE  RevisionsInv'
  <1>1. UNCHANGED Tables /\ Phase(s) = "cleared" /\ Phase(s) # "idle" /\ RowFree(s)
    BY DEF OverwriteDraft
  <1>2. Held(s) /\ ~tx[s].opened
    BY <1>1, OpenTransaction DEF Counts, Valued
  <1>3. /\ tx' \in [Sessions -> Transaction]
        /\ \A t \in Sessions \ {s} : tx'[t] = tx[t]
        /\ tx'[s].phase = "updated"
        /\ \A f \in {"req", "found", "cleared", "opened", "pricesAt", "withdrawn"} :
             tx'[s][f] = tx[s][f]
    BY PhaseStep DEF OverwriteDraft, RevisionsInv, Phases
  <1>4. Sound(s)'
    <2>1. Requested(s)' /\ Req(s)' = Req(s) /\ OldRow(s)' = OldRow(s)
      BY <1>1, <1>3, StillRequested
    <2>2. Held(s)'
      BY <1>1, <1>2, <1>3, <2>1, NoRowType DEF Held, Phase, Answered, Tables
    <2>3. Withdraws(s)' /\ Counts(s)'
      BY <1>2, <1>3 DEF Withdraws, Counts, Phase, Withdrawn, Valued
    <2> QED BY <2>1, <2>2, <2>3 DEF Sound
  <1>5. \A t \in Sessions \ {s} : Apart(s, t)'
    BY <1>1, <1>3, TakesRow
  <1> QED BY <1>1, <1>3, <1>4, <1>5, OwnStep

\* A step of one that holds its row already: what it holds stays as it is.
LEMMA HoldingStep ==
    ASSUME RevisionsInv, NEW s \in Sessions, Phase(s) \in HoldsRow, UNCHANGED Tables,
           tx'[s].req = tx[s].req, tx'[s].found = tx[s].found, tx'[s].cleared = tx[s].cleared,
           tx'[s].phase \in HoldsRow \ {"updated"}
    PROVE  /\ Requested(s)' /\ Held(s)' /\ Req(s)' = Req(s) /\ OldRow(s)' = OldRow(s)
  <1>1. Phase(s) # "idle" /\ Phase(s) # "reuse"
    BY DEF HoldsRow
  <1>2. Requested(s)' /\ Req(s)' = Req(s) /\ OldRow(s)' = OldRow(s) /\ Held(s)
    BY <1>1, StillRequested, OpenTransaction
  <1>3. Held(s)'
    BY <1>1, <1>2 DEF Held, Phase, HoldsRow, Answered, Tables
  <1> QED BY <1>2, <1>3

\* The new lines are inserted.
LEMMA WriteLinesKeeps ==
    ASSUME RevisionsInv, NEW s \in Sessions, WriteLines(s)
    PROVE  RevisionsInv'
  <1>1. UNCHANGED Tables /\ Phase(s) = "updated" /\ Phase(s) # "idle" /\ Phase(s) \in HoldsRow
    BY DEF WriteLines, HoldsRow
  <1>2. ~tx[s].opened
    BY <1>1, OpenTransaction DEF Counts, Valued
  <1>3. /\ tx' \in [Sessions -> Transaction]
        /\ \A t \in Sessions \ {s} : tx'[t] = tx[t]
        /\ tx'[s].phase = "written"
        /\ \A f \in {"req", "found", "cleared", "opened", "pricesAt", "withdrawn"} :
             tx'[s][f] = tx[s][f]
    BY PhaseStep DEF WriteLines, RevisionsInv, Phases
  <1>4. Sound(s)'
    <2>1. Requested(s)' /\ Held(s)'
      BY <1>1, <1>3, HoldingStep DEF HoldsRow
    <2>2. Withdraws(s)' /\ Counts(s)'
      BY <1>2, <1>3 DEF Withdraws, Counts, Phase, Withdrawn, Valued
    <2> QED BY <2>1, <2>2 DEF Sound
  <1>5. ASSUME NEW t \in Sessions \ {s} PROVE Apart(s, t)'
    BY <1>1, <1>3, OpenTransaction, StaysApart
  <1> QED BY <1>1, <1>3, <1>4, <1>5, OwnStep

\* The value of the ledger is read.
LEMMA ReadLedgerKeeps ==
    ASSUME RevisionsInv, NEW s \in Sessions, ReadLedger(s)
    PROVE  RevisionsInv'
  <1>1. UNCHANGED Tables /\ Phase(s) = "written" /\ Phase(s) # "idle" /\ Phase(s) \in HoldsRow
    BY DEF ReadLedger, HoldsRow
  <1>2. ~tx[s].opened
    BY <1>1, OpenTransaction DEF Counts, Valued
  <1>3. /\ tx' \in [Sessions -> Transaction]
        /\ \A t \in Sessions \ {s} : tx'[t] = tx[t]
        /\ tx'[s].phase = IF ledger = 0 THEN "opening" ELSE "read"
        /\ ledger # 0 => tx'[s].pricesAt = ledger
        /\ tx'[s].req = tx[s].req /\ tx'[s].found = tx[s].found
        /\ tx'[s].cleared = tx[s].cleared /\ tx'[s].opened = tx[s].opened
    <2>1. CASE ledger = 0
      <3>1. To(s, "opening") /\ "opening" \in Phases
        BY <2>1 DEF ReadLedger, Phases
      <3> QED BY <2>1, <3>1, PhaseStep DEF RevisionsInv
    <2>2. CASE ledger # 0
      <3> DEFINE x == [tx[s] EXCEPT !.phase = "read", !.pricesAt = ledger]
      <3>1. tx[s] \in Transaction /\ ledger \in Nat
        BY DEF RevisionsInv, TypeOK
      <3>2. tx' = [tx EXCEPT ![s] = x]
        BY <2>2 DEF ReadLedger
      <3>3. x \in Transaction /\ x.phase = "read" /\ x.pricesAt = ledger
        BY <3>1 DEF Transaction, Phases
      <3>4. /\ x.req = tx[s].req /\ x.found = tx[s].found /\ x.cleared = tx[s].cleared
            /\ x.opened = tx[s].opened
        BY <3>1 DEF Transaction
      <3> HIDE DEF x
      <3>5. tx' \in [Sessions -> Transaction] /\ tx'[s] = x
            /\ \A t \in Sessions \ {s} : tx'[t] = tx[t]
        BY <3>2, <3>3, Moves DEF RevisionsInv
      <3> QED BY <2>2, <3>3, <3>4, <3>5
    <2> QED BY <2>1, <2>2
  <1>4. Sound(s)'
    <2>1. Requested(s)' /\ Held(s)'
      BY <1>1, <1>3, HoldingStep DEF HoldsRow
    <2>2. Withdraws(s)' /\ Counts(s)'
      BY <1>1, <1>2, <1>3 DEF Withdraws, Counts, Phase, Withdrawn, Valued, Tables
    <2> QED BY <2>1, <2>2 DEF Sound
  <1>5. ASSUME NEW t \in Sessions \ {s} PROVE Apart(s, t)'
    BY <1>1, <1>3, OpenTransaction, StaysApart
  <1> QED BY <1>1, <1>3, <1>4, <1>5, OwnStep

\* The first ledger row is inserted by one transaction at a time.
LEMMA OpenLedgerKeeps ==
    ASSUME RevisionsInv, NEW s \in Sessions, OpenLedger(s)
    PROVE  RevisionsInv'
  <1>1. UNCHANGED Tables /\ Phase(s) = "opening" /\ Phase(s) # "idle" /\ ledger = 0
        /\ Phase(s) \in HoldsRow
    BY DEF OpenLedger, HoldsRow
  <1>2. /\ tx' \in [Sessions -> Transaction]
        /\ \A t \in Sessions \ {s} : tx'[t] = tx[t]
        /\ tx'[s].phase = "read" /\ tx'[s].pricesAt = 1 /\ tx'[s].opened = TRUE
        /\ tx'[s].req = tx[s].req /\ tx'[s].found = tx[s].found
        /\ tx'[s].cleared = tx[s].cleared
    <2> DEFINE x == [tx[s] EXCEPT !.phase = "read", !.pricesAt = 1, !.opened = TRUE]
    <2>1. tx' = [tx EXCEPT ![s] = x]
      BY DEF OpenLedger, RevisionsInv, TypeOK, Transaction
    <2>2. /\ x \in Transaction /\ x.phase = "read" /\ x.pricesAt = 1 /\ x.opened = TRUE
          /\ x.req = tx[s].req /\ x.found = tx[s].found /\ x.cleared = tx[s].cleared
      BY TransactionTypes DEF RevisionsInv, Transaction, Phases
    <2> HIDE DEF x
    <2>3. tx' \in [Sessions -> Transaction] /\ tx'[s] = x
          /\ \A t \in Sessions \ {s} : tx'[t] = tx[t]
      BY <2>1, <2>2, Moves DEF RevisionsInv
    <2> QED BY <2>2, <2>3
  <1>3. Sound(s)'
    <2>1. Requested(s)' /\ Held(s)'
      BY <1>1, <1>2, HoldingStep DEF HoldsRow
    <2>2. Withdraws(s)' /\ Counts(s)'
      BY <1>1, <1>2 DEF Withdraws, Counts, Phase, Withdrawn, Valued, Tables
    <2> QED BY <2>1, <2>2 DEF Sound
  <1>4. ASSUME NEW t \in Sessions \ {s} PROVE Apart(s, t)'
    <2>1. Apart(s, t) /\ ~tx[t].opened
      BY <1>1, OpenTransaction DEF OpenLedger, Others
    <2> QED BY <1>1, <1>2, <2>1 DEF Apart, Phase, Req, HoldsRow, SameRow, Target, Number
  <1> QED BY <1>1, <1>2, <1>3, <1>4, OwnStep

\* The observations in force are chosen.
LEMMA WithdrawKeeps ==
    ASSUME RevisionsInv, NEW s \in Sessions, Withdraw(s)
    PROVE  RevisionsInv'
  <1>1. UNCHANGED Tables /\ Phase(s) = "read" /\ Phase(s) # "idle" /\ Confirming(Req(s))
        /\ Phase(s) \in HoldsRow
    BY DEF Withdraw, HoldsRow
  <1>2. Counts(s) /\ current[Req(s).receipt] \in SUBSET LineRows
    BY <1>1, OpenTransaction DEF RevisionsInv, TypeOK
  <1>3. /\ tx' \in [Sessions -> Transaction]
        /\ \A t \in Sessions \ {s} : tx'[t] = tx[t]
        /\ tx'[s].phase = "withdrawn" /\ tx'[s].withdrawn = current[Req(s).receipt]
        /\ tx'[s].req = tx[s].req /\ tx'[s].found = tx[s].found
        /\ tx'[s].cleared = tx[s].cleared
        /\ tx'[s].opened = tx[s].opened /\ tx'[s].pricesAt = tx[s].pricesAt
    <2> DEFINE rows == current[Req(s).receipt]
               x == [tx[s] EXCEPT !.phase = "withdrawn", !.withdrawn = rows]
    <2>1. tx[s] \in Transaction /\ rows \in SUBSET LineRows
      BY <1>2 DEF RevisionsInv, TypeOK
    <2>2. tx' = [tx EXCEPT ![s] = x]
      BY DEF Withdraw
    <2> HIDE DEF rows
    <2>3. x \in Transaction /\ x.phase = "withdrawn" /\ x.withdrawn = rows
      BY <2>1 DEF Transaction, Phases
    <2>4. x.req = tx[s].req /\ x.found = tx[s].found /\ x.cleared = tx[s].cleared
          /\ x.opened = tx[s].opened /\ x.pricesAt = tx[s].pricesAt
      BY <2>1 DEF Transaction
    <2> HIDE DEF x
    <2>5. tx' \in [Sessions -> Transaction] /\ tx'[s] = x
          /\ \A t \in Sessions \ {s} : tx'[t] = tx[t]
      BY <2>2, <2>3, Moves DEF RevisionsInv
    <2> QED BY <2>3, <2>4, <2>5 DEF rows
  <1>4. Sound(s)'
    <2>1. Requested(s)' /\ Held(s)' /\ Req(s)' = Req(s)
      BY <1>1, <1>3, HoldingStep DEF HoldsRow
    <2>2. Withdraws(s)' /\ Counts(s)'
      BY <1>1, <1>2, <1>3, <2>1 DEF Withdraws, Counts, Phase, Withdrawn, Valued, Tables
    <2> QED BY <2>1, <2>2 DEF Sound
  <1>5. ASSUME NEW t \in Sessions \ {s} PROVE Apart(s, t)'
    BY <1>1, <1>3, OpenTransaction, StaysApart
  <1> QED BY <1>1, <1>3, <1>4, <1>5, OwnStep

\* They are put out of force, and the new ones in.
LEMMA PublishPricesKeeps ==
    ASSUME RevisionsInv, NEW s \in Sessions, PublishPrices(s)
    PROVE  RevisionsInv'
  <1>1. UNCHANGED Tables /\ Phase(s) = "withdrawn" /\ Phase(s) # "idle" /\ Phase(s) \in HoldsRow
    BY DEF PublishPrices, HoldsRow
  <1>2. Withdraws(s) /\ Counts(s)
    BY <1>1, OpenTransaction
  <1>3. /\ tx' \in [Sessions -> Transaction]
        /\ \A t \in Sessions \ {s} : tx'[t] = tx[t]
        /\ tx'[s].phase = "published"
        /\ \A f \in {"req", "found", "cleared", "opened", "pricesAt", "withdrawn"} :
             tx'[s][f] = tx[s][f]
    BY PhaseStep DEF PublishPrices, RevisionsInv, Phases
  <1>4. Sound(s)'
    <2>1. Requested(s)' /\ Held(s)' /\ Req(s)' = Req(s) /\ OldRow(s)' = OldRow(s)
      BY <1>1, <1>3, HoldingStep DEF HoldsRow
    <2>2. Withdraws(s)' /\ Counts(s)'
      BY <1>1, <1>2, <1>3, <2>1 DEF Withdraws, Counts, Phase, Withdrawn, Valued, Tables
    <2> QED BY <2>1, <2>2 DEF Sound
  <1>5. ASSUME NEW t \in Sessions \ {s} PROVE Apart(s, t)'
    BY <1>1, <1>3, OpenTransaction, StaysApart
  <1> QED BY <1>1, <1>3, <1>4, <1>5, OwnStep

\* The value that was read is written plus one.
LEMMA BumpLedgerKeeps ==
    ASSUME RevisionsInv, NEW s \in Sessions, BumpLedger(s)
    PROVE  RevisionsInv'
  <1>1. UNCHANGED Tables /\ Phase(s) = "published" /\ Phase(s) # "idle" /\ Phase(s) \in HoldsRow
    BY DEF BumpLedger, HoldsRow
  <1>2. Withdraws(s) /\ Counts(s) /\ tx[s].pricesAt \in Nat
    BY <1>1, OpenTransaction, TransactionTypes DEF RevisionsInv
  <1>3. /\ tx' \in [Sessions -> Transaction]
        /\ \A t \in Sessions \ {s} : tx'[t] = tx[t]
        /\ tx'[s].phase = "bumped" /\ tx'[s].pricesAt = tx[s].pricesAt + 1
        /\ tx'[s].req = tx[s].req /\ tx'[s].found = tx[s].found
        /\ tx'[s].cleared = tx[s].cleared
        /\ tx'[s].opened = tx[s].opened /\ tx'[s].withdrawn = tx[s].withdrawn
    <2> DEFINE next == tx[s].pricesAt + 1
               y == [tx[s] EXCEPT !.phase = "bumped"]
               x == [y EXCEPT !.pricesAt = next]
    <2>1. tx \in [Sessions -> Transaction] /\ tx[s] \in Transaction /\ next \in Nat
      BY <1>2 DEF RevisionsInv, TypeOK
    <2>2. y \in Transaction /\ y.phase = "bumped" /\ y.pricesAt = tx[s].pricesAt
          /\ y.req = tx[s].req /\ y.found = tx[s].found /\ y.cleared = tx[s].cleared
          /\ y.opened = tx[s].opened /\ y.withdrawn = tx[s].withdrawn
      BY <2>1 DEF Transaction, Phases
    <2>3. tx' = [[tx EXCEPT ![s] = y] EXCEPT ![s].pricesAt = @ + 1]
      BY DEF BumpLedger
    <2> HIDE DEF y
    <2>4. tx' = [tx EXCEPT ![s] = [y EXCEPT !.pricesAt = y.pricesAt + 1]]
      BY <2>1, <2>3
    <2>5. tx' = [tx EXCEPT ![s] = x]
      BY <2>2, <2>4
    <2> HIDE DEF next
    <2>6. x \in Transaction /\ x.phase = "bumped" /\ x.pricesAt = next
          /\ x.req = y.req /\ x.found = y.found /\ x.cleared = y.cleared
          /\ x.opened = y.opened /\ x.withdrawn = y.withdrawn
      BY <2>1, <2>2 DEF Transaction
    <2> HIDE DEF x
    <2>7. tx' \in [Sessions -> Transaction] /\ tx'[s] = x
          /\ \A t \in Sessions \ {s} : tx'[t] = tx[t]
      BY <2>5, <2>6, Moves DEF RevisionsInv
    <2> QED BY <2>2, <2>6, <2>7 DEF next
  <1>4. Sound(s)'
    <2>1. Requested(s)' /\ Held(s)' /\ Req(s)' = Req(s) /\ OldRow(s)' = OldRow(s)
      BY <1>1, <1>3, HoldingStep DEF HoldsRow
    <2>2. Withdraws(s)' /\ Counts(s)'
      BY <1>1, <1>2, <1>3, <2>1 DEF Withdraws, Counts, Phase, Withdrawn, Valued, Tables
    <2> QED BY <2>1, <2>2 DEF Sound
  <1>5. ASSUME NEW t \in Sessions \ {s} PROVE Apart(s, t)'
    BY <1>1, <1>3, OpenTransaction, StaysApart
  <1> QED BY <1>1, <1>3, <1>4, <1>5, OwnStep

-----------------------------------------------------------------------------
(* Commits                                                                 *)

Answer(s) == [req |-> Req(s), revision |-> Target(s), pricesAt |-> tx[s].pricesAt]

\* What an open transaction knows when it commits: its row and its answer have
\* their types, it has no answer yet, and no other holds the row.
LEMMA BeforeCommit ==
    ASSUME RevisionsInv, NEW s \in Sessions, Phase(s) \in Valued
    PROVE  /\ Phase(s) # "idle" /\ Phase(s) \in HoldsRow
           /\ Req(s) \in Requests /\ Req(s).receipt \in Receipts
           /\ Target(s) \in 1..MaxVersion
           /\ NewRow(s) \in RevisionRow
           /\ NewRow(s).by = Req(s) /\ Req(s) # NoRequest
           /\ Answer(s) \in Mutation
           /\ ~Answered(Req(s))
           /\ \A t \in Sessions \ {s} : Phase(t) \in HoldsRow => ~SameRow(s, t)
  <1>1. Phase(s) # "idle" /\ Phase(s) \in HoldsRow
    BY DEF Valued, HoldsRow
  <1>2. /\ Requested(s) /\ Req(s) \in Requests /\ Req(s).receipt \in Receipts
        /\ Target(s) \in 1..MaxVersion /\ OldRow(s) \in RevisionRow
        /\ \A t \in Sessions \ {s} : Apart(s, t)
    BY <1>1, OpenTransaction
  <1>3. /\ OldRow(s).status \in {"none", "draft", "confirmed"}
        /\ OldRow(s).sum \in Reconciled /\ OldRow(s).lines \in SUBSET LineRows
        /\ Rows(Req(s), Req(s).body.lines) \in SUBSET LineRows
        /\ Req(s).body.sum \in {"balanced", "gap", "unverifiable"}
    BY <1>2, RequestTypes, RowsType DEF RevisionRow
  <1>4. ReconciledSum(Req(s)) \in Reconciled
    BY <1>3 DEF ReconciledSum, Reconciled
  <1>5. \E status \in {"none", "draft", "confirmed"}, sum \in Reconciled,
           lines \in SUBSET LineRows : NewRow(s) = Row(status, Req(s), sum, lines)
    BY <1>3, <1>4 DEF NewRow
  <1>6. NewRow(s) \in RevisionRow /\ NewRow(s).by = Req(s)
    BY <1>2, <1>5 DEF Row, RevisionRow
  <1>7. Answer(s) \in Mutation
    BY <1>2, TransactionTypes DEF RevisionsInv, Answer, Mutation
  <1> QED BY <1>1, <1>2, <1>6, <1>7, RequestTypes DEF Requested, Apart

\* What the commit of a revision leaves: one row, one answer, no transaction.
LEMMA AfterCommit ==
    ASSUME RevisionsInv, NEW s \in Sessions, Phase(s) \in Valued, CommitRevision(s)
    PROVE  /\ revision' \in [Receipts -> [1..MaxVersion -> RevisionRow]]
           /\ revision'[Req(s).receipt][Target(s)] = NewRow(s)
           /\ \A r \in Receipts, n \in 1..MaxVersion :
                r # Req(s).receipt \/ n # Target(s) => revision'[r][n] = revision[r][n]
           /\ mutations' = mutations \cup {Answer(s)}
           /\ mutations' \subseteq Mutation
           /\ overwritten \subseteq overwritten' /\ overwritten' \subseteq Receipts
           /\ overwritten' \subseteq overwritten \cup {Req(s).receipt}
           /\ tx' \in [Sessions -> Transaction]
           /\ tx'[s] = NoTransaction
           /\ \A t \in Sessions \ {s} : tx'[t] = tx[t]
  <1>1. /\ Req(s).receipt \in Receipts /\ Target(s) \in 1..MaxVersion
        /\ NewRow(s) \in RevisionRow /\ Answer(s) \in Mutation
    BY BeforeCommit
  <1> DEFINE r == Req(s).receipt
             n == Target(s)
             row == NewRow(s)
  <1>2. revision' = [revision EXCEPT ![r] = [revision[r] EXCEPT ![n] = row]]
    BY DEF CommitRevision
  <1>3. mutations' = mutations \cup {Answer(s)} /\ Stop(s)
    BY DEF CommitRevision, Answer
  <1>4. r \in Receipts /\ n \in 1..MaxVersion /\ row \in RevisionRow
    BY <1>1
  <1>5. /\ overwritten \subseteq overwritten' /\ overwritten' \subseteq Receipts
        /\ overwritten' \subseteq overwritten \cup {Req(s).receipt}
    BY <1>4 DEF CommitRevision, RevisionsInv, TypeOK
  <1> HIDE DEF r, n, row
  <1>6. /\ revision' \in [Receipts -> [1..MaxVersion -> RevisionRow]]
        /\ revision'[r][n] = row
        /\ \A q \in Receipts, k \in 1..MaxVersion :
             q # r \/ k # n => revision'[q][k] = revision[q][k]
    BY <1>2, <1>4 DEF RevisionsInv, TypeOK
  <1>7. /\ tx' \in [Sessions -> Transaction] /\ tx'[s] = NoTransaction
        /\ \A t \in Sessions \ {s} : tx'[t] = tx[t]
    BY <1>3, NoTransactionType, Moves DEF RevisionsInv, Stop
  <1> QED BY <1>1, <1>3, <1>5, <1>6, <1>7 DEF RevisionsInv, TypeOK, r, n, row

\* The others stay apart when one commits; what they hold is untouched, and what
\* they found and do not hold is saved by the request that commits.
LEMMA OthersAfterCommit ==
    ASSUME RevisionsInv, NEW s \in Sessions, Phase(s) \in Valued, CommitRevision(s)
    PROVE  /\ \A t, u \in Sessions : t # u => Apart(t, u)'
           /\ Sound(s)'
           /\ \A t \in Sessions \ {s} :
                /\ tx'[t] = tx[t]
                /\ Phase(t)' = Phase(t) /\ Req(t)' = Req(t) /\ Target(t)' = Target(t)
                /\ Phase(t) # "idle" => ~Answered(Req(t))'
                /\ Phase(t) # "idle" =>
                     \/ OldRow(t)' = OldRow(t)
                     \/ SameRow(s, t) /\ Phase(t) \notin HoldsRow /\ OldRow(t)'.by = Req(s)
                /\ Held(t)'
           /\ RowsAnswered'
  <1>1. /\ tx'[s] = NoTransaction
        /\ \A t \in Sessions \ {s} : tx'[t] = tx[t]
        /\ mutations' = mutations \cup {Answer(s)}
    BY AfterCommit
  <1>2. \A t \in Sessions \ {s} : Apart(s, t) /\ Sound(t)
    BY OpenTransaction DEF Valued
  <1>3. Sound(s)' /\ \A t \in Sessions \ {s} : Apart(s, t)'
    BY <1>1, IdleSound
  <1>4. ASSUME NEW t \in Sessions, NEW u \in Sessions, t # u PROVE Apart(t, u)'
    <2>1. CASE t = s
      BY <1>3, <1>4, <2>1
    <2>2. CASE u = s
      BY <1>3, <1>4, <2>2, ApartSymmetric
    <2>3. CASE t # s /\ u # s
      BY <1>1, <1>4, <2>3, ApartAlone DEF RevisionsInv, Transactions
    <2> QED BY <2>1, <2>2, <2>3
  <1>5. \A q : Answered(q) => Answered(q)'
    BY <1>1 DEF Answered
  <1>6. \E m \in mutations' : SameKey(m.req, Req(s))
    <2>1. Answer(s) \in mutations' /\ Answer(s).req = Req(s)
      BY <1>1 DEF Answer
    <2>2. SameKey(Answer(s).req, Req(s))
      BY <2>1 DEF SameKey
    <2> QED BY <2>1, <2>2
  <1>7. ASSUME NEW t \in Sessions \ {s}
        PROVE  /\ Phase(t)' = Phase(t) /\ Req(t)' = Req(t) /\ Target(t)' = Target(t)
               /\ Phase(t) # "idle" => ~Answered(Req(t))'
               /\ Phase(t) # "idle" =>
                    \/ OldRow(t)' = OldRow(t)
                    \/ SameRow(s, t) /\ Phase(t) \notin HoldsRow /\ OldRow(t)'.by = Req(s)
               /\ Held(t)'
    <2>1. Phase(t)' = Phase(t) /\ Req(t)' = Req(t) /\ Target(t)' = Target(t)
          /\ tx'[t] = tx[t]
      BY <1>1 DEF Phase, Req, Target
    <2>2. ASSUME Phase(t) # "idle" PROVE ~Answered(Req(t))'
      <3>1. ~Answered(Req(t)) /\ ~SameKey(Req(s), Req(t))
        BY <1>2, <2>2 DEF Sound, Requested, Apart, Valued
      <3> QED BY <1>1, <2>1, <3>1 DEF Answered, Answer
    <2>3. ASSUME Phase(t) # "idle"
          PROVE  \/ OldRow(t)' = OldRow(t)
                 \/ SameRow(s, t) /\ Phase(t) \notin HoldsRow /\ OldRow(t)'.by = Req(s)
      <3>1. Req(t).receipt \in Receipts /\ Target(t) \in 1..MaxVersion
        BY <2>3, OpenTransaction
      <3>2. CASE SameRow(s, t)
        <4>1. Phase(t) \notin HoldsRow
          BY <3>2, BeforeCommit
        <4>2. OldRow(t)' = NewRow(s)
          BY <2>1, <3>2, AfterCommit DEF OldRow, SameRow
        <4> QED BY <3>2, <4>1, <4>2, BeforeCommit
      <3>3. CASE ~SameRow(s, t)
        BY <2>1, <3>1, <3>3, AfterCommit DEF OldRow, SameRow
      <3> QED BY <3>2, <3>3
    <2>4. Held(t)'
      <3>1. Held(t)
        BY <1>2 DEF Sound
      <3>2. CASE Phase(t) = "idle"
        BY <2>1, <3>1, <3>2, NoRowType DEF Held, HoldsRow
      <3>3. CASE Phase(t) # "idle" /\ OldRow(t)' = OldRow(t)
        BY <1>5, <2>1, <3>1, <3>3 DEF Held
      <3>4. CASE Phase(t) # "idle" /\ Phase(t) \notin HoldsRow /\ OldRow(t)'.by = Req(s)
        <4>1. tx[t].found.by # Req(s)
          BY <3>1, BeforeCommit DEF Held
        <4> QED BY <1>5, <2>1, <3>1, <3>4, <4>1 DEF Held
      <3> QED BY <2>3, <3>2, <3>3, <3>4
    <2> QED BY <2>1, <2>2, <2>3, <2>4
  <1>8. RowsAnswered'
    <2> SUFFICES ASSUME NEW r \in Receipts, NEW n \in 1..MaxVersion
                 PROVE  (revision[r][n].by # NoRequest => Answered(revision[r][n].by))'
      BY DEF RowsAnswered
    <2>1. CASE r = Req(s).receipt /\ n = Target(s)
      BY <1>6, <2>1, AfterCommit, BeforeCommit DEF Answered
    <2>2. CASE r # Req(s).receipt \/ n # Target(s)
      <3>1. revision'[r][n] = revision[r][n]
        BY <2>2, AfterCommit
      <3>2. revision[r][n].by # NoRequest => Answered(revision[r][n].by)
        BY DEF RevisionsInv, Stands, RowsAnswered
      <3> QED BY <1>5, <3>1, <3>2 DEF Answered
    <2> QED BY <2>1, <2>2
  <1> QED BY <1>1, <1>3, <1>4, <1>7, <1>8

\* A commit that writes nothing over, on a receipt where nothing was written over
\* before, writes the next revision of the receipt; a confirmation writes it as
\* the request says.
LEMMA OnTime ==
    ASSUME RevisionsInv, NEW s \in Sessions, Phase(s) \in Valued, CommitRevision(s),
           Req(s).receipt \notin overwritten'
    PROVE  /\ Req(s).receipt \notin overwritten
           /\ OldRow(s).status \in {"none", "draft"}
           /\ Target(s) = receipt[Req(s).receipt].version + 1
           /\ NewRow(s).status = IF Confirming(Req(s)) THEN "confirmed" ELSE "draft"
           /\ Confirming(Req(s)) =>
                NewRow(s) = Row("confirmed", Req(s), ReconciledSum(Req(s)),
                                Rows(Req(s), Req(s).body.lines))
  <1> DEFINE r == Req(s).receipt
  <1>1. r \notin overwritten /\ ~WritesOver(s)
    BY AfterCommit DEF CommitRevision
  <1>2. /\ Phase(s) # "idle" /\ Phase(s) \in HoldsRow /\ Phase(s) # "reuse"
        /\ Requested(s) /\ Held(s) /\ r \in Receipts /\ Target(s) \in 1..MaxVersion
        /\ Req(s).expected \in Nat /\ Target(s) = Req(s).expected + 1
        /\ OldRow(s) \in RevisionRow /\ receipt[r].version \in Nat
    BY BeforeCommit, OpenTransaction DEF Valued
  <1>3. \/ tx[s].found = NoRow /\ OldRow(s) = NoRow
        \/ tx[s].found # NoRow /\ tx[s].found.status = "draft" /\ OldRow(s).status = "draft"
    BY <1>1, <1>2, NoRowType DEF Held, WritesOver
  <1>4. OldRow(s).status \in {"none", "draft"}
    BY <1>3, NoRowType
  <1>5. Target(s) = receipt[r].version + 1
    <2>1. Req(s).expected <= receipt[r].version
      BY <1>1, <1>2 DEF Requested
    <2>2. ~(Target(s) <= receipt[r].version)
      BY <1>1, <1>2, <1>4 DEF RevisionsInv, Stands, History, NumberedWithoutGap, OldRow
    <2> QED BY <1>2, <2>1, <2>2
  <1>6. NewRow(s).status = IF Confirming(Req(s)) THEN "confirmed" ELSE "draft"
    BY <1>3 DEF NewRow, Row
  <1>7. ASSUME Confirming(Req(s))
        PROVE  NewRow(s) = Row("confirmed", Req(s), ReconciledSum(Req(s)),
                               Rows(Req(s), Req(s).body.lines))
    <2>1. OldRow(s).lines \subseteq tx[s].cleared
      <3>1. CASE OldRow(s) = NoRow
        BY <3>1, NoRowType
      <3>2. CASE tx[s].found.status = "draft"
        BY <1>1, <1>2, <1>7, <3>2 DEF Held, WritesOver
      <3> QED BY <1>3, <3>1, <3>2
    <2>2. (OldRow(s).lines \ tx[s].cleared) \cup Rows(Req(s), Req(s).body.lines)
            = Rows(Req(s), Req(s).body.lines)
      BY <2>1
    <2>3. tx[s].found # NoRow => OldRow(s).sum = tx[s].found.sum
      BY <1>1, <1>2, <1>3, <1>7 DEF Held, WritesOver
    <2> QED BY <1>7, <2>2, <2>3 DEF NewRow
  <1> QED BY <1>1, <1>4, <1>5, <1>6, <1>7

\* A receipt keeps its history and prices when only a draft of its next revision
\* is stored, or nothing of it.
LEMMA HistoryKept ==
    ASSUME RevisionsInv, NEW x \in Receipts, x \notin overwritten,
           receipt'[x] = receipt[x], current'[x] = current[x],
           \A k \in 1..MaxVersion :
              \/ revision'[x][k] = revision[x][k]
              \/ k = receipt[x].version + 1 /\ revision'[x][k].status \in {"none", "draft"},
           \A m \in mutations' : Confirming(m.req) /\ m.req.receipt = x => m \in mutations
    PROVE  History(x)'
  <1>1. /\ receipt[x].version \in 0..MaxVersion /\ receipt[x].version \in Nat
        /\ MaxVersion \in Nat /\ History(x)
    BY RevisionsAssumption DEF RevisionsInv, TypeOK, ReceiptRow, Stands
  <1>2. \A k \in 1..receipt[x].version : k \in 1..MaxVersion /\ revision'[x][k] = revision[x][k]
    BY <1>1
  <1>3. \A m \in mutations' : Confirming(m.req) /\ m.req.receipt = x => AsAnswered(m)'
    <2> SUFFICES ASSUME NEW m \in mutations', Confirming(m.req), m.req.receipt = x
                 PROVE  revision'[m.req.receipt][m.revision]
                          = Row("confirmed", m.req, ReconciledSum(m.req),
                                Rows(m.req, m.req.body.lines))
      BY DEF AsAnswered
    <2>1. m \in mutations /\ m.revision \in 1..MaxVersion
      BY DEF RevisionsInv, TypeOK, Mutation
    <2>2. revision[x][m.revision]
            = Row("confirmed", m.req, ReconciledSum(m.req), Rows(m.req, m.req.body.lines))
      BY <1>1, <2>1 DEF History, AsAnswered
    <2>3. revision[x][m.revision].status = "confirmed"
      BY <2>2 DEF Row
    <2>4. m.revision <= receipt[x].version
      BY <1>1, <2>1, <2>3 DEF History, NumberedWithoutGap
    <2> QED BY <1>1, <1>2, <2>1, <2>2, <2>4
  <1>4. NumberedWithoutGap(x)'
    BY <1>1 DEF History, NumberedWithoutGap
  <1>5. MirrorsRevisions(x)'
    <2> SUFFICES ASSUME receipt[x].version > 0
                 PROVE  /\ receipt[x].dated = revision'[x][receipt[x].version].by
                        /\ \A k \in 1..receipt[x].version :
                             LET q == revision'[x][k].by IN
                             /\ q # NoRequest
                             /\ q.body.sum # "unverifiable"
                             /\ \A j \in (k + 1)..receipt[x].version :
                                    revision'[x][j].by.body.sum = "unverifiable"
                             => receipt[x].total = q
      BY DEF MirrorsRevisions
    <2>1. receipt[x].version \in 1..receipt[x].version
      BY <1>1
    <2>2. \A k \in 1..receipt[x].version : \A j \in (k + 1)..receipt[x].version :
            revision'[x][j] = revision[x][j]
      BY <1>1, <1>2
    <2> QED BY <1>1, <1>2, <2>1, <2>2 DEF History, MirrorsRevisions
  <1>6. PricesOf(x)'
    <2>1. receipt[x].version > 0 =>
            revision'[x][receipt[x].version] = revision[x][receipt[x].version]
      BY <1>1, <1>2
    <2> QED BY <1>1, <2>1 DEF History, PricesOf
  <1> QED BY <1>3, <1>4, <1>5, <1>6 DEF History

\* What every commit leaves of the answers.
LEMMA AnsweredOnceKept ==
    ASSUME RevisionsInv, NEW s \in Sessions, Phase(s) \in Valued, CommitRevision(s)
    PROVE  AnsweredOnce'
  <1>1. mutations' = mutations \cup {Answer(s)} /\ ~Answered(Req(s))
    BY AfterCommit, BeforeCommit
  <1>2. \A m \in mutations : ~SameKey(m.req, Answer(s).req) /\ ~SameKey(Answer(s).req, m.req)
    BY <1>1 DEF Answered, Answer, SameKey
  <1>3. AnsweredOnce
    BY DEF RevisionsInv, Stands, AnswersStand
  <1> HIDE DEF Answer
  <1> QED BY <1>1, <1>2, <1>3 DEF AnsweredOnce

\* A draft is stored: the history and the prices in force stay as they are.
LEMMA CommitDraftKeeps ==
    ASSUME RevisionsInv, NEW s \in Sessions, CommitDraft(s)
    PROVE  RevisionsInv'
  <1> DEFINE r == Req(s).receipt
             n == Target(s)
  <1>1. /\ Phase(s) = "read" /\ Phase(s) \in Valued /\ ~Confirming(Req(s)) /\ CommitRevision(s)
        /\ ledger' = IF tx[s].opened THEN 1 ELSE ledger
        /\ UNCHANGED <<receipt, current, overtaken>>
    BY DEF CommitDraft, Valued
  <1>2. /\ \A x \in Receipts, k \in 1..MaxVersion :
             x # r \/ k # n => revision'[x][k] = revision[x][k]
        /\ revision'[r][n] = NewRow(s)
        /\ mutations' = mutations \cup {Answer(s)}
        /\ overwritten \subseteq overwritten'
    BY <1>1, AfterCommit
  <1>3. ~Confirming(Answer(s).req)
    BY <1>1 DEF Answer
  <1>4. ledger' \in Nat /\ Shown' = Shown /\ (ledger' = 0 => ledger = 0)
        /\ (ledger' # ledger => tx[s].opened)
    BY <1>1, OpenTransaction DEF RevisionsInv, TypeOK, Counts, Shown
  <1>5. TypeOK'
    BY <1>1, <1>4, AfterCommit DEF RevisionsInv, TypeOK
  <1>6. Stands'
    <2>1. ASSUME NEW x \in Receipts, x \notin overwritten' PROVE History(x)'
      <3>1. x = r => n = receipt[x].version + 1 /\ NewRow(s).status = "draft"
        BY <1>1, <2>1, OnTime
      <3>2. \A k \in 1..MaxVersion :
              \/ revision'[x][k] = revision[x][k]
              \/ k = receipt[x].version + 1 /\ revision'[x][k].status \in {"none", "draft"}
        BY <1>2, <3>1
      <3>3. \A m \in mutations' : Confirming(m.req) /\ m.req.receipt = x => m \in mutations
        BY <1>2, <1>3
      <3> QED BY <1>1, <1>2, <2>1, <3>2, <3>3, HistoryKept
    <2>2. AnsweredOnce'
      BY <1>1, AnsweredOnceKept
    <2>3. (~overtaken => DistinctVersions)' /\ AnsweredBehind'
      BY <1>1, <1>2, <1>3, <1>4
         DEF RevisionsInv, Stands, AnswersStand, DistinctVersions, AnsweredBehind
    <2> QED BY <1>1, <2>1, <2>2, <2>3, OthersAfterCommit DEF Stands, AnswersStand
  <1>7. ASSUME NEW t \in Sessions \ {s} PROVE Sound(t)'
    <2>1. /\ Requested(t) /\ Withdraws(t) /\ Counts(t) /\ Apart(s, t)
      BY <1>1, OpenTransaction DEF Sound, Valued
    <2>2. /\ Phase(t)' = Phase(t) /\ Req(t)' = Req(t) /\ Held(t)' /\ tx'[t] = tx[t]
          /\ Phase(t) # "idle" => ~Answered(Req(t))'
          /\ Phase(t) # "idle" =>
               \/ OldRow(t)' = OldRow(t)
               \/ Phase(t) \notin HoldsRow
      BY <1>1, OthersAfterCommit
    <2>3. Requested(t)'
      BY <1>1, <1>2, <2>1, <2>2 DEF Requested
    <2>4. Withdraws(t)'
      BY <1>1, <1>2, <2>1, <2>2 DEF Withdraws, Withdrawn, HoldsRow
    <2>5. Counts(t)'
      <3>1. ledger' # ledger => ~tx[t].opened /\ ledger = 0
        BY <1>1, <1>4, <2>1, OpenTransaction DEF Apart, Counts
      <3> QED BY <1>4, <2>1, <2>2, <3>1 DEF Counts
    <2> QED BY <2>2, <2>3, <2>4, <2>5 DEF Sound
  <1> QED BY <1>1, <1>5, <1>6, <1>7, OthersAfterCommit DEF RevisionsInv, Transactions

\* What a confirmation commits, beside its revision: the receipt mirrors it, what
\* it withdrew is out of force, and readers see the value it counted to.
LEMMA Confirmed ==
    ASSUME RevisionsInv, NEW s \in Sessions, CommitConfirmation(s)
    PROVE  /\ Phase(s) = "bumped" /\ Phase(s) \in Valued /\ Confirming(Req(s))
           /\ CommitRevision(s)
           /\ Req(s).receipt \in Receipts
           /\ receipt' \in [Receipts -> ReceiptRow]
           /\ receipt'[Req(s).receipt] = Mirrored(s)
           /\ \A x \in Receipts \ {Req(s).receipt} : receipt'[x] = receipt[x]
           /\ current' \in [Receipts -> SUBSET LineRows]
           /\ current'[Req(s).receipt]
                = (current[Req(s).receipt] \ tx[s].withdrawn) \cup Published(s)
           /\ \A x \in Receipts \ {Req(s).receipt} : current'[x] = current[x]
           /\ ledger' = tx[s].pricesAt /\ ledger' \in Nat \ {0}
           /\ Shown \in Nat /\ Shown' = ledger'
           /\ overtaken' \in BOOLEAN
           /\ ~overtaken' => ~overtaken /\ ledger' = Shown + 1
           /\ ledger = 0 => tx[s].opened
  <1>1. Phase(s) = "bumped" /\ Phase(s) \in Valued /\ CommitRevision(s)
    BY DEF CommitConfirmation, Valued
  <1>2. /\ Withdraws(s) /\ Counts(s) /\ Req(s) \in Requests
        /\ Req(s).receipt \in Receipts /\ Target(s) \in 1..MaxVersion
    BY <1>1, OpenTransaction
  <1>3. Confirming(Req(s))
    BY <1>1, <1>2 DEF Withdraws, Withdrawn
  <1>4. Mirrored(s) \in ReceiptRow
    BY <1>2 DEF Mirrored, ReceiptRow, RevisionsInv, TypeOK
  <1>5. Published(s) \in SUBSET LineRows
    BY <1>2, RequestTypes, RowsType DEF Published
  <1> DEFINE r == Req(s).receipt
             row == Mirrored(s)
             out == Published(s)
             gone == tx[s].withdrawn
  <1>6. receipt' = [receipt EXCEPT ![r] = row] /\ ledger' = tx[s].pricesAt
        /\ current' = [current EXCEPT ![r] = (current[r] \ gone) \cup out]
        /\ overtaken' = (overtaken \/ ledger' # Shown + 1)
    BY DEF CommitConfirmation
  <1>7. r \in Receipts /\ row \in ReceiptRow /\ out \in SUBSET LineRows
    BY <1>2, <1>4, <1>5
  <1>8. ledger \in Nat /\ tx[s].pricesAt \in Nat \ {0} /\ Shown \in Nat
        /\ (ledger = 0 => tx[s].opened)
    BY <1>1, <1>2, TransactionTypes DEF Counts, RevisionsInv, TypeOK, Shown
  <1> HIDE DEF r, row, out, gone
  <1>9. /\ receipt' \in [Receipts -> ReceiptRow] /\ receipt'[r] = row
        /\ \A x \in Receipts \ {r} : receipt'[x] = receipt[x]
    BY <1>6, <1>7 DEF RevisionsInv, TypeOK
  <1>10. /\ current' \in [Receipts -> SUBSET LineRows]
         /\ current'[r] = (current[r] \ gone) \cup out
         /\ \A x \in Receipts \ {r} : current'[x] = current[x]
    BY <1>6, <1>7 DEF RevisionsInv, TypeOK
  <1>11. ledger' \in Nat \ {0} /\ Shown' = ledger'
    BY <1>6, <1>8 DEF Shown
  <1>12. overtaken' \in BOOLEAN /\ (~overtaken' => ~overtaken /\ ledger' = Shown + 1)
    BY <1>6 DEF RevisionsInv, TypeOK
  <1> QED BY <1>1, <1>3, <1>6, <1>7, <1>8, <1>9, <1>10, <1>11, <1>12 DEF r, row, out, gone

\* The receipt of a confirmation that writes nothing over has one more revision,
\* mirrors it, and has its prices and no others.
LEMMA HistoryGrows ==
    ASSUME RevisionsInv, NEW s \in Sessions, CommitConfirmation(s),
           Req(s).receipt \notin overwritten'
    PROVE  \A x \in Receipts : x = Req(s).receipt => History(x)'
  <1> DEFINE r == Req(s).receipt
             n == Target(s)
  <1>1. /\ Phase(s) = "bumped" /\ Phase(s) \in Valued /\ Confirming(Req(s)) /\ CommitRevision(s)
        /\ r \in Receipts /\ receipt'[r] = Mirrored(s)
        /\ current'[r] = (current[r] \ tx[s].withdrawn) \cup Published(s)
    BY Confirmed
  <1>2. /\ r \notin overwritten /\ OldRow(s).status \in {"none", "draft"}
        /\ n = receipt[r].version + 1
        /\ NewRow(s) = Row("confirmed", Req(s), ReconciledSum(Req(s)),
                           Rows(Req(s), Req(s).body.lines))
    BY <1>1, OnTime
  <1>3. /\ n \in 1..MaxVersion /\ n \in Nat /\ NewRow(s).by = Req(s) /\ Req(s) # NoRequest
        /\ receipt[r].version \in Nat /\ NewRow(s).status = "confirmed"
        /\ n > receipt[r].version /\ MaxVersion \in Nat
    BY <1>1, <1>2, BeforeCommit, RevisionsAssumption
       DEF Row, RevisionsInv, TypeOK, ReceiptRow
  <1>4. /\ revision'[r][n] = NewRow(s)
        /\ \A k \in 1..MaxVersion : k # n => revision'[r][k] = revision[r][k]
        /\ mutations' = mutations \cup {Answer(s)} /\ mutations' \subseteq Mutation
    BY <1>1, AfterCommit
  <1>5. /\ receipt'[r].version = n /\ receipt'[r].dated = Req(s)
        /\ receipt'[r].total = IF Req(s).body.sum = "unverifiable"
                               THEN receipt[r].total ELSE Req(s)
    BY <1>1 DEF Mirrored
  <1>6. History(r)
    BY <1>1, <1>2 DEF RevisionsInv, Stands
  <1>7. \A k \in 1..receipt[r].version :
            k \in 1..MaxVersion /\ k # n /\ revision'[r][k] = revision[r][k]
    BY <1>3, <1>4
  <1>8. tx[s].withdrawn = current[r]
    <2>1. Withdraws(s) /\ OldRow(s).status # "confirmed"
      BY <1>1, <1>2, OpenTransaction DEF Valued
    <2> QED BY <1>1, <1>2, <2>1 DEF Withdraws, Withdrawn
  <1> SUFFICES ASSUME NEW x \in Receipts, x = r PROVE History(x)'
    OBVIOUS
  <1>9. \A m \in mutations' : Confirming(m.req) /\ m.req.receipt = x => AsAnswered(m)'
    <2> SUFFICES ASSUME NEW m \in mutations', Confirming(m.req), m.req.receipt = x
                 PROVE  revision'[m.req.receipt][m.revision]
                          = Row("confirmed", m.req, ReconciledSum(m.req),
                                Rows(m.req, m.req.body.lines))
      BY DEF AsAnswered
    <2>1. CASE m = Answer(s)
      <3>1. m.req = Req(s) /\ m.revision = n
        BY <2>1 DEF Answer
      <3> HIDE DEF r, n
      <3> QED BY <1>2, <1>4, <3>1
    <2>2. CASE m # Answer(s)
      <3>1. m \in mutations /\ m.revision \in 1..MaxVersion
        BY <1>4, <2>2 DEF Mutation
      <3>2. revision[x][m.revision]
              = Row("confirmed", m.req, ReconciledSum(m.req), Rows(m.req, m.req.body.lines))
        BY <1>6, <3>1 DEF History, AsAnswered
      <3>3. m.revision # n
        BY <1>2, <3>2 DEF OldRow, Row
      <3> QED BY <1>4, <3>1, <3>2, <3>3
    <2> QED BY <2>1, <2>2
  <1>10. NumberedWithoutGap(x)'
    <2> SUFFICES ASSUME NEW k \in 1..MaxVersion
                 PROVE  revision'[x][k].status \in
                          IF k <= receipt'[x].version THEN {"confirmed"}
                          ELSE IF k = receipt'[x].version + 1 THEN {"none", "draft"}
                          ELSE {"none"}
      BY DEF NumberedWithoutGap
    <2>1. revision[x][k].status \in
            IF k <= receipt[x].version THEN {"confirmed"}
            ELSE IF k = receipt[x].version + 1 THEN {"none", "draft"}
            ELSE {"none"}
      BY <1>6 DEF History, NumberedWithoutGap
    <2>2. CASE k = n
      BY <1>3, <1>4, <1>5, <2>2
    <2>3. CASE k # n
      BY <1>2, <1>3, <1>4, <1>5, <2>1, <2>3
    <2> QED BY <2>2, <2>3
  <1>11. MirrorsRevisions(x)'
    <2>1. receipt'[x].dated = revision'[x][receipt'[x].version].by
      BY <1>3, <1>4, <1>5
    <2>2. ASSUME NEW k \in 1..n, revision'[x][k].by # NoRequest,
                 revision'[x][k].by.body.sum # "unverifiable",
                 \A j \in (k + 1)..n : revision'[x][j].by.body.sum = "unverifiable"
          PROVE  receipt'[x].total = revision'[x][k].by
      <3>1. CASE k = n
        BY <1>3, <1>4, <1>5, <2>2, <3>1
      <3>2. CASE k # n
        <4>1. /\ k \in 1..receipt[x].version /\ receipt[x].version > 0
              /\ n \in (k + 1)..n
              /\ \A j \in (k + 1)..receipt[x].version :
                    j \in (k + 1)..n /\ j \in 1..receipt[x].version
          BY <1>2, <1>3, <3>2
        <4>2. Req(s).body.sum = "unverifiable"
          BY <1>3, <1>4, <2>2, <4>1
        <4>3. receipt[x].total = revision[x][k].by
          BY <1>6, <1>7, <2>2, <4>1 DEF History, MirrorsRevisions
        <4>4. revision'[x][k] = revision[x][k]
          BY <1>7, <4>1
        <4> QED BY <1>5, <4>2, <4>3, <4>4
      <3> QED BY <3>1, <3>2
    <2>3. receipt'[x].version = n
      BY <1>5
    <2> QED BY <2>1, <2>2, <2>3 DEF MirrorsRevisions
  <1>12. PricesOf(x)'
    <2>1. current'[x] = Published(s)
      BY <1>1, <1>8
    <2>2. revision'[x][receipt'[x].version].by = Req(s)
      BY <1>3, <1>4, <1>5
    <2> QED BY <2>1, <2>2 DEF PricesOf, Published
  <1> QED BY <1>9, <1>10, <1>11, <1>12 DEF History

\* A confirmation is stored: the history grows by it and keeps the rest.
LEMMA CommitConfirmationKeeps ==
    ASSUME RevisionsInv, NEW s \in Sessions, CommitConfirmation(s)
    PROVE  RevisionsInv'
  <1> DEFINE r == Req(s).receipt
             n == Target(s)
  <1>1. /\ Phase(s) = "bumped" /\ Phase(s) \in Valued /\ Confirming(Req(s)) /\ CommitRevision(s)
        /\ r \in Receipts
        /\ receipt' \in [Receipts -> ReceiptRow] /\ receipt'[r] = Mirrored(s)
        /\ \A x \in Receipts \ {r} : receipt'[x] = receipt[x]
        /\ current' \in [Receipts -> SUBSET LineRows]
        /\ \A x \in Receipts \ {r} : current'[x] = current[x]
        /\ ledger' = tx[s].pricesAt /\ ledger' \in Nat \ {0}
        /\ Shown \in Nat /\ Shown' = ledger' /\ overtaken' \in BOOLEAN
        /\ ~overtaken' => ~overtaken /\ ledger' = Shown + 1
        /\ ledger = 0 => tx[s].opened
    BY Confirmed
  <1>2. /\ \A x \in Receipts, k \in 1..MaxVersion :
             x # r => revision'[x][k] = revision[x][k]
        /\ mutations' = mutations \cup {Answer(s)} /\ mutations' \subseteq Mutation
        /\ overwritten \subseteq overwritten'
    BY <1>1, AfterCommit
  <1>3. TypeOK'
    BY <1>1, AfterCommit DEF RevisionsInv, TypeOK
  <1>4. ASSUME NEW x \in Receipts, x \notin overwritten' PROVE History(x)'
    <2>1. CASE x = r
      BY <1>4, <2>1, HistoryGrows
    <2>2. CASE x # r
      <3>1. \A m \in mutations' : Confirming(m.req) /\ m.req.receipt = x => m \in mutations
        BY <1>2, <2>2 DEF Answer
      <3> QED BY <1>1, <1>2, <1>4, <2>2, <3>1, HistoryKept
    <2> QED BY <2>1, <2>2
  <1>5. (~overtaken => DistinctVersions)' /\ AnsweredBehind'
    <2> SUFFICES ASSUME ~overtaken'
                 PROVE  DistinctVersions' /\ (\A m \in mutations' :
                          Confirming(m.req) => m.pricesAt <= Shown')
      BY DEF AnsweredBehind
    <2>1. Answer(s).pricesAt = Shown + 1 /\ Shown' = Shown + 1
      BY <1>1 DEF Answer
    <2>2. \A m \in mutations : m.pricesAt \in Nat /\ (Confirming(m.req) => m.pricesAt <= Shown)
      BY <1>1 DEF RevisionsInv, TypeOK, Mutation, Stands, AnsweredBehind
    <2>3. DistinctVersions
      BY <1>1 DEF RevisionsInv, Stands, AnswersStand
    <2> QED BY <1>1, <1>2, <2>1, <2>2, <2>3 DEF DistinctVersions
  <1>6. AnsweredOnce'
    BY <1>1, AnsweredOnceKept
  <1>7. Stands'
    BY <1>1, <1>4, <1>5, <1>6, OthersAfterCommit DEF Stands, AnswersStand
  <1>8. ASSUME NEW t \in Sessions \ {s} PROVE Sound(t)'
    <2>1. /\ Requested(t) /\ Withdraws(t) /\ Counts(t) /\ Apart(s, t)
      BY <1>1, OpenTransaction DEF Sound, Valued
    <2>2. /\ Phase(t)' = Phase(t) /\ Req(t)' = Req(t) /\ Held(t)' /\ tx'[t] = tx[t]
          /\ Phase(t) # "idle" => ~Answered(Req(t))'
          /\ Phase(t) # "idle" =>
               \/ OldRow(t)' = OldRow(t)
               \/ Phase(t) \notin HoldsRow
      BY <1>1, OthersAfterCommit
    <2>3. r \notin overwritten' =>
            /\ r \notin overwritten /\ receipt'[r].version = receipt[r].version + 1
            /\ Target(s) = receipt[r].version + 1 /\ receipt[r].version \in Nat
      BY <1>1, OnTime, OpenTransaction DEF Mirrored, Valued
    <2>4. Requested(t)'
      <3> SUFFICES ASSUME Phase(t) # "idle", Req(t).receipt \notin overwritten'
                   PROVE  Req(t).expected <= receipt'[Req(t).receipt].version
        BY <2>1, <2>2 DEF Requested
      <3>1. /\ Req(t).receipt \in Receipts /\ Req(t).expected \in Nat
            /\ Req(t).receipt \notin overwritten
        BY <1>2, OpenTransaction
      <3>2. Req(t).expected <= receipt[Req(t).receipt].version
        BY <2>1, <3>1 DEF Requested
      <3> QED BY <1>1, <2>3, <3>1, <3>2
    <2>5. Withdraws(t)'
      <3> SUFFICES ASSUME Phase(t) \in Withdrawn
                   PROVE  /\ Confirming(Req(t))
                          /\ Req(t).receipt \notin overwritten' /\ OldRow(t)'.status # "confirmed"
                               => tx[t].withdrawn = current'[Req(t).receipt]
        BY <2>2 DEF Withdraws
      <3>1. Phase(t) # "idle" /\ Phase(t) \in HoldsRow
        BY DEF Withdrawn, HoldsRow
      <3>2. /\ Req(t).receipt \in Receipts /\ Target(t) \in 1..MaxVersion
            /\ OldRow(t)' = OldRow(t) /\ ~SameRow(s, t)
        BY <1>1, <2>2, <3>1, OpenTransaction, BeforeCommit
      <3>3. CASE Req(t).receipt # r
        BY <1>1, <1>2, <2>1, <3>2, <3>3 DEF Withdraws
      <3>4. CASE Req(t).receipt = r
        <4> SUFFICES ASSUME r \notin overwritten', OldRow(t).status # "confirmed"
                     PROVE  FALSE
          BY <2>1, <3>2, <3>4 DEF Withdraws
        <4>1. Target(t) <= receipt[r].version + 1
          BY <2>1, <2>3, <3>1, <3>4, OpenTransaction DEF Requested
        <4>2. ~(Target(t) <= receipt[r].version)
          BY <1>1, <2>3, <3>2, <3>4
             DEF RevisionsInv, Stands, History, NumberedWithoutGap, OldRow
        <4>3. Target(t) = Target(s)
          BY <2>3, <3>2, <4>1, <4>2, RevisionsAssumption
        <4> QED BY <3>2, <3>4, <4>3 DEF SameRow
      <3> QED BY <3>3, <3>4
    <2>6. Counts(t)'
      <3>1. ~tx[t].opened
        BY <1>1, <2>1, OpenTransaction DEF Apart, Counts, Valued
      <3> QED BY <1>1, <2>1, <2>2, <3>1 DEF Counts
    <2> QED BY <2>2, <2>4, <2>5, <2>6 DEF Sound
  <1> QED BY <1>1, <1>3, <1>7, <1>8, OthersAfterCommit DEF RevisionsInv, Transactions

-----------------------------------------------------------------------------
(* The theorems                                                            *)

LEMMA InitInv ==
    ASSUME Init
    PROVE  RevisionsInv
  <1> DEFINE old == Row("confirmed", NoRequest, "unverifiable", Rows(NoRequest, Lines))
  <1>1. PICK legacy \in SUBSET Receipts, backfilled \in SUBSET Receipts :
          /\ MaxVersion > 0 \/ backfilled = {}
          /\ receipt = [r \in Receipts |->
               [version |-> IF r \in backfilled THEN 1 ELSE 0,
                status |-> IF r \in legacy \cup backfilled THEN "CONFIRMED"
                           ELSE "READY_FOR_REVIEW",
                dated |-> NoRequest, total |-> NoRequest]]
          /\ revision = [r \in Receipts |-> [n \in 1..MaxVersion |->
               IF r \in backfilled /\ n = 1 THEN old ELSE NoRow]]
          /\ current = [r \in Receipts |->
               IF r \in legacy \cup backfilled THEN Rows(NoRequest, Lines) ELSE {}]
    BY DEF Init
  <1>2. ledger \in {0, 1} /\ mutations = {} /\ tx = [s \in Sessions |-> NoTransaction]
        /\ overwritten = {} /\ overtaken = FALSE
    BY DEF Init
  <1>3. Rows(NoRequest, Lines) \in SUBSET LineRows
    BY RowsType
  <1>4. old \in RevisionRow /\ old.status = "confirmed" /\ old.by = NoRequest
    BY <1>3 DEF Row, RevisionRow, Reconciled
  <1> HIDE DEF old
  <1>5. TypeOK
    <2>1. receipt \in [Receipts -> ReceiptRow]
      BY <1>1, RevisionsAssumption DEF ReceiptRow
    <2>2. revision \in [Receipts -> [1..MaxVersion -> RevisionRow]]
      BY <1>1, <1>4, NoRowType
    <2>3. current \in [Receipts -> SUBSET LineRows]
      BY <1>1, <1>3
    <2>4. tx \in [Sessions -> Transaction]
      BY <1>2, NoTransactionType
    <2>5. ledger \in Nat /\ mutations \subseteq Mutation /\ overwritten \subseteq Receipts
      BY <1>2
    <2>6. overtaken \in BOOLEAN
      BY DEF Init
    <2> QED BY <2>1, <2>2, <2>3, <2>4, <2>5, <2>6, Zenon DEF TypeOK
  <1>6. Transactions
    <2>1. \A s \in Sessions : Phase(s) = "idle" /\ ~tx[s].opened /\ tx[s].found = NoRow
      BY <1>2, NoTransactionType DEF Phase
    <2> QED BY <2>1, NoRowType
            DEF Transactions, Sound, Apart, Requested, Held, Withdraws, Counts,
                HoldsRow, Withdrawn, Valued
  <1>7. \A x \in Receipts, k \in 1..MaxVersion :
          /\ revision[x][k].status = IF x \in backfilled /\ k = 1 THEN "confirmed" ELSE "none"
          /\ revision[x][k].by = NoRequest
    BY <1>1, <1>4, NoRowType
  <1>8. ASSUME NEW x \in Receipts PROVE History(x)
    <2>1. /\ receipt[x].version = IF x \in backfilled THEN 1 ELSE 0
          /\ receipt[x].version \in 0..MaxVersion /\ receipt[x].dated = NoRequest
      BY <1>1, RevisionsAssumption
    <2>2. NumberedWithoutGap(x)
      <3> SUFFICES ASSUME NEW k \in 1..MaxVersion
                   PROVE  revision[x][k].status \in
                            IF k <= receipt[x].version THEN {"confirmed"}
                            ELSE IF k = receipt[x].version + 1 THEN {"none", "draft"}
                            ELSE {"none"}
        BY DEF NumberedWithoutGap
      <3>1. k \in Nat \ {0}
        BY RevisionsAssumption
      <3> QED BY <1>7, <2>1, <3>1
    <2>3. \A k \in 1..receipt[x].version : revision[x][k].by = NoRequest
      BY <1>7, <2>1, RevisionsAssumption
    <2>4. receipt[x].version > 0 => receipt[x].version \in 1..receipt[x].version
      BY <2>1
    <2>5. MirrorsRevisions(x) /\ PricesOf(x)
      BY <2>1, <2>3, <2>4 DEF MirrorsRevisions, PricesOf
    <2> QED BY <1>2, <2>2, <2>5 DEF History
  <1>9. AnswersStand /\ AnsweredBehind /\ RowsAnswered
    BY <1>2, <1>7 DEF AnswersStand, AnsweredOnce, DistinctVersions, AnsweredBehind, RowsAnswered
  <1> QED BY <1>5, <1>6, <1>8, <1>9 DEF RevisionsInv, Stands

LEMMA StepInv ==
    ASSUME RevisionsInv, [Next]_vars
    PROVE  RevisionsInv'
  <1>1. CASE UNCHANGED vars
    <2>1. UNCHANGED Tables /\ tx' = tx
      BY <1>1 DEF vars, Tables
    <2>2. TypeOK'
      BY <2>1 DEF RevisionsInv, TypeOK, Tables
    <2>3. Transactions'
      BY <2>1, SoundAlone, ApartAlone DEF RevisionsInv, Transactions
    <2> QED BY <2>1, <2>2, <2>3, StandsAlone DEF RevisionsInv
  <1>2. ASSUME NEW s \in Sessions, NEW q \in Requests, Begin(s, q) PROVE RevisionsInv'
    BY <1>2, BeginKeeps
  <1>3. ASSUME NEW s \in Sessions, Step(s) PROVE RevisionsInv'
    <2>1. Conflict(s) \/ EndDeadlock(s) => Stop(s) /\ UNCHANGED Tables
      BY DEF Conflict, EndDeadlock
    <2> QED BY <1>3, <2>1, FindDraftKeeps, InsertRevisionKeeps, ClearLinesKeeps,
               OverwriteDraftKeeps, WriteLinesKeeps, ReadLedgerKeeps, OpenLedgerKeeps,
               WithdrawKeeps, PublishPricesKeeps, BumpLedgerKeeps, CommitDraftKeeps,
               CommitConfirmationKeeps, StopKeeps
            DEF Step
  <1>4. ASSUME NEW s \in Sessions, Crash(s) PROVE RevisionsInv'
    <2>1. Stop(s) /\ UNCHANGED Tables
      BY <1>4 DEF Crash
    <2> QED BY <2>1, StopKeeps
  <1> QED BY <1>1, <1>2, <1>3, <1>4 DEF Next

\* What the proofs rest on: between the statements of any number of open
\* transactions the invariant holds (receipt_revision_service.py).
THEOREM Inductive == Spec => []RevisionsInv
  <1>1. RevisionsInv /\ [Next]_vars => RevisionsInv'
    BY StepInv
  <1> QED BY <1>1, InitInv, PTL DEF Spec

\* Columns and transaction records keep their types (models/receipt_revision.py).
THEOREM RevisionsTypeCorrect == Spec => []TypeOK
  <1>1. RevisionsInv => TypeOK
    BY DEF RevisionsInv
  <1> QED BY <1>1, Inductive, PTL

\* Of a receipt whose confirmed revisions no late draft has written over, what
\* was acknowledged stays, numbers have no gap and the receipt mirrors its
\* revisions, whatever transactions interleave (_upsert_revision, _apply,
\* _apply_receipt_fields).
THEOREM HistoryStands == Spec => []RevisionsStand
  <1>1. RevisionsInv => RevisionsStand
    BY DEF RevisionsInv, Stands, History, RevisionsStand
  <1> QED BY <1>1, Inductive, PTL

\* The prices in force are those of the current revision, on the same condition
\* (_publish_prices).
THEOREM PricesAreCurrent == Spec => []CurrentIsLatest
  <1>1. RevisionsInv => CurrentIsLatest
    BY DEF RevisionsInv, Stands, History, PricesOf, CurrentIsLatest
  <1> QED BY <1>1, Inductive, PTL

\* One answer per mutation ID, always; no price_data_version for two confirmations
\* until one has written the ledger over another (_replay,
\* _bump_price_data_version).
THEOREM OneAnswerEach == Spec => []AnswersStand
  <1>1. RevisionsInv => AnswersStand
    BY DEF RevisionsInv, Stands
  <1> QED BY <1>1, Inductive, PTL

-----------------------------------------------------------------------------
(* The refinement                                                          *)

BookVersion == [r \in Receipts |-> receipt[r].version]
BookPrices == [r \in Receipts |-> InBook(current[r])]

\* The rows of one request are prices of one revision, v1's of none.
LEMMA InBookOfNone ==
    ASSUME NEW lines
    PROVE  InBook(Rows(NoRequest, lines)) = {0} \X lines /\ InBook({}) = {}
  <1> DEFINE Booked(row) == <<IF row[1] = NoRequest THEN 0 ELSE Number(row[1]), row[2]>>
  <1>1. InBook(Rows(NoRequest, lines)) = {0} \X lines
    <2>1. ASSUME NEW row \in {NoRequest} \X lines PROVE Booked(row) \in {0} \X lines
      OBVIOUS
    <2>2. ASSUME NEW b \in {0} \X lines
          PROVE  <<NoRequest, b[2]>> \in {NoRequest} \X lines
                 /\ Booked(<<NoRequest, b[2]>>) = b
      OBVIOUS
    <2> HIDE DEF Booked
    <2>3. {Booked(row) : row \in {NoRequest} \X lines} = {0} \X lines
      BY <2>1, <2>2
    <2> QED BY <2>3 DEF InBook, Rows, Booked
  <1>2. InBook({}) = {}
    BY DEF InBook
  <1> QED BY <1>1, <1>2

LEMMA InBookRows ==
    ASSUME NEW q \in Requests, NEW lines
    PROVE  InBook(Rows(q, lines)) = {Number(q)} \X lines
  <1>1. q # NoRequest
    BY RequestTypes
  <1> DEFINE Booked(row) == <<IF row[1] = NoRequest THEN 0 ELSE Number(row[1]), row[2]>>
  <1>2. InBook(Rows(q, lines)) = {Number(q)} \X lines
    <2>1. ASSUME NEW row \in {q} \X lines PROVE Booked(row) \in {Number(q)} \X lines
      BY <1>1
    <2>2. ASSUME NEW b \in {Number(q)} \X lines
          PROVE  <<q, b[2]>> \in {q} \X lines /\ Booked(<<q, b[2]>>) = b
      BY <1>1
    <2> HIDE DEF Booked
    <2>3. {Booked(row) : row \in {q} \X lines} = {Number(q)} \X lines
      BY <2>1, <2>2
    <2> QED BY <2>3 DEF InBook, Rows, Booked
  <1> QED BY <1>2

LEMMA BookStarts ==
    ASSUME Init
    PROVE  Book!BookInit
  <1>1. PICK legacy \in SUBSET Receipts, backfilled \in SUBSET Receipts :
          /\ receipt = [r \in Receipts |->
               [version |-> IF r \in backfilled THEN 1 ELSE 0,
                status |-> IF r \in legacy \cup backfilled THEN "CONFIRMED"
                           ELSE "READY_FOR_REVIEW",
                dated |-> NoRequest, total |-> NoRequest]]
          /\ current = [r \in Receipts |->
               IF r \in legacy \cup backfilled THEN Rows(NoRequest, Lines) ELSE {}]
    BY DEF Init
  <1>2. BookVersion \in [Receipts -> 0..1]
    BY <1>1 DEF BookVersion
  <1>3. InBook(Rows(NoRequest, Lines)) = {0} \X Lines /\ InBook({}) = {}
    BY InBookOfNone
  <1>4. BookPrices \in [Receipts -> SUBSET ({0} \X Lines)]
    BY <1>1, <1>3 DEF BookPrices
  <1>5. Shown = 1
    BY DEF Init, Shown
  <1> QED BY <1>2, <1>4, <1>5 DEF Book!BookInit, BookVersion, BookPrices

\* A step of a transaction that commits nothing is none of the book, nor is the
\* commit of a draft.
LEMMA BookStays ==
    ASSUME receipt' = receipt, current' = current, Shown' = Shown
    PROVE  UNCHANGED Book!bookVars
  BY DEF Book!bookVars

\* The commit of a confirmation that writes nothing over publishes a revision in
\* one step.
LEMMA BookPublishes ==
    ASSUME RevisionsInv, NEW s \in Sessions, CommitConfirmation(s), NothingLost'
    PROVE  Book!BookNext
  <1> DEFINE r == Req(s).receipt
             q == Req(s)
             priced == IF Req(s).body.store THEN Req(s).body.priced ELSE {}
  <1>1. /\ Phase(s) = "bumped" /\ Phase(s) \in Valued /\ CommitRevision(s) /\ r \in Receipts
        /\ receipt' \in [Receipts -> ReceiptRow] /\ receipt'[r] = Mirrored(s)
        /\ \A x \in Receipts \ {r} : receipt'[x] = receipt[x]
        /\ current'[r] = (current[r] \ tx[s].withdrawn) \cup Published(s)
        /\ \A x \in Receipts \ {r} : current'[x] = current[x]
        /\ Shown' = Shown + 1 /\ r \notin overwritten'
    BY Confirmed DEF NothingLost
  <1>2. /\ r \notin overwritten /\ OldRow(s).status # "confirmed"
        /\ Target(s) = receipt[r].version + 1
    BY <1>1, OnTime
  <1>3. /\ Target(s) \in 1..MaxVersion /\ q \in Requests /\ Target(s) = Number(q)
        /\ receipt[r].version \in Nat /\ Withdraws(s)
    BY <1>1, OpenTransaction DEF Valued, Target
  <1>4. current'[r] = Published(s)
    BY <1>1, <1>2, <1>3 DEF Withdraws, Withdrawn
  <1>5. priced \in SUBSET Lines
    BY <1>3, RequestTypes
  <1>6. BookVersion[r] = receipt[r].version /\ BookVersion[r] < MaxVersion
    BY <1>1, <1>2, <1>3, RevisionsAssumption DEF BookVersion
  <1>7. BookVersion' = [BookVersion EXCEPT ![r] = BookVersion[r] + 1]
    <2>1. receipt'[r].version = BookVersion[r] + 1
      BY <1>1, <1>2, <1>6 DEF Mirrored
    <2> QED BY <1>1, <2>1 DEF BookVersion
  <1>8. InBook(Published(s)) = {BookVersion[r] + 1} \X priced
    <2>1. InBook(Rows(q, q.body.priced)) = {Number(q)} \X q.body.priced /\ InBook({}) = {}
      BY <1>3, InBookRows, InBookOfNone
    <2> QED BY <1>2, <1>3, <1>6, <2>1 DEF Published
  <1>9. BookPrices' = [BookPrices EXCEPT ![r] = {BookVersion[r] + 1} \X priced]
    <2>1. \A x \in Receipts \ {r} : InBook(current'[x]) = InBook(current[x])
      BY <1>1
    <2>2. InBook(current'[r]) = {BookVersion[r] + 1} \X priced
      BY <1>4, <1>8
    <2>3. BookPrices' = [x \in Receipts |-> InBook(current'[x])]
      BY DEF BookPrices, InBook
    <2> QED BY <2>1, <2>2, <2>3 DEF BookPrices
  <1>10. Book!Publish(r, priced)
    BY <1>1, <1>6, <1>7, <1>9 DEF Book!Publish, BookVersion, BookPrices
  <1>11. PICK x \in Receipts, lines \in SUBSET Lines : x = r /\ lines = priced
    BY <1>1, <1>5, Zenon
  <1>12. Book!Publish(x, lines)
    BY <1>10, <1>11 DEF Book!Publish
  <1> QED BY <1>12 DEF Book!BookNext

\* The transactions implement the abstract price book as long as none of them
\* writes over a revision or over the ledger: until then, whatever they
\* interleave, their commits replace prices, number and price_data_version in one
\* step, and nothing else touches them (receipt_revision_service.py).
THEOREM ConfirmationsImplementBook == Spec => ImplementsBook
  <1>1. Init => Book!BookInit
    BY BookStarts
  <1>2. RevisionsInv /\ [Next]_vars
          => [NothingLost' => [Book!BookNext]_(Book!bookVars)]_vars
    <2> SUFFICES ASSUME RevisionsInv, [Next]_vars, NothingLost'
                 PROVE  Book!BookNext \/ UNCHANGED Book!bookVars
      OBVIOUS
    <2>1. CASE UNCHANGED vars
      BY <2>1, BookStays DEF vars, Shown
    <2>2. ASSUME NEW s \in Sessions, CommitConfirmation(s) PROVE Book!BookNext
      BY <2>2, BookPublishes
    <2>3. ASSUME NEW s \in Sessions, CommitDraft(s) PROVE UNCHANGED Book!bookVars
      <3>1. Phase(s) \in Valued /\ Phase(s) # "idle"
        BY <2>3 DEF CommitDraft, Valued
      <3>2. Shown' = Shown
        BY <2>3, <3>1, OpenTransaction DEF CommitDraft, Counts, Shown
      <3> QED BY <2>3, <3>2, BookStays DEF CommitDraft
    <2>4. ASSUME UNCHANGED Tables PROVE UNCHANGED Book!bookVars
      BY <2>4, BookStays DEF Tables, Shown
    <2>5. ASSUME NEW s \in Sessions, NEW q \in Requests, Begin(s, q) PROVE UNCHANGED Tables
      BY <2>5 DEF Begin
    <2>6. ASSUME NEW s \in Sessions, Step(s)
          PROVE  CommitConfirmation(s) \/ CommitDraft(s) \/ UNCHANGED Tables
      BY <2>6 DEF Step, FindDraft, InsertRevision, ClearLines, OverwriteDraft, WriteLines,
                  ReadLedger, OpenLedger, Withdraw, PublishPrices, BumpLedger, Conflict,
                  EndDeadlock
    <2>7. ASSUME NEW s \in Sessions, Crash(s) PROVE UNCHANGED Tables
      BY <2>7 DEF Crash
    <2> QED BY <2>1, <2>2, <2>3, <2>4, <2>5, <2>6, <2>7 DEF Next
  <1> QED BY <1>1, <1>2, Inductive, PTL DEF Spec, ImplementsBook
=============================================================================
