------------------------- MODULE PriceSummaryProofs -------------------------
(***************************************************************************)
(* Proofs about PriceSummary for every value of its constants: any number  *)
(* of receipts, confirmations, edits, price jobs and refreshes.            *)
(***************************************************************************)
EXTENDS PriceSummary, TLAPS

-----------------------------------------------------------------------------
(* The inductive invariant of the answers                                  *)

AnsweredPhases == {"answered", "compared", "stored"}

\* The book as readers see it: prices are of a receipt's current revision and
\* for its lines, no answer is ahead of the ledger.
BookInv ==
    /\ version \in [Receipts -> 0..MaxVersion]
    /\ prices \in [Receipts -> SUBSET ((0..MaxVersion) \X Lines)]
    /\ lines \in [Receipts -> SUBSET Lines]
    /\ answeredAt \in [Receipts -> [1..MaxVersion -> Nat]]
    /\ ledger \in Nat
    /\ content \in 0..MaxContent
    /\ \A r \in Receipts : \A o \in prices[r] :
         /\ o[1] \in {0, version[r]}
         /\ o[1] > 0 => o[2] \in lines[r]
    /\ \A r \in Receipts : \A n \in 1..MaxVersion : answeredAt[r][n] <= ledger

\* Rows of revisions that exist.
Past(rows) == \A row \in rows : row.revision <= version[row.receipt]

\* A label that covers each of the rows.
Covers(rows, at) == \A row \in rows : answeredAt[row.receipt][row.revision] <= at

\* A row of a current revision is one of its lines, with its price.
PricedLine(row, items) ==
    row.revision = version[row.receipt] =>
        /\ row.line \in lines[row.receipt] \cap items
        /\ row.ranked = TRUE
        /\ <<row.revision, row.line>> \in prices[row.receipt]

SoundJob(j) ==
    /\ Past(job[j].rows)
    /\ job[j].phase \in AnsweredPhases => Covers(job[j].rows, job[j].pricesAt)
    /\ job[j].phase \notin {"idle", "asked"} => job[j].content <= content
    /\ job[j].phase \notin {"idle", "asked", "listed"} =>
         \E c \in job[j].content..MaxContent : job[j].items = ItemsAt[c]
    /\ job[j].phase = "published" => \A row \in job[j].rows : PricedLine(row, job[j].items)

SoundAnswer(answer) ==
    answer # None => Past(answer.rows) /\ Covers(answer.rows, answer.pricesAt)

AnswersInv ==
    /\ TypeOK
    /\ BookInv
    /\ \A j \in Jobs : SoundJob(j)
    /\ SoundAnswer(cache) /\ SoundAnswer(shown)

-----------------------------------------------------------------------------
(* Types                                                                   *)

LEMMA JobTypes ==
    ASSUME TypeOK, NEW j \in Jobs
    PROVE  /\ job \in [Jobs -> Job]
           /\ job[j] \in Job
           /\ job[j].content \in 0..MaxContent /\ job[j].items \in SUBSET Lines
           /\ job[j].rows \in SUBSET Row /\ job[j].pricesAt \in Nat /\ job[j].at \in Nat
           /\ AnswerOf(j) \in Answer
           /\ AnswerOf(j).content = job[j].content /\ AnswerOf(j).rows = job[j].rows
           /\ AnswerOf(j).pricesAt = job[j].pricesAt /\ AnswerOf(j).at = job[j].at
  BY DEF TypeOK, Job, AnswerOf, Answer

LEMMA RowTypes ==
    ASSUME NEW row \in Row
    PROVE  /\ row.receipt \in Receipts /\ row.revision \in 1..MaxVersion
           /\ row.line \in Lines /\ row.ranked \in BOOLEAN
           /\ row = [receipt |-> row.receipt, revision |-> row.revision,
                     line |-> row.line, ranked |-> row.ranked]
  BY DEF Row

LEMMA NoJobType ==
    /\ NoJob \in Job /\ NoJob.phase = "idle" /\ NoJob.rows = {}
    /\ [NoJob EXCEPT !.phase = "asked"] \in Job
    /\ [NoJob EXCEPT !.phase = "asked"].phase = "asked"
    /\ [NoJob EXCEPT !.phase = "asked"].rows = {}
  BY SummaryAssumption DEF NoJob, Job

\* A job without rows that has read nothing is sound.
LEMMA EmptyJobSound ==
    ASSUME NEW j \in Jobs, job[j].phase \in {"idle", "asked"}, job[j].rows = {}
    PROVE  SoundJob(j)
  BY DEF SoundJob, Past, AnsweredPhases

\* The invariant implies what the runs check.
LEMMA AnswersHold ==
    ASSUME AnswersInv
    PROVE  LabelHolds
  <1>1. ASSUME NEW answer \in Answers, NEW row \in answer.rows
        PROVE  answer.pricesAt >= answeredAt[row.receipt][row.revision]
    <2>1. row \in Row
      <3>1. CASE answer \in {cache, shown} \ {None}
        BY <3>1, <1>1 DEF AnswersInv, TypeOK, Answer
      <3>2. CASE answer \notin {cache, shown} \ {None}
        <4>1. PICK j \in Jobs : answer = AnswerOf(j)
          BY <1>1, <3>2 DEF Answers
        <4> QED BY <1>1, <4>1, JobTypes DEF AnswersInv
      <3> QED BY <3>1, <3>2
    <2>2. Covers(answer.rows, answer.pricesAt)
      <3>1. CASE answer \in {cache, shown} \ {None}
        BY <3>1 DEF AnswersInv, SoundAnswer
      <3>2. CASE answer \notin {cache, shown} \ {None}
        <4>1. PICK j \in Jobs : answer = AnswerOf(j) /\ job[j].phase \in AnsweredPhases
          BY <1>1, <3>2 DEF Answers, AnsweredPhases
        <4> QED BY <4>1, JobTypes DEF AnswersInv, SoundJob
      <3> QED BY <3>1, <3>2
    <2>3. answer.pricesAt \in Nat
      <3>1. CASE answer \in {cache, shown} \ {None}
        BY <3>1, <1>1 DEF AnswersInv, TypeOK, Answer
      <3>2. CASE answer \notin {cache, shown} \ {None}
        <4>1. PICK j \in Jobs : answer = AnswerOf(j)
          BY <1>1, <3>2 DEF Answers
        <4> QED BY <1>1, <4>1, JobTypes DEF AnswersInv
      <3> QED BY <3>1, <3>2
    <2>4. answeredAt[row.receipt][row.revision] \in Nat
      BY <2>1, RowTypes DEF AnswersInv, BookInv
    <2> QED BY <1>1, <2>2, <2>3, <2>4 DEF Covers
  <1>2. LabelCoversPrices
    BY <1>1 DEF LabelCoversPrices
  <1>3. LinesCoverContent
    BY DEF LinesCoverContent, AnswersInv, SoundJob
  <1> QED BY <1>2, <1>3 DEF LabelHolds

-----------------------------------------------------------------------------
(* Steps of the server                                                     *)

LEMMA InitAnswers == Init => AnswersInv
  <1> SUFFICES ASSUME Init PROVE AnswersInv
    OBVIOUS
  <1>1. BookInv
    BY SummaryAssumption DEF Init, BookInv
  <1>2. TypeOK
    <2>1. job \in [Jobs -> Job]
      BY NoJobType DEF Init
    <2>2. known \in 0..content /\ stamps \in Nat /\ refreshes \in Nat
      BY DEF Init
    <2>3. failed \in BOOLEAN /\ cache = None /\ shown = None /\ priceJob = None
      BY Zenon DEF Init
    <2> QED BY <2>1, <2>2, <2>3 DEF TypeOK
  <1>3. \A j \in Jobs : SoundJob(j)
    BY NoJobType, EmptyJobSound DEF Init
  <1> QED BY <1>1, <1>2, <1>3 DEF Init, AnswersInv, SoundAnswer

\* A confirmation adds a revision that no answer has, and no job reads back.
LEMMA ConfirmKeeps ==
    ASSUME AnswersInv, NEW c \in Confirmations, Confirm(c)
    PROVE  AnswersInv'
  <1> DEFINE r == c.receipt
             n == c.revision
  <1>1. /\ r \in Receipts /\ n \in 1..MaxVersion /\ c.lines \in SUBSET Lines
        /\ c.priced \in SUBSET c.lines
    BY SummaryAssumption DEF Revision
  <1>2. /\ n = version[r] + 1 /\ version[r] \in 0..MaxVersion
        /\ version' = [version EXCEPT ![r] = version[r] + 1]
        /\ prices' = [prices EXCEPT ![r] = {version[r] + 1} \X c.priced]
        /\ lines' = [lines EXCEPT ![r] = c.lines]
        /\ answeredAt' = [answeredAt EXCEPT ![r] = [answeredAt[r] EXCEPT ![n] = ledger + 1]]
        /\ ledger' = ledger + 1
        /\ UNCHANGED <<content, job, app, stamps, failures>>
    BY <1>1 DEF Confirm, Publish, AnswersInv, BookInv
  <1>3. /\ version'[r] = n
        /\ prices'[r] = {n} \X c.priced
        /\ lines'[r] = c.lines
        /\ \A x \in Receipts \ {r} : /\ version'[x] = version[x] /\ prices'[x] = prices[x]
                                     /\ lines'[x] = lines[x] /\ answeredAt'[x] = answeredAt[x]
        /\ answeredAt'[r][n] = ledger + 1
        /\ \A k \in (1..MaxVersion) \ {n} : answeredAt'[r][k] = answeredAt[r][k]
    BY <1>1, <1>2 DEF AnswersInv, BookInv
  <1>4. BookInv'
    <2>1. version' \in [Receipts -> 0..MaxVersion]
      BY <1>1, <1>2 DEF AnswersInv, BookInv
    <2>2. prices' \in [Receipts -> SUBSET ((0..MaxVersion) \X Lines)]
      BY <1>1, <1>2 DEF AnswersInv, BookInv
    <2>3. lines' \in [Receipts -> SUBSET Lines]
      BY <1>1, <1>2 DEF AnswersInv, BookInv
    <2>4. answeredAt' \in [Receipts -> [1..MaxVersion -> Nat]]
      BY <1>1, <1>2 DEF AnswersInv, BookInv
    <2>5. ledger' \in Nat /\ content' \in 0..MaxContent
      BY <1>2 DEF AnswersInv, BookInv
    <2>6. ASSUME NEW x \in Receipts, NEW o \in prices'[x]
          PROVE  /\ o[1] \in {0, version'[x]}
                 /\ o[1] > 0 => o[2] \in lines'[x]
      <3>1. CASE x = r
        BY <3>1, <2>6, <1>1, <1>3
      <3>2. CASE x # r
        BY <3>2, <2>6, <1>3 DEF AnswersInv, BookInv
      <3> QED BY <3>1, <3>2
    <2>7. ASSUME NEW x \in Receipts, NEW k \in 1..MaxVersion
          PROVE  answeredAt'[x][k] <= ledger'
      <3>1. answeredAt[x][k] \in Nat /\ answeredAt[x][k] <= ledger /\ ledger \in Nat
        BY DEF AnswersInv, BookInv
      <3>2. answeredAt'[x][k] = answeredAt[x][k] \/ answeredAt'[x][k] = ledger + 1
        BY <1>1, <1>3
      <3> QED BY <1>2, <3>1, <3>2
    <2> QED BY <2>1, <2>2, <2>3, <2>4, <2>5, <2>6, <2>7 DEF BookInv
  <1>5. ASSUME NEW rows \in SUBSET Row, Past(rows)
        PROVE  /\ \A row \in rows : row.revision <= version'[row.receipt]
               /\ \A row \in rows : row.receipt = r => row.revision # n
               /\ \A row \in rows : answeredAt'[row.receipt][row.revision]
                                       = answeredAt[row.receipt][row.revision]
    <2> SUFFICES ASSUME NEW row \in rows
                 PROVE  /\ row.revision <= version'[row.receipt]
                        /\ row.receipt = r => row.revision # n
                        /\ answeredAt'[row.receipt][row.revision]
                              = answeredAt[row.receipt][row.revision]
      OBVIOUS
    <2>1. row.receipt \in Receipts /\ row.revision \in 1..MaxVersion
      BY <1>5, RowTypes
    <2>2. row.revision <= version[row.receipt]
      BY <1>5 DEF Past
    <2> QED BY <2>1, <2>2, <1>1, <1>2, <1>3
  <1>6. TypeOK'
    BY <1>2 DEF AnswersInv, TypeOK, app
  <1>7. ASSUME NEW j \in Jobs PROVE SoundJob(j)'
    <2>1. /\ job'[j] = job[j] /\ content' = content /\ job[j].rows \in SUBSET Row
          /\ SoundJob(j)
      BY <1>2, JobTypes DEF AnswersInv
    <2>2. Past(job[j].rows)
      BY <2>1 DEF SoundJob
    <2>3. Past(job[j].rows)'
      BY <2>1, <2>2, <1>5 DEF Past
    <2>4. ASSUME job[j].phase \in AnsweredPhases
          PROVE  Covers(job[j].rows, job[j].pricesAt)'
      BY <2>1, <2>2, <2>4, <1>5 DEF Covers, SoundJob
    <2>5. ASSUME job[j].phase = "published", NEW row \in job[j].rows
          PROVE  PricedLine(row, job[j].items)'
      <3>1. PricedLine(row, job[j].items) /\ row.receipt \in Receipts
        BY <2>1, <2>5, RowTypes DEF SoundJob
      <3>2. row.receipt = r => row.revision # version'[r]
        BY <2>1, <2>2, <2>5, <1>5, <1>3
      <3> QED BY <3>1, <3>2, <2>1, <1>3 DEF PricedLine
    <2> QED BY <2>1, <2>3, <2>4, <2>5 DEF SoundJob
  <1>8. ASSUME NEW answer \in Answer, SoundAnswer(answer), answer # None
        PROVE  /\ \A row \in answer.rows : row.revision <= version'[row.receipt]
               /\ \A row \in answer.rows :
                    answeredAt'[row.receipt][row.revision] <= answer.pricesAt
    <2>1. answer.rows \in SUBSET Row
      BY DEF Answer
    <2> QED BY <2>1, <1>5, <1>8 DEF SoundAnswer, Covers
  <1>9. SoundAnswer(cache)' /\ SoundAnswer(shown)'
    BY <1>2, <1>8 DEF AnswersInv, TypeOK, SoundAnswer, Past, Covers, app
  <1> QED BY <1>4, <1>6, <1>7, <1>9 DEF AnswersInv

\* An edit of the list only moves its content_seq on.
LEMMA EditListKeeps ==
    ASSUME AnswersInv, EditList
    PROVE  AnswersInv'
  <1>1. /\ content \in 0..MaxContent /\ content' = content + 1 /\ content' \in 0..MaxContent
        /\ UNCHANGED <<version, prices, ledger, lines, answeredAt, job, app, stamps, failures>>
    BY SummaryAssumption DEF EditList, AnswersInv, BookInv
  <1>2. BookInv'
    BY <1>1 DEF AnswersInv, BookInv
  <1>3. TypeOK'
    BY <1>1 DEF AnswersInv, TypeOK, app
  <1>4. ASSUME NEW j \in Jobs PROVE SoundJob(j)'
    <2>1. job[j].content \in 0..MaxContent /\ SoundJob(j)
      BY JobTypes DEF AnswersInv
    <2> QED BY <1>1, <2>1 DEF SoundJob, Past, Covers, PricedLine
  <1> QED BY <1>1, <1>2, <1>3, <1>4 DEF AnswersInv, SoundAnswer, Past, Covers, app

-----------------------------------------------------------------------------
(* Steps of a price job                                                    *)

\* A step that leaves the server alone keeps the invariant when the jobs it
\* changes are sound, and cache and screen hold what they or a job held.
LEMMA AppStep ==
    ASSUME AnswersInv, UNCHANGED server,
           job' \in [Jobs -> Job],
           \A j \in Jobs : job'[j] = job[j] \/ SoundJob(j)',
           priceJob' \in Jobs \cup {None}, failed' \in BOOLEAN, known' \in 0..content,
           stamps' \in Nat, refreshes' \in Nat,
           NEW held \in {None} \cup {AnswerOf(j) : j \in {i \in Jobs : job[i].phase \in AnsweredPhases}},
           cache' \in {cache, held}, shown' \in {None, shown, cache, held}
    PROVE  AnswersInv'
  <1>1. held \in Answer \cup {None} /\ SoundAnswer(held)
    <2>1. CASE held = None
      BY <2>1 DEF SoundAnswer
    <2>2. CASE held # None
      <3>1. PICK j \in Jobs : job[j].phase \in AnsweredPhases /\ held = AnswerOf(j)
        BY <2>2
      <3>2. SoundJob(j)
        BY DEF AnswersInv
      <3> QED BY <3>1, <3>2, JobTypes DEF AnswersInv, SoundJob, SoundAnswer
    <2> QED BY <2>1, <2>2
  <1>2. BookInv'
    BY DEF AnswersInv, BookInv, server
  <1>3. TypeOK'
    BY <1>1 DEF AnswersInv, TypeOK, server
  <1>4. ASSUME NEW j \in Jobs PROVE SoundJob(j)'
    <2>1. CASE job'[j] = job[j]
      BY <2>1 DEF AnswersInv, SoundJob, Past, Covers, PricedLine, server
    <2> QED BY <2>1
  <1>5. SoundAnswer(cache)' /\ SoundAnswer(shown)'
    BY <1>1 DEF AnswersInv, SoundAnswer, Past, Covers, server
  <1> QED BY <1>2, <1>3, <1>4, <1>5 DEF AnswersInv

\* A statement of one job.
LEMMA StatementKeeps ==
    ASSUME AnswersInv, UNCHANGED <<server, app>>, stamps' \in Nat,
           NEW j \in Jobs, NEW x \in Job, job' = [job EXCEPT ![j] = x], SoundJob(j)'
    PROVE  AnswersInv'
  <1>1. job' \in [Jobs -> Job] /\ \A i \in Jobs : job'[i] = job[i] \/ SoundJob(i)'
    BY DEF AnswersInv, TypeOK
  <1>2. /\ priceJob' \in Jobs \cup {None} /\ failed' \in BOOLEAN /\ known' \in 0..content
        /\ cache' = cache /\ shown' = shown /\ refreshes' \in Nat
    BY DEF AnswersInv, TypeOK, app
  <1>3. None \in {None} \cup {AnswerOf(i) : i \in {k \in Jobs : job[k].phase \in AnsweredPhases}}
    OBVIOUS
  <1> QED BY <1>1, <1>2, <1>3, AppStep

LEMMA ReadListKeeps ==
    ASSUME AnswersInv, NEW j \in Jobs, ReadList(j)
    PROVE  AnswersInv'
  <1> DEFINE x == [job[j] EXCEPT !.phase = "listed", !.content = content]
  <1>1. job[j].phase = "asked" /\ job' = [job EXCEPT ![j] = x]
        /\ UNCHANGED <<server, app, stamps>>
    BY DEF ReadList, Statement
  <1>2. /\ x \in Job /\ x.phase = "listed" /\ x.content = content
        /\ x.items = job[j].items /\ x.rows = job[j].rows /\ x.pricesAt = job[j].pricesAt
    BY JobTypes DEF Job, AnswersInv, BookInv
  <1> HIDE DEF x
  <1>3. job'[j] = x
    BY <1>1, JobTypes DEF AnswersInv
  <1>4. SoundJob(j)'
    <2>1. Past(job[j].rows) /\ content \in Nat
      BY SummaryAssumption DEF AnswersInv, SoundJob, BookInv
    <2> QED BY <1>1, <1>2, <1>3, <2>1 DEF SoundJob, Past, AnsweredPhases, server
  <1> QED BY <1>1, <1>2, <1>4, StatementKeeps DEF AnswersInv, TypeOK

LEMMA ReadItemsKeeps ==
    ASSUME AnswersInv, NEW j \in Jobs, ReadItems(j)
    PROVE  AnswersInv'
  <1> DEFINE x == [job[j] EXCEPT !.phase = "itemed", !.items = ItemsAt[content]]
  <1>1. job[j].phase = "listed" /\ job' = [job EXCEPT ![j] = x]
        /\ UNCHANGED <<server, app, stamps>>
    BY DEF ReadItems, Statement
  <1>2. /\ x \in Job /\ x.phase = "itemed" /\ x.content = job[j].content
        /\ x.items = ItemsAt[content] /\ x.rows = job[j].rows
    <2>1. ItemsAt[content] \in SUBSET Lines
      BY SummaryAssumption DEF AnswersInv, BookInv
    <2>2. job[j] \in Job
      BY JobTypes DEF AnswersInv
    <2> QED BY <2>1, <2>2 DEF Job
  <1> HIDE DEF x
  <1>3. job'[j] = x
    BY <1>1, JobTypes DEF AnswersInv
  <1>4. SoundJob(j)'
    <2>1. /\ Past(job[j].rows) /\ content \in 0..MaxContent /\ job[j].content <= content
          /\ job[j].content \in 0..MaxContent
      BY <1>1, JobTypes DEF AnswersInv, SoundJob, BookInv
    <2>2. content \in job[j].content..MaxContent
      BY <2>1, SummaryAssumption
    <2> QED BY <1>1, <1>2, <1>3, <2>1, <2>2 DEF SoundJob, Past, AnsweredPhases, server
  <1> QED BY <1>1, <1>2, <1>4, StatementKeeps DEF AnswersInv, TypeOK

\* The observations in force, as the books have them.
LEMMA PublishedLines ==
    ASSUME AnswersInv, NEW items \in SUBSET Lines
    PROVE  /\ PublishedRows(items) \in SUBSET Row
           /\ \A row \in PublishedRows(items) :
                /\ row.revision = version[row.receipt]
                /\ PricedLine(row, items)
  <1> SUFFICES ASSUME NEW row \in PublishedRows(items)
               PROVE  /\ row \in Row
                      /\ row.revision = version[row.receipt]
                      /\ PricedLine(row, items)
    OBVIOUS
  <1>0. PICK r \in Receipts : \E o \in prices[r] :
          /\ o[1] > 0 /\ o[2] \in items
          /\ row = [receipt |-> r, revision |-> o[1], line |-> o[2], ranked |-> TRUE]
    BY DEF PublishedRows
  <1>1. PICK o \in prices[r] :
          /\ o[1] > 0 /\ o[2] \in items
          /\ row = [receipt |-> r, revision |-> o[1], line |-> o[2], ranked |-> TRUE]
    BY <1>0
  <1>2. /\ o \in (0..MaxVersion) \X Lines /\ o[1] \in {0, version[r]}
        /\ o[1] > 0 => o[2] \in lines[r]
    BY DEF AnswersInv, BookInv
  <1>3. o[1] \in 1..MaxVersion /\ o[2] \in Lines /\ o = <<o[1], o[2]>>
    BY <1>1, <1>2
  <1>4. /\ row.receipt = r /\ row.revision = o[1] /\ row.line = o[2]
        /\ row.ranked = TRUE
    BY <1>1
  <1>5. row \in Row
    BY <1>1, <1>3 DEF Row
  <1> QED BY <1>1, <1>2, <1>3, <1>4, <1>5 DEF PricedLine

LEMMA ReadPublishedKeeps ==
    ASSUME AnswersInv, NEW j \in Jobs, ReadPublished(j)
    PROVE  AnswersInv'
  <1> DEFINE found == PublishedRows(job[j].items)
             x == [job[j] EXCEPT !.phase = "published", !.rows = found]
  <1>0. job[j].items \in SUBSET Lines
    BY JobTypes DEF AnswersInv
  <1>1. job[j].phase = "itemed" /\ job' = [job EXCEPT ![j] = x]
        /\ UNCHANGED <<server, app, stamps>>
    BY DEF ReadPublished, Statement
  <1>2. /\ found \in SUBSET Row
        /\ \A row \in found : /\ row.revision <= version[row.receipt]
                              /\ PricedLine(row, job[j].items)
    BY <1>0, PublishedLines, RowTypes
  <1> HIDE DEF found
  <1>3. /\ x \in Job /\ x.phase = "published" /\ x.content = job[j].content
        /\ x.items = job[j].items /\ x.rows = found
    BY <1>2, JobTypes DEF Job, AnswersInv
  <1> HIDE DEF x
  <1>4. job'[j] = x
    BY <1>1, JobTypes DEF AnswersInv
  <1>5. SoundJob(j)'
    <2>1. SoundJob(j)
      BY DEF AnswersInv
    <2> QED BY <1>1, <1>2, <1>3, <1>4, <2>1
            DEF SoundJob, Past, PricedLine, AnsweredPhases, server
  <1> QED BY <1>1, <1>3, <1>5, StatementKeeps DEF AnswersInv, TypeOK

\* The lines of current revisions.
LEMMA CurrentLines ==
    ASSUME AnswersInv, NEW items \in SUBSET Lines
    PROVE  /\ CurrentRows(items) \in SUBSET Row
           /\ \A row \in CurrentRows(items) : row.revision = version[row.receipt]
  <1> SUFFICES ASSUME NEW row \in CurrentRows(items)
               PROVE  row \in Row /\ row.revision = version[row.receipt]
    OBVIOUS
  <1>0. PICK r \in Receipts : version[r] > 0 /\ \E l \in lines[r] \cap items :
          row = [receipt |-> r, revision |-> version[r], line |-> l,
                 ranked |-> <<version[r], l>> \in prices[r]]
    BY DEF CurrentRows
  <1>1. PICK l \in lines[r] \cap items :
          /\ version[r] > 0
          /\ row = [receipt |-> r, revision |-> version[r], line |-> l,
                    ranked |-> <<version[r], l>> \in prices[r]]
    BY <1>0
  <1>2. version[r] \in 1..MaxVersion /\ l \in Lines
    BY <1>1 DEF AnswersInv, BookInv
  <1>3. (<<version[r], l>> \in prices[r]) \in BOOLEAN
    OBVIOUS
  <1> QED BY <1>1, <1>2, <1>3 DEF Row

LEMMA ReadUnpublishedKeeps ==
    ASSUME AnswersInv, NEW j \in Jobs, ReadUnpublished(j)
    PROVE  AnswersInv'
  <1> DEFINE found == job[j].rows \cup Unseen(CurrentRows(job[j].items), job[j].rows)
             x == [job[j] EXCEPT !.phase = "priced", !.rows = found]
  <1>0. /\ job[j].items \in SUBSET Lines /\ job[j].rows \in SUBSET Row
        /\ SoundJob(j)
    BY JobTypes DEF AnswersInv
  <1>1. job[j].phase = "published" /\ job' = [job EXCEPT ![j] = x]
        /\ UNCHANGED <<server, app, stamps>>
    BY DEF ReadUnpublished, Statement
  <1>2. /\ found \in SUBSET Row
        /\ \A row \in found : row.revision <= version[row.receipt]
    <2>1. \A row \in found : row \in job[j].rows \/ row \in CurrentRows(job[j].items)
      BY DEF Unseen
    <2>2. \A row \in CurrentRows(job[j].items) :
            row \in Row /\ row.revision <= version[row.receipt]
      BY <1>0, CurrentLines, RowTypes
    <2> QED BY <1>0, <2>1, <2>2 DEF SoundJob, Past
  <1> HIDE DEF found
  <1>3. /\ x \in Job /\ x.phase = "priced" /\ x.content = job[j].content
        /\ x.items = job[j].items /\ x.rows = found
    BY <1>2, JobTypes DEF Job, AnswersInv
  <1> HIDE DEF x
  <1>4. job'[j] = x
    BY <1>1, JobTypes DEF AnswersInv
  <1>5. SoundJob(j)'
    BY <1>0, <1>1, <1>2, <1>3, <1>4 DEF SoundJob, Past, AnsweredPhases, server
  <1> QED BY <1>1, <1>3, <1>5, StatementKeeps DEF AnswersInv, TypeOK

\* The label: the ledger is at least as high as any answer to a confirmation.
LEMMA LabelKeeps ==
    ASSUME AnswersInv, NEW j \in Jobs, Label(j)
    PROVE  AnswersInv'
  <1> DEFINE next == stamps + 1
             x == [job[j] EXCEPT !.phase = "answered", !.pricesAt = ledger, !.at = next]
  <1>0. /\ job[j].rows \in SUBSET Row /\ SoundJob(j) /\ ledger \in Nat /\ next \in Nat
    BY JobTypes DEF AnswersInv, BookInv, TypeOK
  <1>1. /\ job[j].phase = "priced" /\ job' = [job EXCEPT ![j] = x]
        /\ stamps' = next /\ UNCHANGED <<server, app>>
    BY DEF Label
  <1> HIDE DEF next
  <1>2. /\ x \in Job /\ x.phase = "answered" /\ x.content = job[j].content
        /\ x.items = job[j].items /\ x.rows = job[j].rows /\ x.pricesAt = ledger
    BY <1>0, JobTypes DEF Job, AnswersInv
  <1> HIDE DEF x
  <1>3. job'[j] = x
    BY <1>1, JobTypes DEF AnswersInv
  <1>4. Covers(job[j].rows, ledger)
    BY <1>0, RowTypes DEF Covers, AnswersInv, BookInv
  <1>5. SoundJob(j)'
    BY <1>0, <1>1, <1>2, <1>3, <1>4 DEF SoundJob, Past, Covers, AnsweredPhases, server
  <1> QED BY <1>0, <1>1, <1>2, <1>5, StatementKeeps

\* A job goes to another phase with what it has, or is forgotten.
LEMMA MovesOrEnds ==
    ASSUME AnswersInv, UNCHANGED server, NEW j \in Jobs, NEW x \in Job,
           \/ x = NoJob
           \/ /\ x.phase \in AnsweredPhases /\ job[j].phase \in AnsweredPhases
              /\ x.content = job[j].content /\ x.items = job[j].items
              /\ x.rows = job[j].rows /\ x.pricesAt = job[j].pricesAt,
           job' = [job EXCEPT ![j] = x]
    PROVE  /\ job' \in [Jobs -> Job]
           /\ \A i \in Jobs : job'[i] = job[i] \/ SoundJob(i)'
  <1>1. /\ job' \in [Jobs -> Job] /\ job'[j] = x
        /\ \A i \in Jobs : i # j => job'[i] = job[i]
    BY DEF AnswersInv, TypeOK
  <1>2. SoundJob(j)'
    <2>1. CASE x = NoJob
      BY <1>1, <2>1, NoJobType DEF SoundJob, Past, AnsweredPhases
    <2>2. CASE x # NoJob
      <3>1. SoundJob(j)
        BY DEF AnswersInv
      <3> QED BY <1>1, <2>2, <3>1 DEF SoundJob, Past, Covers, AnsweredPhases, server
    <2> QED BY <2>1, <2>2
  <1> QED BY <1>1, <1>2

LEMMA CompareKeeps ==
    ASSUME AnswersInv, NEW j \in Jobs, Compare(j)
    PROVE  AnswersInv'
  <1> DEFINE next == IF Stale(AnswerOf(j)) THEN "stored" ELSE "compared"
             x == [job[j] EXCEPT !.phase = next]
  <1>1. /\ job[j].phase = "answered" /\ job' = [job EXCEPT ![j] = x]
        /\ UNCHANGED <<server, app, stamps>>
    BY DEF Compare, Moves
  <1>2. next \in {"stored", "compared"}
    OBVIOUS
  <1> HIDE DEF next
  <1>3. /\ x \in Job /\ x.phase = next /\ x.content = job[j].content
        /\ x.items = job[j].items /\ x.rows = job[j].rows /\ x.pricesAt = job[j].pricesAt
    BY <1>2, JobTypes DEF Job, AnswersInv
  <1> HIDE DEF x
  <1>4. job'[j] = x
    BY <1>1, JobTypes DEF AnswersInv
  <1>5. SoundJob(j)'
    <2>1. SoundJob(j)
      BY DEF AnswersInv
    <2> QED BY <1>1, <1>2, <1>3, <1>4, <2>1
            DEF SoundJob, Past, Covers, AnsweredPhases, server
  <1> QED BY <1>1, <1>3, <1>5, StatementKeeps DEF AnswersInv, TypeOK

LEMMA StoreKeeps ==
    ASSUME AnswersInv, NEW j \in Jobs, Store(j)
    PROVE  AnswersInv'
  <1> DEFINE moved == [job[j] EXCEPT !.phase = "stored"]
             x == IF j = priceJob THEN moved ELSE NoJob
  <1>1. /\ job[j].phase = "compared" /\ cache' = AnswerOf(j)
        /\ job' = [job EXCEPT ![j] = x]
        /\ UNCHANGED <<server, known, priceJob, shown, failed, stamps, refreshes>>
    BY DEF Store
  <1>2. /\ moved \in Job /\ moved.phase = "stored" /\ moved.content = job[j].content
        /\ moved.items = job[j].items /\ moved.rows = job[j].rows
        /\ moved.pricesAt = job[j].pricesAt
    BY JobTypes DEF Job, AnswersInv
  <1> HIDE DEF moved
  <1>3. x \in Job /\ x \in {NoJob, moved}
    BY <1>2, NoJobType
  <1> HIDE DEF x
  <1>4. /\ job' \in [Jobs -> Job]
        /\ \A i \in Jobs : job'[i] = job[i] \/ SoundJob(i)'
    BY <1>1, <1>2, <1>3, MovesOrEnds DEF AnsweredPhases
  <1>5. AnswerOf(j) \in {None} \cup {AnswerOf(i) : i \in {k \in Jobs : job[k].phase \in AnsweredPhases}}
    BY <1>1 DEF AnsweredPhases
  <1> QED BY <1>1, <1>4, <1>5, AppStep DEF AnswersInv, TypeOK, server

LEMMA ApplyKeeps ==
    ASSUME AnswersInv, NEW j \in Jobs, Apply(j)
    PROVE  AnswersInv'
  <1>1. /\ job[j].phase = "stored" /\ shown' \in {shown, AnswerOf(j)} /\ failed' = FALSE
        /\ priceJob' \in {None, priceJob} /\ job' = [job EXCEPT ![j] = NoJob]
        /\ UNCHANGED <<server, known, cache, stamps, refreshes>>
    BY DEF Apply
  <1>2. /\ job' \in [Jobs -> Job]
        /\ \A i \in Jobs : job'[i] = job[i] \/ SoundJob(i)'
    BY <1>1, NoJobType, MovesOrEnds
  <1>3. AnswerOf(j) \in {None} \cup {AnswerOf(i) : i \in {k \in Jobs : job[k].phase \in AnsweredPhases}}
    BY <1>1 DEF AnsweredPhases
  <1> QED BY <1>1, <1>2, <1>3, AppStep DEF AnswersInv, TypeOK, server

LEMMA FailKeeps ==
    ASSUME AnswersInv, NEW j \in Jobs, Fail(j)
    PROVE  AnswersInv'
  <1>1. /\ failed' = TRUE /\ priceJob' = None /\ job' \in {job, [job EXCEPT ![j] = NoJob]}
        /\ UNCHANGED <<server, known, cache, shown, stamps, refreshes>>
    <2>1. job \in [Jobs -> Job]
      BY JobTypes DEF AnswersInv
    <2> QED BY <2>1 DEF Fail
  <1>2. /\ job' \in [Jobs -> Job]
        /\ \A i \in Jobs : job'[i] = job[i] \/ SoundJob(i)'
    BY <1>1, NoJobType, MovesOrEnds DEF AnswersInv, TypeOK
  <1>3. None \in {None} \cup {AnswerOf(i) : i \in {k \in Jobs : job[k].phase \in AnsweredPhases}}
    OBVIOUS
  <1> QED BY <1>1, <1>2, <1>3, AppStep DEF AnswersInv, TypeOK, server

\* A new job starts, and the one before it goes, or ends its write.
LEMMA StartKeeps ==
    ASSUME AnswersInv, NEW j \in Jobs, UNCHANGED <<server, cache, stamps>>, priceJob' = j,
           refreshes' \in Nat,
           \/ job' = Start(j)
           \/ job' = [i \in Jobs |-> IF i = j THEN [NoJob EXCEPT !.phase = "asked"] ELSE NoJob],
           failed' \in BOOLEAN, known' \in 0..content, shown' \in {None, shown, cache}
    PROVE  AnswersInv'
  <1>1. \A i \in Jobs :
          job'[i] = job[i] \/ job'[i] \in {NoJob, [NoJob EXCEPT !.phase = "asked"]}
    BY DEF Start
  <1>2. job' \in [Jobs -> Job]
    <2>1. \A i \in Jobs : job'[i] \in Job
      BY <1>1, NoJobType, JobTypes DEF AnswersInv
    <2>2. job' = [i \in Jobs |-> job'[i]]
      BY DEF Start
    <2> QED BY <2>1, <2>2
  <1>3. \A i \in Jobs : job'[i] = job[i] \/ SoundJob(i)'
    BY <1>1, NoJobType, EmptyJobSound DEF SoundJob, Past, AnsweredPhases
  <1>4. None \in {None} \cup {AnswerOf(i) : i \in {k \in Jobs : job[k].phase \in AnsweredPhases}}
    OBVIOUS
  <1> QED BY <1>2, <1>3, <1>4, AppStep DEF AnswersInv, TypeOK, server

LEMMA FromCacheIsHeld ==
    ASSUME NEW local
    PROVE  FromCache(local) \in {shown, cache}
  BY DEF FromCache

LEMMA AnswersStep ==
    ASSUME AnswersInv, [Next]_vars
    PROVE  AnswersInv'
  <1>1. CASE UNCHANGED vars
    BY <1>1 DEF vars, server, app, AnswersInv, TypeOK, BookInv, SoundJob, SoundAnswer, Past,
                Covers, PricedLine
  <1>2. ASSUME NEW j \in Jobs, Refresh(j) PROVE AnswersInv'
    BY <1>2, StartKeeps, FromCacheIsHeld DEF Refresh, Launch, AnswersInv, TypeOK, server
  <1>3. ASSUME NEW j \in Jobs, SyncList(j) PROVE AnswersInv'
    <2>1. content \in 0..content
      BY SummaryAssumption DEF AnswersInv, BookInv
    <2> QED BY <1>3, <2>1, StartKeeps, FromCacheIsHeld DEF SyncList, Launch, AnswersInv, TypeOK
  <1>4. ASSUME NEW j \in Jobs, Restart(j) PROVE AnswersInv'
    <2>1. /\ refreshes' \in Nat /\ failed' \in BOOLEAN
      <3>1. failed' = FALSE /\ refreshes' = refreshes + 1
        BY <1>4 DEF Restart
      <3>2. failed' \in BOOLEAN
        BY <3>1, Zenon
      <3>3. refreshes' \in Nat
        BY <3>1 DEF AnswersInv, TypeOK
      <3> QED BY <3>2, <3>3
    <2>2. shown' \in {None, shown, cache} /\ known' \in 0..content
      BY <1>4 DEF Restart, AnswersInv, TypeOK
    <2> QED BY <1>4, <2>1, <2>2, StartKeeps DEF Restart
  <1> QED BY <1>1, <1>2, <1>3, <1>4, ConfirmKeeps, EditListKeeps, ReadListKeeps,
             ReadItemsKeeps, ReadPublishedKeeps, ReadUnpublishedKeeps, LabelKeeps,
             CompareKeeps, StoreKeeps, ApplyKeeps, FailKeeps
          DEF Next, Step

-----------------------------------------------------------------------------
(* Each purchase once                                                      *)

\* The key of a current row names its content.
LEMMA CurrentRow ==
    ASSUME AnswersInv, NEW items \in SUBSET Lines, NEW row \in Row
    PROVE  row \in CurrentRows(items) <=>
             /\ row.revision = version[row.receipt]
             /\ row.line \in lines[row.receipt] \cap items
             /\ row.ranked = (<<row.revision, row.line>> \in prices[row.receipt])
  <1> DEFINE Shape(r, l) == [receipt |-> r, revision |-> version[r], line |-> l,
                             ranked |-> <<version[r], l>> \in prices[r]]
  <1>1. ASSUME row \in CurrentRows(items)
        PROVE  /\ row.revision = version[row.receipt]
               /\ row.line \in lines[row.receipt] \cap items
               /\ row.ranked = (<<row.revision, row.line>> \in prices[row.receipt])
    <2>1. PICK r \in Receipts : version[r] > 0 /\ \E l \in lines[r] \cap items : row = Shape(r, l)
      BY <1>1 DEF CurrentRows
    <2>2. PICK l \in lines[r] \cap items : row = Shape(r, l)
      BY <2>1
    <2>3. /\ row.receipt = r /\ row.revision = version[r] /\ row.line = l
          /\ row.ranked = (<<version[r], l>> \in prices[r])
      BY <2>2
    <2> QED BY <2>3
  <1>2. ASSUME row.revision = version[row.receipt],
               row.line \in lines[row.receipt] \cap items,
               row.ranked = (<<row.revision, row.line>> \in prices[row.receipt])
        PROVE  row \in CurrentRows(items)
    <2>1. /\ row.receipt \in Receipts /\ version[row.receipt] > 0
          /\ row = [receipt |-> row.receipt, revision |-> row.revision,
                    line |-> row.line, ranked |-> row.ranked]
      BY <1>2, RowTypes
    <2>2. row = Shape(row.receipt, row.line)
      BY <1>2, <2>1, Zenon
    <2> QED BY <1>2, <2>1, <2>2 DEF CurrentRows
  <1> QED BY <1>1, <1>2

LEMMA ReadUnpublishedOnce ==
    ASSUME AnswersInv, NEW j \in Jobs, ReadUnpublished(j)
    PROVE  {row \in job'[j].rows : row.revision = version[row.receipt]}
              = CurrentRows(job[j].items)
  <1> DEFINE items == job[j].items
             seen == job[j].rows
  <1>1. /\ items \in SUBSET Lines /\ seen \in SUBSET Row /\ job[j].phase = "published"
        /\ job'[j].rows = seen \cup Unseen(CurrentRows(items), seen)
    BY JobTypes DEF AnswersInv, ReadUnpublished, Statement, Job
  <1>2. \A row \in seen : PricedLine(row, items)
    BY <1>1 DEF AnswersInv, SoundJob
  <1> HIDE DEF items, seen
  <1>3. ASSUME NEW row \in seen, row.revision = version[row.receipt]
        PROVE  row \in CurrentRows(items)
    <2>1. /\ row.line \in lines[row.receipt] \cap items /\ row.ranked = TRUE
          /\ <<row.revision, row.line>> \in prices[row.receipt]
      BY <1>2, <1>3 DEF PricedLine
    <2>2. row.ranked = (<<row.revision, row.line>> \in prices[row.receipt])
      BY <2>1, Zenon
    <2> QED BY <1>1, <1>3, <2>1, <2>2, CurrentRow
  <1>4. CurrentRows(items) \in SUBSET Row
        /\ \A row \in CurrentRows(items) : row.revision = version[row.receipt]
    BY <1>1, CurrentLines
  <1>5. ASSUME NEW row \in CurrentRows(items), row \notin Unseen(CurrentRows(items), seen)
        PROVE  row \in seen
    <2>1. PICK other \in seen : Key(other) = Key(row)
      BY <1>5 DEF Unseen
    <2>2. /\ other.receipt = row.receipt /\ other.revision = row.revision
          /\ other.line = row.line
      BY <2>1 DEF Key
    <2>3. other \in CurrentRows(items)
      BY <1>3, <1>4, <2>2
    <2>4. /\ row.ranked = (<<row.revision, row.line>> \in prices[row.receipt])
          /\ other.ranked = (<<other.revision, other.line>> \in prices[other.receipt])
          /\ row \in Row /\ other \in Row
      BY <1>1, <1>4, <2>3, CurrentRow
    <2>5. other.ranked = row.ranked
      BY <2>2, <2>4, Zenon
    <2>6. other = row
      BY <2>2, <2>4, <2>5, RowTypes
    <2> QED BY <2>6
  <1>6. Unseen(CurrentRows(items), seen) \subseteq CurrentRows(items)
    BY DEF Unseen
  <1>7. {row \in job'[j].rows : row.revision = version[row.receipt]} = CurrentRows(items)
    BY <1>1, <1>3, <1>4, <1>5, <1>6
  <1> QED BY <1>7 DEF items

\* No other step gives a job the rows of the second query.
LEMMA PricedByQuery ==
    ASSUME AnswersInv, Next, NEW j \in Jobs, job[j].phase = "published",
           job'[j].phase = "priced"
    PROVE  ReadUnpublished(j)
  <1>0. job \in [Jobs -> Job] /\ \A i \in Jobs : job[i] \in Job
    BY JobTypes DEF AnswersInv
  <1>1. ASSUME NEW i \in Jobs, NEW x, job' = [job EXCEPT ![i] = x], x.phase # "priced" \/ i # j
        PROVE  FALSE
    BY <1>0, <1>1
  <1>2. job' # job
    BY <1>0
  <1>3. ASSUME NEW i \in Jobs, Step(i), ~ReadUnpublished(i) PROVE FALSE
    <2>1. CASE ReadList(i)
      BY <2>1, <1>0, <1>1 DEF ReadList, Statement, Job
    <2>2. CASE ReadItems(i)
      BY <2>2, <1>0, <1>1 DEF ReadItems, Statement, Job
    <2>3. CASE ReadPublished(i)
      BY <2>3, <1>0, <1>1 DEF ReadPublished, Statement, Job
    <2>4. CASE Label(i)
      BY <2>4, <1>0 DEF Label, Job
    <2>5. CASE Compare(i)
      BY <2>5, <1>0 DEF Compare, Moves, Job
    <2>6. CASE Store(i)
      BY <2>6, <1>0, NoJobType DEF Store, Job
    <2>7. CASE Apply(i)
      BY <2>7, <1>0, NoJobType DEF Apply
    <2> QED BY <1>3, <2>1, <2>2, <2>3, <2>4, <2>5, <2>6, <2>7 DEF Step
  <1>4. ASSUME NEW i \in Jobs, ReadUnpublished(i) PROVE i = j
    BY <1>4, <1>0 DEF ReadUnpublished, Statement, Job
  <1>5. ASSUME NEW i \in Jobs, Refresh(i) \/ SyncList(i) \/ Restart(i) PROVE FALSE
    BY <1>5, <1>0, NoJobType DEF Refresh, SyncList, Restart, Start
  <1>6. ASSUME NEW i \in Jobs, Fail(i) PROVE FALSE
    BY <1>6, <1>0, NoJobType DEF Fail
  <1>7. \A c \in Confirmations : ~Confirm(c)
    BY <1>2 DEF Confirm
  <1>8. ~EditList
    BY <1>2 DEF EditList
  <1>9. PICK i \in Jobs : Step(i) \/ Refresh(i) \/ SyncList(i) \/ Restart(i) \/ Fail(i)
    BY <1>7, <1>8 DEF Next
  <1> QED BY <1>3, <1>4, <1>5, <1>6, <1>9

LEMMA PurchasesOnce ==
    ASSUME AnswersInv, [Next]_vars
    PROVE  \A j \in Jobs : job[j].phase = "published" /\ job'[j].phase = "priced" =>
             {row \in job'[j].rows : row.revision = version[row.receipt]}
                = CurrentRows(job[j].items)
  <1>1. CASE UNCHANGED vars
    BY <1>1 DEF vars
  <1>2. CASE Next
    BY <1>2, PricedByQuery, ReadUnpublishedOnce
  <1> QED BY <1>1, <1>2

-----------------------------------------------------------------------------
(* The inductive invariant of the cache                                    *)

ReadingPhases == {"listed", "itemed", "published", "priced"}

\* Only the view model's job runs; one that it gave up ends its write to the cache.
Alone(j) == job[j].phase # "idle" /\ j # priceJob => job[j].phase = "compared"

Stamped(j) == job[j].phase \in AnsweredPhases => job[j].at <= stamps

\* Answers were computed one after the other, of lists ever newer ...
Ordered(i, j) ==
    /\ i # j
    /\ job[i].phase \in AnsweredPhases
    /\ job[j].phase \in AnsweredPhases
    => /\ job[i].at # job[j].at
       /\ job[i].at < job[j].at => job[i].content <= job[j].content

\* ... and so is the one that is being computed.
Precedes(i, j) ==
    /\ i # j
    /\ job[i].phase \in AnsweredPhases
    /\ job[j].phase \in ReadingPhases
    => job[i].content <= job[j].content

\* An answer that was compared with the cache is still not older than the cache.
AheadOfCache(j) ==
    job[j].phase = "compared" /\ cache # None =>
        cache.content <= job[j].content /\ cache.at <= job[j].at

CacheInv ==
    /\ \A j \in Jobs : Alone(j) /\ Stamped(j) /\ AheadOfCache(j)
    /\ \A i, j \in Jobs : Ordered(i, j) /\ Precedes(i, j)

\* Jobs that end or begin leave the others as they were.
LEMMA EndsKeepCache ==
    ASSUME CacheInv, cache' = cache, stamps' = stamps,
           \A j \in Jobs : job'[j] = job[j] \/ job'[j].phase \in {"idle", "asked"},
           \A j \in Jobs : Alone(j)'
    PROVE  CacheInv'
  BY DEF CacheInv, Stamped, AheadOfCache, Ordered, Precedes, AnsweredPhases, ReadingPhases

\* The view model's job goes on.
LEMMA RunKeepsCache ==
    ASSUME TypeOK, CacheInv, NEW j \in Jobs, job' = [job EXCEPT ![j] = job'[j]],
           j = priceJob, UNCHANGED <<cache, priceJob>>, stamps' \in Nat, stamps' >= stamps,
           Stamped(j)', AheadOfCache(j)',
           \A i \in Jobs \ {j} : Ordered(i, j)' /\ Ordered(j, i)' /\ Precedes(i, j)'
    PROVE  CacheInv'
  <1>1. \A i \in Jobs \ {j} : job'[i] = job[i]
    BY DEF TypeOK
  <1>2. \A i \in Jobs : Alone(i)'
    BY <1>1 DEF CacheInv, Alone
  <1>3. \A i \in Jobs : Stamped(i)'
    BY <1>1, JobTypes DEF CacheInv, Stamped, TypeOK
  <1>4. \A i \in Jobs : AheadOfCache(i)'
    BY <1>1 DEF CacheInv, AheadOfCache
  <1>5. ASSUME NEW i \in Jobs, NEW k \in Jobs PROVE Ordered(i, k)' /\ Precedes(i, k)'
    <2>1. CASE i = k
      BY <2>1 DEF Ordered, Precedes
    <2>2. CASE i # k /\ k = j
      BY <2>2
    <2>3. CASE i # k /\ i = j
      BY <2>3, <1>1 DEF CacheInv, Alone, Precedes, ReadingPhases
    <2>4. CASE i # k /\ i # j /\ k # j
      BY <2>4, <1>1 DEF CacheInv, Ordered, Precedes
    <2> QED BY <2>1, <2>2, <2>3, <2>4
  <1> QED BY <1>2, <1>3, <1>4, <1>5 DEF CacheInv

\* A query that keeps the version of the list its job has read.
LEMMA QueryKeepsCache ==
    ASSUME TypeOK, CacheInv, NEW j \in Jobs, job' = [job EXCEPT ![j] = job'[j]],
           job[j].phase \in ReadingPhases, job'[j].phase \in ReadingPhases,
           job'[j].content = job[j].content, UNCHANGED <<cache, priceJob, stamps>>
    PROVE  CacheInv'
  <1>1. j = priceJob /\ stamps \in Nat
    BY DEF CacheInv, Alone, ReadingPhases, TypeOK
  <1>2. \A i \in Jobs \ {j} : job'[i] = job[i]
    BY DEF TypeOK
  <1>3. Stamped(j)' /\ AheadOfCache(j)'
    BY DEF Stamped, AheadOfCache, ReadingPhases, AnsweredPhases
  <1>4. \A i \in Jobs \ {j} : Ordered(i, j)' /\ Ordered(j, i)' /\ Precedes(i, j)'
    BY <1>2 DEF CacheInv, Ordered, Precedes, ReadingPhases, AnsweredPhases
  <1> QED BY <1>1, <1>3, <1>4, RunKeepsCache

\* The list row is read: no answer is of a newer list than the list is.
LEMMA ReadListKeepsCache ==
    ASSUME AnswersInv, CacheInv, NEW j \in Jobs, ReadList(j)
    PROVE  CacheInv'
  <1>1. /\ TypeOK /\ job[j].phase = "asked" /\ j = priceJob
        /\ stamps \in Nat /\ UNCHANGED <<cache, priceJob, stamps, content>>
    BY DEF ReadList, Statement, AnswersInv, TypeOK, CacheInv, Alone, app, server
  <1>2. /\ job'[j].phase = "listed" /\ job'[j].content = content
        /\ job' = [job EXCEPT ![j] = job'[j]] /\ \A i \in Jobs \ {j} : job'[i] = job[i]
    BY <1>1, JobTypes DEF ReadList, Statement, Job
  <1>3. Stamped(j)' /\ AheadOfCache(j)'
    BY <1>2 DEF Stamped, AheadOfCache, AnsweredPhases
  <1>4. \A i \in Jobs \ {j} : Ordered(i, j)' /\ Ordered(j, i)' /\ Precedes(i, j)'
    <2>1. \A i \in Jobs : job[i].phase \in AnsweredPhases => job[i].content <= content
      BY DEF AnswersInv, SoundJob, AnsweredPhases
    <2> QED BY <1>2, <2>1 DEF Ordered, Precedes, AnsweredPhases
  <1> QED BY <1>1, <1>2, <1>3, <1>4, RunKeepsCache

\* The answer is stamped after all others.
LEMMA LabelKeepsCache ==
    ASSUME AnswersInv, CacheInv, NEW j \in Jobs, Label(j)
    PROVE  CacheInv'
  <1> DEFINE next == stamps + 1
  <1>1. /\ TypeOK /\ job[j].phase = "priced" /\ j = priceJob
        /\ stamps \in Nat /\ stamps' = next /\ next > stamps /\ next \in Nat
        /\ UNCHANGED <<cache, priceJob>>
    BY DEF Label, AnswersInv, TypeOK, CacheInv, Alone, app
  <1> HIDE DEF next
  <1>2. job' = [job EXCEPT ![j] = [job[j] EXCEPT !.phase = "answered", !.pricesAt = ledger,
                                                 !.at = next]]
    BY DEF Label, next
  <1>3. /\ job'[j].phase = "answered" /\ job'[j].content = job[j].content /\ job'[j].at = next
        /\ job' = [job EXCEPT ![j] = job'[j]] /\ \A i \in Jobs \ {j} : job'[i] = job[i]
    BY <1>1, <1>2, JobTypes DEF Job
  <1>4. Stamped(j)' /\ AheadOfCache(j)'
    BY <1>1, <1>3 DEF Stamped, AheadOfCache
  <1>5. ASSUME NEW i \in Jobs \ {j}
        PROVE  Ordered(i, j)' /\ Ordered(j, i)' /\ Precedes(i, j)'
    <2>1. Precedes(i, j) /\ Stamped(i) /\ job[i].at \in Nat
      BY <1>1, JobTypes DEF CacheInv
    <2> QED BY <1>1, <1>3, <2>1
            DEF Ordered, Precedes, Stamped, AnsweredPhases, ReadingPhases
  <1> QED BY <1>1, <1>3, <1>4, <1>5, RunKeepsCache

\* The answer is compared with the cached one.
LEMMA CompareKeepsCache ==
    ASSUME AnswersInv, CacheInv, NEW j \in Jobs, Compare(j)
    PROVE  CacheInv'
  <1>1. /\ TypeOK /\ job[j].phase = "answered" /\ j = priceJob
        /\ stamps \in Nat /\ UNCHANGED <<cache, priceJob, stamps>>
    BY DEF Compare, AnswersInv, TypeOK, CacheInv, Alone, app
  <1>2. /\ job'[j].phase \in {"compared", "stored"}
        /\ job'[j].phase = "compared" => ~Stale(AnswerOf(j))
        /\ job'[j].content = job[j].content /\ job'[j].at = job[j].at
        /\ job' = [job EXCEPT ![j] = job'[j]] /\ \A i \in Jobs \ {j} : job'[i] = job[i]
    BY <1>1, JobTypes DEF Compare, Moves, Job
  <1>3. Stamped(j)' /\ \A i \in Jobs \ {j} : Ordered(i, j)' /\ Ordered(j, i)' /\ Precedes(i, j)'
    BY <1>1, <1>2 DEF CacheInv, Stamped, Ordered, Precedes, AnsweredPhases, ReadingPhases
  <1>4. AheadOfCache(j)'
    <2>1. cache # None => cache.content \in Nat /\ cache.at \in Nat
      BY <1>1 DEF TypeOK, Answer
    <2> QED BY <1>1, <1>2, <2>1, JobTypes DEF AheadOfCache, Stale
  <1> QED BY <1>1, <1>2, <1>3, <1>4, RunKeepsCache

\* What is written is not older than the cache, and what waits not older than it.
LEMMA StoreKeepsCache ==
    ASSUME AnswersInv, CacheInv, NEW j \in Jobs, Store(j)
    PROVE  CacheInv'
  <1>1. /\ TypeOK /\ job[j].phase = "compared" /\ cache' = AnswerOf(j)
        /\ UNCHANGED <<priceJob, stamps>>
        /\ \A i \in Jobs \ {j} : job[i].phase = "compared" => job[i].at > job[j].at
    BY DEF Store, AnswersInv
  <1>2. /\ \A i \in Jobs \ {j} : job'[i] = job[i]
        /\ j # priceJob => job'[j] = NoJob
        /\ j = priceJob => /\ job'[j].phase = "stored" /\ job'[j].content = job[j].content
                           /\ job'[j].at = job[j].at
    BY <1>1, JobTypes DEF Store, Job
  <1>3. \A i \in Jobs : Alone(i)' /\ Stamped(i)'
    BY <1>1, <1>2, NoJobType DEF CacheInv, Alone, Stamped, AnsweredPhases
  <1>4. ASSUME NEW i \in Jobs PROVE AheadOfCache(i)'
    <2>1. CASE i = j
      BY <1>2, <2>1, NoJobType DEF AheadOfCache
    <2>2. CASE i # j
      <3>1. Ordered(j, i) /\ job[i].at \in Nat /\ job[j].at \in Nat
        BY <1>1, JobTypes DEF CacheInv
      <3> QED BY <1>1, <1>2, <2>2, <3>1, JobTypes DEF AheadOfCache, Ordered, AnsweredPhases
    <2> QED BY <2>1, <2>2
  <1>5. \A i, k \in Jobs : Ordered(i, k)' /\ Precedes(i, k)'
    BY <1>1, <1>2, NoJobType DEF CacheInv, Ordered, Precedes, AnsweredPhases, ReadingPhases
  <1> QED BY <1>3, <1>4, <1>5 DEF CacheInv

\* The queries of lines and prices.
LEMMA QueryStep ==
    ASSUME TypeOK, NEW j \in Jobs, ReadItems(j) \/ ReadPublished(j) \/ ReadUnpublished(j)
    PROVE  /\ job[j].phase \in ReadingPhases /\ job'[j].phase \in ReadingPhases
           /\ job'[j].content = job[j].content /\ job' = [job EXCEPT ![j] = job'[j]]
           /\ \A i \in Jobs \ {j} : job'[i] = job[i]
           /\ UNCHANGED <<known, cache, shown, failed, priceJob, refreshes, stamps>>
  <1>1. CASE ReadItems(j)
    BY <1>1, JobTypes DEF ReadItems, Statement, Job, ReadingPhases, app
  <1>2. CASE ReadPublished(j)
    BY <1>2, JobTypes DEF ReadPublished, Statement, Job, ReadingPhases, app
  <1>3. CASE ReadUnpublished(j)
    <2> DEFINE found == job[j].rows \cup Unseen(CurrentRows(job[j].items), job[j].rows)
    <2>1. /\ job[j].phase = "published"
          /\ job' = [job EXCEPT ![j] = [job[j] EXCEPT !.phase = "priced", !.rows = found]]
          /\ UNCHANGED <<known, cache, shown, failed, priceJob, refreshes, stamps>>
      BY <1>3 DEF ReadUnpublished, Statement, app
    <2> HIDE DEF found
    <2> QED BY <2>1, JobTypes DEF Job, ReadingPhases
  <1> QED BY <1>1, <1>2, <1>3

LEMMA CacheStep ==
    ASSUME AnswersInv, CacheInv, [Next]_vars
    PROVE  CacheInv'
  <1>0. TypeOK /\ \A i \in Jobs : Alone(i)
    BY DEF AnswersInv, CacheInv
  <1>1. CASE UNCHANGED <<job, priceJob, cache, stamps>>
    BY <1>1 DEF CacheInv, Alone, Stamped, AheadOfCache, Ordered, Precedes
  <1>2. ASSUME NEW j \in Jobs, ReadItems(j) \/ ReadPublished(j) \/ ReadUnpublished(j)
        PROVE  CacheInv'
    <2> QED BY <1>0, <1>2, QueryStep, QueryKeepsCache
  <1>3. ASSUME NEW j \in Jobs, Apply(j) PROVE CacheInv'
    <2>1. /\ j = priceJob /\ cache' = cache /\ stamps' = stamps
          /\ job'[j] = NoJob /\ \A i \in Jobs \ {j} : job'[i] = job[i]
      BY <1>0, <1>3, JobTypes DEF Apply, Alone
    <2> QED BY <1>0, <2>1, NoJobType, EndsKeepCache DEF Alone
  <1>4. ASSUME NEW j \in Jobs, Fail(j) PROVE CacheInv'
    <2>1. /\ j = priceJob /\ cache' = cache /\ stamps' = stamps
          /\ job'[j] = (IF job[j].phase = "compared" THEN job[j] ELSE NoJob)
          /\ \A i \in Jobs \ {j} : job'[i] = job[i]
      BY <1>0, <1>4, JobTypes DEF Fail
    <2> QED BY <1>0, <2>1, NoJobType, EndsKeepCache DEF Alone
  <1>5. ASSUME NEW j \in Jobs, Refresh(j) \/ SyncList(j) PROVE CacheInv'
    <2>1. /\ priceJob' = j /\ cache' = cache /\ stamps' = stamps /\ job' = Start(j)
      BY <1>5 DEF Refresh, SyncList, Launch
    <2>2. \A i \in Jobs : /\ job'[i] = job[i] \/ job'[i].phase \in {"idle", "asked"}
                         /\ Alone(i)'
      BY <1>0, <2>1, NoJobType DEF Start, Alone
    <2> QED BY <2>1, <2>2, EndsKeepCache
  <1>6. ASSUME NEW j \in Jobs, Restart(j) PROVE CacheInv'
    <2>1. \A i \in Jobs : job'[i].phase \in {"idle", "asked"} /\ Alone(i)'
      BY <1>6, NoJobType DEF Restart, Alone
    <2> QED BY <1>6, <2>1, EndsKeepCache DEF Restart
  <1>7. ASSUME NEW c \in Confirmations, Confirm(c) PROVE CacheInv'
    BY <1>1, <1>7 DEF Confirm, app
  <1>8. CASE EditList
    BY <1>1, <1>8 DEF EditList, app
  <1>9. CASE UNCHANGED vars
    BY <1>1, <1>9 DEF vars, app
  <1> QED BY <1>2, <1>3, <1>4, <1>5, <1>6, <1>7, <1>8, <1>9, ReadListKeepsCache,
             LabelKeepsCache, CompareKeepsCache, StoreKeepsCache
          DEF Next, Step

LEMMA CacheForward ==
    ASSUME AnswersInv, CacheInv, [Next]_vars
    PROVE  cache # None => cache'.content >= cache.content /\ cache'.at >= cache.at
  <1>1. cache # None => cache.content \in Nat /\ cache.at \in Nat
    BY DEF AnswersInv, TypeOK, Answer
  <1>2. cache' = cache \/ \E j \in Jobs : Store(j)
    BY DEF Next, Step, vars, app, server, Confirm, EditList, ReadList, ReadItems, ReadPublished,
           ReadUnpublished, Statement, Label, Compare, Apply, Fail, Refresh, SyncList, Launch,
           Restart
  <1>3. ASSUME NEW j \in Jobs, Store(j), cache # None
        PROVE  cache'.content >= cache.content /\ cache'.at >= cache.at
    <2>1. /\ job[j].phase = "compared" /\ cache' = AnswerOf(j)
      BY <1>3 DEF Store
    <2>2. /\ AnswerOf(j).content = job[j].content /\ job[j].content \in Nat
          /\ AnswerOf(j).at = job[j].at /\ job[j].at \in Nat
      BY JobTypes DEF AnswersInv
    <2> QED BY <1>1, <1>3, <2>1, <2>2 DEF CacheInv, AheadOfCache
  <1> QED BY <1>1, <1>2, <1>3

-----------------------------------------------------------------------------
(* The inductive invariant of the screen                                   *)

\* A job has read no older revision of a receipt than the rows have.
Follows(j, rows) ==
    \A row \in rows, next \in job[j].rows :
        row.receipt = next.receipt => row.revision <= next.revision

\* The view model's job reads later than what is on the screen, in the cache or
\* on its way to the cache was read.
ShownInv ==
    \A j \in Jobs : j = priceJob =>
        /\ shown # None => Follows(j, shown.rows)
        /\ cache # None /\ job[j].phase # "stored" => Follows(j, cache.rows)
        /\ \A i \in Jobs \ {j} : job[i].phase = "compared" => Follows(j, job[i].rows)

\* What a query adds to a job is of current revisions.
LEMMA RunKeepsShown ==
    ASSUME AnswersInv, ShownInv, NEW j \in Jobs, j = priceJob, job[j].phase # "stored",
           \A i \in Jobs \ {j} : job'[i] = job[i], UNCHANGED <<cache, shown, priceJob>>,
           \A row \in job'[j].rows :
               row \in job[j].rows \/ (row \in Row /\ row.revision = version[row.receipt])
    PROVE  ShownInv'
  <1>1. ASSUME NEW rows \in SUBSET Row, Past(rows), Follows(j, rows)
        PROVE  \A row \in rows, next \in job'[j].rows :
                 row.receipt = next.receipt => row.revision <= next.revision
    <2> SUFFICES ASSUME NEW row \in rows, NEW next \in job'[j].rows,
                        row.receipt = next.receipt
                 PROVE  row.revision <= next.revision
      OBVIOUS
    <2>1. CASE next \in job[j].rows
      BY <1>1, <2>1 DEF Follows
    <2>2. CASE next \in Row /\ next.revision = version[next.receipt]
      BY <1>1, <2>2 DEF Past
    <2> QED BY <2>1, <2>2
  <1>2. shown # None => shown.rows \in SUBSET Row /\ Past(shown.rows)
    BY DEF AnswersInv, TypeOK, Answer, SoundAnswer
  <1>3. cache # None => cache.rows \in SUBSET Row /\ Past(cache.rows)
    BY DEF AnswersInv, TypeOK, Answer, SoundAnswer
  <1>4. \A i \in Jobs : job[i].rows \in SUBSET Row /\ Past(job[i].rows)
    BY JobTypes DEF AnswersInv, SoundJob
  <1> QED BY <1>1, <1>2, <1>3, <1>4 DEF ShownInv, Follows

\* A query, a label or a comparison that adds no row to a job.
LEMMA RowsStayShown ==
    ASSUME AnswersInv, ShownInv, NEW j \in Jobs, Alone(j),
           job[j].phase \notin {"idle", "compared", "stored"},
           NEW x, job' = [job EXCEPT ![j] = x], x.rows = job[j].rows, UNCHANGED app
    PROVE  ShownInv'
  <1>1. /\ job'[j] = x
        /\ \A i \in Jobs \ {j} : job'[i] = job[i]
    BY JobTypes DEF AnswersInv
  <1>2. UNCHANGED <<cache, shown, priceJob>>
    BY DEF app
  <1>3. j = priceJob
    BY DEF Alone
  <1> QED BY <1>1, <1>2, <1>3, RunKeepsShown

LEMMA ShownStep ==
    ASSUME AnswersInv, CacheInv, ShownInv, [Next]_vars
    PROVE  ShownInv'
  <1>0. TypeOK /\ \A i \in Jobs : Alone(i)
    BY DEF AnswersInv, CacheInv
  <1>1. CASE UNCHANGED <<job, priceJob, cache, shown>>
    BY <1>1 DEF ShownInv, Follows
  <1>2. ASSUME NEW j \in Jobs, ReadList(j) \/ ReadItems(j) PROVE ShownInv'
    <2>1. CASE ReadList(j)
      <3> DEFINE x == [job[j] EXCEPT !.phase = "listed", !.content = content]
      <3>1. job[j].phase = "asked" /\ job' = [job EXCEPT ![j] = x] /\ UNCHANGED app
        BY <2>1 DEF ReadList, Statement
      <3>2. x.rows = job[j].rows
        BY <1>0, JobTypes DEF Job
      <3> HIDE DEF x
      <3> QED BY <1>0, <3>1, <3>2, RowsStayShown
    <2>2. CASE ReadItems(j)
      <3> DEFINE x == [job[j] EXCEPT !.phase = "itemed", !.items = ItemsAt[content]]
      <3>1. job[j].phase = "listed" /\ job' = [job EXCEPT ![j] = x] /\ UNCHANGED app
        BY <2>2 DEF ReadItems, Statement
      <3>2. x.rows = job[j].rows
        BY <1>0, JobTypes DEF Job
      <3> HIDE DEF x
      <3> QED BY <1>0, <3>1, <3>2, RowsStayShown
    <2> QED BY <1>2, <2>1, <2>2
  <1>3. ASSUME NEW j \in Jobs, Label(j) \/ Compare(j) PROVE ShownInv'
    <2>1. CASE Label(j)
      <3> DEFINE x == [job[j] EXCEPT !.phase = "answered", !.pricesAt = ledger,
                                     !.at = stamps + 1]
      <3>1. job[j].phase = "priced" /\ job' = [job EXCEPT ![j] = x] /\ UNCHANGED app
        BY <2>1 DEF Label
      <3>2. x.rows = job[j].rows
        BY <1>0, JobTypes DEF Job
      <3> HIDE DEF x
      <3> QED BY <1>0, <3>1, <3>2, RowsStayShown
    <2>2. CASE Compare(j)
      <3>1. PICK phase : job' = [job EXCEPT ![j].phase = phase]
        BY <2>2 DEF Compare, Moves
      <3> DEFINE x == [job[j] EXCEPT !.phase = phase]
      <3>2. job[j].phase = "answered" /\ job' = [job EXCEPT ![j] = x] /\ UNCHANGED app
        BY <2>2, <3>1 DEF Compare
      <3>3. x.rows = job[j].rows
        BY <1>0, JobTypes DEF Job
      <3> HIDE DEF x
      <3> QED BY <1>0, <3>2, <3>3, RowsStayShown
    <2> QED BY <1>3, <2>1, <2>2
  <1>4. ASSUME NEW j \in Jobs, ReadPublished(j) PROVE ShownInv'
    <2>1. /\ job[j].phase = "itemed" /\ job'[j].rows = PublishedRows(job[j].items)
          /\ \A i \in Jobs \ {j} : job'[i] = job[i]
          /\ UNCHANGED <<cache, shown, priceJob>>
      BY <1>0, <1>4, JobTypes DEF ReadPublished, Statement, Job, app
    <2>2. /\ PublishedRows(job[j].items) \in SUBSET Row
          /\ \A row \in PublishedRows(job[j].items) : row.revision = version[row.receipt]
      BY <1>0, JobTypes, PublishedLines
    <2> QED BY <1>0, <2>1, <2>2, RunKeepsShown DEF Alone
  <1>5. ASSUME NEW j \in Jobs, ReadUnpublished(j) PROVE ShownInv'
    <2> DEFINE found == Unseen(CurrentRows(job[j].items), job[j].rows)
    <2>1. /\ job[j].phase = "published" /\ job'[j].rows = job[j].rows \cup found
          /\ \A i \in Jobs \ {j} : job'[i] = job[i]
          /\ UNCHANGED <<cache, shown, priceJob>>
      BY <1>0, <1>5, JobTypes DEF ReadUnpublished, Statement, Job, app
    <2>2. found \in SUBSET Row /\ \A row \in found : row.revision = version[row.receipt]
      BY <1>0, JobTypes, CurrentLines DEF Unseen
    <2> HIDE DEF found
    <2> QED BY <1>0, <2>1, <2>2, RunKeepsShown DEF Alone
  <1>6. ASSUME NEW j \in Jobs, Store(j) PROVE ShownInv'
    <2>1. /\ job[j].phase = "compared" /\ cache' = AnswerOf(j)
          /\ AnswerOf(j).rows = job[j].rows /\ UNCHANGED <<priceJob, shown>>
          /\ \A i \in Jobs \ {j} : job'[i] = job[i]
          /\ j # priceJob => job'[j] = NoJob
          /\ j = priceJob => job'[j].phase = "stored" /\ job'[j].rows = job[j].rows
      BY <1>0, <1>6, JobTypes DEF Store, Job
    <2>2. CASE j = priceJob
      BY <2>1, <2>2 DEF ShownInv, Follows
    <2>3. CASE j # priceJob
      BY <2>1, <2>3, NoJobType DEF ShownInv, Follows
    <2> QED BY <2>2, <2>3
  <1>7. ASSUME NEW j \in Jobs, Apply(j) \/ Fail(j) PROVE ShownInv'
    <2>1. priceJob' = None
      BY <1>0, <1>7 DEF Apply, Fail, Alone
    <2> QED BY <2>1, SummaryAssumption DEF ShownInv
  <1>8. ASSUME NEW j \in Jobs, Refresh(j) \/ SyncList(j) \/ Restart(j) PROVE ShownInv'
    <2>1. priceJob' = j /\ job'[j].rows = {}
      BY <1>8, NoJobType DEF Refresh, SyncList, Restart, Launch, Start
    <2> QED BY <2>1 DEF ShownInv, Follows
  <1>9. CASE UNCHANGED vars
    BY <1>1, <1>9 DEF vars, app
  <1>10. ASSUME NEW c \in Confirmations, Confirm(c) PROVE ShownInv'
    BY <1>1, <1>10 DEF Confirm, app
  <1>11. CASE EditList
    BY <1>1, <1>11 DEF EditList, app
  <1> QED BY <1>2, <1>3, <1>4, <1>5, <1>6, <1>7, <1>8, <1>9, <1>10, <1>11 DEF Next, Step

LEMMA ShownForward ==
    ASSUME AnswersInv, CacheInv, ShownInv, [Next]_vars
    PROVE  shown # None /\ shown' \notin {shown, None} /\ refreshes' = refreshes =>
             /\ shown'.content >= shown.content
             /\ \A row \in shown.rows, next \in shown'.rows :
                  row.receipt = next.receipt => next.revision >= row.revision
  <1> SUFFICES ASSUME shown # None, shown' \notin {shown, None}, refreshes' = refreshes
               PROVE  /\ shown'.content >= shown.content
                      /\ \A row \in shown.rows, next \in shown'.rows :
                           row.receipt = next.receipt => next.revision >= row.revision
    OBVIOUS
  <1>1. \E j \in Jobs : Apply(j)
    <2>1. refreshes \in Nat
      BY DEF AnswersInv, TypeOK
    <2>2. \A j \in Jobs : ~Refresh(j) /\ ~SyncList(j) /\ ~Restart(j)
      BY <2>1 DEF Refresh, SyncList, Restart, Launch
    <2>3. shown' # shown
      OBVIOUS
    <2> QED BY <2>2, <2>3 DEF Next, Step, vars, app, server, Confirm, EditList, ReadList, ReadItems,
           ReadPublished, ReadUnpublished, Statement, Label, Compare, Store, Fail
  <1>2. PICK j \in Jobs : Apply(j)
    BY <1>1
  <1>3. /\ job[j].phase = "stored" /\ shown' = AnswerOf(j)
        /\ ShouldApply(AnswerOf(j), known)
    BY <1>2 DEF Apply
  <1>4. shown'.content >= shown.content
    BY <1>3 DEF ShouldApply
  <1>5. Follows(j, shown.rows)
    BY <1>3 DEF CacheInv, Alone, ShownInv
  <1>6. /\ shown.rows \in SUBSET Row /\ job[j].rows \in SUBSET Row
        /\ AnswerOf(j).rows = job[j].rows
    BY JobTypes DEF AnswersInv, TypeOK, Answer
  <1>7. ASSUME NEW row \in shown.rows, NEW next \in shown'.rows, row.receipt = next.receipt
        PROVE  next.revision >= row.revision
    <2>1. next \in job[j].rows /\ row.revision <= next.revision
      BY <1>3, <1>5, <1>6, <1>7 DEF Follows
    <2>2. row.revision \in Nat /\ next.revision \in Nat
      BY <1>6, <1>7, <2>1, RowTypes
    <2> QED BY <2>1, <2>2
  <1> QED BY <1>4, <1>7

-----------------------------------------------------------------------------
(* The inductive invariant of what a job ends with                         *)

\* The view model's job reads the list the device knows or a newer one, and is
\* stamped after everything that is on the screen.
LatestInv ==
    /\ cache # None => cache.at <= stamps
    /\ shown # None => shown.at <= stamps
    /\ \A j \in Jobs : j = priceJob =>
         /\ job[j].phase \notin {"idle", "asked"} => known <= job[j].content
         /\ job[j].phase \in AnsweredPhases /\ shown # None => shown.at <= job[j].at
    /\ ShownOrFailed

LEMMA LatestTypes ==
    ASSUME TypeOK
    PROVE  /\ cache # None => cache.at \in Nat /\ cache.content \in Nat
           /\ shown # None => shown.at \in Nat /\ shown.content \in Nat /\ shown.pricesAt \in Nat
           /\ stamps \in Nat
  BY DEF TypeOK, Answer

\* The view model's job goes on, and keeps what it has or gets its label.
LEMMA RunKeepsLatest ==
    ASSUME TypeOK, LatestInv, NEW j \in Jobs, j = priceJob,
           \A i \in Jobs \ {j} : job'[i] = job[i],
           UNCHANGED <<known, cache, shown, failed, priceJob, refreshes>>,
           stamps' \in Nat, stamps' >= stamps, known <= job'[j].content,
           job'[j].phase \in AnsweredPhases =>
               \/ job'[j].at = stamps'
               \/ job[j].phase \in AnsweredPhases /\ job'[j].at = job[j].at
    PROVE  LatestInv'
  BY LatestTypes DEF LatestInv, ShownOrFailed

\* An answer that is not applied gives way to what is as good.
LEMMA ApplyKeepsLatest ==
    ASSUME AnswersInv, CacheInv, LatestInv, NEW j \in Jobs, Apply(j)
    PROVE  LatestInv'
  <1>1. /\ job[j].phase = "stored" /\ j = priceJob /\ priceJob' = None /\ failed' = FALSE
        /\ shown' = IF ShouldApply(AnswerOf(j), known) THEN AnswerOf(j) ELSE shown
        /\ UNCHANGED <<known, cache, stamps, refreshes>>
    BY DEF Apply, CacheInv, Alone
  <1>2. /\ known <= job[j].content
        /\ shown # None => shown.at <= job[j].at
        /\ job[j].at <= stamps
    BY <1>1 DEF LatestInv, CacheInv, Stamped, AnsweredPhases
  <1>3. /\ AnswerOf(j) \in Answer /\ AnswerOf(j).content = job[j].content
        /\ AnswerOf(j).at = job[j].at /\ job[j].content \in Nat /\ job[j].at \in Nat
        /\ known \in Nat /\ AnswerOf(j) # None
    BY JobTypes, SummaryAssumption, NoneAssumption DEF AnswersInv, TypeOK, BookInv
  <1>4. CASE ShouldApply(AnswerOf(j), known)
    <2>1. shown' = AnswerOf(j) /\ shown'.content = job[j].content /\ shown'.at = job[j].at
      BY <1>1, <1>3, <1>4
    <2>2. shown' # None /\ shown'.content >= known'
      BY <1>1, <1>2, <1>3, <2>1
    <2>3. shown'.at <= stamps'
      BY <1>1, <1>2, <2>1
    <2> QED BY <1>1, <2>2, <2>3, SummaryAssumption DEF LatestInv, ShownOrFailed
  <1>5. CASE ~ShouldApply(AnswerOf(j), known)
    <2>1. shown' = shown
      BY <1>1, <1>5
    <2>2. AnswerOf(j).content >= known
      BY <1>2, <1>3
    <2>3. /\ shown # None
          /\ \/ AnswerOf(j).content < shown.content
             \/ AnswerOf(j).at < shown.at
             \/ AnswerOf(j).content = shown.content
      BY <1>3, <1>5, <2>2, LatestTypes DEF ShouldApply, AnswersInv
    <2>4. shown.content >= known
      BY <1>2, <1>3, <2>2, <2>3, LatestTypes DEF AnswersInv
    <2> QED BY <1>1, <2>1, <2>3, <2>4, SummaryAssumption DEF LatestInv, ShownOrFailed
  <1> QED BY <1>4, <1>5

LEMMA LatestStep ==
    ASSUME AnswersInv, CacheInv, LatestInv, [Next]_vars
    PROVE  LatestInv'
  <1>0. TypeOK /\ stamps \in Nat /\ \A i \in Jobs : Alone(i)
    BY DEF AnswersInv, TypeOK, CacheInv
  <1>1. CASE UNCHANGED <<job, app, stamps>>
    BY <1>1 DEF LatestInv, ShownOrFailed, app
  <1>2. ASSUME NEW j \in Jobs, ReadList(j) PROVE LatestInv'
    <2>1. /\ job[j].phase = "asked" /\ job'[j].phase = "listed" /\ job'[j].content = content
          /\ \A i \in Jobs \ {j} : job'[i] = job[i]
          /\ UNCHANGED <<known, cache, shown, failed, priceJob, refreshes, stamps>>
      BY <1>0, <1>2, JobTypes DEF ReadList, Statement, Job, app
    <2>2. known <= content
      BY SummaryAssumption DEF AnswersInv, TypeOK, BookInv
    <2>3. job'[j].phase \notin AnsweredPhases /\ j = priceJob
      BY <1>0, <2>1 DEF AnsweredPhases, Alone
    <2> QED BY <1>0, <2>1, <2>2, <2>3, RunKeepsLatest
  <1>3. ASSUME NEW j \in Jobs, ReadItems(j) \/ ReadPublished(j) \/ ReadUnpublished(j)
        PROVE  LatestInv'
    <2>1. /\ job[j].phase \in ReadingPhases /\ job'[j].phase \in ReadingPhases
          /\ job'[j].content = job[j].content /\ \A i \in Jobs \ {j} : job'[i] = job[i]
          /\ UNCHANGED <<known, cache, shown, failed, priceJob, refreshes, stamps>>
      BY <1>0, <1>3, QueryStep
    <2>2. j = priceJob /\ known <= job[j].content /\ job'[j].phase \notin AnsweredPhases
      BY <1>0, <2>1 DEF Alone, LatestInv, ReadingPhases, AnsweredPhases
    <2> QED BY <1>0, <2>1, <2>2, RunKeepsLatest
  <1>4. ASSUME NEW j \in Jobs, Label(j) PROVE LatestInv'
    <2> DEFINE next == stamps + 1
    <2>1. /\ job[j].phase = "priced" /\ stamps' = next
          /\ job' = [job EXCEPT ![j] = [job[j] EXCEPT !.phase = "answered", !.pricesAt = ledger,
                                                     !.at = next]]
          /\ UNCHANGED <<known, cache, shown, failed, priceJob, refreshes>>
      BY <1>4 DEF Label, app
    <2>2. next >= stamps /\ next \in Nat
      BY <1>0
    <2> HIDE DEF next
    <2>3. /\ job'[j].content = job[j].content /\ job'[j].at = next
          /\ \A i \in Jobs \ {j} : job'[i] = job[i]
      BY <1>0, <2>1, JobTypes DEF Job
    <2>4. j = priceJob /\ known <= job[j].content
      BY <1>0, <2>1 DEF Alone, LatestInv
    <2>5. /\ UNCHANGED <<known, cache, shown, failed, priceJob, refreshes>>
          /\ stamps' \in Nat /\ stamps' >= stamps /\ job'[j].at = stamps'
          /\ known <= job'[j].content
      BY <2>1, <2>2, <2>3, <2>4
    <2>6. \A i \in Jobs \ {j} : job'[i] = job[i]
      BY <2>3
    <2> QED BY <1>0, <2>4, <2>5, <2>6, LatestTypes DEF LatestInv, ShownOrFailed
  <1>5. ASSUME NEW j \in Jobs, Compare(j) PROVE LatestInv'
    <2>1. /\ job[j].phase = "answered" /\ job'[j].content = job[j].content
          /\ job'[j].at = job[j].at /\ \A i \in Jobs \ {j} : job'[i] = job[i]
          /\ UNCHANGED <<known, cache, shown, failed, priceJob, refreshes, stamps>>
      BY <1>0, <1>5, JobTypes DEF Compare, Moves, Job, app
    <2>2. j = priceJob /\ known <= job[j].content /\ job[j].phase \in AnsweredPhases
      BY <1>0, <2>1 DEF Alone, LatestInv, AnsweredPhases
    <2> QED BY <1>0, <2>1, <2>2, RunKeepsLatest
  <1>6. ASSUME NEW j \in Jobs, Store(j) PROVE LatestInv'
    <2>1. /\ job[j].phase = "compared" /\ cache' = AnswerOf(j)
          /\ AnswerOf(j).at = job[j].at
          /\ UNCHANGED <<known, priceJob, shown, failed, stamps, refreshes>>
          /\ \A i \in Jobs \ {j} : job'[i] = job[i]
          /\ j = priceJob => job'[j].content = job[j].content /\ job'[j].at = job[j].at
      BY <1>0, <1>6, JobTypes DEF Store, Job
    <2>2. job[j].at <= stamps
      BY <2>1 DEF CacheInv, Stamped, AnsweredPhases
    <2> QED BY <2>1, <2>2 DEF LatestInv, ShownOrFailed, AnsweredPhases
  <1>7. ASSUME NEW j \in Jobs, Fail(j) PROVE LatestInv'
    BY <1>7, SummaryAssumption DEF Fail, LatestInv, ShownOrFailed
  <1>8. ASSUME NEW j \in Jobs, Refresh(j) \/ SyncList(j) \/ Restart(j) PROVE LatestInv'
    <2>1. /\ priceJob' = j /\ job'[j].phase = "asked" /\ UNCHANGED <<cache, stamps>>
          /\ shown' \in {None, shown, cache}
      BY <1>8, NoJobType, FromCacheIsHeld DEF Refresh, SyncList, Restart, Launch, Start
    <2>2. priceJob' # None
      BY <2>1, SummaryAssumption
    <2> QED BY <2>1, <2>2 DEF LatestInv, ShownOrFailed, AnsweredPhases
  <1>9. CASE UNCHANGED vars
    BY <1>1, <1>9 DEF vars
  <1>10. ASSUME NEW c \in Confirmations, Confirm(c) PROVE LatestInv'
    BY <1>1, <1>10 DEF Confirm
  <1>11. CASE EditList
    BY <1>1, <1>11 DEF EditList
  <1> QED BY <1>2, <1>3, <1>4, <1>5, <1>6, <1>7, <1>8, <1>9, <1>10, <1>11, ApplyKeepsLatest
          DEF Next, Step

-----------------------------------------------------------------------------
(* The theorems                                                            *)

\* What the proofs rest on: between any two statements of the summaries, their
\* answers are sound (shopping_list_price_summary_service.py, _summary).
THEOREM AnswersInductive == Spec => []AnswersInv
  <1>1. AnswersInv /\ [Next]_vars => AnswersInv'
    BY AnswersStep
  <1> QED BY <1>1, InitAnswers, PTL DEF Spec

\* And the answers that wait for the cache are in order
\* (PriceSummaryRepository.refresh, loadPrices).
THEOREM CacheInductive == Spec => []CacheInv
  <1>1. Init => CacheInv
    BY NoJobType DEF Init, CacheInv, Alone, Stamped, AheadOfCache, Ordered, Precedes,
                     AnsweredPhases
  <1>2. AnswersInv /\ CacheInv /\ [Next]_vars => CacheInv'
    BY CacheStep
  <1> QED BY <1>1, <1>2, AnswersInductive, PTL DEF Spec

\* Jobs, cache and screen keep their types (PriceSummaryCache, loadPrices).
THEOREM SummaryTypeCorrect == Spec => []TypeOK
  <1>1. AnswersInv => TypeOK
    BY DEF AnswersInv
  <1> QED BY <1>1, AnswersInductive, PTL

\* The labels of a summary hold of what it shows, on the server, in the cache
\* and on the screen (_summary).
THEOREM LabelsAreTrue == Spec => []LabelHolds
  <1>1. AnswersInv => LabelHolds
    BY AnswersHold
  <1> QED BY <1>1, AnswersInductive, PTL

\* Whatever is confirmed between the two queries, each line of a current
\* revision is read once (PriceObservationLoader.observations).
THEOREM NoPurchaseTwice == Spec => EachPurchaseOnce
  <1>1. AnswersInv /\ [Next]_vars =>
          [\A j \in Jobs : job[j].phase = "published" /\ job'[j].phase = "priced" =>
             {row \in job'[j].rows : row.revision = version[row.receipt]}
                = CurrentRows(job[j].items)]_vars
    BY PurchasesOnce
  <1> QED BY <1>1, AnswersInductive, PTL DEF Spec, EachPurchaseOnce

\* The cache never goes back, although it is compared and written in two steps
\* (PriceSummaryRepository.refresh).
THEOREM CacheNeverGoesBack == Spec => CacheMovesForward
  <1>1. AnswersInv /\ CacheInv /\ [Next]_vars =>
          [cache # None => cache'.content >= cache.content /\ cache'.at >= cache.at]_vars
    BY CacheForward
  <1> QED BY <1>1, AnswersInductive, CacheInductive, PTL DEF Spec, CacheMovesForward

\* And what is on the screen is read after what is in the cache or was on it
\* (loadPrices).
THEOREM ScreenInductive == Spec => []ShownInv
  <1>1. Init => ShownInv
    BY SummaryAssumption DEF Init, ShownInv
  <1>2. AnswersInv /\ CacheInv /\ ShownInv /\ [Next]_vars => ShownInv'
    BY ShownStep
  <1> QED BY <1>1, <1>2, AnswersInductive, CacheInductive, PTL DEF Spec

\* No refresh puts an older list or an older revision of a receipt on the
\* screen (shouldApply, loadPrices).
THEOREM ScreenNeverGoesBack == Spec => ShownMovesForward
  <1>1. AnswersInv /\ CacheInv /\ ShownInv /\ [Next]_vars =>
          [shown # None /\ shown' \notin {shown, None} /\ refreshes' = refreshes =>
             /\ shown'.content >= shown.content
             /\ \A row \in shown.rows, next \in shown'.rows :
                  row.receipt = next.receipt => next.revision >= row.revision]_vars
    BY ShownForward
  <1> QED BY <1>1, AnswersInductive, CacheInductive, ScreenInductive, PTL
          DEF Spec, ShownMovesForward

\* When no job runs, the screen has the prices of the list on the device or the
\* failure to fetch them (loadPrices).
THEOREM ShownOrSaid == Spec => []ShownOrFailed
  <1>1. Init => LatestInv
    BY SummaryAssumption DEF Init, LatestInv, ShownOrFailed
  <1>2. AnswersInv /\ CacheInv /\ LatestInv /\ [Next]_vars => LatestInv'
    BY LatestStep
  <1>3. LatestInv => ShownOrFailed
    BY DEF LatestInv
  <1> QED BY <1>1, <1>2, <1>3, AnswersInductive, CacheInductive, PTL DEF Spec

=============================================================================
