---------------------------- MODULE PriceSummary ----------------------------
(***************************************************************************)
(* The price summary of a shopping list, from the statements that the      *)
(* backend runs (services/shopping_list_price_summary_service.py,          *)
(* services/price_observations.py) to the answer that one device caches    *)
(* and displays (PriceSummaryRepository.kt, ShoppingListViewModel.kt).     *)
(* Confirmations are those of PriceBook, edits of the list only move its   *)
(* content_seq: both commit between any two statements of a summary.       *)
(***************************************************************************)
EXTENDS PriceBook, FiniteSets

CONSTANTS
    Confirmations, \* the revisions that the account's receipts get
    MaxContent,   \* content_seq the list can reach (a bound)
    ItemsAt,      \* the products on the list at each content_seq
    Jobs,         \* price jobs of the app, MaxRefreshes of them in a run
    MaxRefreshes, \* refreshes of the app (a bound)
    MaxFailures,  \* failed answers (a bound)
    None          \* no answer, no job

\* A revision has lines, and prices for those that are qualified.
Revision == [receipt : Receipts, revision : 1..MaxVersion,
             lines : SUBSET Lines, priced : SUBSET Lines]

ASSUME SummaryAssumption ==
    /\ Confirmations \subseteq Revision
    /\ \A c \in Confirmations : c.priced \subseteq c.lines
    /\ MaxVersion \in Nat \ {0}
    /\ MaxContent \in Nat /\ MaxRefreshes \in Nat /\ MaxFailures \in Nat
    /\ ItemsAt \in [0..MaxContent -> SUBSET Lines]
    /\ None \notin Jobs

VARIABLES
    lines,     \* the lines of each receipt's current revision
    answeredAt, \* the price_data_version that each confirmation was answered with
    content,   \* shopping_lists.content_seq
    known,     \* the device's copy of it
    job,       \* what each price job has read and received
    priceJob,  \* the job the view model has not cancelled
    cache,     \* the row of price_summary_cache
    shown,     \* the summary on the screen
    failed,    \* priceFetchFailed
    stamps,    \* answers computed so far: the clock of calculated_at
    refreshes, \* refreshes so far
    failures   \* failures so far

server == <<version, prices, ledger, lines, answeredAt, content>>
app == <<known, priceJob, cache, shown, failed, refreshes>>
vars == <<server, job, app, stamps, failures>>

\* A line of a revision stands for the product it names: an observation with
\* its price, or a line of the revision that may lack one.
Row == [receipt : Receipts, revision : 1..MaxVersion, line : Lines, ranked : BOOLEAN]
Key(row) == <<row.receipt, row.revision, row.line>>
Answer == [content : 0..MaxContent, rows : SUBSET Row, pricesAt : Nat, at : Nat]
ASSUME NoneAssumption == None \notin Answer

Job == [phase : {"idle", "asked", "listed", "itemed", "published", "priced",
                 "answered", "compared", "stored"},
        content : 0..MaxContent, items : SUBSET Lines, rows : SUBSET Row,
        pricesAt : Nat, at : Nat]
NoJob == [phase |-> "idle", content |-> 0, items |-> {}, rows |-> {}, pricesAt |-> 0, at |-> 0]
AnswerOf(j) == [content |-> job[j].content, rows |-> job[j].rows,
                pricesAt |-> job[j].pricesAt, at |-> job[j].at]

\* Receipts without a revision, or with the unranked lines of a backfilled one.
Init ==
    /\ version \in [Receipts -> 0..1]
    /\ prices = [r \in Receipts |-> {0} \X (IF version[r] = 1 THEN Lines ELSE {})]
    /\ lines = [r \in Receipts |-> IF version[r] = 1 THEN Lines ELSE {}]
    /\ answeredAt = [r \in Receipts |-> [n \in 1..MaxVersion |-> 0]]
    /\ ledger = 1
    /\ content = 0 /\ known = 0
    /\ job = [j \in Jobs |-> NoJob]
    /\ priceJob = None /\ cache = None /\ shown = None /\ failed = FALSE
    /\ stamps = 0 /\ refreshes = 0 /\ failures = 0

-----------------------------------------------------------------------------
(* The server                                                              *)

\* Another device confirms or corrects a receipt (ReceiptRevisions).
Confirm(c) ==
    /\ c.revision = version[c.receipt] + 1
    /\ Publish(c.receipt, c.priced)
    /\ lines' = [lines EXCEPT ![c.receipt] = c.lines]
    /\ answeredAt' = [answeredAt EXCEPT ![c.receipt] = [@ EXCEPT ![c.revision] = ledger + 1]]
    /\ UNCHANGED <<content, job, app, stamps, failures>>

\* Another device edits the list (ListServer).
EditList ==
    /\ content < MaxContent
    /\ content' = content + 1
    /\ UNCHANGED <<version, prices, ledger, lines, answeredAt, job, app, stamps, failures>>

\* One statement of the request of job j.
Statement(j, from, next) ==
    /\ job[j].phase = from
    /\ job' = [job EXCEPT ![j] = next]
    /\ UNCHANGED <<server, app, stamps, failures>>

ReadList(j) ==
    Statement(j, "asked", [job[j] EXCEPT !.phase = "listed", !.content = content])

ReadItems(j) ==
    Statement(j, "listed", [job[j] EXCEPT !.phase = "itemed", !.items = ItemsAt[content]])

\* A plausible bug: v1's observations are read as well.
PublishedWithLegacy(items) ==
    UNION {{[receipt |-> r, revision |-> o[1], line |-> o[2], ranked |-> TRUE] :
                o \in {p \in prices[r] : p[2] \in items}} : r \in Receipts}

\* The observations in force; v1's are in a table that this query does not read.
PublishedRows(items) ==
    UNION {{[receipt |-> r, revision |-> o[1], line |-> o[2], ranked |-> TRUE] :
                o \in {p \in prices[r] : p[1] > 0 /\ p[2] \in items}} : r \in Receipts}

ReadPublished(j) ==
    Statement(j, "itemed",
        [job[j] EXCEPT !.phase = "published", !.rows = PublishedRows(job[j].items)])

\* Every line of the current revision of a confirmed receipt, with its reasons.
CurrentRows(items) ==
    UNION {{[receipt |-> r, revision |-> version[r], line |-> l,
             ranked |-> <<version[r], l>> \in prices[r]] : l \in lines[r] \cap items}
           : r \in {s \in Receipts : version[s] > 0}}

\* A plausible bug: line IDs are taken as unique across receipts.
UnseenByLine(rows, seen) == {row \in rows : \A other \in seen : other.line # row.line}

Unseen(rows, seen) == {row \in rows : \A other \in seen : Key(other) # Key(row)}

ReadUnpublished(j) ==
    Statement(j, "published", [job[j] EXCEPT !.phase = "priced",
        !.rows = @ \cup Unseen(CurrentRows(job[j].items), @)])

\* A plausible bug: the list row is read again when the answer is built.
LabelReread(j) ==
    /\ job[j].phase = "priced"
    /\ stamps' = stamps + 1
    /\ job' = [job EXCEPT ![j] = [@ EXCEPT !.phase = "answered", !.content = content,
                                           !.pricesAt = ledger, !.at = stamps + 1]]
    /\ UNCHANGED <<server, app, failures>>

\* price_data_version is read when the answer is built, then it is stamped.
Label(j) ==
    /\ job[j].phase = "priced"
    /\ stamps' = stamps + 1
    /\ job' = [job EXCEPT ![j] =
                [@ EXCEPT !.phase = "answered", !.pricesAt = ledger, !.at = stamps + 1]]
    /\ UNCHANGED <<server, app, failures>>

-----------------------------------------------------------------------------
(* The app                                                                 *)

\* shouldApply: nothing older than the list on the device or the screen.
ShouldApply(answer, local) ==
    /\ answer.content >= local
    /\ shown # None =>
         /\ answer.content >= shown.content
         /\ answer.at >= shown.at
         /\ answer.content = shown.content => answer.pricesAt >= shown.pricesAt

\* A plausible bug: the job before is left running.
StartBeside(j) == [job EXCEPT ![j] = [NoJob EXCEPT !.phase = "asked"]]

\* The job before is cancelled; a write of it to the cache that Room has begun ends.
Start(j) ==
    [i \in Jobs |->
        IF i = j THEN [NoJob EXCEPT !.phase = "asked"]
        ELSE IF i = priceJob /\ job[i].phase # "compared" THEN NoJob
        ELSE job[i]]

FromCache(local) ==
    IF cache = None THEN shown
    ELSE IF ShouldApply(cache, local) THEN cache ELSE shown

\* refreshPrices: loadPrices in a new job, which applies the cached summary first.
Launch(j) ==
    /\ refreshes < MaxRefreshes
    /\ job[j].phase = "idle"
    /\ refreshes' = refreshes + 1
    /\ priceJob' = j
    /\ UNCHANGED <<server, cache, stamps, failures>>

\* The user asks for the prices.
Refresh(j) ==
    /\ Launch(j)
    /\ job' = Start(j)
    /\ shown' = FromCache(known)
    /\ UNCHANGED <<known, failed>>

\* A sync brings a new content_seq to the device: observeList refreshes.
SyncList(j) ==
    /\ known < content
    /\ Launch(j)
    /\ known' = content
    /\ job' = Start(j)
    /\ shown' = FromCache(content)
    /\ UNCHANGED failed

\* The app restarts: Room keeps the list and the cache, the first row refreshes.
Restart(j) ==
    /\ refreshes < MaxRefreshes
    /\ refreshes' = refreshes + 1
    /\ priceJob' = j
    /\ job' = [i \in Jobs |-> IF i = j THEN [NoJob EXCEPT !.phase = "asked"] ELSE NoJob]
    /\ failed' = FALSE
    /\ shown' = IF cache = None THEN None ELSE IF cache.content >= known THEN cache ELSE None
    /\ UNCHANGED <<server, known, cache, stamps, failures>>

Stale(answer) ==
    cache # None /\ (answer.content < cache.content \/ answer.at < cache.at)

Moves(j, phase) == job' = [job EXCEPT ![j].phase = phase]

\* refresh reads the cached row ...
Compare(j) ==
    /\ job[j].phase = "answered"
    /\ Moves(j, IF Stale(AnswerOf(j)) THEN "stored" ELSE "compared")
    /\ UNCHANGED <<server, app, stamps, failures>>

\* A plausible bug: writes to the cache run in any order.
StoreAnyOrder(j) ==
    /\ job[j].phase = "compared"
    /\ cache' = AnswerOf(j)
    /\ job' = [job EXCEPT ![j] = IF j = priceJob THEN [@ EXCEPT !.phase = "stored"] ELSE NoJob]
    /\ UNCHANGED <<server, known, priceJob, shown, failed, stamps, refreshes, failures>>

\* ... and replaces it; Room's writes run in the order they were asked for.
Store(j) ==
    /\ job[j].phase = "compared"
    /\ \A i \in Jobs \ {j} : job[i].phase = "compared" => job[i].at > job[j].at
    /\ cache' = AnswerOf(j)
    /\ job' = [job EXCEPT ![j] = IF j = priceJob THEN [@ EXCEPT !.phase = "stored"] ELSE NoJob]
    /\ UNCHANGED <<server, known, priceJob, shown, failed, stamps, refreshes, failures>>

\* loadPrices applies the answer and clears the failure.
Apply(j) ==
    /\ job[j].phase = "stored"
    /\ shown' = IF ShouldApply(AnswerOf(j), known) THEN AnswerOf(j) ELSE shown
    /\ failed' = FALSE
    /\ priceJob' = IF j = priceJob THEN None ELSE priceJob
    /\ job' = [job EXCEPT ![j] = NoJob]
    /\ UNCHANGED <<server, known, cache, stamps, refreshes, failures>>

\* A plausible bug: an error of the server ends the job as an answer does.
FailQuietly(j) ==
    /\ j = priceJob
    /\ failures < MaxFailures
    /\ failures' = failures + 1
    /\ priceJob' = None
    /\ job' = [job EXCEPT ![j] = IF @.phase = "compared" THEN @ ELSE NoJob]
    /\ UNCHANGED <<server, known, cache, shown, failed, stamps, refreshes>>

\* A statement fails (503), the list is gone (404), or 15 seconds pass.
Fail(j) ==
    /\ j = priceJob
    /\ failures < MaxFailures
    /\ failures' = failures + 1
    /\ failed' = TRUE
    /\ priceJob' = None
    /\ job' = [job EXCEPT ![j] = IF @.phase = "compared" THEN @ ELSE NoJob]
    /\ UNCHANGED <<server, known, cache, shown, stamps, refreshes>>

Step(j) ==
    \/ ReadList(j)
    \/ ReadItems(j)
    \/ ReadPublished(j)
    \/ ReadUnpublished(j)
    \/ Label(j)
    \/ Compare(j)
    \/ Store(j)
    \/ Apply(j)

Next ==
    \/ \E c \in Confirmations : Confirm(c)
    \/ EditList
    \/ \E j \in Jobs : Step(j) \/ Refresh(j) \/ SyncList(j) \/ Restart(j) \/ Fail(j)

Spec == Init /\ [][Next]_vars
-----------------------------------------------------------------------------
(* Properties                                                              *)

\* What jobs, cache and screen hold has its type: no line without a revision among them.
TypeOK ==
    /\ job \in [Jobs -> Job]
    /\ cache \in Answer \cup {None} /\ shown \in Answer \cup {None}
    /\ priceJob \in Jobs \cup {None} /\ failed \in BOOLEAN
    /\ known \in 0..content
    /\ stamps \in Nat /\ refreshes \in Nat

Answers == {AnswerOf(j) : j \in {i \in Jobs : job[i].phase \in {"answered", "compared", "stored"}}}
           \cup ({cache, shown} \ {None})

\* A summary that shows a line of a confirmation is labelled with a
\* price_data_version at least as high as that confirmation was answered with
\* (_summary reads the ledger last).
LabelCoversPrices ==
    \A answer \in Answers : \A row \in answer.rows :
        answer.pricesAt >= answeredAt[row.receipt][row.revision]

\* The lines of a summary are the list's at its content_revision or later, so
\* that a device which knows a newer list refuses it (_summary reads the row first).
LinesCoverContent ==
    \A j \in Jobs : job[j].phase \notin {"idle", "asked", "listed"} =>
        \E c \in job[j].content..MaxContent : job[j].items = ItemsAt[c]

\* The label a summary carries is true of it: the prices it shows are those of
\* the price_data_version it names or newer ones, and its lines those of the
\* list version it names or of a newer one.
LabelHolds ==
    /\ LabelCoversPrices
    /\ LinesCoverContent

\* Every line of a current revision is in the summary once, ranked if it has a
\* price in force, whatever was confirmed between the two queries
\* (PriceObservationLoader.observations).
EachPurchaseOnce ==
    [][\A j \in Jobs : job[j].phase = "published" /\ job'[j].phase = "priced" =>
        {row \in job'[j].rows : row.revision = version[row.receipt]}
            = CurrentRows(job[j].items)]_vars

\* No summary on the screen gives way to an older one: not to one of an older
\* list, and not to one with an older revision of a receipt (shouldApply and the
\* cancelled job; docs/produktspesifikasjoner-2026-09-11.md:53).
ShownMovesForward ==
    [][shown # None /\ shown' \notin {shown, None} /\ refreshes' = refreshes =>
        /\ shown'.content >= shown.content
        /\ \A row \in shown.rows, next \in shown'.rows :
             row.receipt = next.receipt => next.revision >= row.revision]_vars

\* The cached summary is never replaced by one computed before it, although it
\* is read and replaced in two steps (PriceSummaryRepository.refresh).
CacheMovesForward ==
    [][cache # None => cache'.content >= cache.content /\ cache'.at >= cache.at]_vars

\* When no job runs, the screen has the prices of the list on the device or says
\* that they could not be fetched (loadPrices).
ShownOrFailed ==
    refreshes > 0 /\ priceJob = None =>
        failed \/ (shown # None /\ shown.content >= known)

=============================================================================
