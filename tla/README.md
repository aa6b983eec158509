# Prislapp in TLA+

Prislapp is an Android app with a FastAPI/PostgreSQL backend. A user photographs
receipts, the backend recognises them in a Celery worker, the user reviews and
confirms the result, and the confirmed prices feed shopping lists that are edited
offline and synchronised. This directory holds a specification of the parts of it
that are hard to test: TLA+ modules, TLC configurations and TLAPS proofs. Paths
below are relative to `src/`; `app/` stands for `backend/app/`.

## 1. Inventory

| Component | State | Operations | Interacts with | Module |
|---|---|---|---|---|
| OCR job outbox and worker (`app/services/ocr_outbox.py`, `app/worker/`) | `job_outbox` rows: status, attempt, lease, count | enqueue, publish, reconcile, claim, complete, fail | receipts (same rows), Celery broker, scheduler | `OcrOutbox` |
| Receipts v1 (`app/services/receipt_service.py`) | `receipts.status`, image, lines | upload, retry, confirm, delete, expire images | outbox, storage | `OcrOutbox` (status and image) |
| Receipt revisions v2 and ledger (`app/services/receipt_revision_service.py`) | revisions, mutation keys, observations, ledger version | save draft, confirm, correct | price pages, summary | `ReceiptRevisions`, `PriceBook` |
| Shopping lists, server (`app/services/shopping_list_service.py`) | lists, lines, tombstones, applied mutations, account sequence | create, patch, delete, copy, batch sync, delta | Android client | `ListServer` |
| Shopping lists, Android (`ShoppingListRepository.kt`, DAOs, sync worker) | rows in Room, mutation outbox, conflicts, cursor | edits, sync, apply, resolve | server | `ListClient` |
| Price summary (`shopping_list_price_summary_service.py`, `PriceSummaryRepository.kt`, `ShoppingListViewModel.kt`) | cached summary with its versions | compute, cache, show | lists, ledger | `PriceSummary` |
| Pricing, units, money (`app/domain/`) | none | evaluate a line, normalise, round, rank | price page, revisions | `Pricing` |
| Product prices (`product_price_v2_service.py`, `price_history.py`) | observations and unpublished lines | lowest, latest, history by page | revisions | `ProductPrices` |
| Private catalogue and backfills (`private_catalog_backfill.py`, `receipt_revision_backfill.py`) | products, aliases, stores, first revisions | one run per upgrade | migrations | `Catalogue`, `Deployment` |
| Migrations (`backend/scripts/run_migrations.py`) | schema, `alembic_version`, advisory lock | lock, detect, stamp, upgrade | the release before | `Deployment` |
| Receipt upload (Android), sessions, OCR and parsers, image checks, rate limits, UI | see `PROJECT.json` | | | not modelled (section 6) |

What makes them hard, and the property that makes each correct:

- **Outbox and worker**: processes, a broker that loses and repeats messages,
  leases that expire under a running worker, handlers that read a status without a
  lock. Correct when no waiting receipt is without a job, at most one worker can
  save, no result lands on a reviewed receipt, a confirmed receipt stays confirmed,
  a deleted account is not revived, and every receipt and row ends. The code falls
  short of the first, third and fourth in ways that the properties name.
- **Revisions**: two devices confirm or correct one receipt, retries overlap, and
  each transaction is ten statements at READ COMMITTED. Correct when confirmed
  revisions are numbered without a gap and never change, only the latest one has
  prices, a key has one answer, and readers see a confirmation whole or not at all.
  Two lookups without a lock break the second and the last of these: findings 2 and 3.
- **Shopping lists, server**: concurrent transactions with version checks before the
  lock that orders changes. Correct when a client that follows its cursor misses no
  change, a mutation is applied once, a tombstone is final, and a stale version is a
  conflict (finding 1: it need not be).
- **Shopping lists, Android**: lost answers, process death, edits while a request is
  out, merged patches that keep their mutation key, rows skipped because they carry
  an edit. Correct when every edit is applied or shown as a conflict, none
  disappears, and a device that is done shows what the server has.
- **Price summary**: answers computed in five statements while others confirm and
  edit, and that arrive in any order. Correct when a summary never claims to be newer
  than it is, counts a purchase once, and never replaces a newer one.
- **Prices of a product**: decimals, rounding, unknown fields, lines of one
  receipt without a time, a cursor over a list that changes. Correct when a price is
  the one a person would compute, "lowest" and "latest" never rest on what is
  unknown, and a history turned page by page shows each purchase once.
- **Upgrade**: several containers start, any of them dies at any point, the schema may
  have been made by `create_all`, and the release before keeps confirming and deleting. Correct
  when no migration runs twice, the receipts found have the data of every migration
  after the revision found, a database that is not understood is left alone, and all
  containers serve in the end.

`PROJECT.json` lists every hazard with its line and the properties that cover it.

## 2. Modules

| Module | Models | Depends on |
|---|---|---|
| `OcrOutbox` | outbox, worker, v1 receipt handlers, broker, scheduler, faults | |
| `PriceBook` | abstract: what confirmations promise the readers of prices | |
| `ReceiptRevisions` | drafts, confirmations and corrections, statement by statement | refines `PriceBook` |
| `PriceSummary` | a summary's statements, the device's cache, the view model's jobs | extends `PriceBook` |
| `Pricing` | operators: normalisation, rounding, price, basis, reasons | |
| `ProductPrices` | a product's price page while receipts are confirmed and corrected | extends `Pricing` |
| `Catalogue` | operators: the catalogue that migration 005 builds | |
| `Deployment` | containers that migrate one database | extends `Catalogue` |
| `ListServer` | shopping lists of one account: transactions, replay, sequence, sync | |
| `ListClient` | the device's rows, outbox, conflicts and sync worker, with a server of one step per request | |
| `MC*` | the requests, lines and databases of the runs; symmetry | the module they name |
| `OcrOutboxProofs`, `ListServerProofs`, `ReceiptRevisionsProofs`, `PriceSummaryProofs`, `ListClientProofs`, `ProductPricesProofs`, `DeploymentProofs` | inductive invariants and theorems | the module they name, `TLAPS` |
| `FiniteFacts` | lemmas: induction by sets, greatest elements, sorted listings, folds | `TLAPS`, extended by the last three proofs |

How they fit together. `PriceBook` is the interface between those who write prices
and those who read them: a confirmation is one step `Publish` that raises the receipt's
version, replaces its prices and moves the ledger. `ReceiptRevisions` has the ten
statements of that transaction and implements the book (checked by TLC and proved);
`PriceSummary` uses the book's `Publish` as the writer, so what it shows of the
readers holds for the statements below too, until a confirmation writes the ledger over
the value of another (`overtaken`, finding 2): the book's ledger moves by one.
`ListClient` needs of the server what `ListServer` shows of it: applied once,
versions compared, a delta that misses nothing. There it is one step per request, since
`ListServer` has its statements. The outbox shares only receipt IDs with the others.

### OcrOutbox

*State.* `receipt` is the status column ("NONE" without a row), `image` the object
and the `image_path` column, `job` the rows of `job_outbox`, `queue` the receipts
with a `process_receipt` message, `alive` the absence of `users.deleted_at`. What a
process holds between two of its steps is in `worker` (the claimed attempt) and
`session` (an API handler or a reconciler run: which receipt, which row it found,
which status it read).

*Steps.* One step is one database transaction, or the part of a handler up to the
next point at which another process can make a difference. So `retry_receipt` is
`RetryBegin` (the status check on a row read without a lock), `RetryFind` (the UPDATE,
which autoflush sends before the SELECT that looks for an active job without a lock),
`RetryCommit` (the INSERT of a new row, if none was found, and the commit), then
`SelectForReceipt`, `Deliver`, `Refresh`, `Stamp`: the four parts of
`publish_pending_for_receipt` and `_try_publish`, of which the last is an UPDATE by
primary key and overwrites whatever the row has become. An upload is `UploadBegin` and
`UploadCommit` in the same way, and a worker that enqueues for a receipt from before the
outbox `ClaimNothing`, `FindMissing` and `InsertMissing`. The UPDATE of a retry holds the
receipt's row until its commit (`Locked`): whoever would write another status waits. `claim_ocr_job`
holds the row lock from the SELECT to the commit and is one step, with one action
per outcome (`ClaimNothing`, `ClaimLeased`, `ClaimClosed`, `Claim`); so are
`complete_ocr_result` (`SaveResult`) and `fail_ocr_job` (`FailAttempt`).

*Abstractions.*
- All receipts belong to one account; accounts share no row.
- `attempt_id` is a fresh UUID; the model names an attempt `<<row, attempt_count>>`,
  which is as unique because the count grows in the same transaction.
- The broker is a set of receipts: delivery may leave the message in place
  (at least once), `LoseMessage` removes it, order is not kept.
- A batch of `reconcile_job_outbox` is one publication per row. Rows skipped for
  their age are rows selected later; an error in the middle is `SessionDies`.
- A lease is live or over; `LeaseExpires` is the passing of 300 s, at any moment.
- OCR is its outcome: a text, no text, another error. A missing image is an error.
- A `DELETE` that fails on the foreign key of lines saved in between is a
  nondeterministic outcome of `DeleteCommit`; lines themselves are not modelled.
- A row deleted while `claim_ocr_job` holds its job makes that claim raise; the row
  and the job are then as before, which is a claim that has not happened yet.

*What the code leaves open.* No timing is assumed: handlers are as slow as they like and
any number of them overlap. What then goes wrong is in the model, and each property says
in which case it does not hold:
1. An upload or a retry relies on an active row that it found without a lock
   (`ocr_outbox.py:52`) and that a worker closes before the commit: the receipt waits for
   ever. An upload meets it after a deletion left a queued job, a retry after a late stamp
   reopened a closed row; for a retry the window is narrow, since a worker that would write
   another status waits for its lock. `NoOrphan` admits exactly this step (`ReliesOnClosed`),
   and `Settles` the receipt that it leaves.
2. A retry that read FAILED writes UPLOADED over a receipt that has meanwhile been read again
   and reviewed (`receipts.py:266-273`), also over a confirmed one; a confirmation that read
   READY_FOR_REVIEW writes over one that a retry has sent back; a stamp reopens a row closed
   by a permanent failure with its old attempt. `overrun` collects the receipts to which one
   of these happened. `ConfirmedKept` excepts the step that does it and both `ConfirmedKept`
   and `NoDoubleResult` the receipt from then on; for all others they hold without
   a condition. `TypeOK`, `FenceExclusive` and `DeletedAccountFenced` hold of all.
Two details are simpler than the code: after the worker has enqueued, the receipt that its
second claim looks at is read afresh (in the code the object may still be the one loaded
before), and no receipt from before the outbox is PROCESSING at the start.

*Bounds.* `Jobs` bounds the rows ever inserted (`Room` keeps an upload or a retry
from starting without one), `MaxAttempts` is the code's setting, `MaxFaults` bounds
crashes, lost messages, failed transactions and dead handlers together.

### ReceiptRevisions and PriceBook

*State.* The columns of `receipts` that a revision writes, `receipt_revisions` with
their lines, the observations with `is_current`, `account_ledgers.price_data_version`
and the stored answers of `receipt_mutations`; `tx` is what each request's open
transaction has read and written. `PriceBook` has three variables: the version, the
prices and the ledger of an account, as readers see them.

*Steps.* `Begin` is the advisory lock on the mutation key, the replay lookup and the
checks of `_apply` on rows read without a lock. Then one action per statement that
others can see or wait for: `FindDraft`, `InsertRevision` or `ClearLines` and
`OverwriteDraft` and `WriteLines`, `ReadLedger`, `OpenLedger` for an account without a row,
`Withdraw`, `PublishPrices`, `BumpLedger`, and `CommitDraft` or `CommitConfirmation`. What is
written becomes visible at the commit, and a statement waits while another open transaction
holds the row or the unique key; what a statement without a lock has read may be
stale when it is used. `Conflict` (a committed row with the same unique key), `EndDeadlock`
and `Crash` leave nothing. A line and an observation are named by the request that
inserted them and their line ID, so a DELETE reaches the rows that it saw and no later ones.

*The abstract specification.* `ImplementsBook` states that `ReceiptRevisions` implements
`PriceBook` under the mapping version ← `receipt.version`, prices ← the current
observations, ledger ← the ledger readers see (1 for an account without a row). Every
statement is a stutter and the commit of a confirmation is `Publish`, up to the first commit
that writes over a revision or over the ledger (`NothingLost`).

*What the code leaves open.* Nothing orders two transactions but the locks that the code takes,
and two of its lookups take none. A draft found (`receipt_revision_service.py:571`) may be
confirmed, or saved by another, before it is overwritten: `overwritten` collects the receipts
where a commit put lines and columns over a confirmed revision, or confirmed a mix of its own and
another's. The ledger value (`:758`) is written plus one over whatever it has become:
`overtaken`. `RevisionsStand` and `CurrentIsLatest` speak of receipts not in `overwritten`,
the half of `AnswersStand` about distinct versions of behaviours before `overtaken`; `TypeOK`,
the half about one answer per key and `Finishes` hold of all. That the code does get there is
what `revisions_overwrite` and `revisions_overlap` show.

*Abstractions.* A request's content is which lines it has, which carry a comparison
price, whether the store is known and how the sum compares with the printed total; the
payload hash is the request itself. A request refused before it writes changes nothing
and is no step. A duplicate revision row or line is met at a flush, which lies outside the
`try` around the commit that maps it to VERSION_CONFLICT: the request is answered as a server
error, against the comment at `:409-412`; the state afterwards is that of `Conflict`. (Read in
the code, not shown by a run.)

### PriceSummary

*State.* The book's variables, the lines of each current revision, `content`
(`shopping_lists.content_seq`) and the device's copy `known`; `job` is what each price
job has read so far, `priceJob` the one the view model has not cancelled, `cache` the
row of `price_summary_cache`, `shown` and `failed` the screen.

*Steps.* A summary is `ReadList`, `ReadItems`, `ReadPublished`, `ReadUnpublished`, and
`Label`, statements of one transaction at READ COMMITTED: others confirm (`Confirm`, a
`Publish` of the book) and edit the list between any two. The device compares an answer
with its cache (`Compare`, `PriceSummaryRepository.kt`), replaces it (`Store`), and the
view model shows it if the job was not cancelled meanwhile (`Apply`). `Refresh`,
`SyncList` and `Restart` start a job and cancel the one before; `Fail` ends one.

*Abstractions.* A product is a line ID; which price of a product is lowest is
`ProductPrices`' matter. The summary's two statements may keep the replaced revision's
price in one answer; the label then is older than the book, and the next refresh
replaces it.

### Pricing and ProductPrices

`Pricing` has the domain functions as operators, `Unknown` for null. The API takes
quantities and amounts with any number of decimals (`schemas/v2.py:14-31`), so both are
counted in parts of a thousandth and of an øre, `Finer` of them to each. Grams and
millilitres are rounded to thousandths of a kg or litre (`units.py`), other quantities and
all amounts pass as they were printed; the price is rounded at its sixth decimal
(`money.py`), both ROUND_HALF_UP. Then come the basis and the reasons that keep a line
out of a ranking (`pricing.py`). In `ProductPrices` a receipt is drafted, confirmed and
corrected (`_qualify`, `_publish_prices`), each row gets an ID in no particular order,
and a client reads the page (`product_price_v2_service.py`): lowest per basis,
latest prices, and the history with a keyset cursor, while rows come and go. A page is
one snapshot here. `PricedRight` multiplies the price by the quantity that was printed and
bounds by how much it may miss the amount: half a millionth per unit for the price, and the
price of half a gram for grams and millilitres, the only quantities that are rounded. It
compares a line in grams with the same line in kilos: equal for whole grams, else apart
by no more than that (500.5 g is priced as 0.501 kg, 0.5005 kg as it is), and a quantity that
rounds to nothing has a price in one of the two only. The draft under review ranges over
every combination of 8 quantities, all units, 5 amounts, conditions and identities, one field
edited at a time.

### Catalogue and Deployment

`Catalogue` folds the confirmed lines of v1, in the order of their IDs, into products and
aliases (`private_catalog_backfill.py`). In `Deployment` an object of the schema is
`<<table, revision>>`, so that tables made by `create_all` of any release, partly
upgraded or torn databases can be told apart. A container waits for
`pg_advisory_lock` (`TakeLock`), reads the version (`ReadVersion`), detects the
revision of a schema without one (`DetectRevision`), stamps it (`Stamp`) and runs the
remaining migrations in alembic's one transaction (`Migrate`, one step per revision and
`MigrateOwners` for the later statements of 005, committed by `Commit`).
`Confirm` and `Delete` are the release before confirming and deleting a v1 receipt, which the
ALTER TABLE locks of revisions 6, 7, 10, 11 and 12 hold up, and a deletion also the rows that
004 has rewritten; the backfill of 005 reads the lines (`FillCatalogue`) and later the
receipts (`FillOwners`), and what was read first stays with the transaction. `Crash` ends a
container anywhere.

Three things the model shows and leaves as they are. A rerun of the catalogue backfill makes
and moves nothing, but overwrites counts and dates if a text is known both with a global
product and without (`private_catalog_backfill.py:3` calls it idempotent without that);
`RerunChangesNothing` states both. A schema that `create_all` made is stamped at the newest
revision whose tables it has, and the data steps up to there are never run for it, that of
004 neither, although `run_migrations.py:352` has data migrations run again; `DataMigrated`
says which data a database gets by the revision at which it was found. And receipts
confirmed by the old release after the commit of 005 or 007 never enter the catalogue or the
revisions. The lock session may be cut while alembic runs (`run_migrations.py:529`), which
is not modelled.

### ListServer

*State.* `db` is what is committed: the account's sequence, the list and item rows,
and `shopping_list_mutations` (`log`). `work` is `db` with what the one open
transaction that has written sees on top of it; `owner` is that transaction's
session. There is at most one, because the first write of every mutation is
`_next_sequence`, whose row lock lasts until the end of the transaction. `session`
holds, for each database session, where it is, the mutations still to do, its
advisory locks and what it has read; `device` what an installation stored.

*Steps.* A mutation is `Lock` (`_lock_mutation` and `_replay`), `ReadList`,
`ReadItem` (the checks of its handler), `Write` (wait for the sequence row, write all
rows, `_record`). `MutationRejected` rolls back a savepoint and is the other outcome
of the two reads. `Clash` is an INSERT under an ID that another transaction took
since the check: an IntegrityError outside `MutationRejected`, which ends the whole
request. A REST route is a batch of one. After `Commit` a sync is answered by
`ReadSequence`, `ReadLists` and `Answer`, in which the lines are read and the device
stores the result; others may commit between any two of these. `GiveUp` is a client
that stops waiting, `Abort` the death of a process, a lost connection or a deadlock
victim.

*What each statement sees.* The isolation level is READ COMMITTED: a statement reads
what is committed when it runs, plus what its own transaction wrote (`View`). An
UPDATE writes only the columns that differ from what was read and computes the
version from the row as read, so `PatchedList` and `PatchedItem` take both the row as
it is now and the row as it was read.

*Abstractions.*
- A row's content is named by the sequence number it was stamped with; beside it are
  the columns that a handler branches on (status, tombstone, version, list).
- A missing, expired or foreign cursor is 0, which gives a snapshot: every row has a
  stamp above 0, so the delta since 0 is all rows. Such a request replays no mutation.
- Names, quantities, products and receipts are not modelled: a mutation that carries
  one may be refused for it (`MayBeInvalid`).
- Two checks of one handler on the same table are one statement where no other
  transaction could tell them apart (the free ID and the count of `_create_item`).
- A sync is not paged, so one answer holds the whole delta. The paged REST listing,
  which changes nothing and whose cursor is no sync cursor, is left out; so are order, positions and the
  content of conflict answers.
- A row that a session has read before in the same transaction is taken to be read
  fresh from the database when a later mutation of the batch reads it.
- The unique constraint on mutation keys cannot be hit while the advisory lock works.

*Bounds.* `MaxLines` bounds the lines copied at once. Nothing else is bounded: each
creation happens once, and patches that carry a version apply once.

### ListClient

*State.* `local`, `outbox`, `conflicts` and `cursor` are the tables in Room; `sync` is the
run of `syncPending` (what it read, how many rows it has written back, the answer),
`wanted` an enqueued run that has not started, `owed` an edit between its transaction
and `enqueueSync`, `resolving` what `resolveConflict` has in its hand; `server` keeps
all versions of each row, its stamps, its sequence and its log.

*Steps.* A Room transaction is a step and so is a statement outside one: `Patch`
(`patchItem`, `patchList`, with `mergePatch`), `Enqueue`, `StartSync` (`getSendable`),
`Mark` for each row written back, `Serve` (the server answers the batch), `Receive`
(`applyResponse`, one transaction), `Fail` and `Unmark` (a lost request or answer, its
`catch`), `Die` (the process ends between any two). `KeepMine` and `KeepAgain` are the
delete and the insert of `resolveConflict`, `TakeTheirs` its other branch, `Forget` its end.

*Gaps in the code, named and not hidden.* `forgone` collects the rows whose edit falls
between two statements that belong together; `EditKept` and `Agrees` hold for all other
rows, so they say that there are no further gaps:
1. an edit merged into a row between `getSendable` and its write-back
   (`ShoppingListRepository.kt:388-391`) is overwritten by the copy that was read, against
   `docs/contracts/feil-og-offline.md:59-61`;
2. an answer between the delete and the insert of `resolveConflict` (`:419-420`) finds the
   row unprotected and shows the server's value until the edit is applied;
3. a death between the same two loses the edit.

`owed = "forgotten"` likewise names the two cases in which rows wait until the next edit or app
start: a death between an edit's commit and `enqueueSync`, and rows given back by a refused cursor,
after which the worker reports success.

Other behaviour that the model has or that was met while writing it: a kept edit of a line that was refused
with LIST_ARCHIVED takes the list's version as the line's (`:412`), and with three
changes by other devices it can replace a version the device was never sent; `patchList`
never merges, so the undo of a list's deletion conflicts with the device's own first patch;
an edit merged into a row that was sent before, whose answer was lost, comes back as
MUTATION_CONFLICT; `deleted: false` restores nothing on the server; taking the server's
row of a list, or without JSON, copies nothing. No screen calls `resolveConflict` yet.

*Left out.* `copyFromReceipt` (an API call whose answer is stored), the product cache and
the account switch; limits and the validation of content, which `ListServer` has. The
device's clock, which orders the outbox, moves forward.

## 3. Runs

| Run | Instance | Shows |
|---|---|---|
| `outbox_safety` | 1 receipt from before the outbox, 2 rows, 2 workers, 2 handlers, 2 attempts | `NoOrphan`, `FenceExclusive`, `NoDoubleResult`, `ConfirmedKept`, `DeletedAccountFenced`; 5.4 million states |
| `outbox_liveness` | the same receipt, 1 row, 2 workers, 1 handler, 1 reconciler, 2 attempts, 1 fault | `Settles`, `JobsEnd`; 601 000 states |
| `revisions_safety` | 2 receipts, 2 lines, up to 2 revisions, 3 mutation IDs, 11 requests, 2 sessions | `RevisionsStand`, `CurrentIsLatest`, `AnswersStand`, `ImplementsBook`, `Finishes`; 336 000 states |
| `revisions_overlap` | the same | **violation** of `LedgerMonotone` |
| `revisions_overwrite` | the same | **violation** of `AcknowledgedStays` |
| `lists_safety` | 2 lists, 1 line, 2 sessions, 1 device, 8 requests, 1 batch of two | `DeltaComplete`, `StampedOnce`, `NoStepBack`, `TombstonesStay`; 3.9 million states |
| `lists_liveness` | 1 list with room for 1 of 3 lines, 2 sessions, 2 batches that deadlock | `ItemLimit`, `Answered`; 349 000 states |
| `lists_overwrite` | 1 list and line, 2 sessions, patches and 3 batches | **violation** of `NoSilentOverwrite` |
| `client` | one list and line, 2 edits, 1 change by another device, 1 fault, 1 refused cursor | `Agrees`, `EditKept`, `EveryEditAnswered`; 873 000 states |
| `summary` | 2 receipts, 2 lines, 3 confirmations (one a correction), 1 edit of the list, 2 jobs, 3 refreshes, 1 failure | `LabelHolds`, `EachPurchaseOnce`, `CacheMovesForward`, `ShownMovesForward`, `ShownOrFailed`; 1.2 million states |
| `prices` | 3 receipts, 10 purchases, 2 branches, 4 row IDs, pages of 1 and 2, `Finer` 10 | `PricedRight`, `AnswersRight`, `PagesReadEachOnce`; 424 000 states |
| `deployment` | 2 containers, 4 receipts with 7 lines of 2 owners, 30 databases, 1 deletion, 2 crashes | `UpgradedOnce`, `CatalogueSound`, `RevisedAtUpgrade`, `EveryoneServes`; 765 000 states |

Each component with a type invariant checks it in its safety run. Each property has a mutant in `PROJECT.json`: one
plausible bug, written beside the definition it changes, with which the same run fails.

### Why the bounds are enough

`OcrOutbox`: the interesting cases need a second worker (expired lease, duplicate
message), a second attempt (an old attempt that answers late), a second row (retry
after a permanent failure) and a second handler (one that is slow while the other retries
or confirms, or that publishes what the other has closed). Each occurs in `outbox_safety`: TLC
reaches the reliance on a closed row by a retry and by an upload, a retry over a
confirmed receipt, a confirmation over a running attempt and a stamp over a permanent failure.
It has no faults and no reconciler, whose publications are those of a handler; lost
messages, crashes and the reconciler are in `outbox_liveness`. A second receipt shares no row
with the first. A receipt from before the outbox whose message is lost before a worker has made
a row waits for ever (`Unrecorded`): no row brings the message back.

`ReceiptRevisions`: two transactions on one receipt are needed for every conflict and
for writing over a draft, a second receipt for the ledger, a second revision for a correction
and for a draft of a correction; the requests contain a reused mutation ID, a gap accepted and
not accepted, and a foreign line. `PriceSummary`: one correction between two statements, and two jobs of which
the cancelled one still writes. `ListServer`: a race needs two sessions, one that
commits between two steps of the other; a third only repeats the second, since one
holds the sequence row and the others have written nothing. Two lists and a line are
needed for a line whose list is touched and for IDs that clash; a batch of two for a
mutation after another in one transaction and for locks taken in two orders. `ItemLimit` needs
three lines and room for one, so that a batch could exceed the limit by two.

Section 4 lifts these bounds, and those of the next three modules, for the safety
properties that it lists.

`ProductPrices`: two purchases decide an order and a third stands between them when a
page ends; amounts go down to a tenth of an øre, quantities to a tenth of a thousandth, around
ties of both roundings, and include those that round to nothing. A draft changes one field at a time, which reaches every line.
`Deployment`: a lock needs two containers; databases are alembic's at every revision,
`create_all`'s of seven releases, `create_all` over an older base, one with a missing
revision in the middle and two torn ones. Lines include a product known by text and
by a global product, two dates, one without, an alias of two owners.
`ListClient`: two mutations are a creation and a patch, two patches of one row (merged
or not), an edit during a sync, or an edit that is refused and kept; one change by
another device makes the conflict, one fault the repeated or lost answer.

### Fairness

- `OcrOutbox`: each handler, worker and publication in progress continues (weak). A
  receipt whose message is in the queue again and again is consumed (strong: FIFO
  broker, workers that return). A row that is due again and again is published
  (strong: the scheduler selects all due rows every 30 s). Leases run out (weak).
  Users are not fair, and faults are finite.
- `ListServer`, `ReceiptRevisions`: a session makes progress (strong: PostgreSQL's queues
  for row and advisory locks are first come, first served, so a session that can go on
  again and again is not passed over for ever). In `ListServer` a deadlock is ended by
  the abort of one of its members (weak, the deadlock detector); in `ReceiptRevisions` that is
  a step of a session (`EndDeadlock`), and `Finishes` shows that no wait but those of two that
  reuse one draft can form a circle. Clients need not send anything or give up.
- `Deployment`: a container that runs goes on (weak); crashes are finite. `EveryoneServes`
  is about databases that can be upgraded; others are refused.
- `ListClient`: what is between two statements goes on unless the process dies, and
  WorkManager runs an enqueued worker in the end and again after a failure (weak).
  Users need not edit, open the app or settle conflicts.
- `PriceSummary`, `ProductPrices`: none; their properties are safety.

Deadlock is checked in the `ListServer` runs. In the others nothing need happen once
every job, edit, request or upgrade is done, and the configuration says so.

### Findings

1. `lists_overwrite`: two patches of a line with the same `expected_version` both pass
   the check before they wait for the sequence row; the second overwrites the first and
   is answered as applied, with the same version. The same window lets two creations
   exceed the line limit (`ItemLimit` says by how much at most), and a line be written into a
   list archived meanwhile.
2. `revisions_overlap`: two confirmations of one account read the ledger without a lock
   and both answer the same `price_data_version`; an older value may even be written over a
   newer one.
3. `revisions_overwrite`: a save of a draft finds the draft row, a confirmation takes the row
   and is answered, and the save then puts its lines and columns into it: the revision stays
   `confirmed` and says something else, while prices and receipt show what was confirmed. A
   late confirmation that found the draft does the same, and may set the receipt's version back.

`PROJECT.json` quotes what the repository says and where. Smaller disagreements that no
run checks are in section 2, and these: `delete_receipt` of v1 meets the foreign key of
v2 revisions; a line with a negative or zero amount can be ranked; `include_conditional`
changes the basis that most rows are counted in; a receipt's mirrored date and total
may come from different revisions (`receipt_revision_service.py:737`).

## 4. Proofs

For every value of the constants, under the module's assumptions (`ASSUME`: sizes are numbers, the constants
that stand for "nothing" are none of the others, `Lines` of a deployment are finite and
have different IDs, the databases it meets are ones that alembic or `create_all` leaves):

| Module | Theorem | States |
|---|---|---|
| `OcrOutboxProofs` | `TypeCorrect`, `FenceIsExclusive` | `Spec => []TypeOK`, `Spec => []FenceExclusive` |
| | `NoLostJob` | `Spec => NoOrphan` |
| | `DeletedAccountKeepsOut` | `Spec => DeletedAccountFenced` |
| | `ResultsDoNotDouble`, `ConfirmedStaysConfirmed` | `Spec => []NoDoubleResult`, `Spec => ConfirmedKept` |
| `ListServerProofs` | `ListsTypeCorrect`, `NothingMissed`, `EffectOnce` | `[]TypeOK`, `[]DeltaComplete`, `[]StampedOnce` |
| | `DevicesMoveForward`, `NothingRevived` | `NoStepBack`, `TombstonesStay` |
| | `LimitNearlyKept` | `[]ItemLimit`, if `Items` and `Sessions` are finite |
| `ReceiptRevisionsProofs` | `RevisionsTypeCorrect`, `HistoryStands`, `PricesAreCurrent`, `OneAnswerEach` | `[]TypeOK`, `[]RevisionsStand`, `[]CurrentIsLatest`, `[]AnswersStand` |
| | `ConfirmationsImplementBook` | `Spec => ImplementsBook` |
| `PriceSummaryProofs` | `SummaryTypeCorrect`, `LabelsAreTrue`, `ShownOrSaid` | `[]TypeOK`, `[]LabelHolds`, `[]ShownOrFailed` |
| | `NoPurchaseTwice`, `CacheNeverGoesBack`, `ScreenNeverGoesBack` | `EachPurchaseOnce`, `CacheMovesForward`, `ShownMovesForward` |
| `ListClientProofs` | `ClientInvariant`, `TypeCorrect`, `EditsKept`, `DeviceAgrees` | `[]ClientInv`, `[]TypeOK`, `EditKept`, `[]Agrees` |
| `ProductPricesProofs` | `PricesInvariant`, `TypeCorrect`, `LinesPricedRight` | `[]PricesInv`, `[]TypeOK`, `[]PricedRight` |
| | `AnswersAreRight`, `PagesReadOnce` | `[]AnswersRight`, `[]PagesReadEachOnce` |
| `DeploymentProofs` | `DeploymentInvariant`, `TypeCorrect`, `UpgradesOnce` | `[]DeploymentInv`, `[]TypeOK`, `[]UpgradedOnce` |
| | `CatalogueIsSound`, `NoReceiptSlipsIn` | `[]CatalogueSound`, `RevisedAtUpgrade` |

**OcrOutbox.** `TypeOK` alone is not inductive: a publication puts the receipt of its
record into the queue, so the record of a busy handler must hold a receipt, and a
stamped row must exist (`Bound`). The fence needs three more facts: one active row
per receipt (`OneActive`, the unique index), an attempt held by one worker
(`AttemptsUnique`), and no attempt ahead of its row's count (`AttemptsCounted`), which
makes a new attempt fresh. `OutboxInv` is their conjunction. Instead of 25 actions
times five conjuncts, the proof shows once per action that it is one of a few
`Effects` on a row, a worker and a handler, and once per effect that it keeps each
conjunct. `NoLostJob` goes through the actions that close a row or change a status: each of them
gives the receipt a status that does not wait, leaves another active row, or is the step
that `ReliesOnClosed` describes.

`DeletedAccountKeepsOut` needs no invariant beyond types: `Claim`
and `SaveResult`, the steps that give a receipt such a status, check the account themselves.
For the last two theorems, `ReviewInv` says that an attempt which may still save has a receipt
without a result (`NoResult`), unless the receipt is in `overrun`. That holds because a row's
attempt is its last one (`RowsCounted`), an attempt belongs to the receipt of its row
(`AttemptsOwn`), a row that waits has no attempt that could end (`PendingFree`), and what an
open request knows of its receipt still holds (`RequestsHold`). `Moves` says once what any step
may do to a row, a worker, a handler and a receipt; the conjuncts are proved from it.

**ListServer.** None of the properties is inductive: they speak of `db`, and what is
about to be committed is in `work`. One lemma per mutation shows its `Effect` on the
tables: every row it changes carries a stamp from the new part of the sequence, the
list of a changed line has one at least as new, no line moves and no tombstone goes.
An effect keeps `Covered` (stamps never exceed the sequence, a line's never its
list's) and `Stamped`, and its transitive closure is `Ahead(db, work)`, which says all
that a commit can do. `SessionInv` then carries what a session may rely on while others
commit: the owner holds the lock on what it recorded (`OwnerInv`), a handler's
mutation is not yet recorded (`HandlerInv`), and the page of a sync has every change
between its cursor and its stamp (`AnswerInv`): later commits are stamped above
`db.seq`, hence above the stamp. `Covered` is what makes it right to find changed lines
through changed lists. TLC found the invariant true on the instance of `lists_safety` before it was proved.

`ItemLimit` is about what the stale count costs. `Room` says of a list how many lines it may
still get from transactions that have passed their check (`Adding`): each of them, but the one
that has the sequence row, has counted fewer lines than the limit and adds one, so the lines
committed, or seen by the owner, and the others that are adding stay below the limit plus the
sessions. A batch checks again before each of its creations and then sees its own lines, so it
goes past the limit once. `Placed` (a line that is on a list has a stamp) with `Covered` makes a
list that does not exist have no lines, so one that is filled has only its new ones.

**ReceiptRevisions.** `RevisionsInv` is `TypeOK`, `Transactions` and `Stands`.
`Transactions` says of each open transaction what its phase entitles it to (`Sound`): its
revision is not beyond the next one, a draft it found is as it found it unless another has
saved it (`Held`), what it withdraws is all that is in force if its revision is still to be
confirmed (`Withdraws`); and of each two that they do not share a mutation ID, a row they hold
or the opening of the ledger (`Apart`, which the code's locks and keys give). No more than that
keeps two transactions apart: the argument is that a commit which finds its row as it was found
is on time (`OnTime`), and one that does not puts its receipt into `overwritten`. `Stands` adds to
the checked properties that a row names an answered request (`RowsAnswered`) and no answer is
ahead of the ledger before `overtaken` (`AnsweredBehind`), which makes the next answer distinct.
The refinement follows: only `CommitConfirmation` changes what the book sees, and when it is on time
and not `overtaken` it is one `Publish`.

**PriceSummary.** Two invariants on the server's side: rows read are never of a revision
that a receipt does not have yet, so no confirmation can turn a label false, and
prices only of the current one (`AnswersInv` with `BookInv`). Three on the device's: only the view model's job runs, answers
computed later are of lists at least as new, and a compared answer is never behind the cache (`CacheInv`);
the running job reads later than anything shown, cached or about to be
cached (`ShownInv`); it reads a list at least as new as the device's (`LatestInv`).

**Induction.** What a fold or a sorted listing yields is proved by induction over sets of
numbers (`FiniteFacts`): the numbers for which a fact holds are a set, a set that holds 0 and
the successor of each member is all of `Nat`, and the set is instantiated where an operator
could not be. So no assumption stands for a recursion.

**ListClient.** `ClientInv` relates what the device holds to what the server was sent. The rows of the
batch are in the outbox as they were read, apart from a merge before they were marked
(`Batched`); an answer refuses a row or has it in the log (`AnswerTrue`, by induction over the
batch); a conflict's row is never sent (`Settling`). Its heart is `EditsHeld`: what the device
shows of a row is a version of the server since the one in Room, or is carried by an edit
of which, if an earlier send was applied, that part is on the server too (`Arrived`). The last
clause is what makes a second send harmless, and why `EditKept` alone is not inductive: a merged edit keeps its key,
so the server may know it with an older content.

`DeviceAgrees` needs to know of every state how far the device has followed the server (`AgreeInv`). `Followed`: a row
stamped no later than the cursor is on the device as the server has it, unless it is forgone or an edit
protects it or its list. That survives an answer that skips protected rows only because the edit, once
applied, stamps the row and its list after the cursor (`Stamped`, `NotReceived`), an answer has everything stamped since
the cursor it was asked with (`AnswerFresh`), and what a batch leaves out was never applied
(`Unsent`). Two more facts keep a snapshot from purging what is being decided: a device with a conflict has a
cursor (`HasCursor`), which rests on the first mutation of an empty account being the creation of a list,
which nothing refuses (`BeforeFirst`); and the list of whatever the device shows is there (`Homes`). A refused cursor breaks
the chain, since its snapshot comes with edits that were applied and are sent again: hence the
condition in `Agrees`. TLC found `AgreeInv` true for one list and line with three edits and no refused cursor, and with two and
one, before it was proved.

**ProductPrices.** `PricedRight` is arithmetic, for every `Finer`: ROUND_HALF_UP of quantity and
price, and what the two roundings leave of the printed quantity. For `AnswersRight` rows of known days are totally ordered by day and
ID, "first" and "last" of a finite set exist and are unique, and the prices that a store's
possible orders end with are those of the rows nobody is certainly later than. `PagesInv`
says that the cursor divides the rows: the client has none after it and, before it, all that
have been there since it began; a page is a prefix of the listing of the rest, so it moves
the division without a gap.

**Deployment.** `Committed` says what the database is in terms of its version: the objects of the
migrations up to it, and a catalogue that is the backfill of the lines it covers. `Starting` says of a
container that its work goes on from what it found and carries the data of each migration
it has made; since one container holds the lock (`OneHolds`) and others only confirm and delete,
nothing it found of what is left becomes false before its commit (`FromOrigin`), except the receipts, which the
locks on the tables hold up once a migration has read them. `CatalogueIsSound` is an
induction over the drafts: after each one the products and aliases are closed, and a draft met
again resolves to the product it made (`DraftSettled`).

Every safety property of a passing run has a theorem. Only model-checked: all liveness (`Settles`,
`JobsEnd`, `Answered`, `Finishes`, `EveryoneServes`, `EveryEditAnswered`), which is out of the prover's reach, as is `ENABLED`.

## 5. Plan

Done: the outbox with v1 receipts, the server's lists, revisions with their abstract book, the
summary, prices, upgrades and the device's lists, each with proofs. Next, in this order:

1. An abstract replica that `ListClient` implements.
2. The upload queue of the app against the upload endpoint, and refresh-token rotation.

## 6. Not modelled

- **Receipt capture and upload queue (Android)** and **sessions**: candidates for
  the plan above. `OcrOutbox` lets a client repeat an upload, retry, confirm and delete at any
  time, so it does not depend on the queue; no module depends on sessions.
- **OCR and parsers**: heuristics over text and pixels, with three outcomes for everyone else.
- **Image checks and object storage** beyond the existence of the image: pure I/O.
- **Rate limits and error shapes**: one counter in Redis, wording. Pagination is in `ProductPrices`.
- **User interface**: presentation over the repositories; the part of
  `ShoppingListViewModel.kt` that decides which summary is shown is in `PriceSummary`.
- **v1 confirmation's catalogue** (`product_service.py`, `store_service.py`), v1 price lookups and
  searches: single queries and get-or-create.
- **Mapping of copied lines** (`domain/list_copy.py`) and validation of quantities.
