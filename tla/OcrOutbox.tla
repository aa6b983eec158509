----------------------------- MODULE OcrOutbox -----------------------------
(***************************************************************************)
(* The OCR job outbox of the backend (services/ocr_outbox.py), the Celery  *)
(* task that consumes it (worker/tasks.py) and the v1 receipt handlers     *)
(* that share its rows (routers/receipts.py, services/receipt_service.py). *)
(*                                                                         *)
(* All receipts belong to one account.  One step is one transaction, or    *)
(* the part of a handler between two points at which another process can   *)
(* run: a row that a handler reads without a lock and acts on in a later   *)
(* statement is remembered in the handler's record until it is used.       *)
(***************************************************************************)
EXTENDS Naturals, FiniteSets

CONSTANTS
    Receipts,        \* capture IDs; an ID names the row, the image and the jobs
    LegacyReceipts,  \* uploaded before the outbox existed: no job row at all
    Jobs,            \* the rows of job_outbox that can ever be inserted (a bound)
    Workers,         \* Celery worker processes
    Requests,        \* API request handlers that can run at the same time
    Reconcilers,     \* publications by reconcile_job_outbox that can overlap
    MaxAttempts,     \* settings.outbox_max_attempts
    MaxFaults,       \* crashes, lost messages, failed calls, expired images (a bound)
    NoReceipt, NoJob \* "none"

ASSUME OutboxAssumption ==
    /\ LegacyReceipts \subseteq Receipts
    /\ MaxAttempts \in Nat \ {0}
    /\ MaxFaults \in Nat
    /\ NoReceipt \notin Receipts
    /\ NoJob \notin Jobs

VARIABLES
    receipt,  \* status column of each receipts row, "NONE" without a row
    image,    \* "stored", "gone" (object deleted) or "cleared" (image_path empty)
    alive,    \* users.deleted_at is null
    job,      \* the job_outbox rows
    queue,    \* receipts with a process_receipt message in the broker
    worker,   \* what each worker process holds
    session,  \* what each request handler and reconciler run holds
    overrun,  \* history: receipts whose review a late retry or confirmation crossed
    faults    \* faults that may still happen

vars == <<receipt, image, alive, job, queue, worker, session, overrun, faults>>

Sessions == Requests \cup Reconcilers

Reviewed == {"READY_FOR_REVIEW", "CONFIRMED"}
Waiting == {"UPLOADED", "PROCESSING"}
ReceiptStatus == Waiting \cup {"FAILED"} \cup Reviewed
Terminal == {"done", "failed_permanent"}
JobStatus == {"pending", "published", "processing"} \cup Terminal

\* attempt_id is a fresh uuid4 per claim.  attempt_count grows in the same
\* transaction, so <<row, count>> names an attempt just as uniquely.
NoAttempt == <<NoJob, 0>>
Attempts == (Jobs \X Nat) \cup {NoAttempt}

JobRow == [receipt : Receipts \cup {NoReceipt}, status : JobStatus \cup {"absent"},
           attempt : Attempts, leased : BOOLEAN, count : Nat]
NoRow == [receipt |-> NoReceipt, status |-> "absent", attempt |-> NoAttempt,
          leased |-> FALSE, count |-> 0]
LeasedRow(r, j, n) == [receipt |-> r, status |-> "processing", attempt |-> <<j, n>>,
                       leased |-> TRUE, count |-> n]
NewRow(r) == [NoRow EXCEPT !.receipt = r, !.status = "pending"]

WorkerPc == {"idle", "claim", "enqueue", "insert", "ocr", "save", "fail", "failperm"}
WorkerRecord == [pc : WorkerPc, receipt : Receipts \cup {NoReceipt}, attempt : Attempts]
WorkerAt(pc, r, a) == [pc |-> pc, receipt |-> r, attempt |-> a]
IdleWorker == WorkerAt("idle", NoReceipt, NoAttempt)

SessionPc == {"idle", "upload", "retry", "retried", "confirm", "delete",
              "select", "deliver", "refresh", "stamp"}
SessionRecord == [pc : SessionPc, receipt : Receipts \cup {NoReceipt},
                  job : Jobs \cup {NoJob}, saw : ReceiptStatus \cup {"NONE"}]
SessionAt(pc, r, j, saw) == [pc |-> pc, receipt |-> r, job |-> j, saw |-> saw]
IdleSession == SessionAt("idle", NoReceipt, NoJob, "NONE")

\* What a run admits MaxFaults times.
Fault == faults > 0 /\ faults' = faults - 1

RowsOf(r) == {j \in Jobs : job[j].receipt = r}
IsActive(j) == job[j].status \notin Terminal \cup {"absent"}
ActiveJobs(r) == {j \in RowsOf(r) : IsActive(j)}

WithStatus(j, status) == [job EXCEPT ![j].status = status]
Requeued(j) == [job EXCEPT ![j].status = "pending", ![j].leased = FALSE]
Finish(s) == session' = [session EXCEPT ![s] = IdleSession]
SessionTo(s, pc) == session' = [session EXCEPT ![s].pc = pc]
WorkerTo(w, pc) == worker' = [worker EXCEPT ![w].pc = pc]

Init ==
    /\ \E old \in {"UPLOADED", "FAILED"} :
         receipt = [r \in Receipts |-> IF r \in LegacyReceipts THEN old ELSE "NONE"]
    /\ image = [r \in Receipts |-> "stored"]
    /\ alive = TRUE
    /\ job = [j \in Jobs |-> NoRow]
    /\ queue = LegacyReceipts
    /\ worker = [w \in Workers |-> IdleWorker]
    /\ session = [s \in Sessions |-> IdleSession]
    /\ overrun = {}
    /\ faults = MaxFaults

-----------------------------------------------------------------------------
(* Enqueueing                                                              *)

\* The row lock of a retry on its receipt: its UPDATE is flushed before the
\* SELECT that looks for an active job and holds the row until the commit.
Locked(r) == \E s \in Sessions : session[s].pc = "retried" /\ session[s].receipt = r

\* Another transaction's UPDATE waits for that lock.  A status that the row has
\* already is not written.
SetStatus(r, status) ==
    /\ receipt[r] = status \/ ~Locked(r)
    /\ receipt' = [receipt EXCEPT ![r] = status]

\* _active_job, a SELECT without a lock: the handler goes on with the row it
\* found, or with none.
FindJob(s, pc, r, saw) ==
    \/ /\ ActiveJobs(r) = {}
       /\ session' = [session EXCEPT ![s] = SessionAt(pc, r, NoJob, saw)]
    \/ \E j \in ActiveJobs(r) :
         session' = [session EXCEPT ![s] = SessionAt(pc, r, j, saw)]

\* The INSERT of a pending row.  The unique partial index admits it only
\* without another active row.
InsertJob(r) ==
    \E j \in Jobs :
        /\ job[j] = NoRow
        /\ job' = [job EXCEPT ![j] = NewRow(r)]

\* The bound on inserted rows, so chosen that no handler is left without one.
Room == Cardinality({j \in Jobs : job[j] = NoRow})
            > Cardinality({s \in Sessions : session[s].pc \in {"upload", "retry", "retried"}})

\* A plausible bug: a closed row counts as the receipt's job.
EnqueueReusingClosedRow(s) ==
    IF RowsOf(session[s].receipt) = {} THEN InsertJob(session[s].receipt) ELSE UNCHANGED job

\* What enqueue_ocr_job adds to the transaction of a handler that has looked.
Enqueue(s) ==
    IF session[s].job = NoJob THEN InsertJob(session[s].receipt) ELSE UNCHANGED job

\* The commit of an upload or a retry: the receipt waits for the job found, which
\* may be closed by now, or for a new one.  The INSERT fails (IntegrityError)
\* if the receipt has got another active row.
CommitWaiting(s) ==
    LET r == session[s].receipt IN
    \/ /\ session[s].job # NoJob \/ ActiveJobs(r) = {}
       /\ receipt' = [receipt EXCEPT ![r] = "UPLOADED"]
       /\ Enqueue(s)
       /\ session' = [session EXCEPT ![s] = SessionAt("select", r, NoJob, "NONE")]
    \/ /\ session[s].job = NoJob /\ ActiveJobs(r) # {}
       /\ Finish(s)
       /\ UNCHANGED <<receipt, job>>

\* POST /receipts, up to the point where enqueue_ocr_job has looked for an
\* active job.  The advisory lock on the capture ID admits one upload of it;
\* an existing row is a replay, which changes nothing.
UploadBegin(s, r) ==
    /\ s \in Requests
    /\ alive
    /\ session[s].pc = "idle"
    /\ Room
    /\ receipt[r] = "NONE"
    /\ \A t \in Sessions : ~(session[t].pc = "upload" /\ session[t].receipt = r)
    /\ image' = [image EXCEPT ![r] = "stored"]
    /\ FindJob(s, "upload", r, "NONE")
    /\ UNCHANGED <<receipt, alive, job, queue, worker, overrun, faults>>

UploadCommit(s) ==
    /\ session[s].pc = "upload"
    /\ CommitWaiting(s)
    /\ UNCHANGED <<image, alive, queue, worker, overrun, faults>>

-----------------------------------------------------------------------------
(* User requests on an existing receipt.  Each checks the status of the    *)
(* row it has read and writes in a later statement.                        *)

BeginRequest(s, r, pc) ==
    /\ s \in Requests
    /\ alive
    /\ session[s].pc = "idle"
    /\ session' = [session EXCEPT ![s] = SessionAt(pc, r, NoJob, receipt[r])]

\* A plausible bug: the status check is forgotten.
RetryBeginUnchecked(s, r) ==
    /\ Room
    /\ receipt[r] # "NONE"
    /\ image[r] # "cleared"
    /\ BeginRequest(s, r, "retry")
    /\ UNCHANGED <<receipt, image, alive, job, queue, worker, overrun, faults>>

RetryBegin(s, r) ==
    /\ Room
    /\ receipt[r] = "FAILED"
    /\ image[r] # "cleared"
    /\ BeginRequest(s, r, "retry")
    /\ UNCHANGED <<receipt, image, alive, job, queue, worker, overrun, faults>>

\* The UPDATE, then the SELECT for an active job.  The UPDATE of a row that is
\* gone raises StaleDataError; of no other status is it told.
RetryFind(s) ==
    LET r == session[s].receipt IN
    /\ session[s].pc = "retry"
    /\ ~Locked(r)
    /\ IF receipt[r] = "NONE"
       THEN Finish(s)
       ELSE FindJob(s, "retried", r, session[s].saw)
    /\ UNCHANGED <<receipt, image, alive, job, queue, worker, overrun, faults>>

RetryCommit(s) ==
    LET r == session[s].receipt IN
    /\ session[s].pc = "retried"
    /\ CommitWaiting(s)
    /\ overrun' = IF receipt[r] \in Reviewed \ {session[s].saw, receipt'[r]}
                  THEN overrun \cup {r} ELSE overrun
    /\ UNCHANGED <<image, alive, queue, worker, faults>>

ConfirmBegin(s, r) ==
    /\ receipt[r] = "READY_FOR_REVIEW"
    /\ BeginRequest(s, r, "confirm")
    /\ UNCHANGED <<receipt, image, alive, job, queue, worker, overrun, faults>>

ConfirmCommit(s) ==
    LET r == session[s].receipt IN
    /\ session[s].pc = "confirm"
    /\ ~Locked(r)
    /\ receipt' = [receipt EXCEPT ![r] = IF @ = "NONE" THEN @ ELSE "CONFIRMED"]
    /\ overrun' = IF receipt[r] \in Reviewed \cup {"NONE"} THEN overrun ELSE overrun \cup {r}
    /\ Finish(s)
    /\ UNCHANGED <<image, alive, job, queue, worker, faults>>

\* The image object goes first, the row in a later transaction.
DeleteBegin(s, r) ==
    /\ receipt[r] # "NONE"
    /\ BeginRequest(s, r, "delete")
    /\ image' = [image EXCEPT ![r] = IF @ = "cleared" THEN @ ELSE "gone"]
    /\ UNCHANGED <<receipt, alive, job, queue, worker, overrun, faults>>

\* Lines saved after the row was loaded still reference it: the DELETE of the
\* row then fails on their foreign key.  An OCR result may have no lines.
DeleteCommit(s) ==
    LET r == session[s].receipt IN
    /\ session[s].pc = "delete"
    /\ ~Locked(r)
    /\ \/ receipt' = [receipt EXCEPT ![r] = "NONE"]
       \/ /\ receipt[r] \in Reviewed \ {session[s].saw}
          /\ UNCHANGED receipt
    /\ Finish(s)
    /\ UNCHANGED <<image, alive, job, queue, worker, overrun, faults>>

\* delete_expired_images: the object, then image_path in the final commit,
\* which may not come.
ExpireImage(r) ==
    /\ Fault
    /\ receipt[r] # "NONE"
    /\ image[r] # "cleared"
    /\ \E left \in {"gone", "cleared"} : image' = [image EXCEPT ![r] = left]
    /\ UNCHANGED <<receipt, alive, job, queue, worker, session, overrun>>

\* users.deleted_at is set outside this code base.
DeleteAccount ==
    /\ alive
    /\ alive' = FALSE
    /\ UNCHANGED <<receipt, image, job, queue, worker, session, overrun, faults>>

-----------------------------------------------------------------------------
(* Publication: deliver, then re-read the row, then stamp it               *)

\* A plausible bug: rows whose worker died are not selected again.
ReconcileWithoutLeases(s, j) ==
    /\ s \in Reconcilers
    /\ session[s].pc = "idle"
    /\ job[j].status \in {"pending", "published"}
    /\ session' = [session EXCEPT ![s] = SessionAt("deliver", job[j].receipt, j, "NONE")]
    /\ UNCHANGED <<receipt, image, alive, job, queue, worker, overrun, faults>>

\* A plausible bug: a published row is trusted to reach a worker.
ReconcileOnlyPending(s, j) ==
    /\ s \in Reconcilers
    /\ session[s].pc = "idle"
    /\ job[j].status = "pending" \/ (job[j].status = "processing" /\ ~job[j].leased)
    /\ session' = [session EXCEPT ![s] = SessionAt("deliver", job[j].receipt, j, "NONE")]
    /\ UNCHANGED <<receipt, image, alive, job, queue, worker, overrun, faults>>

\* reconcile_job_outbox (also reached from check_readiness) takes pending and
\* published rows of some age and processing rows whose lease is over.  The
\* batch is one publication per row: a row skipped for its age is one that
\* is selected later, an error that ends the batch is SessionDies.
Reconcile(s, j) ==
    /\ s \in Reconcilers
    /\ session[s].pc = "idle"
    /\ \/ job[j].status \in {"pending", "published"}
       \/ job[j].status = "processing" /\ ~job[j].leased
    /\ session' = [session EXCEPT ![s] = SessionAt("deliver", job[j].receipt, j, "NONE")]
    /\ UNCHANGED <<receipt, image, alive, job, queue, worker, overrun, faults>>

\* publish_pending_for_receipt looks up the active job after the commit.
SelectForReceipt(s) ==
    LET r == session[s].receipt IN
    /\ session[s].pc = "select"
    /\ \/ /\ ActiveJobs(r) = {}
          /\ Finish(s)
       \/ \E j \in ActiveJobs(r) :
            session' = [session EXCEPT ![s] = SessionAt("deliver", r, j, "NONE")]
    /\ UNCHANGED <<receipt, image, alive, job, queue, worker, overrun, faults>>

Deliver(s) ==
    /\ session[s].pc = "deliver"
    /\ queue' = queue \cup {session[s].receipt}
    /\ SessionTo(s, "refresh")
    /\ UNCHANGED <<receipt, image, alive, job, worker, overrun, faults>>

Refresh(s) ==
    /\ session[s].pc = "refresh"
    /\ \/ /\ job[session[s].job].status = "pending"
          /\ SessionTo(s, "stamp")
       \/ /\ job[session[s].job].status # "pending"
          /\ Finish(s)
    /\ UNCHANGED <<receipt, image, alive, job, queue, worker, overrun, faults>>

\* A plausible bug: a status string that the enum does not have.
StampUnknown(s) ==
    /\ session[s].pc = "stamp"
    /\ job' = WithStatus(session[s].job, "sent")
    /\ Finish(s)
    /\ UNCHANGED <<receipt, image, alive, queue, worker, overrun, faults>>

\* An UPDATE by primary key: it overwrites whatever the row has become, unless
\* that would give the receipt a second active row.
Stamp(s) ==
    LET j == session[s].job IN
    /\ session[s].pc = "stamp"
    /\ job' = IF ActiveJobs(job[j].receipt) \subseteq {j}
              THEN WithStatus(j, "published")
              ELSE job
    /\ overrun' = IF job[j].status = "failed_permanent" /\ job' # job
                  THEN overrun \cup {job[j].receipt} ELSE overrun
    /\ Finish(s)
    /\ UNCHANGED <<receipt, image, alive, queue, worker, faults>>

-----------------------------------------------------------------------------
(* The worker                                                              *)

\* The broker delivers at least once: the message may stay for another worker.
Consume(w, r) ==
    /\ worker[w].pc = "idle"
    /\ r \in queue
    /\ \/ queue' = queue \ {r}
       \/ UNCHANGED queue
    /\ worker' = [worker EXCEPT ![w] = WorkerAt("claim", r, NoAttempt)]
    /\ UNCHANGED <<receipt, image, alive, job, session, overrun, faults>>

Release(w) == worker' = [worker EXCEPT ![w] = IdleWorker]

\* A plausible bug: a message without a job row is dropped.
ClaimNothingDropped(w) ==
    /\ worker[w].pc = "claim"
    /\ ActiveJobs(worker[w].receipt) = {}
    /\ Release(w)
    /\ UNCHANGED <<receipt, image, alive, job, queue, session, overrun, faults>>

\* claim_ocr_job finds no active row.  process_receipt_with_db then looks for
\* a receipt that never had one (uploaded before the outbox).
ClaimNothing(w) ==
    LET r == worker[w].receipt IN
    /\ worker[w].pc = "claim"
    /\ ActiveJobs(r) = {}
    /\ IF receipt[r] = "UPLOADED" /\ alive /\ RowsOf(r) = {}
       THEN WorkerTo(w, "enqueue")
       ELSE Release(w)
    /\ UNCHANGED <<receipt, image, alive, job, queue, session, overrun, faults>>

\* The receipt is read again, then enqueue_ocr_job looks for an active job,
\* which another worker may have inserted since.
FindMissing(w) ==
    LET r == worker[w].receipt IN
    /\ worker[w].pc = "enqueue"
    /\ \/ receipt[r] = "NONE" /\ Release(w)
       \/ receipt[r] # "NONE" /\ ActiveJobs(r) = {} /\ WorkerTo(w, "insert")
       \/ receipt[r] # "NONE" /\ ActiveJobs(r) # {} /\ WorkerTo(w, "claim")
    /\ UNCHANGED <<receipt, image, alive, job, queue, session, overrun, faults>>

\* ... and inserts one, or fails on the unique index.
InsertMissing(w) ==
    LET r == worker[w].receipt IN
    /\ worker[w].pc = "insert"
    /\ \/ /\ ActiveJobs(r) = {}
          /\ InsertJob(r)
          /\ WorkerTo(w, "claim")
       \/ /\ ActiveJobs(r) # {}
          /\ Release(w)
          /\ UNCHANGED job
    /\ UNCHANGED <<receipt, image, alive, queue, session, overrun, faults>>

Leased(j) == job[j].status = "processing" /\ job[j].leased

ClaimLeased(w) ==
    /\ worker[w].pc = "claim"
    /\ \E j \in ActiveJobs(worker[w].receipt) : Leased(j)
    /\ Release(w)
    /\ UNCHANGED <<receipt, image, alive, job, queue, session, overrun, faults>>

\* A plausible bug: the account is not checked before an attempt.
MayStartDeleted(r, j) ==
    receipt[r] \notin {"NONE"} \cup Reviewed /\ job[j].count < MaxAttempts

MayStart(r, j) ==
    alive /\ receipt[r] \notin {"NONE"} \cup Reviewed /\ job[j].count < MaxAttempts

\* A job that must not run is closed: the result is there already, account or
\* receipt is gone, or the attempts are used up.
ClaimClosed(w) ==
    LET r == worker[w].receipt IN
    /\ worker[w].pc = "claim"
    /\ \E j \in ActiveJobs(r) :
        /\ ~Leased(j)
        /\ \/ /\ alive /\ receipt[r] \in Reviewed
              /\ job' = WithStatus(j, "done")
              /\ UNCHANGED receipt
           \/ /\ ~alive \/ receipt[r] = "NONE"
              /\ job' = WithStatus(j, "failed_permanent")
              /\ UNCHANGED receipt
           \/ /\ alive /\ receipt[r] \notin {"NONE"} \cup Reviewed
              /\ job[j].count >= MaxAttempts
              /\ job' = WithStatus(j, "failed_permanent")
              /\ SetStatus(r, "FAILED")
    /\ Release(w)
    /\ UNCHANGED <<image, alive, queue, session, overrun, faults>>

Claim(w) ==
    LET r == worker[w].receipt IN
    /\ worker[w].pc = "claim"
    /\ \E j \in ActiveJobs(r) :
        /\ ~Leased(j)
        /\ MayStart(r, j)
        /\ job' = [job EXCEPT ![j] = LeasedRow(r, j, job[j].count + 1)]
        /\ worker' = [worker EXCEPT ![w] = WorkerAt("ocr", r, <<j, job[j].count + 1>>)]
    /\ SetStatus(r, "PROCESSING")
    /\ UNCHANGED <<image, alive, queue, session, overrun, faults>>

\* Download and recognition: a text, an unreadable image or another error.
RunOcr(w) ==
    /\ worker[w].pc = "ocr"
    /\ \E pc \in IF image[worker[w].receipt] = "stored"
                 THEN {"save", "fail", "failperm"} ELSE {"fail"} :
            WorkerTo(w, pc)
    /\ UNCHANGED <<receipt, image, alive, job, queue, session, overrun, faults>>

\* Plausible bugs: any active row will do; a closed row will do.
FencedByRow(w) == ActiveJobs(worker[w].receipt)
FencedByAttempt(w) == {j \in RowsOf(worker[w].receipt) : job[j].attempt = worker[w].attempt}

\* _lock_active_job with an attempt: the fence.
Fenced(w) == {j \in ActiveJobs(worker[w].receipt) : job[j].attempt = worker[w].attempt}

SaveResult(w) ==
    LET r == worker[w].receipt IN
    /\ worker[w].pc = "save"
    /\ \/ /\ Fenced(w) = {}
          /\ UNCHANGED <<receipt, job>>
       \/ \E j \in Fenced(w) :
            IF ~alive
            THEN /\ job' = WithStatus(j, "failed_permanent")
                 /\ UNCHANGED receipt
            ELSE IF receipt[r] = "NONE"    \* save_parsed_receipt returns uncommitted
            THEN UNCHANGED <<receipt, job>>
            ELSE /\ job' = WithStatus(j, "done")
                 /\ SetStatus(r, "READY_FOR_REVIEW")
    /\ Release(w)
    /\ UNCHANGED <<image, alive, queue, session, overrun, faults>>

FailAttempt(w) ==
    LET r == worker[w].receipt IN
    /\ worker[w].pc \in {"fail", "failperm"}
    /\ \/ /\ Fenced(w) = {}
          /\ UNCHANGED <<receipt, job>>
       \/ \E j \in Fenced(w) :
            IF worker[w].pc = "failperm" \/ job[j].count >= MaxAttempts
            THEN /\ job' = WithStatus(j, "failed_permanent")
                 /\ SetStatus(r, IF receipt[r] = "NONE" THEN "NONE" ELSE "FAILED")
            ELSE /\ job' = Requeued(j)
                 /\ SetStatus(r, IF receipt[r] = "PROCESSING" THEN "UPLOADED" ELSE receipt[r])
    /\ Release(w)
    /\ UNCHANGED <<image, alive, queue, session, overrun, faults>>

\* lease_expires_at passes; the worker may well be running still.  Nothing reads
\* the lease of a closed row.
LeaseExpires(j) ==
    /\ IsActive(j)
    /\ job[j].leased
    /\ job' = [job EXCEPT ![j].leased = FALSE]
    /\ UNCHANGED <<receipt, image, alive, queue, worker, session, overrun, faults>>

-----------------------------------------------------------------------------
(* Faults                                                                  *)

\* A lost worker: acks_late and reject_on_worker_lost put the message back.
WorkerCrash(w) ==
    /\ Fault
    /\ worker[w].pc # "idle"
    /\ queue' = queue \cup {worker[w].receipt}
    /\ Release(w)
    /\ UNCHANGED <<receipt, image, alive, job, session, overrun>>

\* The transaction of a save fails: rolled back, then recorded as a failure.
SaveRaises(w) ==
    /\ Fault
    /\ worker[w].pc = "save"
    /\ WorkerTo(w, "fail")
    /\ UNCHANGED <<receipt, image, alive, job, queue, session, overrun>>

LoseMessage(r) ==
    /\ Fault
    /\ r \in queue
    /\ queue' = queue \ {r}
    /\ UNCHANGED <<receipt, image, alive, job, worker, session, overrun>>

\* The API process or reconciler run dies, or the broker refuses delivery.
SessionDies(s) ==
    /\ Fault
    /\ session[s].pc # "idle"
    /\ Finish(s)
    /\ UNCHANGED <<receipt, image, alive, job, queue, worker, overrun>>

-----------------------------------------------------------------------------
UserRequest(s, r) ==
    \/ UploadBegin(s, r)
    \/ RetryBegin(s, r)
    \/ ConfirmBegin(s, r)
    \/ DeleteBegin(s, r)

SessionStep(s) ==
    \/ UploadCommit(s)
    \/ RetryFind(s)
    \/ RetryCommit(s)
    \/ ConfirmCommit(s)
    \/ DeleteCommit(s)
    \/ SelectForReceipt(s)
    \/ Deliver(s)
    \/ Refresh(s)
    \/ Stamp(s)

WorkerStep(w) ==
    \/ ClaimNothing(w)
    \/ FindMissing(w)
    \/ InsertMissing(w)
    \/ ClaimLeased(w)
    \/ ClaimClosed(w)
    \/ Claim(w)
    \/ RunOcr(w)
    \/ SaveResult(w)
    \/ FailAttempt(w)

Next ==
    \/ \E s \in Sessions, r \in Receipts : UserRequest(s, r)
    \/ \E s \in Sessions : SessionStep(s) \/ SessionDies(s)
    \/ \E s \in Sessions, j \in Jobs : Reconcile(s, j)
    \/ \E w \in Workers, r \in Receipts : Consume(w, r)
    \/ \E w \in Workers : WorkerStep(w) \/ WorkerCrash(w) \/ SaveRaises(w)
    \/ \E j \in Jobs : LeaseExpires(j)
    \/ \E r \in Receipts : ExpireImage(r) \/ LoseMessage(r)
    \/ DeleteAccount

Spec == Init /\ [][Next]_vars

-----------------------------------------------------------------------------
(* Properties                                                              *)

\* The columns keep their enumerations and every record its shape
\* (models/receipt.py:13-18, models/job_outbox.py:22-27).
TypeOK ==
    /\ receipt \in [Receipts -> ReceiptStatus \cup {"NONE"}]
    /\ image \in [Receipts -> {"stored", "gone", "cleared"}]
    /\ alive \in BOOLEAN
    /\ job \in [Jobs -> JobRow]
    /\ queue \subseteq Receipts
    /\ worker \in [Workers -> WorkerRecord]
    /\ session \in [Sessions -> SessionRecord]
    /\ overrun \subseteq Receipts
    /\ faults \in Nat

\* A receipt that waits for OCR without a job row that a reconciler or a worker
\* could still pick up.
Orphan(r) == receipt[r] \in Waiting /\ ActiveJobs(r) = {}

\* The commit of an upload or a retry relies on a row that was closed after the
\* handler had found it.
ReliesOnClosed(s) ==
    /\ session[s].pc \in {"upload", "retried"} /\ session'[s].pc = "select"
    /\ session[s].job # NoJob /\ ~IsActive(session[s].job)

\* No lost job (transactional outbox, ocr_outbox.py:47-67): whatever enqueues,
\* claims, failures, retries and stamps interleave, a receipt comes to wait
\* without an active job in one way only, which the code leaves open.
NoOrphan ==
    [][\A r \in Receipts :
        alive' /\ Orphan(r)' =>
            \/ Orphan(r)
            \/ \E s \in Sessions : session[s].receipt = r /\ ReliesOnClosed(s)]_vars

\* The fence admits one worker per receipt: however leases expire, messages
\* are duplicated and rows are stamped, no two workers that hold an attempt on
\* a receipt could both still save (ocr_outbox.py:307-325).
FenceExclusive ==
    \A v, w \in Workers :
        /\ worker[v].receipt = worker[w].receipt
        /\ worker[v].attempt # NoAttempt /\ Fenced(v) # {}
        /\ worker[w].attempt # NoAttempt /\ Fenced(w) # {}
        => v = w

\* A result that passes the fence never lands on a receipt that already has
\* one under review or confirmed (complete_ocr_result, save_parsed_receipt),
\* unless a late retry or confirmation has crossed its review.
NoDoubleResult ==
    \A w \in Workers :
        worker[w].pc = "save" /\ Fenced(w) # {} /\ worker[w].receipt \notin overrun
            => receipt[worker[w].receipt] \notin Reviewed

\* A confirmed receipt stays confirmed until the user deletes it: no attempt,
\* failure or retry reopens it (ocr_outbox.py:169).  A retry that checked the
\* status before an OCR run and a confirmation does (routers/receipts.py:266-271),
\* and so may what follows on a receipt crossed in this way.
ConfirmedKept ==
    [][\A r \in Receipts \ overrun' :
        receipt[r] = "CONFIRMED" => receipt'[r] \in {"CONFIRMED", "NONE"}]_vars

\* The fence of a deleted account: no new attempt starts and no result is
\* written once deleted_at is set (ocr_outbox.py:155-160, 217-222).
DeletedAccountFenced ==
    [][~alive => \A r \in Receipts :
        receipt'[r] \in {"PROCESSING", "READY_FOR_REVIEW"} => receipt'[r] = receipt[r]]_vars

\* Reconciler and worker keep running: every handler, worker and publication
\* goes on, every receipt's messages and every eligible row get their turn
\* (FIFO broker, beat schedule of 30 s), and time passes.
Fairness ==
    /\ \A s \in Sessions : WF_vars(SessionStep(s))
    /\ \A w \in Workers : WF_vars(WorkerStep(w))
    /\ \A r \in Receipts : SF_vars(\E w \in Workers : Consume(w, r))
    /\ \A j \in Jobs : SF_vars(\E s \in Reconcilers : Reconcile(s, j))
    /\ \A j \in Jobs : WF_vars(LeaseExpires(j))

FairSpec == Spec /\ Fairness

\* A receipt from before the outbox has only its message: no row brings back a
\* message that is lost before a worker has made one.
Unrecorded(r) == r \in LegacyReceipts /\ RowsOf(r) = {} /\ faults < MaxFaults

\* With finitely many faults a receipt that waits comes to a review, a failure or
\* a deletion, unless all its jobs are closed (an orphan, see NoOrphan).
Settles ==
    \A r \in Receipts :
        receipt[r] \in Waiting
            ~> \/ receipt[r] \notin Waiting \/ ~alive
               \/ Orphan(r) /\ RowsOf(r) # {}
               \/ []Unrecorded(r)

\* Every job row is eventually closed, also when its receipt or the account is
\* deleted while it is queued or running.
JobsEnd == \A j \in Jobs : IsActive(j) ~> job[j].status \in Terminal
=============================================================================
