-------------------------- MODULE OcrOutboxProofs --------------------------
(***************************************************************************)
(* Theorems about OcrOutbox, for every value of its constants: the type    *)
(* invariant, the exclusiveness of the fence, the one way in which a job   *)
(* can be lost, that a deleted account gets no attempt and no result, and, *)
(* for receipts that no late write has crossed, that a result never lands  *)
(* on a receipt that has one and a confirmed receipt stays confirmed.      *)
(*                                                                         *)
(* Every action changes at most one job row, one worker and one handler,   *)
(* in few ways.  Effects names those ways; the first part shows that each  *)
(* action is one of them, the second that each of them keeps OutboxInv.    *)
(* The last part extends OutboxInv by what ReviewInv says of attempts,     *)
(* results and open requests.  Moves says what any action may do to the    *)
(* rows, workers, handlers and receipts that ReviewInv speaks of; the      *)
(* steps of ReviewInv then follow from Moves and Effects.                  *)
(***************************************************************************)
EXTENDS OcrOutbox, TLAPS

USE OutboxAssumption DEF Sessions

-----------------------------------------------------------------------------
(* The inductive invariant                                                 *)

Publishing == {"deliver", "refresh", "stamp"}

\* What a busy handler or worker holds exists, and the row it has found or
\* publishes is a row of its receipt.
SessionBound(x) ==
    x.pc # "idle" =>
        /\ x.receipt \in Receipts
        /\ x.job # NoJob => job[x.job].receipt = x.receipt
        /\ x.pc \in Publishing => x.job # NoJob

WorkerBound(x) == x.pc # "idle" => x.receipt \in Receipts

Bound ==
    /\ \A s \in Sessions : SessionBound(session[s])
    /\ \A w \in Workers : WorkerBound(worker[w])
    /\ \A j \in Jobs : job[j].status = "absent" <=> job[j].receipt = NoReceipt

\* The partial unique index: one active row per receipt.
OneActive ==
    \A i, j \in Jobs :
        IsActive(i) /\ IsActive(j) /\ job[i].receipt = job[j].receipt => i = j

\* An attempt belongs to one worker, and its row has counted it.
AttemptsUnique ==
    \A v, w \in Workers :
        worker[v].attempt # NoAttempt /\ worker[v].attempt = worker[w].attempt => v = w

AttemptsCounted ==
    \A w \in Workers, j \in Jobs, n \in Nat :
        worker[w].attempt = <<j, n>> => n <= job[j].count

OutboxInv == TypeOK /\ Bound /\ OneActive /\ AttemptsUnique /\ AttemptsCounted

-----------------------------------------------------------------------------
(* What a step may do to the rows, the workers and the handlers            *)

SessionEffect ==
    \/ session' = session
    \/ \E s \in Sessions, x \in SessionRecord :
        SessionBound(x) /\ session' = [session EXCEPT ![s] = x]

WorkerEffect ==
    \/ worker' = worker
    \/ \E w \in Workers, x \in WorkerRecord :
        /\ WorkerBound(x)
        /\ x.attempt \in {worker[w].attempt, NoAttempt}
        /\ x.attempt # NoAttempt => x.receipt = worker[w].receipt
        /\ worker' = [worker EXCEPT ![w] = x]

\* A row's new contents x: the receipt and the attempts stay.
RowEffect(j, x) ==
    /\ job[j].status # "absent"
    /\ x.status # "absent"
    /\ x.receipt = job[j].receipt
    /\ x.attempt = job[j].attempt
    /\ x.count = job[j].count
    /\ x.status \notin Terminal => ActiveJobs(job[j].receipt) \subseteq {j}

JobEffect ==
    \/ job' = job
    \/ \E r \in Receipts : ActiveJobs(r) = {} /\ InsertJob(r)
    \/ \E j \in Jobs, x \in JobRow : RowEffect(j, x) /\ job' = [job EXCEPT ![j] = x]

Started ==
    \E w \in Workers, j \in Jobs :
        /\ IsActive(j)
        /\ job' = [job EXCEPT ![j] = LeasedRow(job[j].receipt, j, job[j].count + 1)]
        /\ worker' = [worker EXCEPT
                ![w] = WorkerAt("ocr", job[j].receipt, <<j, job[j].count + 1>>)]

Others ==
    /\ receipt' \in [Receipts -> ReceiptStatus \cup {"NONE"}]
    /\ image' \in [Receipts -> {"stored", "gone", "cleared"}]
    /\ alive' \in BOOLEAN
    /\ queue' \subseteq Receipts
    /\ overrun' \subseteq Receipts
    /\ faults' \in Nat

Effects ==
    Others /\ SessionEffect /\ (Started \/ (JobEffect /\ WorkerEffect))

-----------------------------------------------------------------------------
(* Records                                                                 *)

\* What a handler may put in its record.
LEMMA SessionRecords ==
    /\ IdleSession \in SessionRecord /\ IdleSession.pc = "idle"
    /\ \A pc \in SessionPc, r \in Receipts \cup {NoReceipt}, j \in Jobs \cup {NoJob},
          saw \in ReceiptStatus \cup {"NONE"} :
            /\ SessionAt(pc, r, j, saw) \in SessionRecord
            /\ SessionAt(pc, r, j, saw).pc = pc
            /\ SessionAt(pc, r, j, saw).receipt = r
            /\ SessionAt(pc, r, j, saw).job = j
            /\ SessionAt(pc, r, j, saw).saw = saw
  BY DEF IdleSession, SessionAt, SessionRecord, SessionPc

\* What a worker may put in its record.
LEMMA WorkerRecords ==
    /\ IdleWorker \in WorkerRecord /\ IdleWorker.pc = "idle" /\ IdleWorker.attempt = NoAttempt
    /\ \A pc \in WorkerPc, r \in Receipts \cup {NoReceipt}, a \in Attempts :
            /\ WorkerAt(pc, r, a) \in WorkerRecord
            /\ WorkerAt(pc, r, a).pc = pc
            /\ WorkerAt(pc, r, a).receipt = r
            /\ WorkerAt(pc, r, a).attempt = a
  BY DEF WorkerRecord, WorkerAt, IdleWorker, WorkerPc, Attempts, NoAttempt

\* The rows that are inserted and claimed.
LEMMA JobRows ==
    /\ NoRow \in JobRow
    /\ NoRow.receipt = NoReceipt /\ NoRow.status = "absent" /\ NoRow.count = 0
    /\ \A r \in Receipts :
            /\ NewRow(r) \in JobRow
            /\ NewRow(r).receipt = r
            /\ NewRow(r).status = "pending"
            /\ NewRow(r).count = 0
    /\ \A r \in Receipts, j \in Jobs, n \in Nat :
            /\ LeasedRow(r, j, n) \in JobRow
            /\ LeasedRow(r, j, n).receipt = r
            /\ LeasedRow(r, j, n).status = "processing"
            /\ LeasedRow(r, j, n).count = n
  <1>1. NoAttempt \in Attempts /\ \A j \in Jobs, n \in Nat : <<j, n>> \in Attempts
    BY DEF Attempts
  <1>2. "pending" \in JobStatus /\ "processing" \in JobStatus
    BY DEF JobStatus
  <1> QED
    BY <1>1, <1>2 DEF JobRow, NoRow, NewRow, LeasedRow

\* A handler, a worker and a row that change in one field.
LEMMA SessionToEffect ==
    ASSUME TypeOK, NEW s \in Sessions, NEW pc \in SessionPc, SessionTo(s, pc),
           SessionBound(session[s]), session[s].pc # "idle",
           pc \in Publishing => session[s].pc \in Publishing
    PROVE  SessionEffect
  <1> DEFINE x == [session[s] EXCEPT !.pc = pc]
  <1>1. x \in SessionRecord /\ SessionBound(x)
    BY DEF TypeOK, SessionRecord, SessionBound
  <1>2. session' = [session EXCEPT ![s] = x]
    BY DEF SessionTo
  <1> QED
    BY <1>1, <1>2 DEF SessionEffect

LEMMA FinishEffect ==
    ASSUME NEW s \in Sessions, Finish(s)
    PROVE  SessionEffect
  BY SessionRecords DEF Finish, SessionEffect, SessionBound

LEMMA WorkerToEffect ==
    ASSUME TypeOK, NEW w \in Workers, NEW pc \in WorkerPc, WorkerTo(w, pc),
           WorkerBound(worker[w]), worker[w].pc # "idle"
    PROVE  WorkerEffect
  <1> DEFINE x == [worker[w] EXCEPT !.pc = pc]
  <1>1. /\ x \in WorkerRecord /\ WorkerBound(x)
        /\ x.attempt = worker[w].attempt /\ x.receipt = worker[w].receipt
    BY DEF TypeOK, WorkerRecord, WorkerBound
  <1>2. worker' = [worker EXCEPT ![w] = x]
    BY DEF WorkerTo
  <1> QED
    BY <1>1, <1>2 DEF WorkerEffect

LEMMA ReleaseEffect ==
    ASSUME NEW w \in Workers, Release(w)
    PROVE  WorkerEffect
  BY WorkerRecords DEF Release, WorkerEffect, WorkerBound

LEMMA WithStatusEffect ==
    ASSUME TypeOK, NEW j \in Jobs, NEW st \in JobStatus, job' = WithStatus(j, st),
           job[j].status # "absent",
           st \notin Terminal => ActiveJobs(job[j].receipt) \subseteq {j}
    PROVE  JobEffect
  <1> DEFINE x == [job[j] EXCEPT !.status = st]
  <1>1. /\ x \in JobRow /\ x.status = st /\ x.receipt = job[j].receipt
        /\ x.attempt = job[j].attempt /\ x.count = job[j].count
    BY DEF TypeOK, JobRow
  <1>2. job' = [job EXCEPT ![j] = x]
    BY DEF WithStatus
  <1>3. st # "absent"
    BY DEF JobStatus, Terminal
  <1> HIDE DEF x
  <1>4. RowEffect(j, x)
    BY <1>1, <1>3 DEF RowEffect
  <1> QED
    BY <1>1, <1>2, <1>4 DEF JobEffect

\* The active rows of a receipt that has at most one.
LEMMA OnlyActive ==
    ASSUME OneActive, NEW j \in Jobs, IsActive(j)
    PROVE  ActiveJobs(job[j].receipt) = {j}
  BY DEF OneActive, ActiveJobs, RowsOf

LEMMA RequeuedEffect ==
    ASSUME TypeOK, OneActive, NEW j \in Jobs, IsActive(j), job' = Requeued(j)
    PROVE  JobEffect
  <1> DEFINE x == [job[j] EXCEPT !.status = "pending", !.leased = FALSE]
  <1>1. job[j] \in JobRow /\ job[j].status # "absent"
    BY DEF TypeOK, IsActive
  <1>2. /\ x \in JobRow /\ x.status = "pending" /\ x.receipt = job[j].receipt
        /\ x.attempt = job[j].attempt /\ x.count = job[j].count
    BY <1>1 DEF JobRow, JobStatus, Terminal
  <1>3. job' = [job EXCEPT ![j] = x]
    BY DEF Requeued
  <1> HIDE DEF x
  <1>4. RowEffect(j, x)
    BY <1>1, <1>2, OnlyActive DEF RowEffect
  <1> QED
    BY <1>2, <1>3, <1>4 DEF JobEffect

LEMMA UnleasedEffect ==
    ASSUME TypeOK, OneActive, NEW j \in Jobs, job[j].status # "absent",
           job' = [job EXCEPT ![j].leased = FALSE]
    PROVE  JobEffect
  <1> DEFINE x == [job[j] EXCEPT !.leased = FALSE]
  <1>1. job[j] \in JobRow
    BY DEF TypeOK
  <1>2. /\ x \in JobRow /\ x.status = job[j].status /\ x.receipt = job[j].receipt
        /\ x.attempt = job[j].attempt /\ x.count = job[j].count
    BY <1>1 DEF JobRow
  <1>3. job' = [job EXCEPT ![j] = x]
    OBVIOUS
  <1> HIDE DEF x
  <1>4. job[j].status \notin Terminal => ActiveJobs(job[j].receipt) \subseteq {j}
    BY OnlyActive DEF IsActive
  <1>5. RowEffect(j, x)
    BY <1>2, <1>4 DEF RowEffect
  <1> QED
    BY <1>2, <1>3, <1>5 DEF JobEffect

-----------------------------------------------------------------------------
(* Every action is one of the effects                                      *)

\* The receipt statuses that actions write.
LEMMA Statuses ==
    /\ {"UPLOADED", "PROCESSING", "FAILED", "READY_FOR_REVIEW", "CONFIRMED"} \subseteq ReceiptStatus
    /\ JobStatus = {"pending", "published", "processing", "done", "failed_permanent"}
    /\ Terminal = {"done", "failed_permanent"}
  BY DEF ReceiptStatus, Waiting, Reviewed, JobStatus, Terminal

\* What a handler may find when it looks for an active job.
LEMMA FoundJob ==
    ASSUME NEW s \in Sessions, NEW pc, NEW r, NEW saw, FindJob(s, pc, r, saw)
    PROVE  \E j \in Jobs \cup {NoJob} :
              /\ j # NoJob => j \in RowsOf(r)
              /\ session' = [session EXCEPT ![s] = SessionAt(pc, r, j, saw)]
  BY DEF FindJob, ActiveJobs, RowsOf

LEMMA SessionStepEffects ==
    ASSUME OutboxInv, NEW s \in Sessions, SessionStep(s)
    PROVE  Effects
  <1> USE DEF OutboxInv
  <1> DEFINE r == session[s].receipt
  <1>1. SessionBound(session[s]) /\ session[s] \in SessionRecord
    BY DEF Bound, TypeOK
  <1>2. session[s].pc # "idle" => r \in Receipts
    BY <1>1 DEF SessionBound
  <1>3. ASSUME NEW j \in Jobs \cup {NoJob}, NEW pc \in {"retried", "select", "deliver"},
               NEW saw \in ReceiptStatus \cup {"NONE"},
               session[s].pc # "idle", j # NoJob => j \in RowsOf(r), pc = "deliver" => j # NoJob,
               session' = [session EXCEPT ![s] = SessionAt(pc, r, j, saw)]
        PROVE  SessionEffect
    <2> DEFINE x == SessionAt(pc, r, j, saw)
    <2>1. /\ x \in SessionRecord
          /\ x.pc = pc /\ x.receipt = r /\ x.job = j
      BY <1>2, <1>3, SessionRecords DEF SessionPc
    <2>2. SessionBound(x)
      BY <1>2, <1>3, <2>1 DEF SessionBound, RowsOf, Publishing
    <2> QED
      BY <1>3, <2>1, <2>2 DEF SessionEffect
  <1>4. UNCHANGED worker => WorkerEffect
    BY DEF WorkerEffect
  <1>5. UNCHANGED job => JobEffect
    BY DEF JobEffect
  <1>6. CASE UploadCommit(s) \/ RetryCommit(s)
    <2>1. CommitWaiting(s) /\ UNCHANGED worker /\ r \in Receipts /\ session[s].pc # "idle"
      BY <1>2, <1>6 DEF UploadCommit, RetryCommit
    <2>2. SessionEffect
      BY <1>3, <2>1, FinishEffect DEF CommitWaiting
    <2>3. JobEffect
      BY <1>5, <2>1 DEF CommitWaiting, Enqueue, JobEffect
    <2>4. receipt' \in [Receipts -> ReceiptStatus \cup {"NONE"}]
      BY <2>1, Statuses DEF CommitWaiting, TypeOK
    <2>5. overrun' \subseteq Receipts
      BY <1>6, <2>1 DEF UploadCommit, RetryCommit, TypeOK
    <2>6. Others
      BY <1>6, <2>4, <2>5 DEF UploadCommit, RetryCommit, Others, TypeOK
    <2> QED
      BY <1>4, <2>1, <2>2, <2>3, <2>6 DEF Effects
  <1>7. CASE RetryFind(s)
    <2>1. session[s].saw \in ReceiptStatus \cup {"NONE"} /\ session[s].pc # "idle"
      BY <1>1, <1>7 DEF RetryFind, SessionRecord
    <2>2. Finish(s) => SessionEffect
      BY FinishEffect
    <2>3. FindJob(s, "retried", r, session[s].saw) => SessionEffect
      BY <1>3, <2>1, FoundJob
    <2>4. SessionEffect
      BY <1>7, <2>2, <2>3 DEF RetryFind
    <2>5. Others
      BY <1>7 DEF RetryFind, Others, TypeOK
    <2> QED
      BY <1>4, <1>5, <1>7, <2>4, <2>5 DEF RetryFind, Effects
  <1>8. CASE ConfirmCommit(s)
    <2>1. Others
      BY <1>2, <1>8, Statuses DEF ConfirmCommit, Others, TypeOK
    <2> QED
      BY <1>4, <1>5, <1>8, <2>1, FinishEffect DEF ConfirmCommit, Effects
  <1>9. CASE DeleteCommit(s)
    <2>1. Others
      BY <1>9 DEF DeleteCommit, Others, TypeOK
    <2> QED
      BY <1>4, <1>5, <1>9, <2>1, FinishEffect DEF DeleteCommit, Effects
  <1>10. CASE SelectForReceipt(s)
    <2>1. SessionEffect
      BY <1>3, <1>10, FinishEffect DEF SelectForReceipt, ActiveJobs, RowsOf, ReceiptStatus
    <2>2. Others
      BY <1>10 DEF SelectForReceipt, Others, TypeOK
    <2> QED
      BY <1>4, <1>5, <1>10, <2>1, <2>2 DEF SelectForReceipt, Effects
  <1>11. CASE Deliver(s)
    <2>1. SessionEffect
      BY <1>1, <1>11, SessionToEffect DEF Deliver, SessionPc, Publishing
    <2>2. Others
      BY <1>2, <1>11 DEF Deliver, Others, TypeOK
    <2> QED
      BY <1>4, <1>5, <1>11, <2>1, <2>2 DEF Deliver, Effects
  <1>12. CASE Refresh(s)
    <2>1. SessionEffect
      BY <1>1, <1>12, SessionToEffect, FinishEffect DEF Refresh, SessionPc, Publishing
    <2>2. Others
      BY <1>12 DEF Refresh, Others, TypeOK
    <2> QED
      BY <1>4, <1>5, <1>12, <2>1, <2>2 DEF Refresh, Effects
  <1>13. CASE Stamp(s)
    <2>1. JobEffect
      <3>1. PICK j \in Jobs : j = session[s].job /\ job[j].receipt = r
        BY <1>1, <1>13 DEF Stamp, SessionBound, SessionRecord, Publishing
      <3>2. job[j].status # "absent"
        BY <1>2, <1>13, <3>1 DEF Stamp, Bound
      <3> QED
        BY <1>5, <1>13, <3>1, <3>2, WithStatusEffect, Statuses DEF Stamp
    <2>2. Others
      <3>1. session[s].job \in Jobs /\ job[session[s].job].receipt = r /\ r \in Receipts
        BY <1>1, <1>2, <1>13 DEF Stamp, SessionBound, SessionRecord, Publishing
      <3> QED
        BY <1>13, <3>1 DEF Stamp, Others, TypeOK
    <2> QED
      BY <1>4, <1>13, <2>1, <2>2, FinishEffect DEF Stamp, Effects
  <1> QED
    BY <1>6, <1>7, <1>8, <1>9, <1>10, <1>11, <1>12, <1>13 DEF SessionStep

LEMMA RequestEffects ==
    ASSUME OutboxInv, NEW s \in Sessions, NEW r \in Receipts, UserRequest(s, r)
    PROVE  Effects
  <1> USE DEF OutboxInv
  <1>1. ASSUME NEW j \in Jobs \cup {NoJob}, NEW pc \in {"upload", "retry", "confirm", "delete"},
               NEW saw \in ReceiptStatus \cup {"NONE"}, j # NoJob => j \in RowsOf(r),
               session' = [session EXCEPT ![s] = SessionAt(pc, r, j, saw)]
        PROVE  SessionEffect
    <2> DEFINE x == SessionAt(pc, r, j, saw)
    <2>1. /\ x \in SessionRecord
          /\ x.pc = pc /\ x.receipt = r /\ x.job = j
      BY SessionRecords DEF SessionPc
    <2>2. SessionBound(x)
      BY <1>1, <2>1 DEF SessionBound, Publishing, RowsOf
    <2> QED
      BY <1>1, <2>1, <2>2 DEF SessionEffect
  <1>2. UNCHANGED <<job, worker>> => JobEffect /\ WorkerEffect
    BY DEF JobEffect, WorkerEffect
  <1>3. ASSUME NEW pc \in {"retry", "confirm", "delete"}, BeginRequest(s, r, pc)
        PROVE  SessionEffect
    BY <1>1, <1>3 DEF BeginRequest, TypeOK
  <1>4. CASE UploadBegin(s, r)
    <2>1. SessionEffect
      BY <1>1, <1>4, FoundJob DEF UploadBegin
    <2>2. Others
      BY <1>4 DEF UploadBegin, Others, TypeOK
    <2> QED
      BY <1>2, <1>4, <2>1, <2>2 DEF UploadBegin, Effects
  <1>5. CASE RetryBegin(s, r)
    <2>1. Others
      BY <1>5 DEF RetryBegin, Others, TypeOK
    <2> QED
      BY <1>2, <1>3, <1>5, <2>1 DEF RetryBegin, Effects
  <1>6. CASE ConfirmBegin(s, r)
    <2>1. Others
      BY <1>6 DEF ConfirmBegin, Others, TypeOK
    <2> QED
      BY <1>2, <1>3, <1>6, <2>1 DEF ConfirmBegin, Effects
  <1>7. CASE DeleteBegin(s, r)
    <2>1. Others
      BY <1>7 DEF DeleteBegin, Others, TypeOK
    <2> QED
      BY <1>2, <1>3, <1>7, <2>1 DEF DeleteBegin, Effects
  <1> QED
    BY <1>4, <1>5, <1>6, <1>7 DEF UserRequest

LEMMA WorkerStepEffects ==
    ASSUME OutboxInv, NEW w \in Workers, WorkerStep(w)
    PROVE  Effects
  <1> USE DEF OutboxInv
  <1> DEFINE r == worker[w].receipt
  <1>1. WorkerBound(worker[w])
    BY DEF Bound
  <1>2. worker[w].pc # "idle" => r \in Receipts
    BY <1>1 DEF WorkerBound
  <1>3. UNCHANGED session => SessionEffect
    BY DEF SessionEffect
  <1>4. UNCHANGED job => JobEffect
    BY DEF JobEffect
  <1>5. ASSUME NEW pc \in {"claim", "enqueue", "insert", "save", "fail", "failperm"},
               worker[w].pc # "idle", WorkerTo(w, pc)
        PROVE  WorkerEffect
    BY <1>1, <1>5, WorkerToEffect DEF WorkerPc
  <1>6. ASSUME NEW j \in ActiveJobs(r)
        PROVE  /\ j \in Jobs /\ IsActive(j) /\ job[j].receipt = r /\ job[j].status # "absent"
               /\ ActiveJobs(job[j].receipt) = {j}
               /\ \A st \in JobStatus : job' = WithStatus(j, st) => JobEffect
               /\ job' = Requeued(j) => JobEffect
    <2>1. j \in Jobs /\ IsActive(j) /\ job[j].receipt = r /\ job[j].status # "absent"
      BY DEF ActiveJobs, RowsOf, IsActive
    <2>2. ActiveJobs(job[j].receipt) = {j}
      BY <2>1, OnlyActive
    <2> QED
      BY <2>1, <2>2, WithStatusEffect, RequeuedEffect
  <1>7. \A j \in Fenced(w) : j \in ActiveJobs(r)
    BY DEF Fenced
  <1>8. CASE ClaimNothing(w)
    <2>1. WorkerEffect
      BY <1>5, <1>8, ReleaseEffect DEF ClaimNothing
    <2>2. Others
      BY <1>8 DEF ClaimNothing, Others, TypeOK
    <2> QED
      BY <1>3, <1>4, <1>8, <2>1, <2>2 DEF ClaimNothing, Effects
  <1>9. CASE FindMissing(w) \/ InsertMissing(w)
    <2>1. WorkerEffect
      BY <1>5, <1>9, ReleaseEffect DEF FindMissing, InsertMissing
    <2>2. JobEffect
      BY <1>2, <1>4, <1>9 DEF FindMissing, InsertMissing, JobEffect
    <2>3. Others
      BY <1>9 DEF FindMissing, InsertMissing, Others, TypeOK
    <2> QED
      BY <1>3, <1>9, <2>1, <2>2, <2>3 DEF FindMissing, InsertMissing, Effects
  <1>10. CASE ClaimLeased(w)
    <2>1. Others
      BY <1>10 DEF ClaimLeased, Others, TypeOK
    <2> QED
      BY <1>3, <1>4, <1>10, <2>1, ReleaseEffect DEF ClaimLeased, Effects
  <1>11. CASE ClaimClosed(w)
    <2>1. PICK j \in ActiveJobs(r) :
            job' = WithStatus(j, "done") \/ job' = WithStatus(j, "failed_permanent")
      BY <1>11 DEF ClaimClosed
    <2>3. JobEffect
      BY <1>6, <2>1, Statuses
    <2>2. Others
      BY <1>11, Statuses DEF ClaimClosed, SetStatus, Others, TypeOK
    <2> QED
      BY <1>3, <1>11, <2>2, <2>3, ReleaseEffect DEF ClaimClosed, Effects
  <1>12. CASE Claim(w)
    <2>1. Started
      BY <1>6, <1>12 DEF Claim, Started
    <2>2. Others
      BY <1>12, Statuses DEF Claim, SetStatus, Others, TypeOK
    <2> QED
      BY <1>3, <1>12, <2>1, <2>2 DEF Claim, Effects
  <1>13. CASE RunOcr(w)
    <2>1. WorkerEffect
      BY <1>5, <1>13 DEF RunOcr
    <2>2. Others
      BY <1>13 DEF RunOcr, Others, TypeOK
    <2> QED
      BY <1>3, <1>4, <1>13, <2>1, <2>2 DEF RunOcr, Effects
  <1>14. CASE SaveResult(w)
    <2>1. JobEffect
      BY <1>4, <1>6, <1>7, <1>14, Statuses DEF SaveResult
    <2>2. Others
      BY <1>14, Statuses DEF SaveResult, SetStatus, Others, TypeOK
    <2> QED
      BY <1>3, <1>14, <2>1, <2>2, ReleaseEffect DEF SaveResult, Effects
  <1>15. CASE FailAttempt(w)
    <2>1. JobEffect
      BY <1>4, <1>6, <1>7, <1>15, Statuses DEF FailAttempt
    <2>2. Others
      BY <1>15, Statuses DEF FailAttempt, SetStatus, Others, TypeOK
    <2> QED
      BY <1>3, <1>15, <2>1, <2>2, ReleaseEffect DEF FailAttempt, Effects
  <1> QED
    BY <1>8, <1>9, <1>10, <1>11, <1>12, <1>13, <1>14, <1>15 DEF WorkerStep

LEMMA FaultEffects ==
    ASSUME OutboxInv,
           \/ \E s \in Sessions : SessionDies(s)
           \/ \E w \in Workers : WorkerCrash(w) \/ SaveRaises(w)
    PROVE  Effects
  <1> USE DEF OutboxInv
  <1>1. UNCHANGED session => SessionEffect
    BY DEF SessionEffect
  <1>2. UNCHANGED job => JobEffect
    BY DEF JobEffect
  <1>3. UNCHANGED worker => WorkerEffect
    BY DEF WorkerEffect
  <1>4. \A w \in Workers : WorkerBound(worker[w])
    BY DEF Bound
  <1>5. ASSUME NEW s \in Sessions, SessionDies(s)
        PROVE  Effects
    <2>1. Others
      BY <1>5 DEF SessionDies, Fault, Others, TypeOK
    <2> QED
      BY <1>2, <1>3, <1>5, <2>1, FinishEffect DEF SessionDies, Effects
  <1>6. ASSUME NEW w \in Workers, WorkerCrash(w)
        PROVE  Effects
    <2>1. Others
      BY <1>4, <1>6 DEF WorkerCrash, Fault, Others, TypeOK, WorkerBound
    <2> QED
      BY <1>1, <1>2, <1>6, <2>1, ReleaseEffect DEF WorkerCrash, Effects
  <1>7. ASSUME NEW w \in Workers, SaveRaises(w)
        PROVE  Effects
    <2>1. WorkerEffect
      BY <1>4, <1>7, WorkerToEffect DEF SaveRaises, WorkerPc
    <2>2. Others
      BY <1>7 DEF SaveRaises, Fault, Others, TypeOK
    <2> QED
      BY <1>1, <1>2, <1>7, <2>1, <2>2 DEF SaveRaises, Effects
  <1> QED
    BY <1>5, <1>6, <1>7

\* The remaining actions: publication of a due row, delivery, time, the image
\* clean-up, lost messages and account deletion.
LEMMA EnvironmentEffects ==
    ASSUME OutboxInv,
           \/ \E s \in Sessions, j \in Jobs : Reconcile(s, j)
           \/ \E w \in Workers, r \in Receipts : Consume(w, r)
           \/ \E j \in Jobs : LeaseExpires(j)
           \/ \E r \in Receipts : ExpireImage(r) \/ LoseMessage(r)
           \/ DeleteAccount
    PROVE  Effects
  <1> USE DEF OutboxInv
  <1>1. UNCHANGED session => SessionEffect
    BY DEF SessionEffect
  <1>2. UNCHANGED job => JobEffect
    BY DEF JobEffect
  <1>3. UNCHANGED worker => WorkerEffect
    BY DEF WorkerEffect
  <1>4. ASSUME NEW s \in Sessions, NEW j \in Jobs, Reconcile(s, j)
        PROVE  Effects
    <2> DEFINE x == SessionAt("deliver", job[j].receipt, j, "NONE")
    <2>1. job[j].receipt \in Receipts
      BY <1>4 DEF Reconcile, Bound, TypeOK, JobRow
    <2>2. x \in SessionRecord /\ x.pc = "deliver" /\ x.receipt = job[j].receipt /\ x.job = j
      BY <2>1, SessionRecords DEF SessionPc, ReceiptStatus
    <2>3. SessionEffect
      BY <1>4, <2>1, <2>2 DEF Reconcile, SessionEffect, SessionBound
    <2>4. Others
      BY <1>4 DEF Reconcile, Others, TypeOK
    <2> QED
      BY <1>2, <1>3, <1>4, <2>3, <2>4 DEF Reconcile, Effects
  <1>5. ASSUME NEW w \in Workers, NEW r \in Receipts, Consume(w, r)
        PROVE  Effects
    <2> DEFINE x == WorkerAt("claim", r, NoAttempt)
    <2>1. x \in WorkerRecord /\ x.receipt = r /\ x.attempt = NoAttempt
      BY WorkerRecords DEF WorkerPc, Attempts
    <2>2. WorkerEffect
      BY <1>5, <2>1 DEF Consume, WorkerEffect, WorkerBound
    <2>3. Others
      BY <1>5 DEF Consume, Others, TypeOK
    <2> QED
      BY <1>1, <1>2, <1>5, <2>2, <2>3 DEF Consume, Effects
  <1>6. ASSUME NEW j \in Jobs, LeaseExpires(j)
        PROVE  Effects
    <2>1. JobEffect
      BY <1>6, UnleasedEffect DEF LeaseExpires, IsActive
    <2>2. Others
      BY <1>6 DEF LeaseExpires, Others, TypeOK
    <2> QED
      BY <1>1, <1>3, <1>6, <2>1, <2>2 DEF LeaseExpires, Effects
  <1>7. ASSUME NEW r \in Receipts, ExpireImage(r) \/ LoseMessage(r)
        PROVE  Effects
    <2>1. Others
      BY <1>7 DEF ExpireImage, LoseMessage, Fault, Others, TypeOK
    <2> QED
      BY <1>1, <1>2, <1>3, <1>7, <2>1 DEF ExpireImage, LoseMessage, Effects
  <1>8. CASE DeleteAccount
    <2>1. Others
      BY <1>8 DEF DeleteAccount, Others, TypeOK
    <2> QED
      BY <1>1, <1>2, <1>3, <1>8, <2>1 DEF DeleteAccount, Effects
  <1> QED
    BY <1>4, <1>5, <1>6, <1>7, <1>8

LEMMA StepEffects ==
    ASSUME OutboxInv, Next
    PROVE  Effects
  BY EnvironmentEffects, SessionStepEffects, RequestEffects, WorkerStepEffects, FaultEffects
     DEF Next

-----------------------------------------------------------------------------
(* Every effect keeps the invariant                                        *)

LEMMA InitInv == Init => OutboxInv
  <1> SUFFICES ASSUME Init PROVE OutboxInv
    OBVIOUS
  <1>1. /\ \A s \in Sessions : session[s] = IdleSession
        /\ \A w \in Workers : worker[w] = IdleWorker
        /\ \A j \in Jobs : job[j] = NoRow
    BY DEF Init
  <1>2. TypeOK
    BY SessionRecords, WorkerRecords, JobRows, Statuses DEF Init, TypeOK
  <1>3. Bound
    BY <1>1, SessionRecords, WorkerRecords, JobRows DEF Bound, SessionBound, WorkerBound
  <1>4. OneActive
    BY <1>1, JobRows DEF OneActive, IsActive
  <1>5. AttemptsUnique
    BY <1>1, WorkerRecords DEF AttemptsUnique
  <1>6. AttemptsCounted
    BY <1>1, WorkerRecords DEF AttemptsCounted, NoAttempt
  <1> QED
    BY <1>2, <1>3, <1>4, <1>5, <1>6 DEF OutboxInv

\* Whatever happens to the rows: none loses its receipt or an attempt that it
\* has counted.
Kept ==
    /\ job' \in [Jobs -> JobRow]
    /\ \A j \in Jobs : job[j].receipt \in Receipts => job'[j].receipt = job[j].receipt
    /\ \A j \in Jobs : job'[j].count >= job[j].count
    /\ \A j \in Jobs : job'[j].status = "absent" <=> job'[j].receipt = NoReceipt

\* ... and no receipt gets a second active row.
LEMMA RowsKept ==
    ASSUME OutboxInv, JobEffect \/ Started
    PROVE  Kept /\ OneActive'
  <1> USE DEF OutboxInv
  <1>0. \A j \in Jobs : job[j] \in JobRow /\ job[j].count \in Nat
    BY DEF TypeOK, JobRow
  <1>1. CASE UNCHANGED job
    <2>1. Kept
      BY <1>0, <1>1 DEF TypeOK, Bound, Kept
    <2>2. OneActive'
      BY <1>1 DEF OneActive, IsActive
    <2> QED
      BY <2>1, <2>2
  <1>2. ASSUME NEW i \in Jobs, NEW x \in JobRow, job' = [job EXCEPT ![i] = x],
               x.status # "absent", x.receipt \in Receipts,
               job[i].receipt \in {NoReceipt, x.receipt}, x.count >= job[i].count,
               x.status \notin Terminal => ActiveJobs(x.receipt) \subseteq {i}
        PROVE  Kept /\ OneActive'
    <2>1. /\ job'[i] = x
          /\ \A j \in Jobs \ {i} : job'[j] = job[j]
      BY <1>2 DEF TypeOK
    <2>2. Kept
      BY <1>0, <1>2, <2>1 DEF TypeOK, Bound, Kept
    <2>3. ASSUME NEW j \in Jobs, NEW k \in Jobs, IsActive(j)', IsActive(k)',
                 job'[j].receipt = job'[k].receipt, j # k
          PROVE  FALSE
      <3>1. CASE j # i /\ k # i
        BY <2>1, <2>3, <3>1 DEF OneActive, IsActive
      <3>2. ASSUME NEW m \in Jobs \ {i}, IsActive(m)', IsActive(i)',
                   job'[m].receipt = job'[i].receipt
            PROVE  FALSE
        <4>1. m \in ActiveJobs(x.receipt)
          BY <2>1, <3>2 DEF ActiveJobs, RowsOf, IsActive
        <4>2. x.status \notin Terminal
          BY <2>1, <3>2 DEF IsActive
        <4> QED
          BY <1>2, <4>1, <4>2
      <3> QED
        BY <2>3, <3>1, <3>2
    <2> QED
      BY <2>2, <2>3 DEF OneActive
  <1>3. ASSUME NEW r \in Receipts, ActiveJobs(r) = {}, InsertJob(r)
        PROVE  Kept /\ OneActive'
    <2>1. PICK j \in Jobs : job[j] = NoRow /\ job' = [job EXCEPT ![j] = NewRow(r)]
      BY <1>3 DEF InsertJob
    <2> DEFINE x == NewRow(r)
    <2>2. /\ x \in JobRow /\ x.receipt = r /\ x.status # "absent" /\ x.count >= job[j].count
          /\ job[j].receipt = NoReceipt
      BY <2>1, JobRows
    <2>3. ActiveJobs(x.receipt) \subseteq {j}
      BY <1>3, <2>2
    <2> HIDE DEF x
    <2> QED
      BY <1>2, <2>1, <2>2, <2>3 DEF x
  <1>4. ASSUME NEW j \in Jobs, NEW x \in JobRow, RowEffect(j, x), job' = [job EXCEPT ![j] = x]
        PROVE  Kept /\ OneActive'
    <2>1. x.receipt \in Receipts /\ x.count >= job[j].count
      BY <1>0, <1>4 DEF RowEffect, Bound, JobRow
    <2> QED
      BY <1>2, <1>4, <2>1 DEF RowEffect
  <1>5. ASSUME NEW j \in Jobs, IsActive(j),
               job' = [job EXCEPT ![j] = LeasedRow(job[j].receipt, j, job[j].count + 1)]
        PROVE  Kept /\ OneActive'
    <2> DEFINE x == LeasedRow(job[j].receipt, j, job[j].count + 1)
    <2>1. job[j].receipt \in Receipts
      BY <1>0, <1>5 DEF IsActive, Bound, JobRow
    <2>2. /\ x \in JobRow /\ x.receipt = job[j].receipt /\ x.status # "absent"
          /\ x.count >= job[j].count
      BY <1>0, <2>1, JobRows
    <2>3. ActiveJobs(x.receipt) \subseteq {j}
      BY <1>5, <2>2, OnlyActive
    <2> HIDE DEF x
    <2> QED
      BY <1>2, <1>5, <2>1, <2>2, <2>3 DEF x
  <1> QED
    BY <1>1, <1>3, <1>4, <1>5 DEF JobEffect, Started

\* An attempt that starts is new.
LEMMA AttemptsKept ==
    ASSUME OutboxInv, Started \/ (JobEffect /\ WorkerEffect)
    PROVE  /\ worker' \in [Workers -> WorkerRecord]
           /\ \A w \in Workers : WorkerBound(worker[w])'
           /\ AttemptsUnique'
           /\ AttemptsCounted'
  <1> USE DEF OutboxInv
  <1>0. /\ \A j \in Jobs : job[j] \in JobRow /\ job[j].count \in Nat /\ job'[j].count \in Nat
        /\ \A w \in Workers : worker[w] \in WorkerRecord /\ WorkerBound(worker[w])
        /\ Kept
    BY RowsKept DEF TypeOK, JobRow, Bound, Kept
  <1>1. CASE JobEffect /\ UNCHANGED worker
    <2>1. AttemptsCounted'
      BY <1>0, <1>1 DEF AttemptsCounted, Kept
    <2> QED
      BY <1>0, <1>1, <2>1 DEF TypeOK, AttemptsUnique
  <1>2. ASSUME NEW w \in Workers, NEW x \in WorkerRecord, WorkerBound(x),
               x.attempt \in {worker[w].attempt, NoAttempt}, worker' = [worker EXCEPT ![w] = x]
        PROVE  /\ worker' \in [Workers -> WorkerRecord]
               /\ \A v \in Workers : WorkerBound(worker[v])'
               /\ AttemptsUnique'
               /\ AttemptsCounted'
    <2>1. /\ worker'[w] = x
          /\ \A v \in Workers \ {w} : worker'[v] = worker[v]
          /\ \A v \in Workers : worker'[v].attempt \in {worker[v].attempt, NoAttempt}
      BY <1>2 DEF TypeOK
    <2>2. AttemptsUnique'
      BY <2>1 DEF AttemptsUnique
    <2>3. ASSUME NEW v \in Workers, NEW j \in Jobs, NEW n \in Nat, worker'[v].attempt = <<j, n>>
          PROVE  n <= job'[j].count
      <3>1. worker[v].attempt = <<j, n>>
        BY <2>1, <2>3 DEF NoAttempt
      <3> QED
        BY <1>0, <3>1 DEF AttemptsCounted, Kept
    <2> QED
      BY <1>0, <1>2, <2>1, <2>2, <2>3 DEF TypeOK, AttemptsCounted, WorkerBound
  <1>3. ASSUME NEW w \in Workers, NEW i \in Jobs, IsActive(i),
               job' = [job EXCEPT ![i] = LeasedRow(job[i].receipt, i, job[i].count + 1)],
               worker' = [worker EXCEPT
                    ![w] = WorkerAt("ocr", job[i].receipt, <<i, job[i].count + 1>>)]
        PROVE  /\ worker' \in [Workers -> WorkerRecord]
               /\ \A v \in Workers : WorkerBound(worker[v])'
               /\ AttemptsUnique'
               /\ AttemptsCounted'
    <2> DEFINE x == WorkerAt("ocr", job[i].receipt, <<i, job[i].count + 1>>)
    <2>1. job[i].receipt \in Receipts /\ job[i].count + 1 \in Nat
      BY <1>0, <1>3 DEF IsActive, Bound, JobRow
    <2>2. /\ x \in WorkerRecord
          /\ x.receipt \in Receipts
          /\ x.attempt = <<i, job[i].count + 1>>
      BY <2>1, WorkerRecords DEF WorkerPc, Attempts
    <2>3. job'[i].count = job[i].count + 1
      BY <1>3, <2>1, JobRows DEF TypeOK
    <2>4. /\ worker'[w] = x
          /\ \A v \in Workers \ {w} : worker'[v] = worker[v]
          /\ worker' \in [Workers -> WorkerRecord]
      BY <1>3, <2>2 DEF TypeOK
    <2>5. \A v \in Workers : worker[v].attempt # <<i, job[i].count + 1>>
      BY <1>0, <2>1 DEF AttemptsCounted
    <2>6. AttemptsUnique'
      BY <2>2, <2>4, <2>5 DEF AttemptsUnique
    <2>7. ASSUME NEW v \in Workers, NEW j \in Jobs, NEW n \in Nat, worker'[v].attempt = <<j, n>>
          PROVE  n <= job'[j].count
      <3>1. CASE v = w
        BY <1>0, <2>2, <2>3, <2>4, <2>7, <3>1
      <3>2. CASE v # w
        BY <1>0, <2>4, <2>7, <3>2 DEF AttemptsCounted, Kept
      <3> QED
        BY <3>1, <3>2
    <2>8. \A v \in Workers : WorkerBound(worker[v])'
      BY <1>0, <2>2, <2>4 DEF WorkerBound
    <2> QED
      BY <2>4, <2>6, <2>7, <2>8 DEF AttemptsCounted
  <1> QED
    BY <1>1, <1>2, <1>3 DEF Started, WorkerEffect

LEMMA SessionsKept ==
    ASSUME OutboxInv, SessionEffect, Kept
    PROVE  /\ session' \in [Sessions -> SessionRecord]
           /\ \A s \in Sessions : SessionBound(session[s])'
  <1> USE DEF OutboxInv
  <1>1. CASE UNCHANGED session
    BY <1>1 DEF TypeOK, Bound, SessionBound, SessionRecord, Kept
  <1>2. ASSUME NEW s \in Sessions, NEW x \in SessionRecord, SessionBound(x),
               session' = [session EXCEPT ![s] = x]
        PROVE  /\ session' \in [Sessions -> SessionRecord]
               /\ \A t \in Sessions : SessionBound(session[t])'
    <2>1. \A t \in Sessions : session'[t] \in {session[t], x}
      BY <1>2 DEF TypeOK
    <2>2. ASSUME NEW t \in Sessions
          PROVE  SessionBound(session[t])'
      BY <1>2, <2>1 DEF SessionBound, Kept, Bound, TypeOK, SessionRecord
    <2> QED
      BY <1>2, <2>2 DEF TypeOK
  <1> QED
    BY <1>1, <1>2 DEF SessionEffect

LEMMA StepInv == OutboxInv /\ [Next]_vars => OutboxInv'
  <1> SUFFICES ASSUME OutboxInv, [Next]_vars PROVE OutboxInv'
    OBVIOUS
  <1>1. CASE Next
    <2>1. Effects
      BY <1>1, StepEffects
    <2>2. Kept /\ OneActive'
      BY <2>1, RowsKept DEF Effects
    <2>3. /\ worker' \in [Workers -> WorkerRecord]
          /\ \A w \in Workers : WorkerBound(worker[w])'
          /\ AttemptsUnique' /\ AttemptsCounted'
      BY <2>1, AttemptsKept DEF Effects
    <2>4. /\ session' \in [Sessions -> SessionRecord]
          /\ \A s \in Sessions : SessionBound(session[s])'
      BY <2>1, <2>2, SessionsKept DEF Effects
    <2>5. TypeOK'
      BY <2>1, <2>2, <2>3, <2>4 DEF TypeOK, Effects, Others, Kept
    <2>6. Bound'
      BY <2>2, <2>3, <2>4 DEF Bound, Kept
    <2> QED
      BY <2>2, <2>3, <2>5, <2>6 DEF OutboxInv
  <1>2. CASE UNCHANGED vars
    BY <1>2 DEF vars, OutboxInv, TypeOK, Bound, SessionBound, WorkerBound, OneActive, IsActive,
                AttemptsUnique, AttemptsCounted
  <1> QED
    BY <1>1, <1>2

LEMMA SpecInv == Spec => []OutboxInv
  BY InitInv, StepInv, PTL DEF Spec

-----------------------------------------------------------------------------
\* Every state of every behaviour has the types that the columns and the
\* handlers' variables have.
THEOREM TypeCorrect == Spec => []TypeOK
  <1>1. OutboxInv => TypeOK
    BY DEF OutboxInv
  <1> QED
    BY <1>1, SpecInv, PTL

\* The fence (ocr_outbox.py:307-325) is exclusive with any number of workers,
\* rows, handlers and faults: two workers that pass it work on one row, whose
\* attempt only one of them can hold.
THEOREM FenceIsExclusive == Spec => []FenceExclusive
  <1>1. OutboxInv => FenceExclusive
    <2> SUFFICES ASSUME OutboxInv,
                        NEW v \in Workers, NEW w \in Workers,
                        worker[v].receipt = worker[w].receipt,
                        worker[v].attempt # NoAttempt,
                        NEW i \in Fenced(v), NEW j \in Fenced(w)
                 PROVE  v = w
      BY DEF FenceExclusive
    <2>1. /\ i \in Jobs /\ IsActive(i) /\ job[i].receipt = worker[v].receipt
          /\ j \in Jobs /\ IsActive(j) /\ job[j].receipt = worker[w].receipt
          /\ job[i].attempt = worker[v].attempt
          /\ job[j].attempt = worker[w].attempt
      BY DEF Fenced, ActiveJobs, RowsOf
    <2>2. i = j
      BY <2>1 DEF OutboxInv, OneActive
    <2> QED
      BY <2>1, <2>2 DEF OutboxInv, AttemptsUnique
  <1> QED
    BY <1>1, SpecInv, PTL

-----------------------------------------------------------------------------
(* No lost job                                                             *)

\* What NoOrphan says of one step.
NoNewOrphan ==
    \A r \in Receipts :
        alive' /\ Orphan(r)' =>
            Orphan(r) \/ \E s \in Sessions : session[s].receipt = r /\ ReliesOnClosed(s)

\* Writing row j of receipt q leaves the other receipts' active rows alone.
LEMMA OtherRows ==
    ASSUME OutboxInv, NEW j \in Jobs, NEW q \in Receipts, NEW x \in JobRow,
           job[j].receipt \in {NoReceipt, q}, x.receipt = q, job' = [job EXCEPT ![j] = x]
    PROVE  /\ \A r \in Receipts \ {q} : ActiveJobs(r)' = ActiveJobs(r)
           /\ x.status \notin Terminal \cup {"absent"} => ActiveJobs(q)' # {}
  <1>1. /\ job'[j] = x
        /\ \A i \in Jobs \ {j} : job'[i] = job[i]
    BY DEF OutboxInv, TypeOK
  <1>2. ASSUME NEW r \in Receipts \ {q}
        PROVE  ActiveJobs(r)' = ActiveJobs(r)
    BY <1>1 DEF ActiveJobs, RowsOf, IsActive
  <1>3. x.status \notin Terminal \cup {"absent"} => j \in ActiveJobs(q)'
    BY <1>1 DEF ActiveJobs, RowsOf, IsActive
  <1> QED
    BY <1>2, <1>3

\* A step that concerns one receipt q.
LEMMA OneReceipt ==
    ASSUME NEW q \in Receipts, alive' => alive,
           \A r \in Receipts \ {q} :
                receipt'[r] = receipt[r] /\ ActiveJobs(r)' = ActiveJobs(r),
           alive' /\ receipt'[q] \in Waiting => ActiveJobs(q)' # {}
    PROVE  NoNewOrphan
  BY DEF NoNewOrphan, Orphan

LEMMA SessionNoOrphan ==
    ASSUME OutboxInv, NEW s \in Sessions, SessionStep(s)
    PROVE  NoNewOrphan
  <1>1. PICK q \in Receipts : session[s].receipt = q
    BY DEF OutboxInv, Bound, SessionBound, SessionStep, UploadCommit, RetryFind, RetryCommit,
           ConfirmCommit, DeleteCommit, SelectForReceipt, Deliver, Refresh, Stamp
  <1>0. receipt \in [Receipts -> ReceiptStatus \cup {"NONE"}]
    BY DEF OutboxInv, TypeOK
  <1>2. ASSUME UNCHANGED <<receipt, job, alive>>
        PROVE  NoNewOrphan
    BY <1>2 DEF NoNewOrphan, Orphan, ActiveJobs, RowsOf, IsActive
  <1>3. ASSUME InsertJob(q), UNCHANGED alive, \A r \in Receipts \ {q} : receipt'[r] = receipt[r]
        PROVE  NoNewOrphan
    <2>1. PICK j \in Jobs : job[j] = NoRow /\ job' = [job EXCEPT ![j] = NewRow(q)]
      BY <1>3 DEF InsertJob
    <2> DEFINE x == NewRow(q)
    <2>2. x \in JobRow /\ x.receipt = q /\ x.status = "pending" /\ job[j].receipt = NoReceipt
      BY <2>1, JobRows
    <2> HIDE DEF x
    <2>3. /\ \A r \in Receipts \ {q} : ActiveJobs(r)' = ActiveJobs(r)
          /\ x.status \notin Terminal \cup {"absent"} => ActiveJobs(q)' # {}
      BY <2>1, <2>2, OtherRows DEF x
    <2> QED
      BY <1>3, <2>2, <2>3, OneReceipt, Statuses
  <1>4. ASSUME UNCHANGED <<job, alive>>,
               \A r \in Receipts \ {q} : receipt'[r] = receipt[r],
               receipt'[q] \in Waiting => ActiveJobs(q) # {} \/ ReliesOnClosed(s)
        PROVE  NoNewOrphan
    <2>1. \A r \in Receipts : ActiveJobs(r)' = ActiveJobs(r)
      BY <1>4 DEF ActiveJobs, RowsOf, IsActive
    <2> QED
      BY <1>1, <1>4, <2>1 DEF NoNewOrphan, Orphan
  <1>5. CASE UploadCommit(s) \/ RetryCommit(s)
    <2>1. /\ CommitWaiting(s) /\ UNCHANGED alive
          /\ session[s].pc \in {"upload", "retried"}
      BY <1>5 DEF UploadCommit, RetryCommit
    <2>2. CASE UNCHANGED <<receipt, job>>
      BY <1>2, <2>1, <2>2
    <2>3. ASSUME receipt' = [receipt EXCEPT ![q] = "UPLOADED"], Enqueue(s),
                 session' = [session EXCEPT ![s] = SessionAt("select", q, NoJob, "NONE")]
          PROVE  NoNewOrphan
      <3>1. \A r \in Receipts \ {q} : receipt'[r] = receipt[r]
        BY <1>0, <2>3
      <3>2. CASE session[s].job = NoJob
        BY <1>1, <1>3, <2>1, <2>3, <3>1, <3>2 DEF Enqueue
      <3>3. CASE session[s].job # NoJob
        <4> DEFINE j == session[s].job
        <4>1. j \in Jobs /\ job[j].receipt = q /\ UNCHANGED job
          BY <1>1, <2>1, <2>3, <3>3 DEF Enqueue, OutboxInv, TypeOK, SessionRecord, Bound, SessionBound
        <4>2. session'[s].pc = "select"
          <5> DEFINE x == SessionAt("select", q, NoJob, "NONE")
          <5>1. x.pc = "select"
            BY SessionRecords DEF SessionPc
          <5> HIDE DEF x
          <5>2. session'[s] = x
            BY <2>3 DEF OutboxInv, TypeOK, x
          <5> QED BY <5>1, <5>2
        <4>3. ActiveJobs(q) # {} \/ ReliesOnClosed(s)
          BY <2>1, <3>3, <4>1, <4>2 DEF ReliesOnClosed, ActiveJobs, RowsOf
        <4> QED
          BY <1>4, <2>1, <3>1, <4>1, <4>3
      <3> QED
        BY <3>2, <3>3
    <2> QED
      BY <1>1, <2>1, <2>2, <2>3 DEF CommitWaiting
  <1>7. CASE ConfirmCommit(s)
    <2>1. receipt'[q] \notin Waiting
      BY <1>1, <1>7 DEF ConfirmCommit, Waiting, OutboxInv, TypeOK
    <2> QED
      BY <1>1, <1>4, <1>7, <2>1 DEF ConfirmCommit
  <1>8. CASE DeleteCommit(s)
    <2>1. receipt'[q] \notin Waiting
      BY <1>1, <1>8 DEF DeleteCommit, Waiting, Reviewed, OutboxInv, TypeOK
    <2> QED
      BY <1>1, <1>4, <1>8, <1>0, <2>1 DEF DeleteCommit
  <1>9. CASE RetryFind(s) \/ SelectForReceipt(s) \/ Deliver(s) \/ Refresh(s)
    BY <1>2, <1>9 DEF RetryFind, SelectForReceipt, Deliver, Refresh
  <1>10. CASE Stamp(s)
    <2> DEFINE j == session[s].job
               x == [job[j] EXCEPT !.status = "published"]
    <2>1. CASE UNCHANGED job
      BY <1>2, <1>10, <2>1 DEF Stamp
    <2>2. CASE job' = WithStatus(j, "published")
      <3>1. j \in Jobs /\ job[j].receipt = q /\ q \in Receipts
        BY <1>1, <1>10 DEF Stamp, OutboxInv, TypeOK, SessionRecord, Bound, SessionBound, Publishing
      <3>2. x \in JobRow /\ x.receipt = q /\ x.status = "published"
        BY <3>1, Statuses DEF OutboxInv, TypeOK, JobRow
      <3>3. job' = [job EXCEPT ![j] = x]
        BY <2>2 DEF WithStatus
      <3> HIDE DEF x
      <3>4. /\ \A r \in Receipts \ {q} : ActiveJobs(r)' = ActiveJobs(r)
            /\ x.status \notin Terminal \cup {"absent"} => ActiveJobs(q)' # {}
        BY <3>1, <3>2, <3>3, OtherRows
      <3> QED
        BY <1>10, <3>1, <3>2, <3>4, OneReceipt, Statuses DEF Stamp
    <2> QED
      BY <1>10, <2>1, <2>2 DEF Stamp
  <1> QED
    BY <1>5, <1>7, <1>8, <1>9, <1>10 DEF SessionStep

LEMMA WorkerNoOrphan ==
    ASSUME OutboxInv, NEW w \in Workers, WorkerStep(w)
    PROVE  NoNewOrphan
  <1>0. receipt \in [Receipts -> ReceiptStatus \cup {"NONE"}]
    BY DEF OutboxInv, TypeOK
  <1>1. PICK q \in Receipts : worker[w].receipt = q
    BY DEF OutboxInv, Bound, WorkerBound, WorkerStep, ClaimNothing, FindMissing, InsertMissing,
           ClaimLeased, ClaimClosed, Claim, RunOcr, SaveResult, FailAttempt
  <1>2. ASSUME UNCHANGED <<receipt, job, alive>>
        PROVE  NoNewOrphan
    BY <1>2 DEF NoNewOrphan, Orphan, ActiveJobs, RowsOf, IsActive
  <1>3. ASSUME NEW j \in Jobs, NEW x \in JobRow, job[j].receipt \in {NoReceipt, q},
               x.receipt = q, job' = [job EXCEPT ![j] = x], UNCHANGED alive,
               \A r \in Receipts \ {q} : receipt'[r] = receipt[r],
               alive /\ receipt'[q] \in Waiting => x.status \notin Terminal \cup {"absent"}
        PROVE  NoNewOrphan
    <2>1. /\ \A r \in Receipts \ {q} : ActiveJobs(r)' = ActiveJobs(r)
          /\ x.status \notin Terminal \cup {"absent"} => ActiveJobs(q)' # {}
      BY <1>3, OtherRows
    <2> QED
      BY <1>3, <2>1, OneReceipt
  \* A row that is closed or put back.
  <1>4. ASSUME NEW j \in ActiveJobs(q), UNCHANGED alive,
               \A r \in Receipts \ {q} : receipt'[r] = receipt[r],
               \/ job' = Requeued(j)
               \/ /\ job' = WithStatus(j, "done") \/ job' = WithStatus(j, "failed_permanent")
                  /\ ~(alive /\ receipt'[q] \in Waiting)
        PROVE  NoNewOrphan
    <2>1. j \in Jobs /\ job[j].receipt = q /\ job[j] \in JobRow
      BY DEF ActiveJobs, RowsOf, OutboxInv, TypeOK
    <2>2. CASE job' = Requeued(j)
      <3> DEFINE x == [job[j] EXCEPT !.status = "pending", !.leased = FALSE]
      <3>1. x \in JobRow /\ x.receipt = q /\ x.status = "pending"
        BY <2>1, Statuses DEF JobRow
      <3>2. job' = [job EXCEPT ![j] = x]
        BY <2>2 DEF Requeued
      <3> HIDE DEF x
      <3> QED
        BY <1>3, <1>4, <2>1, <3>1, <3>2, Statuses
    <2>3. ASSUME NEW st \in {"done", "failed_permanent"}, job' = WithStatus(j, st),
                 ~(alive /\ receipt'[q] \in Waiting)
          PROVE  NoNewOrphan
      <3> DEFINE x == [job[j] EXCEPT !.status = st]
      <3>1. x \in JobRow /\ x.receipt = q
        BY <2>1, Statuses DEF JobRow
      <3>2. job' = [job EXCEPT ![j] = x]
        BY <2>3 DEF WithStatus
      <3> HIDE DEF x
      <3> QED
        BY <1>3, <1>4, <2>1, <2>3, <3>1, <3>2
    <2> QED
      BY <1>4, <2>2, <2>3
  <1>5. CASE ClaimNothing(w) \/ FindMissing(w) \/ ClaimLeased(w) \/ RunOcr(w)
    BY <1>2, <1>5 DEF ClaimNothing, FindMissing, ClaimLeased, RunOcr
  <1>6. CASE InsertMissing(w)
    <2>1. CASE UNCHANGED job
      BY <1>2, <1>6, <2>1 DEF InsertMissing
    <2>2. CASE InsertJob(q)
      <3>1. PICK j \in Jobs : job[j] = NoRow /\ job' = [job EXCEPT ![j] = NewRow(q)]
        BY <2>2 DEF InsertJob
      <3> DEFINE x == NewRow(q)
      <3>2. /\ x \in JobRow /\ x.receipt = q /\ x.status = "pending"
            /\ job[j].receipt = NoReceipt
        BY <3>1, JobRows
      <3>3. UNCHANGED <<receipt, alive>>
        BY <1>6 DEF InsertMissing
      <3> HIDE DEF x
      <3> QED
        BY <1>3, <3>1, <3>2, <3>3, Statuses DEF x
    <2> QED
      BY <1>1, <1>6, <2>1, <2>2 DEF InsertMissing
  <1>7. CASE ClaimClosed(w)
    <2>1. PICK j \in ActiveJobs(q) :
            \/ /\ receipt[q] \in Reviewed
               /\ job' = WithStatus(j, "done")
               /\ UNCHANGED receipt
            \/ /\ ~alive \/ receipt[q] = "NONE"
               /\ job' = WithStatus(j, "failed_permanent")
               /\ UNCHANGED receipt
            \/ /\ job' = WithStatus(j, "failed_permanent")
               /\ receipt' = [receipt EXCEPT ![q] = "FAILED"]
      BY <1>1, <1>7 DEF ClaimClosed, SetStatus
    <2>2. /\ UNCHANGED alive
          /\ \A r \in Receipts \ {q} : receipt'[r] = receipt[r]
          /\ ~(alive /\ receipt'[q] \in Waiting)
          /\ job' = WithStatus(j, "done") \/ job' = WithStatus(j, "failed_permanent")
      BY <1>0, <1>7, <2>1 DEF ClaimClosed, Reviewed, Waiting
    <2> QED
      BY <1>4, <2>2
  <1>8. CASE Claim(w)
    <2>1. PICK j \in ActiveJobs(q) :
            job' = [job EXCEPT ![j] = LeasedRow(q, j, job[j].count + 1)]
      BY <1>1, <1>8 DEF Claim
    <2> DEFINE x == LeasedRow(q, j, job[j].count + 1)
    <2>2. j \in Jobs /\ job[j].receipt = q /\ job[j].count + 1 \in Nat
      BY DEF ActiveJobs, RowsOf, OutboxInv, TypeOK, JobRow
    <2>3. x \in JobRow /\ x.receipt = q /\ x.status = "processing"
      BY <2>2, JobRows
    <2>4. /\ UNCHANGED alive
          /\ \A r \in Receipts \ {q} : receipt'[r] = receipt[r]
      BY <1>0, <1>1, <1>8 DEF Claim, SetStatus
    <2> HIDE DEF x
    <2> QED
      BY <1>3, <2>1, <2>2, <2>3, <2>4, Statuses DEF x
  <1>9. CASE SaveResult(w)
    <2>1. CASE UNCHANGED <<receipt, job>>
      BY <1>2, <1>9, <2>1 DEF SaveResult
    <2>2. ASSUME NEW j \in Fenced(w),
                 \/ ~alive /\ job' = WithStatus(j, "failed_permanent") /\ UNCHANGED receipt
                 \/ /\ job' = WithStatus(j, "done")
                    /\ receipt' = [receipt EXCEPT ![q] = "READY_FOR_REVIEW"]
          PROVE  NoNewOrphan
      <3>1. j \in ActiveJobs(q)
        BY <1>1 DEF Fenced
      <3>2. /\ UNCHANGED alive
            /\ \A r \in Receipts \ {q} : receipt'[r] = receipt[r]
            /\ ~(alive /\ receipt'[q] \in Waiting)
            /\ job' = WithStatus(j, "done") \/ job' = WithStatus(j, "failed_permanent")
        BY <1>0, <1>9, <2>2 DEF SaveResult, Waiting
      <3> QED
        BY <1>4, <3>1, <3>2
    <2> QED
      BY <1>1, <1>9, <2>1, <2>2 DEF SaveResult, SetStatus
  <1>10. CASE FailAttempt(w)
    <2>1. CASE UNCHANGED <<receipt, job>>
      BY <1>2, <1>10, <2>1 DEF FailAttempt
    <2>2. ASSUME NEW j \in Fenced(w),
                 \/ /\ job' = WithStatus(j, "failed_permanent")
                    /\ receipt'[q] \in {"NONE", "FAILED"}
                 \/ job' = Requeued(j),
                 \A r \in Receipts \ {q} : receipt'[r] = receipt[r]
          PROVE  NoNewOrphan
      <3>1. j \in ActiveJobs(q)
        BY <1>1 DEF Fenced
      <3>2. /\ UNCHANGED alive
            /\ receipt'[q] \in {"NONE", "FAILED"} => receipt'[q] \notin Waiting
        BY <1>10 DEF FailAttempt, Waiting
      <3> QED
        BY <1>4, <2>2, <3>1, <3>2
    <2> QED
      BY <1>0, <1>1, <1>10, <2>1, <2>2 DEF FailAttempt, SetStatus
  <1> QED
    BY <1>5, <1>6, <1>7, <1>8, <1>9, <1>10 DEF WorkerStep

LEMMA EnvironmentNoOrphan ==
    ASSUME OutboxInv,
           \/ \E s \in Sessions, r \in Receipts : UserRequest(s, r)
           \/ \E s \in Sessions : SessionDies(s)
           \/ \E s \in Sessions, j \in Jobs : Reconcile(s, j)
           \/ \E w \in Workers, r \in Receipts : Consume(w, r)
           \/ \E w \in Workers : WorkerCrash(w) \/ SaveRaises(w)
           \/ \E j \in Jobs : LeaseExpires(j)
           \/ \E r \in Receipts : ExpireImage(r) \/ LoseMessage(r)
           \/ DeleteAccount
    PROVE  NoNewOrphan
  <1>1. ASSUME NEW j \in Jobs, LeaseExpires(j)
        PROVE  NoNewOrphan
    <2>1. \A i \in Jobs : job'[i].receipt = job[i].receipt /\ job'[i].status = job[i].status
      BY <1>1 DEF LeaseExpires, OutboxInv, TypeOK, JobRow
    <2>2. \A r \in Receipts : ActiveJobs(r)' = ActiveJobs(r)
      BY <2>1 DEF ActiveJobs, RowsOf, IsActive
    <2> QED
      BY <1>1, <2>2 DEF NoNewOrphan, Orphan, LeaseExpires
  <1>2. ASSUME UNCHANGED <<receipt, job>>, alive' => alive
        PROVE  NoNewOrphan
    BY <1>2 DEF NoNewOrphan, Orphan, ActiveJobs, RowsOf, IsActive
  <1>3. ASSUME NEW s \in Sessions, NEW r \in Receipts, UserRequest(s, r)
        PROVE  UNCHANGED <<receipt, job, alive>>
    BY <1>3 DEF UserRequest, UploadBegin, RetryBegin, ConfirmBegin, DeleteBegin
  <1> QED
    BY <1>1, <1>2, <1>3 DEF SessionDies, Reconcile, Consume, WorkerCrash, SaveRaises, ExpireImage,
                            LoseMessage, DeleteAccount

\* No lost job (ocr_outbox.py:47-67, :77-133): through any interleaving of
\* handlers, publications, workers and faults a receipt comes to wait for OCR
\* without an active job row only when an upload or a retry of it commits that
\* has found a row which was closed before the commit.
THEOREM NoLostJob == Spec => NoOrphan
  <1>1. OutboxInv /\ [Next]_vars =>
            [\A r \in Receipts :
                alive' /\ Orphan(r)' =>
                    \/ Orphan(r)
                    \/ \E s \in Sessions : session[s].receipt = r /\ ReliesOnClosed(s)]_vars
    <2>1. ASSUME OutboxInv, Next
          PROVE  NoNewOrphan
      BY <2>1, SessionNoOrphan, WorkerNoOrphan, EnvironmentNoOrphan DEF Next
    <2> QED
      BY <2>1 DEF NoNewOrphan
  <1> QED
    BY <1>1, SpecInv, PTL DEF Spec, NoOrphan

HIDE OutboxAssumption DEF Sessions

-----------------------------------------------------------------------------
(* A deleted account                                                       *)

\* No attempt and no result once the account is deleted: every step that writes
\* one of these statuses looks at deleted_at in the same transaction.
LEMMA DeletedStep ==
    ASSUME TypeOK, [Next]_vars, ~alive, NEW r \in Receipts,
           receipt'[r] \in {"PROCESSING", "READY_FOR_REVIEW"}
    PROVE  receipt'[r] = receipt[r]
  <1>0. receipt \in [Receipts -> ReceiptStatus \cup {"NONE"}]
    BY DEF TypeOK
  <1>1. UNCHANGED receipt => receipt'[r] = receipt[r]
    OBVIOUS
  <1>2. ASSUME NEW q, NEW status, receipt' = [receipt EXCEPT ![q] = status],
               status \notin {"PROCESSING", "READY_FOR_REVIEW"} \/ status = receipt[q]
        PROVE  receipt'[r] = receipt[r]
    BY <1>0, <1>2
  <1>3. ASSUME NEW s \in Sessions, SessionStep(s) \/ SessionDies(s)
        PROVE  receipt'[r] = receipt[r]
    <2>1. CASE UploadCommit(s) \/ RetryCommit(s)
      <3>1. CommitWaiting(s)
        BY <2>1 DEF UploadCommit, RetryCommit
      <3> QED
        BY <1>1, <1>2, <3>1 DEF CommitWaiting
    <2>2. CASE RetryFind(s)
      BY <1>1, <2>2 DEF RetryFind
    <2>3. CASE ConfirmCommit(s)
      BY <1>0, <2>3 DEF ConfirmCommit
    <2>4. CASE DeleteCommit(s)
      BY <1>1, <1>2, <2>4 DEF DeleteCommit
    <2>5. CASE SelectForReceipt(s) \/ Deliver(s) \/ Refresh(s) \/ Stamp(s) \/ SessionDies(s)
      BY <1>1, <2>5 DEF SelectForReceipt, Deliver, Refresh, Stamp, SessionDies
    <2> QED
      BY <1>3, <2>1, <2>2, <2>3, <2>4, <2>5 DEF SessionStep
  <1>4. ASSUME NEW w \in Workers, WorkerStep(w) \/ WorkerCrash(w) \/ SaveRaises(w)
        PROVE  receipt'[r] = receipt[r]
    <2>1. CASE ClaimClosed(w)
      BY <1>0, <2>1 DEF ClaimClosed, SetStatus
    <2>2. ~Claim(w)
      BY DEF Claim, MayStart
    <2>3. CASE SaveResult(w)
      BY <1>1, <2>3 DEF SaveResult
    <2>4. CASE FailAttempt(w)
      BY <1>0, <2>4 DEF FailAttempt, SetStatus
    <2>5. CASE \/ ClaimNothing(w) \/ FindMissing(w) \/ InsertMissing(w) \/ ClaimLeased(w)
               \/ RunOcr(w) \/ WorkerCrash(w) \/ SaveRaises(w)
      BY <1>1, <2>5 DEF ClaimNothing, FindMissing, InsertMissing, ClaimLeased, RunOcr, WorkerCrash,
                        SaveRaises
    <2> QED
      BY <1>4, <2>1, <2>2, <2>3, <2>4, <2>5 DEF WorkerStep
  <1>5. ASSUME \/ \E s \in Sessions, q \in Receipts : UserRequest(s, q)
               \/ \E s \in Sessions, j \in Jobs : Reconcile(s, j)
               \/ \E w \in Workers, q \in Receipts : Consume(w, q)
               \/ \E j \in Jobs : LeaseExpires(j)
               \/ \E q \in Receipts : ExpireImage(q) \/ LoseMessage(q)
               \/ DeleteAccount \/ UNCHANGED vars
        PROVE  receipt'[r] = receipt[r]
    BY <1>1, <1>5 DEF UserRequest, UploadBegin, RetryBegin, ConfirmBegin, DeleteBegin, Reconcile,
                      Consume, LeaseExpires, ExpireImage, LoseMessage, DeleteAccount, vars
  <1> QED
    BY <1>3, <1>4, <1>5 DEF Next

\* Once users.deleted_at is set no attempt starts and no result is written
\* (ocr_outbox.py:155-160, 217-222), whatever was already under way.
THEOREM DeletedAccountKeepsOut == Spec => DeletedAccountFenced
  <1>1. TypeOK /\ [Next]_vars =>
            (~alive => \A r \in Receipts :
                receipt'[r] \in {"PROCESSING", "READY_FOR_REVIEW"} => receipt'[r] = receipt[r])
    BY DeletedStep
  <1> QED
    BY <1>1, TypeCorrect, PTL DEF Spec, DeletedAccountFenced

-----------------------------------------------------------------------------
(* The inductive invariant of results and confirmations                    *)

Busy == {"ocr", "save", "fail", "failperm"}
PastOcr == {"save", "fail", "failperm"}
Enqueueing == {"upload", "retry", "retried"}

\* The attempt of worker w is the last one of row j: nobody has claimed it since.
Holds(w, j) == worker[w].attempt # NoAttempt /\ job[j].attempt = worker[w].attempt

\* The attempt on a row is the last that it counted.
RowsCounted ==
    \A j \in Jobs :
        /\ job[j].attempt \in {NoAttempt, <<j, job[j].count>>}
        /\ job[j].status = "absent" => job[j].attempt = NoAttempt

\* Who works has an attempt, on a row of the receipt of its message.
AttemptsOwn ==
    /\ \A w \in Workers : worker[w].pc \in Busy => worker[w].attempt # NoAttempt
    /\ \A w \in Workers, j \in Jobs : Holds(w, j) => job[j].receipt = worker[w].receipt

\* A row that waits has no attempt that could still end.
PendingFree == \A w \in Workers, j \in Jobs : Holds(w, j) => job[j].status # "pending"

\* An attempt that can save, or will be able to, has a receipt without a result,
\* unless a late write has crossed the receipt.
NoResult ==
    \A w \in Workers, j \in Jobs :
        Holds(w, j) /\ job[j].receipt \notin overrun =>
            /\ job[j].status # "done"
            /\ IsActive(j) => receipt[job[j].receipt] \notin Reviewed

\* One upload of a capture at a time, before it has a row; a retry has read a
\* failure, and its row lock keeps the row.
RequestsHold ==
    /\ \A s, t \in Sessions :
        /\ session[s].pc = "upload" /\ session[t].pc = "upload"
        /\ session[s].receipt = session[t].receipt
        => s = t
    /\ \A s \in Sessions :
        /\ session[s].pc = "upload" => receipt[session[s].receipt] = "NONE"
        /\ session[s].pc \in {"retry", "retried"} => session[s].saw = "FAILED"
        /\ session[s].pc = "retried" => receipt[session[s].receipt] # "NONE"

ReviewInv ==
    /\ OutboxInv
    /\ RowsCounted
    /\ AttemptsOwn
    /\ PendingFree
    /\ NoResult
    /\ RequestsHold

-----------------------------------------------------------------------------
(* What a step may do to what ReviewInv speaks of                          *)

\* A row is put back to wait only by the attempt it ends, becomes active only by
\* an INSERT or a stamp, and is done by the attempt it ends or for a result.
RowMove(j) ==
    /\ job'[j].status = "pending" =>
            \/ job[j].status = "pending" /\ job'[j].attempt = job[j].attempt
            \/ job[j] = NoRow
            \/ \E w \in Workers : Holds(w, j) /\ worker'[w].attempt = NoAttempt
    /\ IsActive(j)' => \/ IsActive(j)
                       \/ job[j] = NoRow
                       \/ job[j].status = "done"
                       \/ job[j].receipt \in overrun'
    /\ job'[j].status = "done" =>
            \/ job[j].status = "done"
            \/ IsActive(j) /\ receipt[job[j].receipt] \in Reviewed
            \/ \E w \in Workers : Holds(w, j) /\ worker'[w].attempt = NoAttempt

\* A worker enters OCR with an attempt on a receipt without a result.
WorkerMove(w) ==
    /\ worker'[w].pc = "ocr" =>
            worker'[w] = worker[w] \/ receipt'[worker'[w].receipt] \notin Reviewed
    /\ worker'[w].pc \in Busy => worker'[w].attempt # NoAttempt

\* An upload or a retry is opened on a status that admits it.
SessionMove(s) ==
    session'[s].pc \in Enqueueing =>
        \/ session'[s] = session[s]
        \/ /\ UNCHANGED receipt
           /\ \A t \in Sessions \ {s} : session'[t] = session[t]
           /\ session'[s].pc = "upload" =>
                /\ receipt[session'[s].receipt] = "NONE"
                /\ \A t \in Sessions :
                    ~(session[t].pc = "upload" /\ session[t].receipt = session'[s].receipt)
           /\ session'[s].pc \in {"retry", "retried"} => session'[s].saw = "FAILED"
           /\ session'[s].pc = "retried" => receipt[session'[s].receipt] # "NONE"

\* What the commit of an open request writes.
RequestWrites(s, r) ==
    /\ session[s].receipt = r
    /\ \/ session[s].pc = "upload" /\ receipt'[r] = "UPLOADED"
       \/ /\ session[s].pc = "retried" /\ receipt'[r] = "UPLOADED"
          /\ receipt[r] \in Reviewed \ {session[s].saw} => r \in overrun'
       \/ /\ session[s].pc = "confirm" /\ receipt[r] # "NONE" /\ receipt'[r] = "CONFIRMED"
          /\ receipt[r] \notin Reviewed => r \in overrun'
       \/ session[s].pc = "delete" /\ receipt'[r] = "NONE" /\ ~Locked(r)
    /\ session'[s].pc \notin Enqueueing

\* What the holder of an active row writes when it saves its result.
ResultWrites(w, r) ==
    /\ worker[w].pc = "save" /\ worker[w].receipt = r /\ receipt[r] # "NONE"
    /\ \E j \in Fenced(w) : job' = WithStatus(j, "done")
    /\ receipt'[r] = "READY_FOR_REVIEW"
    /\ worker'[w].attempt = NoAttempt

\* What a claim or a failure writes: never over a result, unless it is fenced.
AttemptWrites(r) ==
    /\ receipt[r] # "NONE"
    /\ receipt'[r] \in {"UPLOADED", "PROCESSING", "FAILED"}
    /\ \/ receipt[r] \notin Reviewed
       \/ \E w \in Workers :
            worker[w].pc \in PastOcr /\ worker[w].receipt = r /\ Fenced(w) # {}

ReceiptMove(r) ==
    \/ receipt'[r] = receipt[r]
    \/ \E s \in Sessions : RequestWrites(s, r)
    \/ \E w \in Workers : ResultWrites(w, r)
    \/ AttemptWrites(r)

Moves ==
    /\ \A j \in Jobs : RowMove(j)
    /\ \A w \in Workers : WorkerMove(w)
    /\ \A s \in Sessions : SessionMove(s)
    /\ \A r \in Receipts : ReceiptMove(r)
    /\ overrun \subseteq overrun'

\* Steps that leave a part alone, or change it where ReviewInv does not look.
LEMMA RowsStay ==
    ASSUME UNCHANGED job
    PROVE  \A j \in Jobs : RowMove(j)
  BY DEF RowMove, IsActive

LEMMA OneRowMoves ==
    ASSUME TypeOK, NEW i \in Jobs, NEW x, job' = [job EXCEPT ![i] = x],
           x.status = "pending" =>
                \/ job[i].status = "pending" /\ x.attempt = job[i].attempt
                \/ job[i] = NoRow
                \/ \E w \in Workers : Holds(w, i) /\ worker'[w].attempt = NoAttempt,
           x.status \notin Terminal \cup {"absent"} =>
                \/ IsActive(i)
                \/ job[i] = NoRow
                \/ job[i].status = "done"
                \/ job[i].receipt \in overrun',
           x.status = "done" =>
                \/ IsActive(i) /\ receipt[job[i].receipt] \in Reviewed
                \/ \E w \in Workers : Holds(w, i) /\ worker'[w].attempt = NoAttempt
    PROVE  \A j \in Jobs : RowMove(j)
  <1>1. job'[i] = x /\ \A j \in Jobs \ {i} : job'[j] = job[j]
    BY DEF TypeOK
  <1>2. ASSUME NEW j \in Jobs \ {i} PROVE RowMove(j)
    BY <1>1 DEF RowMove, IsActive
  <1>3. RowMove(i)
    BY <1>1 DEF RowMove, IsActive
  <1> QED BY <1>2, <1>3

\* A row that gets a status in which it does not wait for a worker.
LEMMA StatusMoves ==
    ASSUME TypeOK, NEW i \in Jobs, NEW st \in JobStatus, job' = WithStatus(i, st), st # "pending",
           \/ st = "failed_permanent"
           \/ st = "published" /\ (IsActive(i) \/ job[i].status = "done"
                                        \/ job[i].receipt \in overrun')
           \/ /\ st = "done"
              /\ \/ IsActive(i) /\ receipt[job[i].receipt] \in Reviewed
                 \/ \E w \in Workers : Holds(w, i) /\ worker'[w].attempt = NoAttempt
    PROVE  \A j \in Jobs : RowMove(j)
  <1> DEFINE x == [job[i] EXCEPT !.status = st]
  <1>1. x.status = st
    BY DEF TypeOK, JobRow
  <1>2. job' = [job EXCEPT ![i] = x]
    BY DEF WithStatus
  <1> HIDE DEF x
  <1>3. /\ x.status # "pending"
        /\ x.status \notin Terminal \cup {"absent"} =>
                IsActive(i) \/ job[i].status = "done" \/ job[i].receipt \in overrun'
        /\ x.status = "done" =>
                \/ IsActive(i) /\ receipt[job[i].receipt] \in Reviewed
                \/ \E w \in Workers : Holds(w, i) /\ worker'[w].attempt = NoAttempt
    BY <1>1 DEF Terminal
  <1> QED BY <1>2, <1>3, OneRowMoves

LEMMA InsertMoves ==
    ASSUME TypeOK, NEW r, InsertJob(r)
    PROVE  \A j \in Jobs : RowMove(j)
  <1>1. PICK i \in Jobs : job[i] = NoRow /\ job' = [job EXCEPT ![i] = NewRow(r)]
    BY DEF InsertJob
  <1> DEFINE x == NewRow(r)
  <1>2. x.status = "pending"
    BY DEF NewRow, NoRow
  <1>3. job' = [job EXCEPT ![i] = x]
    BY <1>1
  <1> HIDE DEF x
  <1> QED BY <1>1, <1>2, <1>3, OneRowMoves

LEMMA WorkersStay ==
    ASSUME AttemptsOwn, UNCHANGED worker
    PROVE  \A w \in Workers : WorkerMove(w)
  BY DEF WorkerMove, AttemptsOwn

LEMMA OneWorkerMoves ==
    ASSUME TypeOK, AttemptsOwn, NEW v \in Workers, NEW x, worker' = [worker EXCEPT ![v] = x],
           x.pc \in Busy => x.attempt # NoAttempt,
           x.pc = "ocr" => receipt'[x.receipt] \notin Reviewed
    PROVE  \A w \in Workers : WorkerMove(w)
  <1>1. worker'[v] = x /\ \A w \in Workers \ {v} : worker'[w] = worker[w]
    BY DEF TypeOK
  <1>2. ASSUME NEW w \in Workers \ {v} PROVE WorkerMove(w)
    BY <1>1 DEF WorkerMove, AttemptsOwn
  <1>3. WorkerMove(v)
    BY <1>1 DEF WorkerMove
  <1> QED BY <1>2, <1>3

LEMMA ReleaseMoves ==
    ASSUME TypeOK, AttemptsOwn, NEW w \in Workers, Release(w)
    PROVE  /\ \A v \in Workers : WorkerMove(v)
           /\ worker'[w].attempt = NoAttempt
  <1>1. IdleWorker.pc \notin Busy /\ IdleWorker.attempt = NoAttempt
    BY WorkerRecords DEF Busy
  <1>2. "ocr" \in Busy
    BY DEF Busy
  <1>3. worker' = [worker EXCEPT ![w] = IdleWorker]
    BY DEF Release
  <1>4. \A v \in Workers : WorkerMove(v)
    BY <1>1, <1>2, <1>3, OneWorkerMoves
  <1>5. worker'[w] = IdleWorker
    BY <1>3 DEF TypeOK
  <1> QED BY <1>1, <1>4, <1>5

LEMMA SessionsStay ==
    ASSUME UNCHANGED session
    PROVE  \A s \in Sessions : SessionMove(s)
  BY DEF SessionMove

LEMMA OneSessionMoves ==
    ASSUME TypeOK, NEW t \in Sessions, NEW x, session' = [session EXCEPT ![t] = x],
           x.pc \notin Enqueueing
    PROVE  /\ \A s \in Sessions : SessionMove(s)
           /\ session'[t].pc \notin Enqueueing
  <1>1. session'[t] = x /\ \A s \in Sessions \ {t} : session'[s] = session[s]
    BY DEF TypeOK
  <1> QED BY <1>1 DEF SessionMove

LEMMA FinishMoves ==
    ASSUME TypeOK, NEW t \in Sessions, Finish(t)
    PROVE  /\ \A s \in Sessions : SessionMove(s)
           /\ session'[t].pc \notin Enqueueing
  <1>1. session' = [session EXCEPT ![t] = IdleSession]
    BY DEF Finish
  <1>2. IdleSession.pc \notin Enqueueing
    BY SessionRecords DEF Enqueueing
  <1> QED BY <1>1, <1>2, OneSessionMoves

\* A handler that opens an upload or a retry, or goes on with it.
LEMMA OneSessionOpens ==
    ASSUME TypeOK, NEW t \in Sessions, NEW x, session' = [session EXCEPT ![t] = x],
           UNCHANGED receipt,
           x.pc = "upload" =>
                /\ receipt[x.receipt] = "NONE"
                /\ \A s \in Sessions :
                    ~(session[s].pc = "upload" /\ session[s].receipt = x.receipt),
           x.pc \in {"retry", "retried"} => x.saw = "FAILED",
           x.pc = "retried" => receipt[x.receipt] # "NONE"
    PROVE  \A s \in Sessions : SessionMove(s)
  <1>1. session'[t] = x /\ \A s \in Sessions \ {t} : session'[s] = session[s]
    BY DEF TypeOK
  <1>2. SessionMove(t)
    BY <1>1 DEF SessionMove
  <1>3. ASSUME NEW s \in Sessions \ {t} PROVE SessionMove(s)
    BY <1>1 DEF SessionMove
  <1> QED BY <1>2, <1>3

LEMMA ReceiptsStay ==
    ASSUME UNCHANGED receipt
    PROVE  \A r \in Receipts : ReceiptMove(r)
  BY DEF ReceiptMove

LEMMA OneReceiptMoves ==
    ASSUME TypeOK, NEW q \in Receipts, NEW status, receipt' = [receipt EXCEPT ![q] = status],
           receipt'[q] = status => ReceiptMove(q)
    PROVE  \A r \in Receipts : ReceiptMove(r)
  <1>1. receipt'[q] = status /\ \A r \in Receipts \ {q} : receipt'[r] = receipt[r]
    BY DEF TypeOK
  <1>2. ASSUME NEW r \in Receipts \ {q} PROVE ReceiptMove(r)
    BY <1>1 DEF ReceiptMove
  <1> QED BY <1>1, <1>2

\* A step changes the history of late writes in three actions only.
LEMMA OverrunGrows ==
    ASSUME [Next]_vars
    PROVE  overrun \subseteq overrun'
  BY DEF Next, UserRequest, UploadBegin, RetryBegin, ConfirmBegin, DeleteBegin, SessionStep,
         UploadCommit, RetryFind, RetryCommit, ConfirmCommit, DeleteCommit, SelectForReceipt,
         Deliver, Refresh, Stamp, SessionDies, Reconcile, Consume, WorkerStep, ClaimNothing,
         FindMissing, InsertMissing, ClaimLeased, ClaimClosed, Claim, RunOcr, SaveResult,
         FailAttempt, WorkerCrash, SaveRaises, LeaseExpires, ExpireImage, LoseMessage,
         DeleteAccount, vars

\* The handlers' own steps.
LEMMA SessionStepMoves ==
    ASSUME ReviewInv, NEW s \in Sessions, SessionStep(s), overrun \subseteq overrun'
    PROVE  Moves
  <1> USE DEF ReviewInv, OutboxInv
  <1> DEFINE r == session[s].receipt
  <1>1. SessionBound(session[s]) /\ session[s] \in SessionRecord
    BY DEF Bound, TypeOK
  <1>2. session[s].pc # "idle" => r \in Receipts
    BY <1>1 DEF SessionBound
  <1>3. UNCHANGED worker => \A w \in Workers : WorkerMove(w)
    BY WorkersStay
  <1>4. ASSUME NEW pc \in {"select", "deliver"}, NEW j \in Jobs \cup {NoJob}, r \in Receipts,
               session' = [session EXCEPT ![s] = SessionAt(pc, r, j, "NONE")]
        PROVE  /\ \A t \in Sessions : SessionMove(t)
               /\ session'[s].pc \notin Enqueueing
    <2> DEFINE x == SessionAt(pc, r, j, "NONE")
    <2>1. x.pc = pc
      BY <1>4, SessionRecords DEF SessionPc
    <2>2. pc \notin Enqueueing
      BY DEF Enqueueing
    <2> HIDE DEF x
    <2> QED BY <1>4, <2>1, <2>2, OneSessionMoves DEF x
  <1>5. ASSUME NEW status, r \in Receipts, receipt' = [receipt EXCEPT ![r] = status],
               session'[s].pc \notin Enqueueing,
               receipt'[r] = status =>
                \/ session[s].pc = "upload" /\ receipt'[r] = "UPLOADED"
                \/ /\ session[s].pc = "retried" /\ receipt'[r] = "UPLOADED"
                   /\ receipt[r] \in Reviewed \ {session[s].saw} => r \in overrun'
                \/ receipt'[r] = receipt[r]
                \/ /\ session[s].pc = "confirm" /\ receipt[r] # "NONE" /\ receipt'[r] = "CONFIRMED"
                   /\ receipt[r] \notin Reviewed => r \in overrun'
                \/ session[s].pc = "delete" /\ receipt'[r] = "NONE" /\ ~Locked(r)
        PROVE  \A q \in Receipts : ReceiptMove(q)
    <2>1. receipt'[r] = status => ReceiptMove(r)
      BY <1>5 DEF ReceiptMove, RequestWrites
    <2> QED BY <1>5, <2>1, OneReceiptMoves
  <1>6. CASE UploadCommit(s) \/ RetryCommit(s)
    <2>1. /\ r \in Receipts /\ UNCHANGED worker /\ CommitWaiting(s)
          /\ \/ session[s].pc = "upload"
             \/ /\ session[s].pc = "retried"
                /\ receipt[r] \in Reviewed \ {session[s].saw, receipt'[r]} => r \in overrun'
      BY <1>2, <1>6 DEF UploadCommit, RetryCommit
    <2>2. CASE Finish(s) /\ UNCHANGED <<receipt, job>>
      BY <1>3, <2>1, <2>2, FinishMoves, ReceiptsStay, RowsStay DEF Moves
    <2>3. CASE /\ receipt' = [receipt EXCEPT ![r] = "UPLOADED"]
               /\ session' = [session EXCEPT ![s] = SessionAt("select", r, NoJob, "NONE")]
               /\ Enqueue(s)
      <3>1. /\ \A t \in Sessions : SessionMove(t)
            /\ session'[s].pc \notin Enqueueing
        BY <1>4, <2>1, <2>3
      <3>2. receipt'[r] = "UPLOADED" /\ "UPLOADED" \notin Reviewed
        BY <2>1, <2>3 DEF TypeOK, Reviewed
      <3>3. \A q \in Receipts : ReceiptMove(q)
        BY <1>5, <2>1, <2>3, <3>1, <3>2
      <3>4. \A j \in Jobs : RowMove(j)
        BY <2>3, RowsStay, InsertMoves DEF Enqueue
      <3> QED BY <1>3, <2>1, <3>1, <3>3, <3>4 DEF Moves
    <2> QED BY <2>1, <2>2, <2>3 DEF CommitWaiting
  <1>7. CASE RetryFind(s)
    <2>1. session[s].pc = "retry" /\ UNCHANGED <<receipt, job, worker>> /\ r \in Receipts
      BY <1>2, <1>7 DEF RetryFind
    <2>2. session[s].saw = "FAILED" /\ "FAILED" \in ReceiptStatus \cup {"NONE"}
      BY <2>1, Statuses DEF RequestsHold
    <2>3. CASE Finish(s)
      BY <1>3, <2>1, <2>3, FinishMoves, ReceiptsStay, RowsStay DEF Moves
    <2>4. CASE receipt[r] # "NONE" /\ FindJob(s, "retried", r, session[s].saw)
      <3>1. PICK j \in Jobs \cup {NoJob} :
              session' = [session EXCEPT ![s] = SessionAt("retried", r, j, "FAILED")]
        BY <2>2, <2>4, FoundJob
      <3> DEFINE x == SessionAt("retried", r, j, "FAILED")
      <3>2. x.pc = "retried" /\ x.receipt = r /\ x.saw = "FAILED"
        BY <2>1, <2>2, SessionRecords DEF SessionPc
      <3> HIDE DEF x
      <3>3. session' = [session EXCEPT ![s] = x]
        BY <3>1 DEF x
      <3>4. \A t \in Sessions : SessionMove(t)
        BY <2>1, <2>4, <3>2, <3>3, OneSessionOpens
      <3> QED BY <1>3, <2>1, <3>4, ReceiptsStay, RowsStay DEF Moves
    <2> QED BY <1>7, <2>3, <2>4 DEF RetryFind
  <1>8. CASE ConfirmCommit(s)
    <2>1. /\ r \in Receipts /\ session[s].pc = "confirm" /\ UNCHANGED <<worker, job>> /\ Finish(s)
          /\ receipt' = [receipt EXCEPT ![r] = IF receipt[r] = "NONE" THEN receipt[r]
                                               ELSE "CONFIRMED"]
          /\ receipt[r] \notin Reviewed \cup {"NONE"} => r \in overrun'
      BY <1>2, <1>8 DEF ConfirmCommit, TypeOK
    <2>2. \A q \in Receipts : ReceiptMove(q)
      BY <1>5, <2>1, FinishMoves
    <2> QED BY <1>3, <2>1, <2>2, FinishMoves, RowsStay DEF Moves
  <1>9. CASE DeleteCommit(s)
    <2>1. /\ r \in Receipts /\ session[s].pc = "delete" /\ UNCHANGED <<worker, job>> /\ Finish(s)
          /\ ~Locked(r)
          /\ receipt' = [receipt EXCEPT ![r] = "NONE"] \/ UNCHANGED receipt
      BY <1>2, <1>9 DEF DeleteCommit
    <2>2. \A q \in Receipts : ReceiptMove(q)
      BY <1>5, <2>1, FinishMoves, ReceiptsStay
    <2> QED BY <1>3, <2>1, <2>2, FinishMoves, RowsStay DEF Moves
  <1>10. CASE SelectForReceipt(s)
    <2>1. r \in Receipts /\ UNCHANGED <<receipt, job, worker>>
      BY <1>2, <1>10 DEF SelectForReceipt
    <2>2. \A t \in Sessions : SessionMove(t)
      BY <1>4, <1>10, <2>1, FinishMoves DEF SelectForReceipt, ActiveJobs, RowsOf
    <2> QED BY <1>3, <2>1, <2>2, ReceiptsStay, RowsStay DEF Moves
  <1>11. CASE Deliver(s)
    <2> DEFINE x == [session[s] EXCEPT !.pc = "refresh"]
    <2>1. session' = [session EXCEPT ![s] = x] /\ UNCHANGED <<receipt, job, worker>>
      BY <1>11 DEF Deliver, SessionTo
    <2>2. x.pc = "refresh"
      BY <1>1 DEF SessionRecord
    <2> HIDE DEF x
    <2>3. \A t \in Sessions : SessionMove(t)
      BY <2>1, <2>2, OneSessionMoves DEF Enqueueing
    <2> QED BY <1>3, <2>1, <2>3, ReceiptsStay, RowsStay DEF Moves
  <1>12. CASE Refresh(s)
    <2>1. UNCHANGED <<receipt, job, worker>>
      BY <1>12 DEF Refresh
    <2>2. CASE Finish(s)
      BY <1>3, <2>1, <2>2, FinishMoves, ReceiptsStay, RowsStay DEF Moves
    <2>3. CASE SessionTo(s, "stamp")
      <3> DEFINE x == [session[s] EXCEPT !.pc = "stamp"]
      <3>1. session' = [session EXCEPT ![s] = x]
        BY <2>3 DEF SessionTo
      <3>2. x.pc = "stamp"
        BY <1>1 DEF SessionRecord
      <3> HIDE DEF x
      <3>3. \A t \in Sessions : SessionMove(t)
        BY <3>1, <3>2, OneSessionMoves DEF Enqueueing
      <3> QED BY <1>3, <2>1, <3>3, ReceiptsStay, RowsStay DEF Moves
    <2> QED BY <1>12, <2>2, <2>3 DEF Refresh
  <1>13. CASE Stamp(s)
    <2> DEFINE j == session[s].job
    <2>1. /\ Finish(s) /\ UNCHANGED <<receipt, worker>>
          /\ j \in Jobs /\ job[j].receipt = r /\ r \in Receipts
          /\ UNCHANGED job \/ job' = WithStatus(j, "published")
      BY <1>1, <1>2, <1>13 DEF Stamp, SessionBound, SessionRecord, Publishing
    <2>2. job[j].status \in JobStatus
      BY <2>1, OutboxAssumption DEF TypeOK, JobRow, Bound
    <2>3. CASE UNCHANGED job
      BY <1>3, <2>1, <2>3, FinishMoves, ReceiptsStay, RowsStay DEF Moves
    <2>4. CASE job' # job
      <3>1. job' = WithStatus(j, "published") /\ "published" \in JobStatus
        BY <2>1, <2>4, Statuses
      <3>2. IsActive(j) \/ job[j].status = "done" \/ job[j].receipt \in overrun'
        <4>1. CASE job[j].status = "failed_permanent"
          BY <1>13, <2>4, <4>1 DEF Stamp
        <4>2. CASE job[j].status # "failed_permanent"
          BY <2>2, <4>2 DEF IsActive, JobStatus, Terminal
        <4> QED BY <4>1, <4>2
      <3>3. \A i \in Jobs : RowMove(i)
        BY <2>1, <3>1, <3>2, StatusMoves
      <3> QED BY <1>3, <2>1, <3>3, FinishMoves, ReceiptsStay DEF Moves
    <2> QED BY <2>3, <2>4
  <1> QED
    BY <1>6, <1>7, <1>8, <1>9, <1>10, <1>11, <1>12, <1>13 DEF SessionStep

\* The requests of users.
LEMMA RequestMoves ==
    ASSUME ReviewInv, NEW s \in Sessions, NEW r \in Receipts, UserRequest(s, r),
           overrun \subseteq overrun'
    PROVE  Moves
  <1> USE DEF ReviewInv, OutboxInv
  <1>1. ASSUME NEW x, session' = [session EXCEPT ![s] = x], UNCHANGED <<receipt, job, worker>>,
               x.receipt = r,
               \/ /\ x.pc = "upload" /\ receipt[r] = "NONE"
                  /\ \A t \in Sessions : ~(session[t].pc = "upload" /\ session[t].receipt = r)
               \/ x.pc = "retry" /\ x.saw = "FAILED"
               \/ x.pc \in {"confirm", "delete"}
        PROVE  Moves
    <2>1. \A t \in Sessions : SessionMove(t)
      BY <1>1, OneSessionOpens
    <2> QED BY <1>1, <2>1, WorkersStay, RowsStay, ReceiptsStay DEF Moves
  <1>2. ASSUME NEW pc \in {"upload", "retry", "confirm", "delete"},
               NEW j \in Jobs \cup {NoJob}, NEW saw \in ReceiptStatus \cup {"NONE"}
        PROVE  /\ SessionAt(pc, r, j, saw).pc = pc
               /\ SessionAt(pc, r, j, saw).receipt = r
               /\ SessionAt(pc, r, j, saw).saw = saw
    BY SessionRecords DEF SessionPc
  <1>3. receipt[r] \in ReceiptStatus \cup {"NONE"}
    BY DEF TypeOK
  <1>4. CASE UploadBegin(s, r)
    <2>1. PICK j \in Jobs \cup {NoJob} :
            session' = [session EXCEPT ![s] = SessionAt("upload", r, j, "NONE")]
      BY <1>4, FoundJob DEF UploadBegin
    <2> DEFINE x == SessionAt("upload", r, j, "NONE")
    <2>2. x.pc = "upload" /\ x.receipt = r
      BY <1>2
    <2> HIDE DEF x
    <2>3. /\ receipt[r] = "NONE" /\ UNCHANGED <<receipt, job, worker>>
          /\ \A t \in Sessions : ~(session[t].pc = "upload" /\ session[t].receipt = r)
      BY <1>4 DEF UploadBegin
    <2> QED BY <1>1, <2>1, <2>2, <2>3 DEF x
  <1>5. ASSUME NEW pc \in {"retry", "confirm", "delete"}, BeginRequest(s, r, pc),
               UNCHANGED <<receipt, job, worker>>, pc = "retry" => receipt[r] = "FAILED"
        PROVE  Moves
    <2> DEFINE x == SessionAt(pc, r, NoJob, receipt[r])
    <2>1. x.pc = pc /\ x.receipt = r /\ x.saw = receipt[r]
      BY <1>2, <1>3
    <2>2. session' = [session EXCEPT ![s] = x]
      BY <1>5 DEF BeginRequest
    <2> HIDE DEF x
    <2> QED BY <1>1, <1>5, <2>1, <2>2
  <1> QED
    BY <1>4, <1>5 DEF UserRequest, RetryBegin, ConfirmBegin, DeleteBegin

\* The record of a worker that has just claimed row j.
LEMMA ClaimedRecord ==
    ASSUME NEW r \in Receipts, NEW j \in Jobs, NEW n \in Nat
    PROVE  LET x == WorkerAt("ocr", r, <<j, n>>)
           IN  x.pc = "ocr" /\ x.receipt = r /\ x.attempt # NoAttempt
  <1>1. <<j, n>> \in Attempts
    BY DEF Attempts
  <1>2. j # NoJob
    BY OutboxAssumption
  <1>3. <<j, n>> # NoAttempt
    BY <1>2 DEF NoAttempt
  <1>4. ASSUME NEW a \in Attempts, a # NoAttempt
        PROVE  LET x == WorkerAt("ocr", r, a)
               IN  x.pc = "ocr" /\ x.receipt = r /\ x.attempt # NoAttempt
    BY <1>4, WorkerRecords DEF WorkerPc
  <1> QED BY <1>1, <1>3, <1>4

\* The worker's steps.
LEMMA WorkerStepMoves ==
    ASSUME ReviewInv, NEW w \in Workers, WorkerStep(w), overrun \subseteq overrun'
    PROVE  Moves
  <1> USE DEF ReviewInv, OutboxInv
  <1> DEFINE r == worker[w].receipt
  <1>1. WorkerBound(worker[w]) /\ worker[w] \in WorkerRecord
    BY DEF Bound, TypeOK
  <1>2. worker[w].pc # "idle" => r \in Receipts
    BY <1>1 DEF WorkerBound
  <1>3. UNCHANGED session => \A s \in Sessions : SessionMove(s)
    BY SessionsStay
  <1>4. ASSUME NEW j \in ActiveJobs(r)
        PROVE  j \in Jobs /\ IsActive(j) /\ job[j].receipt = r
    BY DEF ActiveJobs, RowsOf
  <1>5. ASSUME NEW pc \in {"claim", "enqueue", "insert"}, WorkerTo(w, pc)
        PROVE  \A v \in Workers : WorkerMove(v)
    <2> DEFINE x == [worker[w] EXCEPT !.pc = pc]
    <2>1. worker' = [worker EXCEPT ![w] = x]
      BY <1>5 DEF WorkerTo
    <2>2. x.pc = pc
      BY <1>1 DEF WorkerRecord
    <2> HIDE DEF x
    <2>3. x.pc \notin Busy /\ x.pc # "ocr"
      BY <2>2 DEF Busy
    <2> QED BY <2>1, <2>3, OneWorkerMoves
  <1>6. CASE ClaimNothing(w) \/ ClaimLeased(w)
    <2>1. UNCHANGED <<receipt, job, session>> /\ (WorkerTo(w, "enqueue") \/ Release(w))
      BY <1>6 DEF ClaimNothing, ClaimLeased
    <2> QED BY <1>3, <1>5, <2>1, ReleaseMoves, RowsStay, ReceiptsStay DEF Moves
  <1>7. CASE FindMissing(w) \/ InsertMissing(w)
    <2>1. /\ UNCHANGED <<receipt, session>>
          /\ Release(w) \/ \E pc \in {"claim", "insert"} : WorkerTo(w, pc)
          /\ UNCHANGED job \/ InsertJob(r)
      BY <1>7 DEF FindMissing, InsertMissing
    <2>2. \A v \in Workers : WorkerMove(v)
      BY <1>5, <2>1, ReleaseMoves
    <2>3. \A j \in Jobs : RowMove(j)
      BY <2>1, RowsStay, InsertMoves
    <2> QED BY <1>3, <2>1, <2>2, <2>3, ReceiptsStay DEF Moves
  <1>8. CASE ClaimClosed(w)
    <2>1. PICK j \in ActiveJobs(r) :
            /\ \/ job' = WithStatus(j, "done") /\ receipt[r] \in Reviewed
               \/ job' = WithStatus(j, "failed_permanent")
            /\ \/ UNCHANGED receipt
               \/ /\ receipt[r] \notin {"NONE"} \cup Reviewed
                  /\ receipt' = [receipt EXCEPT ![r] = "FAILED"]
      BY <1>8 DEF ClaimClosed, SetStatus
    <2>2. r \in Receipts /\ UNCHANGED session /\ Release(w)
      BY <1>2, <1>8 DEF ClaimClosed
    <2>3. \A i \in Jobs : RowMove(i)
      BY <1>4, <2>1, StatusMoves, Statuses
    <2>4. receipt[r] \notin {"NONE"} \cup Reviewed /\ receipt'[r] = "FAILED" => ReceiptMove(r)
      BY <2>2 DEF ReceiptMove, AttemptWrites
    <2>5. \A q \in Receipts : ReceiptMove(q)
      BY <2>1, <2>2, <2>4, OneReceiptMoves, ReceiptsStay
    <2> QED BY <1>3, <2>2, <2>3, <2>5, ReleaseMoves DEF Moves
  <1>9. CASE Claim(w)
    <2>1. PICK j \in ActiveJobs(r) :
            /\ receipt[r] \notin {"NONE"} \cup Reviewed
            /\ job' = [job EXCEPT ![j] = LeasedRow(r, j, job[j].count + 1)]
            /\ worker' = [worker EXCEPT ![w] = WorkerAt("ocr", r, <<j, job[j].count + 1>>)]
      BY <1>9 DEF Claim, MayStart
    <2>2. r \in Receipts /\ UNCHANGED session /\ receipt' = [receipt EXCEPT ![r] = "PROCESSING"]
      BY <1>2, <1>9 DEF Claim, SetStatus
    <2> DEFINE n == job[j].count + 1
               row == LeasedRow(r, j, n)
               x == WorkerAt("ocr", r, <<j, n>>)
    <2>3. j \in Jobs /\ IsActive(j) /\ n \in Nat
      BY <1>4 DEF TypeOK, JobRow
    <2>4. row.status = "processing"
      BY <2>2, <2>3, JobRows
    <2>5. x.pc = "ocr" /\ x.receipt = r /\ x.attempt # NoAttempt
      BY <2>2, <2>3, ClaimedRecord
    <2>6. job' = [job EXCEPT ![j] = row] /\ worker' = [worker EXCEPT ![w] = x]
      BY <2>1
    <2> HIDE DEF n, row, x
    <2>7. \A i \in Jobs : RowMove(i)
      BY <2>3, <2>4, <2>6, OneRowMoves
    <2>8. receipt'[r] = "PROCESSING" /\ "PROCESSING" \notin Reviewed
      BY <2>2 DEF TypeOK, Reviewed
    <2>9. \A v \in Workers : WorkerMove(v)
      BY <2>5, <2>6, <2>8, OneWorkerMoves
    <2>10. ReceiptMove(r)
      BY <2>1, <2>2, <2>8 DEF ReceiptMove, AttemptWrites
    <2>11. \A q \in Receipts : ReceiptMove(q)
      BY <2>2, <2>10, OneReceiptMoves
    <2> QED BY <1>3, <2>2, <2>7, <2>9, <2>11 DEF Moves
  <1>10. CASE RunOcr(w)
    <2>1. PICK pc \in {"save", "fail", "failperm"} : WorkerTo(w, pc)
      BY <1>10 DEF RunOcr
    <2>2. worker[w].pc = "ocr" /\ UNCHANGED <<receipt, job, session>>
      BY <1>10 DEF RunOcr
    <2> DEFINE x == [worker[w] EXCEPT !.pc = pc]
    <2>3. worker' = [worker EXCEPT ![w] = x]
      BY <2>1 DEF WorkerTo
    <2>4. x.pc = pc /\ x.receipt = r /\ x.attempt = worker[w].attempt
      BY <1>1 DEF WorkerRecord
    <2>5. worker[w].attempt # NoAttempt
      BY <2>2 DEF AttemptsOwn, Busy
    <2> HIDE DEF x
    <2>6. \A v \in Workers : WorkerMove(v)
      BY <2>1, <2>3, <2>4, <2>5, OneWorkerMoves
    <2> QED BY <1>3, <2>2, <2>6, RowsStay, ReceiptsStay DEF Moves
  <1>11. worker[w].pc \in Busy => \A j \in Fenced(w) : j \in ActiveJobs(r) /\ Holds(w, j)
    BY DEF Fenced, AttemptsOwn, Holds
  <1>12. CASE SaveResult(w)
    <2>1. /\ worker[w].pc = "save" /\ r \in Receipts /\ UNCHANGED session /\ Release(w)
          /\ \A v \in Workers : WorkerMove(v)
          /\ worker'[w].attempt = NoAttempt
      BY <1>2, <1>12, ReleaseMoves DEF SaveResult
    <2>2. CASE UNCHANGED <<receipt, job>>
      BY <1>3, <2>1, <2>2, RowsStay, ReceiptsStay DEF Moves
    <2>3. ASSUME NEW j \in Fenced(w), job' = WithStatus(j, "failed_permanent"), UNCHANGED receipt
          PROVE  Moves
      <3>1. \A i \in Jobs : RowMove(i)
        BY <1>4, <1>11, <2>1, <2>3, StatusMoves, Statuses DEF Busy
      <3> QED BY <1>3, <2>1, <2>3, <3>1, ReceiptsStay DEF Moves
    <2>4. ASSUME NEW j \in Fenced(w), job' = WithStatus(j, "done"), receipt[r] # "NONE",
                 receipt' = [receipt EXCEPT ![r] = "READY_FOR_REVIEW"]
          PROVE  Moves
      <3>1. \A i \in Jobs : RowMove(i)
        BY <1>4, <1>11, <2>1, <2>4, StatusMoves, Statuses DEF Busy
      <3>2. receipt'[r] = "READY_FOR_REVIEW" => ReceiptMove(r)
        BY <2>1, <2>4 DEF ReceiptMove, ResultWrites
      <3>3. \A q \in Receipts : ReceiptMove(q)
        BY <2>1, <2>4, <3>2, OneReceiptMoves
      <3> QED BY <1>3, <2>1, <3>1, <3>3 DEF Moves
    <2> QED BY <1>12, <2>2, <2>3, <2>4 DEF SaveResult, SetStatus
  <1>13. CASE FailAttempt(w)
    <2>1. /\ worker[w].pc \in PastOcr /\ worker[w].pc \in Busy /\ r \in Receipts
          /\ UNCHANGED session /\ Release(w)
          /\ \A v \in Workers : WorkerMove(v)
          /\ worker'[w].attempt = NoAttempt
      BY <1>2, <1>13, ReleaseMoves DEF FailAttempt, PastOcr, Busy
    <2>2. CASE UNCHANGED <<receipt, job>>
      BY <1>3, <2>1, <2>2, RowsStay, ReceiptsStay DEF Moves
    <2>3. ASSUME NEW j \in Fenced(w), NEW status,
                 receipt' = [receipt EXCEPT ![r] = status],
                 \/ status = receipt[r]
                 \/ receipt[r] # "NONE" /\ status \in {"UPLOADED", "FAILED"}
          PROVE  \A q \in Receipts : ReceiptMove(q)
      <3>1. receipt'[r] = status => ReceiptMove(r)
        BY <2>1, <2>3 DEF ReceiptMove, AttemptWrites
      <3> QED BY <2>1, <2>3, <3>1, OneReceiptMoves
    <2>4. ASSUME NEW j \in Fenced(w), job' = WithStatus(j, "failed_permanent"),
                 receipt' = [receipt EXCEPT ![r] = IF receipt[r] = "NONE" THEN "NONE" ELSE "FAILED"]
          PROVE  Moves
      <3>1. \A i \in Jobs : RowMove(i)
        BY <1>4, <1>11, <2>1, <2>4, StatusMoves, Statuses
      <3>2. \A q \in Receipts : ReceiptMove(q)
        BY <2>1, <2>3, <2>4
      <3> QED BY <1>3, <2>1, <3>1, <3>2 DEF Moves
    <2>5. ASSUME NEW j \in Fenced(w), job' = Requeued(j),
                 receipt' = [receipt EXCEPT
                                ![r] = IF receipt[r] = "PROCESSING" THEN "UPLOADED" ELSE receipt[r]]
          PROVE  Moves
      <3> DEFINE x == [job[j] EXCEPT !.status = "pending", !.leased = FALSE]
      <3>1. job' = [job EXCEPT ![j] = x]
        BY <2>5 DEF Requeued
      <3>2. x.status = "pending" /\ j \in Jobs /\ IsActive(j) /\ Holds(w, j)
        BY <1>4, <1>11, <2>1 DEF TypeOK, JobRow
      <3> HIDE DEF x
      <3>3. \A i \in Jobs : RowMove(i)
        BY <2>1, <3>1, <3>2, OneRowMoves
      <3>4. \A q \in Receipts : ReceiptMove(q)
        BY <2>1, <2>3, <2>5
      <3> QED BY <1>3, <2>1, <3>3, <3>4 DEF Moves
    <2> QED BY <1>13, <2>2, <2>4, <2>5 DEF FailAttempt, SetStatus
  <1> QED
    BY <1>6, <1>7, <1>8, <1>9, <1>10, <1>12, <1>13 DEF WorkerStep

\* Faults, publication of due rows, delivery, time, the image clean-up and the
\* deletion of the account.
LEMMA OtherMoves ==
    ASSUME ReviewInv,
           \/ \E s \in Sessions : SessionDies(s)
           \/ \E w \in Workers : WorkerCrash(w) \/ SaveRaises(w)
           \/ \E s \in Sessions, j \in Jobs : Reconcile(s, j)
           \/ \E w \in Workers, r \in Receipts : Consume(w, r)
           \/ \E j \in Jobs : LeaseExpires(j)
           \/ \E r \in Receipts : ExpireImage(r) \/ LoseMessage(r)
           \/ DeleteAccount
           \/ UNCHANGED vars,
           overrun \subseteq overrun'
    PROVE  Moves
  <1> USE DEF ReviewInv, OutboxInv
  <1>1. ASSUME NEW s \in Sessions, SessionDies(s) PROVE Moves
    BY <1>1, FinishMoves, WorkersStay, RowsStay, ReceiptsStay DEF SessionDies, Moves
  <1>2. ASSUME NEW w \in Workers, WorkerCrash(w) PROVE Moves
    BY <1>2, ReleaseMoves, SessionsStay, RowsStay, ReceiptsStay DEF WorkerCrash, Moves
  <1>3. ASSUME NEW w \in Workers, SaveRaises(w) PROVE Moves
    <2> DEFINE x == [worker[w] EXCEPT !.pc = "fail"]
    <2>1. /\ worker' = [worker EXCEPT ![w] = x] /\ worker[w].pc = "save"
          /\ UNCHANGED <<receipt, job, session>>
      BY <1>3 DEF SaveRaises, WorkerTo
    <2>2. x.pc = "fail" /\ x.attempt = worker[w].attempt
      BY DEF TypeOK, WorkerRecord
    <2>3. worker[w].attempt # NoAttempt
      BY <2>1 DEF AttemptsOwn, Busy
    <2> HIDE DEF x
    <2>4. \A v \in Workers : WorkerMove(v)
      BY <2>1, <2>2, <2>3, OneWorkerMoves
    <2> QED BY <2>1, <2>4, SessionsStay, RowsStay, ReceiptsStay DEF Moves
  <1>4. ASSUME NEW s \in Sessions, NEW j \in Jobs, Reconcile(s, j) PROVE Moves
    <2> DEFINE x == SessionAt("deliver", job[j].receipt, j, "NONE")
    <2>1. session' = [session EXCEPT ![s] = x] /\ UNCHANGED <<receipt, job, worker>>
      BY <1>4 DEF Reconcile
    <2>2. job[j].receipt \in Receipts
      BY <1>4 DEF Reconcile, Bound, TypeOK, JobRow
    <2>3. x.pc = "deliver"
      BY <2>2, SessionRecords DEF SessionPc, ReceiptStatus
    <2> HIDE DEF x
    <2>4. \A t \in Sessions : SessionMove(t)
      BY <2>1, <2>3, OneSessionMoves DEF Enqueueing
    <2> QED BY <2>1, <2>4, WorkersStay, RowsStay, ReceiptsStay DEF Moves
  <1>5. ASSUME NEW w \in Workers, NEW r \in Receipts, Consume(w, r) PROVE Moves
    <2> DEFINE x == WorkerAt("claim", r, NoAttempt)
    <2>1. worker' = [worker EXCEPT ![w] = x] /\ UNCHANGED <<receipt, job, session>>
      BY <1>5 DEF Consume
    <2>2. x.pc = "claim"
      BY WorkerRecords DEF WorkerPc, Attempts
    <2> HIDE DEF x
    <2>3. \A v \in Workers : WorkerMove(v)
      BY <2>1, <2>2, OneWorkerMoves DEF Busy
    <2> QED BY <2>1, <2>3, SessionsStay, RowsStay, ReceiptsStay DEF Moves
  <1>6. ASSUME NEW j \in Jobs, LeaseExpires(j) PROVE Moves
    <2> DEFINE x == [job[j] EXCEPT !.leased = FALSE]
    <2>1. /\ job' = [job EXCEPT ![j] = x] /\ IsActive(j)
          /\ UNCHANGED <<receipt, worker, session>>
      BY <1>6 DEF LeaseExpires
    <2>2. x.status = job[j].status /\ x.attempt = job[j].attempt /\ x.status # "done"
      BY <2>1 DEF TypeOK, JobRow, IsActive, Terminal
    <2> HIDE DEF x
    <2>3. \A i \in Jobs : RowMove(i)
      BY <2>1, <2>2, OneRowMoves
    <2> QED BY <2>1, <2>3, WorkersStay, SessionsStay, ReceiptsStay DEF Moves
  <1>7. CASE UNCHANGED <<receipt, job, worker, session>>
    BY <1>7, WorkersStay, SessionsStay, RowsStay, ReceiptsStay DEF Moves
  <1> QED
    BY <1>1, <1>2, <1>3, <1>4, <1>5, <1>6, <1>7
       DEF ExpireImage, LoseMessage, DeleteAccount, vars

LEMMA StepMoves ==
    ASSUME ReviewInv, [Next]_vars
    PROVE  Moves
  BY OverrunGrows, SessionStepMoves, RequestMoves, WorkerStepMoves, OtherMoves DEF Next

-----------------------------------------------------------------------------
(* The invariant                                                           *)

\* Who holds a row after a step held it before, or has just claimed it.
Claimed(w, j) ==
    /\ worker'[w].pc = "ocr" /\ worker'[w] # worker[w]
    /\ job'[j].status = "processing" /\ job'[j].receipt = worker'[w].receipt

LEMMA HoldsBack ==
    ASSUME OutboxInv, RowsCounted, AttemptsOwn, Effects,
           NEW w \in Workers, NEW j \in Jobs, Holds(w, j)'
    PROVE  \/ /\ Holds(w, j) /\ job[j] # NoRow
              /\ job'[j].attempt = job[j].attempt
              /\ job'[j].receipt = job[j].receipt /\ worker'[w].receipt = worker[w].receipt
              /\ job[j].receipt \in Receipts
           \/ Claimed(w, j)
  <1> USE DEF OutboxInv
  <1>0. /\ \A i \in Jobs : job[i] \in JobRow /\ job[i].count \in Nat
        /\ NoRow.attempt = NoAttempt
        /\ \A i \in Jobs : job[i].status # "absent" => job[i].receipt \in Receipts
    BY DEF TypeOK, JobRow, NoRow, Bound
  <1>1. worker'[w].attempt # NoAttempt /\ job'[j].attempt = worker'[w].attempt
    BY DEF Holds
  <1>2. CASE Started
    <2>1. PICK v \in Workers, i \in Jobs :
            /\ IsActive(i)
            /\ job' = [job EXCEPT ![i] = LeasedRow(job[i].receipt, i, job[i].count + 1)]
            /\ worker' = [worker EXCEPT
                    ![v] = WorkerAt("ocr", job[i].receipt, <<i, job[i].count + 1>>)]
      BY <1>2 DEF Started
    <2> DEFINE n == job[i].count + 1
               row == LeasedRow(job[i].receipt, i, n)
               x == WorkerAt("ocr", job[i].receipt, <<i, n>>)
    <2>2. n \in Nat /\ n > job[i].count /\ job[i].receipt \in Receipts
      BY <1>0, <2>1 DEF IsActive
    <2>3. job' = [job EXCEPT ![i] = row] /\ worker' = [worker EXCEPT ![v] = x]
      BY <2>1
    <2> HIDE DEF n
    <2>4. row.receipt = job[i].receipt /\ row.status = "processing" /\ row.attempt = <<i, n>>
      BY <2>2, JobRows DEF LeasedRow
    <2>5. x.pc = "ocr" /\ x.receipt = job[i].receipt /\ x.attempt = <<i, n>>
      <3> DEFINE a == <<i, n>>
      <3>1. a \in Attempts
        BY <2>2 DEF Attempts
      <3>2. x = WorkerAt("ocr", job[i].receipt, a)
        OBVIOUS
      <3> HIDE DEF a, x
      <3>3. x.pc = "ocr" /\ x.receipt = job[i].receipt /\ x.attempt = a
        BY <2>2, <3>1, <3>2, WorkerRecords DEF WorkerPc
      <3> QED BY <3>3 DEF a
    <2> HIDE DEF row, x
    <2>6. /\ job'[i] = row /\ \A k \in Jobs \ {i} : job'[k] = job[k]
          /\ worker'[v] = x /\ \A u \in Workers \ {v} : worker'[u] = worker[u]
      BY <2>3 DEF TypeOK
    <2>7. \A u \in Workers : worker[u].attempt # <<i, n>>
      BY <1>0, <2>2 DEF AttemptsCounted
    <2>8. CASE w = v /\ j = i
      BY <2>4, <2>5, <2>6, <2>7, <2>8 DEF Claimed
    <2>9. CASE w = v /\ j # i
      BY <1>1, <2>5, <2>6, <2>9 DEF RowsCounted, NoAttempt
    <2>10. CASE w # v /\ j = i
      BY <1>1, <2>4, <2>6, <2>7, <2>10
    <2>11. CASE w # v /\ j # i
      <3>1. Holds(w, j) /\ job'[j] = job[j] /\ worker'[w] = worker[w]
        BY <1>1, <2>6, <2>11 DEF Holds
      <3>2. job[j] # NoRow /\ job[j].status # "absent"
        BY <1>0, <3>1 DEF Holds, RowsCounted
      <3> QED BY <1>0, <3>1, <3>2
    <2> QED BY <2>8, <2>9, <2>10, <2>11
  <1>3. CASE JobEffect /\ WorkerEffect
    <2>1. worker'[w].attempt = worker[w].attempt /\ worker'[w].receipt = worker[w].receipt
      <3>1. CASE UNCHANGED worker
        BY <3>1
      <3>2. ASSUME NEW v \in Workers, NEW x, x.attempt \in {worker[v].attempt, NoAttempt},
                   x.attempt # NoAttempt => x.receipt = worker[v].receipt,
                   worker' = [worker EXCEPT ![v] = x]
            PROVE  /\ worker'[w].attempt = worker[w].attempt
                   /\ worker'[w].receipt = worker[w].receipt
        <4>1. worker'[v] = x /\ \A u \in Workers \ {v} : worker'[u] = worker[u]
          BY <3>2 DEF TypeOK
        <4> QED BY <1>1, <3>2, <4>1
      <3> QED BY <1>3, <3>1, <3>2 DEF WorkerEffect
    <2>2. job[j] # NoRow /\ job'[j].attempt = job[j].attempt /\ job'[j].receipt = job[j].receipt
      <3>1. CASE UNCHANGED job
        BY <1>0, <1>1, <3>1
      <3>2. ASSUME NEW r \in Receipts, InsertJob(r)
            PROVE  job[j] # NoRow /\ job'[j] = job[j]
        <4>1. PICK i \in Jobs : job[i] = NoRow /\ job' = [job EXCEPT ![i] = NewRow(r)]
          BY <3>2 DEF InsertJob
        <4>2. job'[i] = NewRow(r) /\ \A k \in Jobs \ {i} : job'[k] = job[k]
          BY <4>1 DEF TypeOK
        <4>3. NewRow(r).attempt = NoAttempt
          BY DEF NewRow, NoRow
        <4> QED BY <1>0, <1>1, <4>2, <4>3
      <3>3. ASSUME NEW i \in Jobs, NEW x \in JobRow, RowEffect(i, x), job' = [job EXCEPT ![i] = x]
            PROVE  /\ job[j] # NoRow /\ job'[j].attempt = job[j].attempt
                   /\ job'[j].receipt = job[j].receipt
        <4>1. job'[i] = x /\ \A k \in Jobs \ {i} : job'[k] = job[k]
          BY <3>3 DEF TypeOK
        <4> QED BY <1>0, <1>1, <3>3, <4>1 DEF RowEffect
      <3> QED BY <1>3, <3>1, <3>2, <3>3 DEF JobEffect
    <2>3. Holds(w, j) /\ job[j].status # "absent"
      BY <1>1, <2>1, <2>2 DEF Holds, RowsCounted
    <2> QED BY <1>0, <2>1, <2>2, <2>3
  <1> QED BY <1>2, <1>3 DEF Effects

LEMMA RowsCountedStep ==
    ASSUME OutboxInv, RowsCounted, Effects
    PROVE  RowsCounted'
  <1> USE DEF OutboxInv
  <1>1. CASE UNCHANGED job
    BY <1>1 DEF RowsCounted
  <1>2. ASSUME NEW i \in Jobs, NEW x, job' = [job EXCEPT ![i] = x],
               x.attempt \in {NoAttempt, <<i, x.count>>}, x.status # "absent"
        PROVE  RowsCounted'
    <2>1. job'[i] = x /\ \A k \in Jobs \ {i} : job'[k] = job[k]
      BY <1>2 DEF TypeOK
    <2> QED BY <1>2, <2>1 DEF RowsCounted
  <1>3. ASSUME NEW r \in Receipts, InsertJob(r) PROVE RowsCounted'
    <2>1. PICK i \in Jobs : job' = [job EXCEPT ![i] = NewRow(r)]
      BY <1>3 DEF InsertJob
    <2>2. NewRow(r).attempt = NoAttempt /\ NewRow(r).status = "pending"
      BY DEF NewRow, NoRow
    <2> QED BY <1>2, <2>1, <2>2
  <1>4. ASSUME NEW i \in Jobs, NEW x \in JobRow, RowEffect(i, x), job' = [job EXCEPT ![i] = x]
        PROVE  RowsCounted'
    BY <1>2, <1>4 DEF RowEffect, RowsCounted
  <1>5. CASE Started
    <2>1. PICK i \in Jobs :
            job' = [job EXCEPT ![i] = LeasedRow(job[i].receipt, i, job[i].count + 1)]
      BY <1>5 DEF Started
    <2> DEFINE x == LeasedRow(job[i].receipt, i, job[i].count + 1)
    <2>2. x.attempt = <<i, x.count>> /\ x.status = "processing"
      BY DEF LeasedRow
    <2> HIDE DEF x
    <2> QED BY <1>2, <2>1, <2>2 DEF x
  <1> QED BY <1>1, <1>3, <1>4, <1>5 DEF Effects, JobEffect

\* The rest of ReviewInv, from what a step may do.
LEMMA AttemptsOwnStep ==
    ASSUME ReviewInv, Effects, Moves
    PROVE  AttemptsOwn'
  <1>1. ASSUME NEW w \in Workers, worker'[w].pc \in Busy PROVE worker'[w].attempt # NoAttempt
    BY <1>1 DEF Moves, WorkerMove
  <1>2. ASSUME NEW w \in Workers, NEW j \in Jobs, Holds(w, j)'
        PROVE  job'[j].receipt = worker'[w].receipt
    BY <1>2, HoldsBack DEF ReviewInv, AttemptsOwn, Claimed
  <1> QED BY <1>1, <1>2 DEF AttemptsOwn

LEMMA PendingFreeStep ==
    ASSUME ReviewInv, Effects, Moves
    PROVE  PendingFree'
  <1> SUFFICES ASSUME NEW w \in Workers, NEW j \in Jobs, Holds(w, j)', job'[j].status = "pending"
               PROVE  FALSE
    BY DEF PendingFree
  <1>1. Holds(w, j) /\ job[j] # NoRow /\ job[j].status # "pending"
    BY HoldsBack DEF ReviewInv, PendingFree, Claimed
  <1>2. PICK v \in Workers : Holds(v, j) /\ worker'[v].attempt = NoAttempt
    BY <1>1 DEF Moves, RowMove
  <1>3. v = w
    BY <1>1, <1>2 DEF ReviewInv, OutboxInv, AttemptsUnique, Holds
  <1> QED BY <1>2, <1>3 DEF Holds

LEMMA NoResultStep ==
    ASSUME ReviewInv, Effects, Moves
    PROVE  NoResult'
  <1> SUFFICES ASSUME NEW w \in Workers, NEW j \in Jobs, Holds(w, j)',
                      job'[j].receipt \notin overrun'
               PROVE  /\ job'[j].status # "done"
                      /\ IsActive(j)' => receipt'[job'[j].receipt] \notin Reviewed
    BY DEF NoResult
  <1>1. CASE Claimed(w, j)
    BY <1>1 DEF Moves, WorkerMove, Claimed
  <1>2. ASSUME Holds(w, j), job[j] # NoRow, job'[j].receipt = job[j].receipt,
               job[j].receipt \in Receipts
        PROVE  /\ job'[j].status # "done"
               /\ IsActive(j)' => receipt'[job'[j].receipt] \notin Reviewed
    <2> DEFINE r == job[j].receipt
    <2>1. /\ r \notin overrun /\ r \notin overrun'
          /\ job[j].status # "done"
          /\ IsActive(j) => receipt[r] \notin Reviewed
      BY <1>2 DEF ReviewInv, NoResult, Moves
    \* Nobody else ends the attempt of w.
    <2>2. ASSUME NEW v \in Workers, Holds(v, j), worker'[v].attempt = NoAttempt
          PROVE  FALSE
      BY <1>2, <2>2 DEF ReviewInv, OutboxInv, AttemptsUnique, Holds
    <2>3. job'[j].status # "done"
      BY <2>1, <2>2 DEF Moves, RowMove
    <2>4. ASSUME IsActive(j)' PROVE receipt'[r] \notin Reviewed
      <3>1. IsActive(j) /\ receipt[r] \notin Reviewed
        BY <1>2, <2>1, <2>4 DEF Moves, RowMove
      <3>2. ASSUME NEW s \in Sessions, RequestWrites(s, r) PROVE receipt'[r] \notin Reviewed
        BY <2>1, <3>1, <3>2 DEF RequestWrites, Reviewed
      <3>3. ASSUME NEW v \in Workers, ResultWrites(v, r) PROVE FALSE
        <4>1. PICK i \in Fenced(v) : TRUE
          BY <3>3 DEF ResultWrites
        <4>2. /\ i \in Jobs /\ IsActive(i) /\ job[i].receipt = r /\ Holds(v, i)
              /\ worker'[v].attempt = NoAttempt
          BY <3>3, <4>1 DEF ResultWrites, Fenced, ActiveJobs, RowsOf, Holds, ReviewInv,
                            AttemptsOwn, Busy
        <4>3. i = j
          BY <3>1, <4>2 DEF ReviewInv, OutboxInv, OneActive
        <4> QED BY <2>2, <4>2, <4>3
      <3>4. CASE AttemptWrites(r)
        BY <3>4 DEF AttemptWrites, Reviewed
      <3>5. ReceiptMove(r)
        BY <1>2 DEF Moves
      <3> QED BY <3>1, <3>2, <3>3, <3>4, <3>5 DEF ReceiptMove
    <2> QED BY <1>2, <2>3, <2>4
  <1> QED BY <1>1, <1>2, HoldsBack DEF ReviewInv

\* A worker that passes the fence has a receipt without a result.
LEMMA FencedNoResult ==
    ASSUME ReviewInv, NEW w \in Workers, worker[w].pc \in PastOcr, Fenced(w) # {},
           worker[w].receipt \notin overrun
    PROVE  receipt[worker[w].receipt] \notin Reviewed
  <1>1. PICK j \in Fenced(w) : TRUE
    OBVIOUS
  <1>2. j \in Jobs /\ IsActive(j) /\ job[j].receipt = worker[w].receipt /\ Holds(w, j)
    BY <1>1 DEF Fenced, ActiveJobs, RowsOf, Holds, ReviewInv, AttemptsOwn, Busy, PastOcr
  <1> QED BY <1>2 DEF ReviewInv, NoResult

LEMMA RequestsHoldStep ==
    ASSUME ReviewInv, Moves
    PROVE  RequestsHold'
  <1>1. ASSUME NEW s \in Sessions, NEW t \in Sessions, s # t,
               session'[s].pc = "upload", session'[t].pc = "upload",
               session'[s].receipt = session'[t].receipt
        PROVE  FALSE
    <2>1. CASE session'[s] = session[s] /\ session'[t] = session[t]
      BY <1>1, <2>1 DEF ReviewInv, RequestsHold
    <2>2. ASSUME NEW a \in Sessions, NEW b \in Sessions, a # b, session'[a] # session[a],
                 session'[a].pc = "upload", session'[b].pc = "upload",
                 session'[a].receipt = session'[b].receipt
          PROVE  FALSE
      <3>1. session'[b] = session[b] /\ ~(session[b].pc = "upload"
                                            /\ session[b].receipt = session'[a].receipt)
        BY <2>2 DEF Moves, SessionMove, Enqueueing
      <3> QED BY <2>2, <3>1
    <2> QED BY <1>1, <2>1, <2>2
  <1>2. ASSUME NEW s \in Sessions, session'[s].pc \in Enqueueing
        PROVE  /\ session'[s].pc = "upload" => receipt'[session'[s].receipt] = "NONE"
               /\ session'[s].pc \in {"retry", "retried"} => session'[s].saw = "FAILED"
               /\ session'[s].pc = "retried" => receipt'[session'[s].receipt] # "NONE"
    <2>1. CASE session'[s] # session[s]
      BY <1>2, <2>1 DEF Moves, SessionMove
    <2>2. CASE session'[s] = session[s]
      <3> DEFINE r == session[s].receipt
      <3>1. /\ session[s].pc \in Enqueueing /\ r \in Receipts
            /\ session[s].pc = "upload" => receipt[r] = "NONE"
            /\ session[s].pc \in {"retry", "retried"} => session[s].saw = "FAILED"
            /\ session[s].pc = "retried" => receipt[r] # "NONE"
        BY <1>2, <2>2 DEF ReviewInv, RequestsHold, OutboxInv, Bound, SessionBound, Enqueueing
      <3>2. CASE receipt'[r] = receipt[r]
        BY <2>2, <3>1, <3>2
      <3>3. CASE receipt[r] # "NONE" /\ receipt'[r] # "NONE"
        BY <2>2, <3>1, <3>3
      <3>4. ASSUME NEW t \in Sessions, RequestWrites(t, r)
            PROVE  \/ receipt'[r] = receipt[r]
                   \/ receipt[r] # "NONE" /\ receipt'[r] # "NONE"
                   \/ session[s].pc = "retry"
        <4>1. session[t].receipt = r /\ session'[t].pc \notin Enqueueing
          BY <3>4 DEF RequestWrites
        <4>2. t # s
          BY <2>2, <3>1, <4>1
        <4>3. CASE session[t].pc = "upload"
          <5>1. receipt[r] = "NONE" /\ session[s].pc # "upload"
            BY <4>1, <4>2, <4>3 DEF ReviewInv, RequestsHold
          <5> QED BY <3>1, <5>1 DEF Enqueueing
        <4>4. CASE session[t].pc = "retried"
          <5>1. receipt[r] # "NONE"
            BY <4>1, <4>4 DEF ReviewInv, RequestsHold
          <5> QED BY <3>4, <4>4, <5>1 DEF RequestWrites
        <4>5. CASE session[t].pc = "confirm"
          BY <3>4, <4>5 DEF RequestWrites
        <4>6. CASE session[t].pc = "delete"
          <5>1. ~Locked(r) /\ receipt'[r] = "NONE"
            BY <3>4, <4>6 DEF RequestWrites
          <5>2. session[s].pc # "retried"
            BY <5>1 DEF Locked
          <5> QED BY <3>1, <5>1, <5>2 DEF Enqueueing
        <4> QED BY <3>4, <4>3, <4>4, <4>5, <4>6 DEF RequestWrites
      <3>5. \/ receipt'[r] = receipt[r]
            \/ receipt[r] # "NONE" /\ receipt'[r] # "NONE"
            \/ session[s].pc = "retry"
        <4>1. ReceiptMove(r)
          BY <3>1 DEF Moves
        <4> QED BY <3>4, <4>1 DEF ReceiptMove, ResultWrites, AttemptWrites
      <3> QED BY <2>2, <3>1, <3>2, <3>3, <3>5
    <2> QED BY <2>1, <2>2
  <1> QED BY <1>1, <1>2 DEF RequestsHold, Enqueueing

LEMMA ReviewInit == Init => ReviewInv
  <1> SUFFICES ASSUME Init PROVE ReviewInv
    OBVIOUS
  <1>1. /\ \A s \in Sessions : session[s].pc = "idle"
        /\ \A w \in Workers : worker[w].attempt = NoAttempt /\ worker[w].pc = "idle"
        /\ \A j \in Jobs : job[j].attempt = NoAttempt
    BY SessionRecords, WorkerRecords DEF Init, NoRow
  <1>2. ~ \E w \in Workers, j \in Jobs : Holds(w, j)
    BY <1>1 DEF Holds
  <1>3. RowsCounted /\ RequestsHold
    BY <1>1 DEF RowsCounted, RequestsHold
  <1>4. AttemptsOwn /\ PendingFree /\ NoResult
    BY <1>1, <1>2 DEF AttemptsOwn, PendingFree, NoResult, Busy
  <1> QED
    BY <1>3, <1>4, InitInv DEF ReviewInv

LEMMA ReviewStep == ReviewInv /\ [Next]_vars => ReviewInv'
  <1> SUFFICES ASSUME ReviewInv, [Next]_vars PROVE ReviewInv'
    OBVIOUS
  <1>1. Moves /\ OutboxInv'
    BY StepMoves, StepInv DEF ReviewInv
  <1>2. CASE Next
    <2>1. Effects
      BY <1>2, StepEffects DEF ReviewInv
    <2> QED
      BY <1>1, <2>1, RowsCountedStep, AttemptsOwnStep, PendingFreeStep, NoResultStep,
         RequestsHoldStep DEF ReviewInv
  <1>3. CASE UNCHANGED vars
    BY <1>1, <1>3 DEF vars, ReviewInv, RowsCounted, AttemptsOwn, PendingFree, NoResult,
                      RequestsHold, Holds, IsActive
  <1> QED BY <1>2, <1>3

LEMMA ReviewInvariant == Spec => []ReviewInv
  BY ReviewInit, ReviewStep, PTL DEF Spec

-----------------------------------------------------------------------------
(* Results and confirmations                                               *)

\* A result never lands on a receipt that has one (ocr_outbox.py:207-231 looks
\* at the attempt and the account, not at the status): with any interleaving of
\* handlers, workers and faults this takes a retry over a result, a confirmation
\* of a receipt that has none any more, or a late stamp over a failed row.
THEOREM ResultsDoNotDouble == Spec => []NoDoubleResult
  <1>1. ReviewInv => NoDoubleResult
    BY FencedNoResult DEF NoDoubleResult, PastOcr
  <1> QED BY <1>1, ReviewInvariant, PTL

\* A step that changes a confirmed receipt deletes it, or crosses its review.
LEMMA ConfirmedStep ==
    ASSUME ReviewInv, Moves, NEW r \in Receipts, r \notin overrun', receipt[r] = "CONFIRMED"
    PROVE  receipt'[r] \in {"CONFIRMED", "NONE"}
  <1>0. r \notin overrun
    BY DEF Moves
  <1>1. ~ \E w \in Workers :
            worker[w].pc \in PastOcr /\ worker[w].receipt = r /\ Fenced(w) # {}
    BY <1>0, FencedNoResult DEF Reviewed
  <1>2. ~AttemptWrites(r)
    BY <1>1 DEF AttemptWrites, Reviewed
  <1>3. ~ \E w \in Workers : ResultWrites(w, r)
    BY <1>1 DEF ResultWrites, PastOcr
  <1>4. ASSUME NEW s \in Sessions, RequestWrites(s, r)
        PROVE  receipt'[r] \in {"CONFIRMED", "NONE"}
    BY <1>4 DEF RequestWrites, ReviewInv, RequestsHold, Reviewed
  <1>5. ReceiptMove(r)
    BY DEF Moves
  <1> QED BY <1>2, <1>3, <1>4, <1>5 DEF ReceiptMove

\* A confirmed receipt stays confirmed until its user deletes it
\* (routers/receipts.py:266-267, ocr_outbox.py:169), unless a retry that had read
\* FAILED, a confirmation of a receipt that waits again, or a late stamp has
\* crossed its review.
THEOREM ConfirmedStaysConfirmed == Spec => ConfirmedKept
  <1>1. ReviewInv /\ [Next]_vars =>
            \A r \in Receipts \ overrun' :
                receipt[r] = "CONFIRMED" => receipt'[r] \in {"CONFIRMED", "NONE"}
    BY StepMoves, ConfirmedStep
  <1> QED BY <1>1, ReviewInvariant, PTL DEF Spec, ConfirmedKept
=============================================================================
