----------------------------- MODULE ListClient -----------------------------
(***************************************************************************)
(* Shopping lists on a device (ShoppingListRepository.kt and its DAOs):    *)
(* edits are written to Room together with an outbox row, a worker sends   *)
(* the outbox and applies the answer, and the user decides conflicts.      *)
(* Other devices edit the same lists on the server meanwhile.              *)
(*                                                                         *)
(* A Room transaction is one step, and so is a statement outside one.  The *)
(* server is one step per request here; ListServer has its statements.     *)
(* A row says one thing that edits change (a list its status, a line its   *)
(* quantity and mark) and whether it is deleted.  copyList is createList   *)
(* with several addItem in one transaction; isDraft is written and never   *)
(* read.  resolveConflict is offered by the repository; no screen of the   *)
(* app calls it yet.  The product cache and copyFromReceipt are left out.  *)
(***************************************************************************)
EXTENDS Naturals, Sequences, FiniteSets, SequencesExt

CONSTANTS
    Lists, Lines,  \* rows, by their UUIDs
    ListOf,        \* the list of each line
    Contents,      \* what a line may say
    MaxMutations,  \* mutations the device makes (a bound)
    MaxRemote,     \* changes by other devices (a bound)
    MaxFaults,     \* lost requests, lost answers and process deaths (a bound)
    MaxExpiries,   \* refused cursors (a bound)
    Unchanged      \* a field that a patch leaves alone, null in the code

ASSUME ClientAssumption ==
    /\ Lists \cap Lines = {}
    /\ ListOf \in [Lines -> Lists]
    /\ MaxMutations \in Nat /\ MaxRemote \in Nat
    /\ MaxFaults \in Nat /\ MaxExpiries \in Nat
    /\ Contents # {}
    /\ Unchanged \notin Contents \cup {"active", "archived", "delete", "restore"}

VARIABLES
    server,    \* rows with all their versions, the account's sequence, its mutations
    local,     \* the rows in Room
    outbox,    \* mutation_outbox
    conflicts, \* sync_conflicts
    cursor,    \* sync_state: the sequence the device has been sent, 0 for none
    sync,      \* the run of syncPending
    wanted,    \* a sync is enqueued that has not started
    owed,      \* "enqueue" from an edit's transaction to its enqueueSync; "forgotten"
               \* when rows wait that nothing sends before the next edit or app start
    resolving, \* the conflict that resolveConflict is at, with the outbox row in its hand
    made,      \* mutations made so far, which numbers their IDs
    left,      \* remote changes, faults and expiries still to come
    forgone    \* rows with an edit that the user gave up, or that fell between two
               \* statements that belong together, until the server sends them

room == <<local, outbox, conflicts, cursor>>
vars == <<server, room, sync, wanted, owed, resolving, made, left, forgone>>

Rows == Lists \cup Lines
HomeOf(r) == IF r \in Lists THEN r ELSE ListOf[r]
ContentsOf(r) == IF r \in Lists THEN {"active", "archived"} ELSE Contents
AnyContent == Contents \cup {"active", "archived"}
Value == [content : AnyContent, deleted : BOOLEAN]
Live(content) == [content |-> content, deleted |-> FALSE]

\* SyncMutationDto.  A creation carries the whole row.
Mutation == [id : 1..MaxMutations, op : {"create", "patch"}, row : Rows, expected : Nat,
             content : AnyContent \cup {Unchanged}, deletion : {Unchanged, "delete", "restore"}]
Statuses == {"pending", "in_flight", "conflict"}
OutboxRow == [mutation : Mutation, status : Statuses, createdAt : 1..MaxMutations]

\* Version 0 is a row that is not there.
Missing == [version |-> 0, value |-> Live("active")]
Versioned == [version : Nat, value : Value]

Nobody == "nobody"
Json == [row : Rows \cup {Nobody}, version : Nat, value : Value]
NoJson == [row |-> Nobody, version |-> 0, value |-> Live("active")]
Conflict == [id : 1..MaxMutations, row : Rows, json : Json]

NoAnswer == [full |-> FALSE, expired |-> FALSE, rows |-> <<>>, refusals |-> {}, cursor |-> 0]
NoSync == [phase |-> "idle", batch |-> <<>>, marked |-> 0, answer |-> NoAnswer]
Phases == {"idle", "marking", "answered", "failed"}
Nothing == {}
InHand == UNION {h.rows : h \in resolving}
InHandRows == UNION {{o.mutation.row, HomeOf(o.mutation.row)} : o \in InHand}

Current(s, r) ==
    IF s.row[r] = <<>> THEN Missing
    ELSE [version |-> Len(s.row[r]), value |-> Last(s.row[r])]

FirstContent(r) == CHOOSE c \in ContentsOf(r) : r \in Lists => c = "active"

\* The server when it has these rows, each as it was created.
Holding(there) ==
    [row |-> [r \in Rows |-> IF r \notin there THEN <<>> ELSE <<Live(FirstContent(r))>>],
     stamp |-> [r \in Rows |-> IF r \in there THEN 1 ELSE 0],
     seq |-> IF there = {} THEN 0 ELSE 1, log |-> {}]

\* An account with no list yet, or with one list that the device has, each with
\* its lines: what the device was sent, it has.
Init ==
    /\ \E there \in {{}} \cup {{l} \cup some : l \in Lists, some \in SUBSET Lines} :
        /\ \A r \in there : HomeOf(r) \in there
        /\ server = Holding(there)
    /\ local = [r \in Rows |-> Current(server, r)]
    /\ outbox = {} /\ conflicts = {} /\ forgone = {} /\ resolving = Nothing
    /\ cursor = server.seq
    /\ sync = NoSync
    /\ wanted = FALSE /\ owed = "none"
    /\ made = 0
    /\ left = [remote |-> MaxRemote, faults |-> MaxFaults, expiries |-> MaxExpiries]

-----------------------------------------------------------------------------
(* The server, one request at a time                                       *)

\* The row after a mutation.  "deleted: false" restores nothing.
Written(s, m) ==
    LET old == Current(s, m.row).value
    IN  [content |-> IF m.content = Unchanged THEN old.content ELSE m.content,
         deleted |-> m.deletion = "delete"]

\* A change of a line moves its list's stamp too, so that a delta finds it.
Write(s, m) ==
    [s EXCEPT !.row[m.row] = Append(@, Written(s, m)),
              !.stamp = [r \in Rows |-> IF r \in {m.row, HomeOf(m.row)} THEN s.seq + 1 ELSE @[r]],
              !.seq = @ + 1]

Applied == [refused |-> FALSE, json |-> NoJson]
RefusedBare == [refused |-> TRUE, json |-> NoJson]
RefusedWith(s, r) ==
    [refused |-> TRUE, json |-> [row |-> r, version |-> Current(s, r).version,
                                 value |-> Current(s, r).value]]

\* The checks of the handlers in their order.  A line is refused with the JSON
\* of its list when the list is deleted or archived.
Verdict(s, m) ==
    LET home == Current(s, HomeOf(m.row))
        row == Current(s, m.row)
    IN  CASE m.op = "create" /\ m.row \in Lists ->
                IF row # Missing THEN RefusedBare ELSE Applied
          [] ~(m.op = "create" /\ m.row \in Lists) ->
                IF home = Missing THEN RefusedBare
                ELSE IF home.value.deleted THEN RefusedWith(s, HomeOf(m.row))
                ELSE IF m.row \in Lines /\ home.value.content = "archived"
                     THEN RefusedWith(s, HomeOf(m.row))
                ELSE IF m.op = "create" THEN IF row # Missing THEN RefusedBare ELSE Applied
                ELSE IF row = Missing THEN RefusedBare
                ELSE IF row.value.deleted \/ row.version # m.expected
                     THEN RefusedWith(s, m.row)
                ELSE Applied

\* _apply_sync_mutation: a mutation of the log is answered without effect, and
\* its ID with another payload is refused.
Answer(acc, m) ==
    LET s == acc.server
        refused(v) == [acc EXCEPT !.refusals = @ \cup
                          {[id |-> m.id, row |-> m.row, json |-> v.json]}]
    IN  IF m \in s.log THEN acc
        ELSE IF \E n \in s.log : n.id = m.id /\ (n.row \in Lists) = (m.row \in Lists)
                                    /\ n.op = m.op
             THEN refused(RefusedBare)
        ELSE IF Verdict(s, m).refused THEN refused(Verdict(s, m))
        ELSE [acc EXCEPT !.server = [Write(s, m) EXCEPT !.log = @ \cup {m}]]

Answered(mutations) ==
    FoldLeft(Answer, [server |-> server, refusals |-> {}], mutations)

\* _delta and _snapshot, tombstones included.
RowsSince(s, since) ==
    [r \in {q \in Rows : s.row[q] # <<>> /\ s.stamp[q] > since} |-> Current(s, r)]

\* Somebody else creates, edits or deletes a row.
Remote ==
    /\ left.remote > 0
    /\ \E r \in Rows, content \in AnyContent, deletion \in {Unchanged, "delete"} :
        LET m == [id |-> 0, op |-> IF server.row[r] = <<>> THEN "create" ELSE "patch",
                  row |-> r, expected |-> Current(server, r).version,
                  content |-> content, deletion |-> deletion]
        IN  /\ content \in ContentsOf(r)
            /\ m.op = "create" =>
                 /\ local[r] = Missing
                 /\ \A o \in outbox \cup InHand : o.mutation.row # r
                 /\ deletion = Unchanged /\ (r \in Lists => content = "active")
            /\ ~Verdict(server, m).refused
            /\ Written(server, m) # Current(server, r).value
            /\ server' = Write(server, m)
    /\ left' = [left EXCEPT !.remote = @ - 1]
    /\ UNCHANGED <<room, sync, wanted, owed, resolving, made, forgone>>

-----------------------------------------------------------------------------
(* Edits                                                                   *)

Fresh == made + 1
CanEdit == made < MaxMutations

NewOutboxRow(m) == [mutation |-> m, status |-> "pending", createdAt |-> m.id]

\* An id is drawn at random: nobody has used it.
Unused(r) ==
    /\ local[r] = Missing /\ server.row[r] = <<>>
    /\ \A o \in outbox \cup InHand : o.mutation.row # r
    /\ \A c \in conflicts : c.row # r

\* createList and addItem.
Create(r, content) ==
    /\ CanEdit
    /\ Unused(r)
    /\ r \in Lists => content = "active"
    /\ local[HomeOf(r)] # Missing \/ r \in Lists
    /\ local' = [local EXCEPT ![r] = [version |-> 1, value |-> Live(content)]]
    /\ outbox' = outbox \cup {NewOutboxRow(
            [id |-> Fresh, op |-> "create", row |-> r, expected |-> 0,
             content |-> content, deletion |-> Unchanged])}
    /\ made' = Fresh
    /\ owed' = "enqueue"
    /\ UNCHANGED <<server, conflicts, cursor, sync, wanted, resolving, left, forgone>>

\* mergePatch: the fields of the newer edit win, the ID and the expected version stay.
Merge(m, content, deletion) ==
    [m EXCEPT !.content = IF content = Unchanged THEN @ ELSE content,
              !.deletion = IF deletion = Unchanged THEN @ ELSE deletion]

\* A plausible bug: an edit is merged into a row that is being sent.
MergeableAny(r) ==
    {o \in outbox : r \in Lines /\ o.mutation.row = r /\ o.mutation.op = "patch"
                    /\ o.status # "conflict"}

\* findPendingItemOp; a list's edits are never merged (patchList).
Mergeable(r) ==
    {o \in outbox : r \in Lines /\ o.mutation.row = r /\ o.mutation.op = "patch"
                    /\ o.status = "pending"}

\* The worker has read the row and will write it back with the payload it read:
\* what is merged into it now is lost.
AboutToBeMarked(o) ==
    /\ sync.phase = "marking"
    /\ \E n \in DOMAIN sync.batch :
        n > sync.marked /\ sync.batch[n].mutation.id = o.mutation.id

Edited(value, content, deletion) ==
    [content |-> IF content = Unchanged THEN value.content ELSE content,
     deleted |-> IF deletion = Unchanged THEN value.deleted ELSE deletion = "delete"]

\* patchItem and patchList: one field, with the version that Room has.
Patch(r, content, deletion) ==
    /\ CanEdit
    /\ local[r] # Missing
    /\ Edited(local[r].value, content, deletion) # local[r].value
    /\ local' = [local EXCEPT ![r].value = Edited(@, content, deletion)]
    /\ \/ \E o \in Mergeable(r) :
            /\ outbox' = (outbox \ {o})
                            \cup {[o EXCEPT !.mutation = Merge(@, content, deletion)]}
            /\ forgone' = forgone \cup (IF AboutToBeMarked(o) THEN {r} ELSE {})
       \/ /\ Mergeable(r) = {}
          /\ outbox' = outbox \cup {NewOutboxRow(
                [id |-> Fresh, op |-> "patch", row |-> r, expected |-> local[r].version,
                 content |-> content, deletion |-> deletion])}
          /\ UNCHANGED forgone
    /\ made' = Fresh
    /\ owed' = "enqueue"
    /\ UNCHANGED <<server, conflicts, cursor, sync, wanted, resolving, left>>

Edit ==
    \E r \in Rows :
        \/ \E content \in ContentsOf(r) : Create(r, content)
        \/ \E content \in ContentsOf(r) : Patch(r, content, Unchanged)
        \/ \E deletion \in {"delete", "restore"} : Patch(r, Unchanged, deletion)

\* enqueueSync, after the transaction.
Enqueue ==
    /\ owed = "enqueue"
    /\ owed' = "none"
    /\ wanted' = TRUE
    /\ UNCHANGED <<server, room, sync, resolving, made, left, forgone>>

\* resumePendingWork, when the app is opened.
Resume ==
    /\ ~wanted
    /\ wanted' = TRUE
    /\ owed' = IF owed = "forgotten" THEN "none" ELSE owed
    /\ UNCHANGED <<server, room, sync, resolving, made, left, forgone>>

-----------------------------------------------------------------------------
(* syncPending                                                             *)

\* A plausible bug: what was being sent when the app died is not sent again.
OnlyPending == {o \in outbox : o.status = "pending"}

\* getSendable
Sendable == {o \in outbox : o.status \in {"pending", "in_flight"}}

\* ORDER BY createdAt; the clock of the device is taken to move forward.
InOrder(rows) ==
    CHOOSE s \in [1..Cardinality(rows) -> rows] :
        \A m, n \in DOMAIN s : m < n => s[m].createdAt < s[n].createdAt

\* The worker runs one at a time; an edit enqueues another run after it.
StartSync ==
    /\ sync.phase = "idle" /\ wanted
    /\ sync' = [NoSync EXCEPT !.phase = "marking", !.batch = InOrder(Sendable)]
    /\ wanted' = FALSE
    /\ UNCHANGED <<server, room, owed, resolving, made, left, forgone>>

\* A plausible bug: the row is inserted, and the one that was read stays.
WriteBesides(status) ==
    /\ sync.marked < Len(sync.batch)
    /\ outbox' = outbox \cup {[sync.batch[sync.marked + 1] EXCEPT !.status = status]}
    /\ sync' = [sync EXCEPT !.marked = @ + 1]

\* Each row is written back with another status, and the payload that was read.
WriteBack(status) ==
    LET row == [sync.batch[sync.marked + 1] EXCEPT !.status = status]
    IN  /\ sync.marked < Len(sync.batch)
        /\ outbox' = {o \in outbox : o.mutation.id # row.mutation.id} \cup {row}
        /\ sync' = [sync EXCEPT !.marked = @ + 1]

Mark ==
    /\ sync.phase = "marking"
    /\ WriteBack("in_flight")
    /\ UNCHANGED <<server, local, conflicts, cursor, wanted, owed, resolving, made, left, forgone>>

\* The request goes out once every row is written back.
Sent == sync.phase = "marking" /\ sync.marked = Len(sync.batch)

\* The server answers (sync); what it refuses for its content, or for the number
\* of lines, is left to ListServer.  A device without a cursor gets a snapshot.
Serve ==
    LET done == Answered([n \in DOMAIN sync.batch |-> sync.batch[n].mutation]) IN
    /\ Sent
    /\ server' = done.server
    /\ sync' = [sync EXCEPT !.phase = "answered", !.answer =
                    [full |-> cursor = 0, expired |-> FALSE,
                     rows |-> RowsSince(server', cursor),
                     refusals |-> done.refusals, cursor |-> server'.seq]]
    /\ UNCHANGED <<room, wanted, owed, resolving, made, left, forgone>>

\* An expired cursor: a snapshot, and every mutation comes back.
RefuseCursor ==
    /\ Sent /\ cursor # 0
    /\ left.expiries > 0
    /\ left' = [left EXCEPT !.expiries = @ - 1]
    /\ sync' = [sync EXCEPT !.phase = "answered", !.answer =
                    [full |-> TRUE, expired |-> TRUE, rows |-> RowsSince(server, 0),
                     refusals |-> {}, cursor |-> server.seq]]
    /\ UNCHANGED <<server, room, wanted, owed, resolving, made, forgone>>

SentRow(o) == \E n \in DOMAIN sync.batch : sync.batch[n].mutation.id = o.mutation.id

\* The outbox after an answer: what was applied is gone, what was refused is a
\* conflict, and what an expired cursor gave back waits again.
Settled ==
    LET rows == {sync.batch[n] : n \in DOMAIN sync.batch}
        refused(o) == \E c \in sync.answer.refusals : c.id = o.mutation.id
    IN  {o \in outbox : ~SentRow(o)}
          \cup (IF sync.answer.expired THEN {[o EXCEPT !.status = "pending"] : o \in rows}
                ELSE {[o EXCEPT !.status = "conflict"] : o \in {q \in rows : refused(q)}})

\* A plausible bug: the outbox is read before the answer's outcomes are written.
ProtectedBefore(rows) ==
    {o.mutation.row : o \in outbox} \cup {HomeOf(o.mutation.row) : o \in outbox}

\* getProtecting: rows with an edit in the outbox, and their lists.
Protected(rows) ==
    {o.mutation.row : o \in rows} \cup {HomeOf(o.mutation.row) : o \in rows}

\* applyResponse, in one transaction.
Receive ==
    LET sent == DOMAIN sync.answer.rows
        kept == {r \in Protected(outbox') : r \in Lines \/ local[r] # Missing}
        taken == sent \ kept
        purged == IF sync.answer.full THEN Rows \ (sent \cup Protected(outbox')) ELSE {}
    IN  /\ sync.phase = "answered"
        /\ outbox' = Settled
        /\ conflicts' = {c \in conflicts : ~\E n \in DOMAIN sync.batch :
                                               sync.batch[n].mutation.id = c.id}
                          \cup sync.answer.refusals
        /\ local' = [r \in Rows |-> IF r \in taken THEN sync.answer.rows[r]
                                    ELSE IF r \in purged THEN Missing ELSE local[r]]
        /\ cursor' = sync.answer.cursor
        /\ forgone' = (forgone \ (taken \cup purged)) \cup InHandRows
        /\ sync' = NoSync
        /\ owed' = IF sync.answer.expired /\ sync.batch # <<>> /\ ~wanted /\ owed = "none"
                   THEN "forgotten" ELSE owed
        /\ UNCHANGED <<server, wanted, resolving, made, left>>

\* The request or its answer is lost.
Fail ==
    /\ Sent \/ sync.phase = "answered"
    /\ left.faults > 0
    /\ left' = [left EXCEPT !.faults = @ - 1]
    /\ sync' = [sync EXCEPT !.phase = "failed", !.marked = 0, !.answer = NoAnswer]
    /\ UNCHANGED <<server, room, wanted, owed, resolving, made, forgone>>

Unmark ==
    /\ sync.phase = "failed"
    /\ WriteBack("pending")
    /\ UNCHANGED <<server, local, conflicts, cursor, wanted, owed, resolving, made, left, forgone>>

\* The worker ends with Result.retry().
Retry ==
    /\ sync.phase = "failed"
    /\ sync.marked = Len(sync.batch)
    /\ sync' = NoSync
    /\ wanted' = TRUE
    /\ UNCHANGED <<server, room, owed, resolving, made, left, forgone>>

\* The process dies, and WorkManager runs a worker again that had started.  An
\* edit whose row was to be inserted again is gone.
Die ==
    /\ left.faults > 0
    /\ sync # NoSync \/ resolving # Nothing \/ owed = "enqueue"
    /\ left' = [left EXCEPT !.faults = @ - 1]
    /\ wanted' = (wanted \/ sync # NoSync)
    /\ owed' = CASE wanted' -> "none"
                 [] ~wanted' /\ (resolving # Nothing \/ owed = "enqueue") -> "forgotten"
                 [] OTHER -> owed
    /\ sync' = NoSync
    /\ resolving' = Nothing
    /\ forgone' = forgone \cup InHandRows
    /\ UNCHANGED <<server, room, made>>

-----------------------------------------------------------------------------
(* resolveConflict, each statement in a transaction of its own              *)

RowOf(c) == {o \in outbox : o.mutation.id = c.id}

\* The user keeps the edit: its row is deleted here, and inserted with a new ID
\* by KeepAgain.  The expected version is the one in the server's JSON.
KeepMine(c) ==
    /\ resolving = Nothing
    /\ made < MaxMutations
    /\ resolving' = {[conflict |-> c.id, rows |->
                        {[o EXCEPT !.mutation.id = Fresh, !.status = "pending",
                             !.mutation.expected = IF c.json = NoJson THEN @ ELSE c.json.version] :
                         o \in RowOf(c)}]}
    /\ outbox' = outbox \ RowOf(c)
    /\ made' = Fresh
    /\ UNCHANGED <<server, local, conflicts, cursor, sync, wanted, owed, left, forgone>>

KeepAgain ==
    /\ InHand # {}
    /\ outbox' = outbox \cup InHand
    /\ resolving' = {[h EXCEPT !.rows = {}] : h \in resolving}
    /\ UNCHANGED <<server, local, conflicts, cursor, sync, wanted, owed, made, left, forgone>>

\* The user takes the server's row (applyServerSnapshot): for a list, and
\* without JSON, nothing is copied; fields that the JSON lacks stay.
TakeTheirs(c) ==
    /\ resolving = Nothing
    /\ resolving' = {[conflict |-> c.id, rows |-> {}]}
    /\ local' = IF c.row \in Lists \/ c.json = NoJson \/ local[c.row] = Missing THEN local
                ELSE [local EXCEPT ![c.row] =
                        [version |-> c.json.version,
                         value |-> IF c.json.row = c.row THEN c.json.value
                                   ELSE [@.value EXCEPT !.deleted = c.json.value.deleted]]]
    /\ forgone' = forgone \cup {c.row, HomeOf(c.row)}
    /\ UNCHANGED <<server, outbox, conflicts, cursor, sync, wanted, owed, made, left>>

\* The row that was given up and the conflict are deleted.
Forget ==
    /\ resolving # Nothing /\ InHand = {}
    /\ \E h \in resolving :
        /\ outbox' = {o \in outbox : o.mutation.id # h.conflict}
        /\ conflicts' = {c \in conflicts : c.id # h.conflict}
    /\ resolving' = Nothing
    /\ owed' = "enqueue"
    /\ UNCHANGED <<server, local, cursor, sync, wanted, made, left, forgone>>

Step ==
    \/ Enqueue \/ KeepAgain \/ Forget
    \/ StartSync \/ Mark \/ Serve \/ Receive \/ Unmark \/ Retry

Next ==
    \/ Remote
    \/ Edit
    \/ Resume
    \/ Step
    \/ RefuseCursor
    \/ Fail
    \/ Die
    \/ \E c \in conflicts : KeepMine(c) \/ TakeTheirs(c)

Spec == Init /\ [][Next]_vars

\* What is between two statements goes on to the next unless the process dies;
\* WorkManager runs an enqueued worker in the end, and again after a failure.
FairSpec == Spec /\ WF_vars(Step)

-----------------------------------------------------------------------------
(* Properties                                                              *)

\* Rows and records keep their types; a mutation ID names one row of the outbox.
TypeOK ==
    /\ local \in [Rows -> Versioned]
    /\ outbox \subseteq OutboxRow /\ InHand \subseteq OutboxRow
    /\ \A o, p \in outbox : o.mutation.id = p.mutation.id => o = p
    /\ conflicts \subseteq Conflict
    /\ cursor \in 0..server.seq
    /\ sync.phase \in Phases /\ sync.marked \in 0..Len(sync.batch)
    /\ wanted \in BOOLEAN /\ owed \in {"none", "enqueue", "forgotten"}
    /\ forgone \subseteq Rows

\* The versions of a row from the one in Room on.
Since(r) == {server.row[r][n] : n \in {k \in DOMAIN server.row[r] : k >= local[r].version}}

Carried(r) == {o.mutation : o \in {q \in outbox \cup InHand : q.mutation.row = r}}

OnServer(r) ==
    /\ \E v \in Since(r) : v.content = local[r].value.content
    /\ \E v \in Since(r) : v.deleted = local[r].value.deleted

OnServerOrCarried(r) ==
    /\ \/ \E v \in Since(r) : v.content = local[r].value.content
       \/ \E m \in Carried(r) : m.content = local[r].value.content
    /\ \/ \E v \in Since(r) : v.deleted = local[r].value.deleted
       \/ \E m \in Carried(r) :
            IF local[r].value.deleted THEN m.deletion = "delete"
            ELSE m.deletion = "restore" \/ m.op = "create"

Held == \A r \in Rows \ forgone : local[r] # Missing => OnServerOrCarried(r)

\* No edit is lost: what the device shows of a row is on the server or in the
\* outbox, and nothing replaces it on the device before the server has had it,
\* until the user edits the row again or gives it up
\* (docs/contracts/feil-og-offline.md:59-61).  The code breaks this only in the
\* gaps that forgone names.
EditKept ==
    [][/\ Held'
       /\ made' = made =>
            \A r \in Rows \ (forgone \cup forgone') :
                local[r] # Missing /\ local'[r] # local[r] => OnServer(r)]_vars

\* A device whose edits are all settled and that has been sent everything shows
\* what the server has, although it skipped rows while they had edits
\* (applyResponse), as long as no cursor was refused.
Agrees ==
    /\ left.expiries = MaxExpiries /\ sync = NoSync
    /\ outbox = {} /\ resolving = Nothing /\ cursor = server.seq
    =>  \A r \in Rows \ forgone : local[r] = Current(server, r)

\* Every edit is answered: again and again none waits, each has ended on the
\* server or as a conflict, although requests and answers get lost and the app
\* dies in between.  Two cases wait for the next edit or start of the app: a death
\* before enqueueSync, and rows that a refused cursor gave back.
EveryEditAnswered ==
    []<>(owed = "forgotten" \/ \A o \in outbox : o.status = "conflict")
=============================================================================
