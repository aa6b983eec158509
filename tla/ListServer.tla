----------------------------- MODULE ListServer -----------------------------
(***************************************************************************)
(* Shopping lists of one account on the server                             *)
(* (services/shopping_list_service.py): mutations with optimistic          *)
(* versions, replay of mutation IDs, tombstones, the account's change      *)
(* sequence, and the incremental sync that hands changes to devices.       *)
(*                                                                         *)
(* One step is one statement, or statements between which no other         *)
(* transaction can change what they see.  The isolation level is READ      *)
(* COMMITTED: each statement reads what is committed then.  The first      *)
(* statement of a transaction that writes increments the account's row in  *)
(* shopping_list_sync_state, and the lock on that row is held until the    *)
(* transaction ends, so that at most one transaction has written anything: *)
(* "work" is the database as that transaction, the owner, sees it.         *)
(***************************************************************************)
EXTENDS Naturals, FiniteSets, Sequences

CONSTANTS
    Lists, Items,    \* IDs of lists and of list lines
    MutationIds,     \* mutation IDs the clients generate
    Requests,        \* the mutations that clients may send
    Batches,         \* the sequences of them one sync request may carry
    Devices,         \* installations that keep a cursor
    Sessions,        \* database sessions that can be open at the same time
    MaxActiveItems,  \* MAX_ACTIVE_ITEMS
    MaxLines,        \* lines copied from a list or a receipt (a bound)
    NoList, NoItem, NoDevice, NoSession, NoRequest  \* "none"

Operations == {"list_create", "list_patch", "item_create", "item_patch",
               "list_copy", "list_from_receipt"}

\* What a patch sets.  An "edit" is any change of the other columns.
Changes == {"none", "edit", "archive", "reopen", "delete"}

Mutations == [op : Operations, id : MutationIds, list : Lists,
              item : Items \cup {NoItem}, source : Lists \cup {NoList},
              expected : Nat, change : Changes]

ASSUME ListAssumption ==
    /\ Requests \subseteq Mutations
    /\ \A m \in Requests : /\ m.op \in {"item_create", "item_patch"} => m.item \in Items
                           /\ m.op = "list_copy" => m.source \in Lists
    /\ Batches \subseteq Seq(Requests)
    /\ MaxActiveItems \in Nat \ {0}
    /\ MaxLines \in Nat
    /\ NoList \notin Lists
    /\ NoItem \notin Items
    /\ NoDevice \notin Devices
    /\ NoSession \notin Sessions
    /\ NoRequest \notin Requests

VARIABLES
    db,       \* the committed tables
    work,     \* the tables as the owner sees them, db without an owner
    owner,    \* the session that holds the lock on the account's sequence row
    session,  \* what each database session is doing
    device    \* what each installation has stored

vars == <<db, work, owner, session, device>>

\* uq_shopping_list_mutations_key
Key(m) == <<m.op, m.id>>
Keys == {Key(m) : m \in Requests}

\* What distinguishes the content of a row from its content at another time
\* is the sequence number it was stamped with; the columns kept besides it
\* are those that handlers branch on.
ListRow == [status : {"absent", "active", "archived"}, deleted : BOOLEAN,
            version : Nat, seq : Nat]
ItemRow == [list : Lists \cup {NoList}, deleted : BOOLEAN, version : Nat, seq : Nat]
NoListRow == [status |-> "absent", deleted |-> FALSE, version |-> 0, seq |-> 0]
NoItemRow == [list |-> NoList, deleted |-> FALSE, version |-> 0, seq |-> 0]
NewList(n) == [status |-> "active", deleted |-> FALSE, version |-> 1, seq |-> n]
NewItem(l, n) == [list |-> l, deleted |-> FALSE, version |-> 1, seq |-> n]

\* A stored answer shows the rows as its mutation stamped them.
Stored == [request : Requests \cup {NoRequest}, stamps : SUBSET Nat]
NotRecorded == [request |-> NoRequest, stamps |-> {}]

Tables == [seq : Nat, list : [Lists -> ListRow], item : [Items -> ItemRow],
           log : [Keys -> Stored]]
EmptyTables == [seq |-> 0, list |-> [l \in Lists |-> NoListRow],
                item |-> [i \in Items |-> NoItemRow],
                log |-> [k \in Keys |-> NotRecorded]]

\* since: the cursor the request came with, 0 without a usable one (every row
\* has a stamp above 0, so a snapshot is the delta since 0).  list, item and
\* lines: what the handler of the mutation in progress has read.
Pc == {"idle", "next", "list", "item", "write", "sequence", "lists", "items"}
Session == [pc : Pc, todo : Seq(Requests), locks : SUBSET Keys,
            device : Devices \cup {NoDevice}, since : Nat,
            list : ListRow, item : ItemRow, lines : Nat,
            stamp : Nat, page : [Lists -> Nat]]
NoPage == [l \in Lists |-> 0]
Idle == [pc |-> "idle", todo |-> <<>>, locks |-> {}, device |-> NoDevice, since |-> 0,
         list |-> NoListRow, item |-> NoItemRow, lines |-> 0, stamp |-> 0, page |-> NoPage]
Started(todo, d, since) ==
    [Idle EXCEPT !.pc = "next", !.todo = todo, !.device = d, !.since = since]

\* A device keeps its cursor and, of each row, the newest content it was sent,
\* named by its stamp.
Known == [list : [Lists -> Nat], item : [Items -> Nat]]
Device == [cursor : Nat, known : Known]
NewDevice == [cursor |-> 0, known |-> [list |-> NoPage, item |-> [i \in Items |-> 0]]]

View(s) == IF owner = s THEN work ELSE db
Current(s) == Head(session[s].todo)
CanWrite(s) == owner \in {s, NoSession}
ActiveItems(t, l) == {i \in Items : t.item[i].list = l /\ ~t.item[i].deleted}
IsMutable(row) == row.status = "active" /\ ~row.deleted

Goto(s, pc) == session' = [session EXCEPT ![s].pc = pc]

\* A session whose current mutation is done, what that mutation read forgotten.
Done(r, locks) == [r EXCEPT !.pc = "next", !.todo = Tail(@), !.locks = locks,
                            !.list = NoListRow, !.item = NoItemRow, !.lines = 0]
NextMutation(s) == session' = [session EXCEPT ![s] = Done(@, @.locks)]

\* MutationRejected: the savepoint is rolled back.  Nothing was written after
\* it yet, but the lock on the mutation ID goes with it.
Reject(s) == session' = [session EXCEPT ![s] = Done(@, @.locks \ {Key(Current(s))})]

Init ==
    /\ db = EmptyTables
    /\ work = EmptyTables
    /\ owner = NoSession
    /\ session = [s \in Sessions |-> Idle]
    /\ device = [d \in Devices |-> NewDevice]

-----------------------------------------------------------------------------
(* Requests                                                                *)

\* A REST route: one mutation in a transaction of its own.  A rejection rolls
\* back a transaction that wrote nothing, so it is a batch of one without a reader.
BeginRest(s) ==
    /\ session[s].pc = "idle"
    /\ \E m \in Requests :
        session' = [session EXCEPT ![s] = Started(<<m>>, NoDevice, 0)]
    /\ UNCHANGED <<db, work, owner, device>>

\* POST /v2/sync.  A cursor that expired or belongs to another account gives
\* a snapshot, and no mutation is replayed.  A device waits for one answer at a time.
BeginSync(s, d) ==
    /\ session[s].pc = "idle"
    /\ \A t \in Sessions : session[t].device # d
    /\ \/ \E batch \in Batches :
            session' = [session EXCEPT ![s] = Started(batch, d, device[d].cursor)]
       \/ session' = [session EXCEPT ![s] = Started(<<>>, d, 0)]
    /\ UNCHANGED <<db, work, owner, device>>

\* The device gives up waiting; the request goes on without a reader.  (Once
\* the mutations are committed, that is no different from an Abort.)
Mutating == {"next", "list", "item", "write"}

GiveUp(s) ==
    /\ session[s].device # NoDevice
    /\ session[s].pc \in Mutating
    /\ session' = [session EXCEPT ![s].device = NoDevice]
    /\ UNCHANGED <<db, work, owner, device>>

-----------------------------------------------------------------------------
(* Mutations                                                               *)

\* A plausible bug: no lock, as on a database without advisory locks.
LockFreeAlways(s, k) == TRUE

\* _lock_mutation, which waits for another transaction with the same mutation
\* ID, and _replay: a recorded mutation is answered from its record if the
\* payload is the same, and rejected if it is not.
LockFree(s, k) == \A t \in Sessions \ {s} : k \notin session[t].locks

Lookup(s) ==
    LET k == Key(Current(s))
        recorded == View(s).log[k].request
    IN \/ /\ recorded = NoRequest
          /\ session' = [session EXCEPT ![s].pc = "list", ![s].locks = @ \cup {k}]
       \/ /\ recorded = Current(s)
          /\ session' = [session EXCEPT ![s] = Done(@, @.locks \cup {k})]
       \/ /\ recorded \notin {NoRequest, Current(s)}
          /\ NextMutation(s)

Lock(s) ==
    /\ session[s].pc = "next"
    /\ session[s].todo # <<>>
    /\ LockFree(s, Key(Current(s)))
    /\ Lookup(s)
    /\ UNCHANGED <<db, work, owner, device>>

\* Names, references, quantities, products and receipts are not modelled: a
\* mutation that carries one may be refused for it.
MayBeInvalid(m) == m.op \notin {"list_patch", "item_patch"} \/ m.change = "edit"

\* What the handlers demand of the list, before they wait for the sequence row.
ListAccepts(t, m) ==
    CASE m.op = "list_create" -> t.list[m.list] = NoListRow
      [] m.op = "list_patch" -> /\ t.list[m.list] # NoListRow
                                /\ ~t.list[m.list].deleted
                                /\ t.list[m.list].version = m.expected
      [] m.op \in {"item_create", "item_patch"} -> IsMutable(t.list[m.list])
      [] m.op = "list_copy" -> /\ t.list[m.source] # NoListRow
                               /\ ~t.list[m.source].deleted
      [] OTHER -> TRUE

ReadList(s) ==
    LET m == Current(s)
    IN /\ session[s].pc = "list"
       /\ \/ /\ ListAccepts(View(s), m)
             /\ session' = [session EXCEPT
                    ![s].list = IF m.op = "list_patch" THEN View(s).list[m.list] ELSE NoListRow,
                    ![s].pc = IF m.op \in {"list_create", "list_patch"} THEN "write" ELSE "item"]
          \/ /\ ~ListAccepts(View(s), m) \/ MayBeInvalid(m)
             /\ Reject(s)
       /\ UNCHANGED <<db, work, owner, device>>

\* A plausible bug: off by one at the limit.
ItemAcceptsOneMore(t, m, n) ==
    IF m.op = "item_create"
    THEN /\ t.item[m.item] = NoItemRow
         /\ Cardinality(ActiveItems(t, m.list)) <= MaxActiveItems
    ELSE n <= MaxActiveItems /\ t.list[m.list] = NoListRow

\* ... and of the line, or of the list to be filled with n lines.
ItemAccepts(t, m, n) ==
    CASE m.op = "item_create" -> /\ t.item[m.item] = NoItemRow
                                 /\ Cardinality(ActiveItems(t, m.list)) < MaxActiveItems
      [] m.op = "item_patch" -> /\ t.item[m.item].list = m.list
                                /\ ~t.item[m.item].deleted
                                /\ t.item[m.item].version = m.expected
      [] OTHER -> /\ t.list[m.list] = NoListRow
                  /\ n <= MaxActiveItems

\* The lines to copy: of a list, all its lines or the unchecked ones; of a
\* receipt, however many it has.
Lines(t, m) ==
    CASE m.op = "list_copy" ->
            {n \in 0..MaxLines : n <= Cardinality(ActiveItems(t, m.source))}
      [] m.op = "list_from_receipt" -> 0..MaxLines
      [] OTHER -> {0}

ReadItem(s) ==
    LET m == Current(s)
    IN /\ session[s].pc = "item"
       /\ \E n \in Lines(View(s), m) :
            \/ /\ ItemAccepts(View(s), m, n)
               /\ session' = [session EXCEPT
                    ![s].pc = "write", ![s].lines = n,
                    ![s].item = IF m.op = "item_patch" THEN View(s).item[m.item] ELSE NoItemRow]
            \/ /\ ~ItemAccepts(View(s), m, n)
               /\ Reject(s)
       /\ UNCHANGED <<db, work, owner, device>>

\* The tables with these lists and lines, after n increments by _next_sequence
\* and the _record of mutation m.
Recorded(t, m, n, lists, items) ==
    [seq |-> t.seq + n, list |-> lists, item |-> items,
     log |-> [t.log EXCEPT ![Key(m)] = [request |-> m, stamps |-> (t.seq + 1)..(t.seq + n)]]]

\* _touch without a new version.
Touched(t, m) == [t.list EXCEPT ![m.list].seq = t.seq + 1]

\* Plausible bugs: deletion as a status; all columns of a line written back;
\* the line stamped with its version.
PatchedListStatus(now, read, change, n) ==
    [now EXCEPT !.status = IF change = "delete" THEN "deleted" ELSE @, !.seq = n]
PatchedItemWhole(now, read, change, n) ==
    [read EXCEPT !.deleted = @ \/ change = "delete", !.version = @ + 1, !.seq = n]
PatchedItemVersionStamp(now, read, change, n) ==
    [now EXCEPT !.deleted = @ \/ change = "delete", !.version = read.version + 1,
                !.seq = read.version + 1]

\* An UPDATE sets the columns that differ from what was read, and the version
\* to one more than what was read; it leaves the other columns as they are now.
PatchedList(now, read, change, n) ==
    [status |-> IF change = "archive" /\ read.status # "archived" THEN "archived"
                ELSE IF change = "reopen" /\ read.status # "active" THEN "active"
                ELSE now.status,
     deleted |-> now.deleted \/ change = "delete",
     version |-> read.version + 1,
     seq |-> n]
PatchedItem(now, read, change, n) ==
    [list |-> now.list,
     deleted |-> now.deleted \/ change = "delete",
     version |-> read.version + 1,
     seq |-> n]

ListCreated(t, m) ==
    Recorded(t, m, 1, [t.list EXCEPT ![m.list] = NewList(t.seq + 1)], t.item)
ListPatched(t, m, read) ==
    Recorded(t, m, 1,
             [t.list EXCEPT ![m.list] = PatchedList(@, read, m.change, t.seq + 1)], t.item)
ItemCreated(t, m) ==
    Recorded(t, m, 1, Touched(t, m), [t.item EXCEPT ![m.item] = NewItem(m.list, t.seq + 1)])
ItemPatched(t, m, read) ==
    Recorded(t, m, 1, Touched(t, m),
             [t.item EXCEPT ![m.item] = PatchedItem(@, read, m.change, t.seq + 1)])

\* _materialize_mapped_list: a list and its lines under new IDs, the k-th line
\* stamped with the k-th sequence number after the list's first one.
Numbered(fresh, n) ==
    {rank \in [fresh -> 1..n] : \A k \in 1..n : \E i \in fresh : rank[i] = k}
Filled(t, m, n, rank) ==
    Recorded(t, m, n + 1, [t.list EXCEPT ![m.list] = NewList(t.seq + n + 1)],
             [i \in Items |-> IF i \in DOMAIN rank
                              THEN NewItem(m.list, t.seq + 1 + rank[i]) ELSE t.item[i]])
ListFilled(t, m, n) ==
    \E fresh \in SUBSET {i \in Items : t.item[i] = NoItemRow} :
        /\ Cardinality(fresh) = n
        /\ \E rank \in Numbered(fresh, n) : work' = Filled(t, m, n, rank)

\* An INSERT under an ID that another transaction has taken since the check.
Clashes(t, m) ==
    \/ m.op = "item_create" /\ t.item[m.item] # NoItemRow
    \/ m.op \in {"list_create", "list_copy", "list_from_receipt"} /\ t.list[m.list] # NoListRow

Apply(s, m) ==
    \/ m.op = "list_create" /\ work' = ListCreated(work, m)
    \/ m.op = "list_patch" /\ work' = ListPatched(work, m, session[s].list)
    \/ m.op = "item_create" /\ work' = ItemCreated(work, m)
    \/ m.op = "item_patch" /\ work' = ItemPatched(work, m, session[s].item)
    \/ m.op \in {"list_copy", "list_from_receipt"} /\ ListFilled(work, m, session[s].lines)

\* _next_sequence waits for the sequence row; then the handler's writes.
Write(s) ==
    /\ session[s].pc = "write"
    /\ CanWrite(s)
    /\ ~Clashes(work, Current(s))
    /\ Apply(s, Current(s))
    /\ owner' = s
    /\ NextMutation(s)
    /\ UNCHANGED <<db, device>>

\* A plausible bug: the transaction is left open.
RollbackForgotten(s) ==
    /\ session' = [session EXCEPT ![s] = Idle]
    /\ UNCHANGED <<db, work, owner, device>>

\* The end of a transaction without a commit.
Rollback(s) ==
    /\ session' = [session EXCEPT ![s] = Idle]
    /\ owner' = IF owner = s THEN NoSession ELSE owner
    /\ work' = IF owner = s THEN db ELSE work
    /\ UNCHANGED <<db, device>>

\* The IntegrityError of such an INSERT is no MutationRejected: the whole
\* request fails, a sync with every mutation of its batch.
Clash(s) ==
    /\ session[s].pc = "write"
    /\ CanWrite(s)
    /\ Clashes(work, Current(s))
    /\ Rollback(s)

\* The process or the connection dies, or the database ends a deadlock.
Abort(s) ==
    /\ session[s].pc # "idle"
    /\ Rollback(s)

Commit(s) ==
    /\ session[s].pc = "next"
    /\ session[s].todo = <<>>
    /\ db' = View(s)
    /\ owner' = IF owner = s THEN NoSession ELSE owner
    /\ session' = [session EXCEPT ![s] =
            IF @.device = NoDevice THEN Idle
            ELSE [@ EXCEPT !.pc = "sequence", !.locks = {}]]
    /\ UNCHANGED <<work, device>>

-----------------------------------------------------------------------------
(* The answer of a sync: three statements, others may commit in between    *)

\* The sequence is read before the lists.
ReadSequence(s) ==
    /\ session[s].pc = "sequence"
    /\ session' = [session EXCEPT ![s].stamp = db.seq, ![s].pc = "lists"]
    /\ UNCHANGED <<db, work, owner, device>>

ChangedLists(since) ==
    [l \in Lists |-> IF db.list[l].seq > since THEN db.list[l].seq ELSE 0]

ReadLists(s) ==
    /\ session[s].pc = "lists"
    /\ session' = [session EXCEPT ![s].page = ChangedLists(session[s].since), ![s].pc = "items"]
    /\ UNCHANGED <<db, work, owner, device>>

\* Changed lines, tombstones included, of the lists on the page.
ChangedItems(since, page) ==
    {i \in Items : \E l \in Lists : /\ page[l] > 0
                                    /\ db.item[i].list = l
                                    /\ db.item[i].seq > since}

\* A plausible bug: the cursor is the sequence when the answer is complete.
ReceivedLate(d, s) ==
    LET r == session[s]
    IN [cursor |-> db.seq,
        known |-> [list |-> [l \in Lists |-> IF r.page[l] > 0 THEN r.page[l]
                                             ELSE device[d].known.list[l]],
                   item |-> [i \in Items |-> IF i \in ChangedItems(r.since, r.page)
                                             THEN db.item[i].seq
                                             ELSE device[d].known.item[i]]]]

\* The lines are read and the answer reaches the device, if it still waits.
Received(d, s) ==
    LET r == session[s]
    IN [cursor |-> r.stamp,
        known |-> [list |-> [l \in Lists |-> IF r.page[l] > 0 THEN r.page[l]
                                             ELSE device[d].known.list[l]],
                   item |-> [i \in Items |-> IF i \in ChangedItems(r.since, r.page)
                                             THEN db.item[i].seq
                                             ELSE device[d].known.item[i]]]]

Answer(s) ==
    /\ session[s].pc = "items"
    /\ device' = [d \in Devices |-> IF session[s].device = d THEN Received(d, s) ELSE device[d]]
    /\ session' = [session EXCEPT ![s] = Idle]
    /\ UNCHANGED <<db, work, owner>>

-----------------------------------------------------------------------------

Progress(s) ==
    \/ Lock(s) \/ ReadList(s) \/ ReadItem(s) \/ Write(s) \/ Clash(s) \/ Commit(s)
    \/ ReadSequence(s) \/ ReadLists(s) \/ Answer(s)

Next ==
    \E s \in Sessions :
        \/ Progress(s)
        \/ BeginRest(s)
        \/ \E d \in Devices : BeginSync(s, d)
        \/ GiveUp(s)
        \/ Abort(s)

Spec == Init /\ [][Next]_vars

\* A session waits for one that holds its mutation ID or the sequence row.
WaitsFor(s, t) ==
    \/ /\ session[s].pc = "next"
       /\ session[s].todo # <<>>
       /\ s # t
       /\ Key(Current(s)) \in session[t].locks
    \/ /\ session[s].pc = "write"
       /\ owner = t
       /\ s # t
Deadlocked(s) ==
    \E C \in SUBSET Sessions : s \in C /\ \A a \in C : \E b \in C : WaitsFor(a, b)

\* Sessions run; the lock queues of the database are first-come first-served,
\* and it ends every deadlock.
Fairness == \A s \in Sessions : SF_vars(Progress(s)) /\ WF_vars(Deadlocked(s) /\ Abort(s))
FairSpec == Spec /\ Fairness

-----------------------------------------------------------------------------
(* Properties                                                              *)

TypeOK ==
    /\ db \in Tables
    /\ work \in Tables
    /\ owner \in Sessions \cup {NoSession}
    /\ session \in [Sessions -> Session]
    /\ device \in [Devices -> Device]

\* A cursor never covers a change that its device did not get: whatever is
\* stamped at or below the cursor, the device has exactly that content.
\* (sync, and the tests test_a_cursor_never_covers_a_change_the_client_did_not_get
\* and its twin for snapshots, for every interleaving of writers.)
DeltaComplete ==
    \A d \in Devices :
        /\ \A l \in Lists : db.list[l].seq <= device[d].cursor
                             => device[d].known.list[l] = db.list[l].seq
        /\ \A i \in Items : db.item[i].seq <= device[d].cursor
                             => device[d].known.item[i] = db.item[i].seq

\* Every sequence number up to the current one was given out by exactly one
\* recorded mutation: no mutation ID took effect twice, none without a record,
\* and no two changes share a number (_next_sequence, _replay, _record).
StampedOnce ==
    /\ \A k \in Keys : db.log[k].stamps \subseteq 1..db.seq
    /\ \A n \in 1..db.seq : \E k \in Keys : n \in db.log[k].stamps
    /\ \A j, k \in Keys : j # k => db.log[j].stamps \cap db.log[k].stamps = {}

\* A device is never handed a row in an older state than it already has.
NoStepBack ==
    [][\A d \in Devices :
        /\ \A l \in Lists : device'[d].known.list[l] >= device[d].known.list[l]
        /\ \A i \in Items : device'[d].known.item[i] >= device[d].known.item[i]]_device

\* A deleted row stays deleted, whatever is sent or was already under way: "the
\* server never revives a deleted list" (module docstring of the service).
TombstonesStay ==
    [][/\ \A l \in Lists : db.list[l].deleted => db'.list[l].deleted
       /\ \A i \in Items : db.item[i].deleted => db'.item[i].deleted]_db

\* Every request ends, whatever it waits for.
Answered == \A s \in Sessions : session[s].pc # "idle" ~> session[s].pc = "idle"

NewerVersions ==
    \A i \in Items : db'.item[i] # db.item[i]
        => db'.item[i].version > db.item[i].version

\* A change of a line has a newer version than the content it replaced, so
\* that whoever based a patch on that content is told of a conflict
\* ("expected_version that does not match is a conflict, never a silent overwrite").
NoSilentOverwrite == [][NewerVersions]_db

\* The count of lines is read before the wait for the sequence row and not again
\* after it, so a list may come to exceed the limit (_create_item, _item_limit), but
\* by fewer lines than there are sessions: a transaction exceeds it by one line at
\* most, although a batch creates many and others commit lines meanwhile.
ItemLimit ==
    \A l \in Lists : Cardinality(ActiveItems(db, l)) < MaxActiveItems + Cardinality(Sessions)
=============================================================================
