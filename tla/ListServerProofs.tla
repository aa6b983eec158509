-------------------------- MODULE ListServerProofs --------------------------
(***************************************************************************)
(* Proofs about ListServer for every value of its constants: any number of *)
(* lists, lines, devices, sessions, requests and batches.                  *)
(***************************************************************************)
EXTENDS ListServer, FiniteSetTheorems, TLAPS

-----------------------------------------------------------------------------
(* Constants and constructors                                              *)

\* The components of a request have their types, and its key is a key.
LEMMA RequestTypes ==
    ASSUME NEW m \in Requests
    PROVE  /\ m.list \in Lists
           /\ m.op \in Operations
           /\ m.op \in {"item_create", "item_patch"} => m.item \in Items
           /\ Key(m) \in Keys
           /\ m # NoRequest
  BY ListAssumption DEF Mutations, Keys

\* The null rows and the rows that handlers insert are rows.
LEMMA RowTypes ==
    /\ NoListRow \in ListRow /\ NoItemRow \in ItemRow
    /\ NoListRow.seq = 0 /\ NoItemRow.seq = 0 /\ NoItemRow.list = NoList
    /\ ~NoListRow.deleted /\ ~NoItemRow.deleted
    /\ \A n \in Nat : NewList(n) \in ListRow /\ NewList(n).seq = n
    /\ \A n \in Nat, l \in Lists : /\ NewItem(l, n) \in ItemRow
                                   /\ NewItem(l, n).seq = n
                                   /\ NewItem(l, n).list = l
  BY DEF NoListRow, NoItemRow, NewList, NewItem, ListRow, ItemRow

\* What an UPDATE keeps of a list: its tombstone; it gets the new stamp.
LEMMA PatchedLists ==
    ASSUME NEW now \in ListRow, NEW read \in ListRow, NEW c \in Changes, NEW n \in Nat
    PROVE  /\ PatchedList(now, read, c, n) \in ListRow
           /\ PatchedList(now, read, c, n).seq = n
           /\ now.deleted => PatchedList(now, read, c, n).deleted
  BY DEF ListRow, PatchedList

\* What an UPDATE keeps of a line: its tombstone and its list.
LEMMA PatchedItems ==
    ASSUME NEW now \in ItemRow, NEW read \in ItemRow, NEW c \in Changes, NEW n \in Nat
    PROVE  /\ PatchedItem(now, read, c, n) \in ItemRow
           /\ PatchedItem(now, read, c, n).seq = n
           /\ PatchedItem(now, read, c, n).list = now.list
           /\ now.deleted => PatchedItem(now, read, c, n).deleted
  BY DEF ItemRow, PatchedItem

-----------------------------------------------------------------------------
(* What the writes of one mutation do to the tables                        *)

\* The record of a mutation and its n sequence numbers.
LoggedBy(t, m, n) ==
    [t.log EXCEPT ![Key(m)] = [request |-> m, stamps |-> (t.seq + 1)..(t.seq + n)]]

LEMMA LoggedType ==
    ASSUME NEW t \in Tables, NEW m \in Requests, NEW n \in Nat
    PROVE  LoggedBy(t, m, n) \in [Keys -> Stored]
  <1>1. [request |-> m, stamps |-> (t.seq + 1)..(t.seq + n)] \in Stored
    BY DEF Stored, Tables
  <1> QED
    BY <1>1, RequestTypes DEF LoggedBy, Tables

\* The effect of a mutation: the sequence grows, every row it changes carries
\* a stamp from the new part of the sequence, the list of a changed line has
\* a stamp at least as new, and no line moves and no tombstone goes.
ListsStamped(t, u) ==
    \A l \in Lists : /\ u.list[l] = t.list[l] \/ u.list[l].seq \in (t.seq + 1)..u.seq
                     /\ t.list[l].deleted => u.list[l].deleted
ItemsStamped(t, u) ==
    \A i \in Items : /\ \/ u.item[i] = t.item[i]
                        \/ /\ u.item[i].seq \in (t.seq + 1)..u.seq
                           /\ u.item[i].list \in Lists
                           /\ u.list[u.item[i].list].seq >= u.item[i].seq
                     /\ t.item[i].list # NoList => u.item[i].list = t.item[i].list
                     /\ t.item[i].deleted => u.item[i].deleted
Effect(t, u, m) ==
    /\ u \in Tables
    /\ \E n \in Nat \ {0} : u.seq = t.seq + n /\ u.log = LoggedBy(t, m, n)
    /\ ListsStamped(t, u)
    /\ ItemsStamped(t, u)

\* The columns of the recorded tables.
LEMMA RecordedTables ==
    ASSUME NEW t \in Tables, NEW m \in Requests, NEW n \in Nat \ {0},
           NEW lists \in [Lists -> ListRow], NEW items \in [Items -> ItemRow]
    PROVE  /\ Recorded(t, m, n, lists, items) \in Tables
           /\ Recorded(t, m, n, lists, items).seq = t.seq + n
           /\ Recorded(t, m, n, lists, items).list = lists
           /\ Recorded(t, m, n, lists, items).item = items
           /\ Recorded(t, m, n, lists, items).log = LoggedBy(t, m, n)
  <1>1. Recorded(t, m, n, lists, items)
            = [seq |-> t.seq + n, list |-> lists, item |-> items, log |-> LoggedBy(t, m, n)]
    BY DEF Recorded, LoggedBy
  <1>2. t.seq + n \in Nat /\ LoggedBy(t, m, n) \in [Keys -> Stored]
    BY LoggedType DEF Tables
  <1> QED
    BY <1>1, <1>2 DEF Tables

LEMMA RecordedEffect ==
    ASSUME NEW t \in Tables, NEW m \in Requests, NEW n \in Nat \ {0},
           NEW lists \in [Lists -> ListRow], NEW items \in [Items -> ItemRow],
           \A l \in Lists : /\ lists[l] = t.list[l] \/ lists[l].seq \in (t.seq + 1)..(t.seq + n)
                            /\ t.list[l].deleted => lists[l].deleted,
           \A i \in Items : /\ \/ items[i] = t.item[i]
                               \/ /\ items[i].seq \in (t.seq + 1)..(t.seq + n)
                                  /\ items[i].list \in Lists
                                  /\ lists[items[i].list].seq >= items[i].seq
                            /\ t.item[i].list # NoList => items[i].list = t.item[i].list
                            /\ t.item[i].deleted => items[i].deleted
    PROVE  Effect(t, Recorded(t, m, n, lists, items), m)
  BY RecordedTables DEF Effect, ListsStamped, ItemsStamped

LEMMA ListCreatedEffect ==
    ASSUME NEW t \in Tables, NEW m \in Requests, t.list[m.list] = NoListRow
    PROVE  Effect(t, ListCreated(t, m), m)
  <1> DEFINE lists == [t.list EXCEPT ![m.list] = NewList(t.seq + 1)]
  <1>1. /\ t.seq \in Nat /\ t.item \in [Items -> ItemRow] /\ t.list \in [Lists -> ListRow]
        /\ m.list \in Lists
    BY RequestTypes DEF Tables
  <1>2. /\ lists \in [Lists -> ListRow]
        /\ \A l \in Lists : /\ lists[l] = t.list[l] \/ lists[l].seq \in (t.seq + 1)..(t.seq + 1)
                            /\ t.list[l].deleted => lists[l].deleted
    BY <1>1, RowTypes
  <1> HIDE DEF lists
  <1>3. \A i \in Items : t.item[i] = t.item[i]
    OBVIOUS
  <1>4. Effect(t, Recorded(t, m, 1, lists, t.item), m)
    BY <1>1, <1>2, RecordedEffect
  <1> QED
    BY <1>4 DEF ListCreated, lists

LEMMA ListPatchedEffect ==
    ASSUME NEW t \in Tables, NEW m \in Requests, NEW read \in ListRow
    PROVE  Effect(t, ListPatched(t, m, read), m)
  <1>1. /\ t.seq \in Nat /\ t.item \in [Items -> ItemRow] /\ t.list \in [Lists -> ListRow]
        /\ m.list \in Lists /\ m.change \in Changes /\ t.list[m.list] \in ListRow
    BY ListAssumption DEF Tables, Mutations
  <1> DEFINE row == PatchedList(t.list[m.list], read, m.change, t.seq + 1)
             lists == [t.list EXCEPT ![m.list] = row]
  <1>2. /\ row \in ListRow /\ row.seq = t.seq + 1
        /\ t.list[m.list].deleted => row.deleted
    <2> DEFINE n == t.seq + 1
               now == t.list[m.list]
               c == m.change
    <2>1. n \in Nat /\ now \in ListRow /\ c \in Changes
      BY <1>1
    <2> HIDE DEF n, now, c
    <2>2. /\ PatchedList(now, read, c, n) \in ListRow /\ PatchedList(now, read, c, n).seq = n
          /\ now.deleted => PatchedList(now, read, c, n).deleted
      BY <2>1, PatchedLists
    <2> QED
      BY <2>2 DEF n, now, c
  <1>3. ListPatched(t, m, read) = Recorded(t, m, 1, lists, t.item)
    BY DEF ListPatched
  <1> HIDE DEF row
  <1>4. /\ lists \in [Lists -> ListRow]
        /\ \A l \in Lists : /\ lists[l] = t.list[l] \/ lists[l].seq \in (t.seq + 1)..(t.seq + 1)
                            /\ t.list[l].deleted => lists[l].deleted
    BY <1>1, <1>2
  <1> HIDE DEF lists
  <1> QED
    BY <1>1, <1>3, <1>4, RecordedEffect

\* A touched list keeps everything but its stamp.
LEMMA TouchedLists ==
    ASSUME NEW t \in Tables, NEW m \in Requests
    PROVE  /\ Touched(t, m) \in [Lists -> ListRow]
           /\ Touched(t, m)[m.list].seq = t.seq + 1
           /\ \A l \in Lists : /\ Touched(t, m)[l] = t.list[l] \/ Touched(t, m)[l].seq = t.seq + 1
                               /\ t.list[l].deleted => Touched(t, m)[l].deleted
  <1>1. /\ t.seq + 1 \in Nat /\ t.list \in [Lists -> ListRow] /\ m.list \in Lists
    BY RequestTypes DEF Tables
  <1>2. \A row \in ListRow, n \in Nat : /\ [row EXCEPT !.seq = n] \in ListRow
                                        /\ [row EXCEPT !.seq = n].seq = n
                                        /\ row.deleted => [row EXCEPT !.seq = n].deleted
    BY DEF ListRow
  <1> DEFINE row == [t.list[m.list] EXCEPT !.seq = t.seq + 1]
  <1>3. /\ row \in ListRow /\ row.seq = t.seq + 1
        /\ t.list[m.list].deleted => row.deleted
    BY <1>1, <1>2
  <1>4. Touched(t, m) = [t.list EXCEPT ![m.list] = row]
    BY DEF Touched
  <1> HIDE DEF row
  <1> QED
    BY <1>1, <1>3, <1>4

\* A change of one line and the touch of its list.
LEMMA LineEffect ==
    ASSUME NEW t \in Tables, NEW m \in Requests, m.item \in Items,
           NEW row \in ItemRow, row.seq = t.seq + 1, row.list = m.list,
           t.item[m.item].list # NoList => row.list = t.item[m.item].list,
           t.item[m.item].deleted => row.deleted
    PROVE  Effect(t, Recorded(t, m, 1, Touched(t, m), [t.item EXCEPT ![m.item] = row]), m)
  <1>1. /\ t.seq \in Nat /\ t.item \in [Items -> ItemRow] /\ m.list \in Lists
    BY RequestTypes DEF Tables
  <1> DEFINE lists == Touched(t, m)
             items == [t.item EXCEPT ![m.item] = row]
  <1>2. /\ lists \in [Lists -> ListRow]
        /\ lists[m.list].seq = t.seq + 1
        /\ \A l \in Lists : /\ lists[l] = t.list[l] \/ lists[l].seq = t.seq + 1
                            /\ t.list[l].deleted => lists[l].deleted
    BY TouchedLists
  <1> HIDE DEF lists
  <1>3. /\ items \in [Items -> ItemRow]
        /\ \A i \in Items : /\ \/ items[i] = t.item[i]
                               \/ /\ items[i].seq \in (t.seq + 1)..(t.seq + 1)
                                  /\ items[i].list \in Lists
                                  /\ lists[items[i].list].seq >= items[i].seq
                            /\ t.item[i].list # NoList => items[i].list = t.item[i].list
                            /\ t.item[i].deleted => items[i].deleted
    BY <1>1, <1>2
  <1> HIDE DEF items
  <1>4. Effect(t, Recorded(t, m, 1, lists, items), m)
    BY <1>1, <1>2, <1>3, RecordedEffect
  <1> QED
    BY <1>4 DEF lists, items

LEMMA ItemCreatedEffect ==
    ASSUME NEW t \in Tables, NEW m \in Requests, m.op = "item_create", t.item[m.item] = NoItemRow
    PROVE  Effect(t, ItemCreated(t, m), m)
  <1> DEFINE row == NewItem(m.list, t.seq + 1)
  <1>1. /\ t.seq + 1 \in Nat /\ m.list \in Lists /\ m.item \in Items
    BY RequestTypes DEF Tables
  <1>2. row \in ItemRow /\ row.seq = t.seq + 1 /\ row.list = m.list
    BY <1>1, RowTypes
  <1> HIDE DEF row
  <1>3. Effect(t, Recorded(t, m, 1, Touched(t, m), [t.item EXCEPT ![m.item] = row]), m)
    BY <1>1, <1>2, RowTypes, LineEffect
  <1> QED
    BY <1>3 DEF ItemCreated, row

LEMMA ItemPatchedEffect ==
    ASSUME NEW t \in Tables, NEW m \in Requests, NEW read \in ItemRow,
           m.op = "item_patch", t.item[m.item].list = m.list
    PROVE  Effect(t, ItemPatched(t, m, read), m)
  <1> DEFINE row == PatchedItem(t.item[m.item], read, m.change, t.seq + 1)
  <1>1. /\ t.seq + 1 \in Nat /\ m.list \in Lists /\ m.item \in Items /\ m.change \in Changes
        /\ t.item[m.item] \in ItemRow
    BY RequestTypes, ListAssumption DEF Tables, Mutations
  <1>2. /\ row \in ItemRow /\ row.seq = t.seq + 1 /\ row.list = m.list
        /\ t.item[m.item].deleted => row.deleted
    <2> DEFINE n == t.seq + 1
               now == t.item[m.item]
               c == m.change
    <2>1. n \in Nat /\ now \in ItemRow /\ c \in Changes /\ now.list = m.list
      BY <1>1
    <2> HIDE DEF n, now, c
    <2>2. /\ PatchedItem(now, read, c, n) \in ItemRow /\ PatchedItem(now, read, c, n).seq = n
          /\ PatchedItem(now, read, c, n).list = m.list
          /\ now.deleted => PatchedItem(now, read, c, n).deleted
      BY <2>1, PatchedItems
    <2> QED
      BY <2>2 DEF n, now, c
  <1>3. ItemPatched(t, m, read)
            = Recorded(t, m, 1, Touched(t, m), [t.item EXCEPT ![m.item] = row])
    BY DEF ItemPatched
  <1> HIDE DEF row
  <1> QED
    BY <1>1, <1>2, <1>3, LineEffect

\* A list with n new lines: all stamps are new, and the list's is the newest.
LEMMA FilledEffect ==
    ASSUME NEW t \in Tables, NEW m \in Requests, NEW n \in Nat, t.list[m.list] = NoListRow,
           NEW fresh \in SUBSET {i \in Items : t.item[i] = NoItemRow},
           NEW rank \in [fresh -> 1..n]
    PROVE  Effect(t, Filled(t, m, n, rank), m)
  <1>1. /\ t.seq \in Nat /\ t.item \in [Items -> ItemRow] /\ t.list \in [Lists -> ListRow]
        /\ m.list \in Lists /\ t.seq + n + 1 \in Nat /\ n + 1 \in Nat \ {0}
        /\ t.seq + n + 1 \in (t.seq + 1)..(t.seq + (n + 1))
    BY RequestTypes DEF Tables
  <1> DEFINE new == NewList(t.seq + n + 1)
             lists == [t.list EXCEPT ![m.list] = new]
             items == [i \in Items |-> IF i \in fresh
                                       THEN NewItem(m.list, t.seq + 1 + rank[i]) ELSE t.item[i]]
  <1>2. new \in ListRow /\ new.seq = t.seq + n + 1
    BY <1>1, RowTypes
  <1>3. Filled(t, m, n, rank) = Recorded(t, m, n + 1, lists, items)
    BY DEF Filled
  <1> HIDE DEF new
  <1>4. /\ lists \in [Lists -> ListRow] /\ lists[m.list].seq = t.seq + n + 1
        /\ \A l \in Lists : /\ \/ lists[l] = t.list[l]
                               \/ lists[l].seq \in (t.seq + 1)..(t.seq + (n + 1))
                            /\ t.list[l].deleted => lists[l].deleted
    BY <1>1, <1>2, RowTypes
  <1> HIDE DEF lists
  <1>5. ASSUME NEW i \in fresh
        PROVE  /\ items[i] \in ItemRow /\ items[i].list = m.list
               /\ items[i].seq \in (t.seq + 1)..(t.seq + (n + 1))
               /\ lists[m.list].seq >= items[i].seq
               /\ t.item[i] = NoItemRow
    <2>1. /\ t.seq + 1 + rank[i] \in Nat
          /\ t.seq + 1 + rank[i] \in (t.seq + 1)..(t.seq + (n + 1))
      BY <1>1
    <2>2. items[i] = NewItem(m.list, t.seq + 1 + rank[i])
      OBVIOUS
    <2> HIDE DEF items
    <2>3. /\ items[i] \in ItemRow /\ items[i].list = m.list
          /\ items[i].seq = t.seq + 1 + rank[i]
      BY <1>1, <2>1, <2>2, RowTypes
    <2> QED
      BY <1>1, <1>4, <2>1, <2>3
  <1>6. \A i \in Items \ fresh : items[i] = t.item[i]
    OBVIOUS
  <1>7. items = [i \in Items |-> items[i]]
    OBVIOUS
  <1> HIDE DEF items
  <1>8. items \in [Items -> ItemRow]
    BY <1>1, <1>5, <1>6, <1>7
  <1>9. \A i \in Items : /\ \/ items[i] = t.item[i]
                            \/ /\ items[i].seq \in (t.seq + 1)..(t.seq + (n + 1))
                               /\ items[i].list \in Lists
                               /\ lists[items[i].list].seq >= items[i].seq
                         /\ t.item[i].list # NoList => items[i].list = t.item[i].list
                         /\ t.item[i].deleted => items[i].deleted
    BY <1>1, <1>5, <1>6, RowTypes
  <1> QED
    BY <1>1, <1>3, <1>4, <1>8, <1>9, RecordedEffect

-----------------------------------------------------------------------------
(* The inductive invariant                                                 *)

\* A row's stamp is at most the sequence, a line's at most that of its list.
Covered(t) ==
    /\ \A l \in Lists : t.list[l].seq <= t.seq
    /\ \A i \in Items : /\ t.item[i].list = NoList => t.item[i].seq = 0
                        /\ t.item[i].list # NoList
                            => t.item[i].seq <= t.list[t.item[i].list].seq

\* StampedOnce of the tables t; and what is not recorded has no stamps.
Stamped(t) ==
    /\ \A k \in Keys : t.log[k].stamps \subseteq 1..t.seq
    /\ \A n \in 1..t.seq : \E k \in Keys : n \in t.log[k].stamps
    /\ \A j, k \in Keys : j # k => t.log[j].stamps \cap t.log[k].stamps = {}
    /\ \A k \in Keys : t.log[k].request = NoRequest => t.log[k].stamps = {}

\* The owner's tables are later than the committed ones.
Ahead(t, u) == t.seq <= u.seq /\ ListsStamped(t, u) /\ ItemsStamped(t, u)

TablesInv ==
    /\ Covered(db) /\ Covered(work)
    /\ Stamped(db) /\ Stamped(work)
    /\ Ahead(db, work)
    /\ owner = NoSession => work = db

\* The owner holds the lock on every mutation ID it has recorded.
OwnerInv(s) ==
    owner = s => /\ session[s].pc \in Mutating
                 /\ \A k \in Keys :
                        db.log[k].request = NoRequest /\ work.log[k].request # NoRequest
                            => k \in session[s].locks

\* A handler runs under the lock on its mutation ID, which is not recorded.
HandlerInv(s) ==
    session[s].pc \in {"list", "item", "write"} =>
        /\ session[s].todo # <<>>
        /\ Key(Current(s)) \in session[s].locks
        /\ View(s).log[Key(Current(s))].request = NoRequest
        /\ session[s].pc = "write" /\ Current(s).op = "item_patch"
            => View(s).item[Current(s).item].list = Current(s).list

\* What the answer of a sync promises before it arrives: all that changed
\* after since, up to the stamp, and nothing older than the device has.
PageInv(s) ==
    /\ \A l \in Lists : session[s].page[l] > 0
            => session[s].since < session[s].page[l] /\ session[s].page[l] <= db.list[l].seq
    /\ \A l \in Lists :
            session[s].since < db.list[l].seq /\ db.list[l].seq <= session[s].stamp
                => session[s].page[l] = db.list[l].seq
    /\ \A i \in Items :
            session[s].since < db.item[i].seq /\ db.item[i].seq <= session[s].stamp
                => session[s].page[db.item[i].list] > 0
    /\ \A d \in Devices, l \in Lists :
            session[s].device = d /\ session[s].page[l] > 0
                => device[d].known.list[l] <= session[s].page[l]
AnswerInv(s) ==
    /\ \A d \in Devices : session[s].device = d => session[s].since <= device[d].cursor
    /\ session[s].pc \in {"lists", "items"} => session[s].stamp <= db.seq
    /\ session[s].pc = "items" => PageInv(s)

SessionInv(s) == OwnerInv(s) /\ HandlerInv(s) /\ AnswerInv(s)

\* Two sessions never hold the same lock, or answer the same device.
Apart(s, t) ==
    s # t => /\ session[s].locks \cap session[t].locks = {}
             /\ session[s].device \in Devices => session[s].device # session[t].device

\* A device has nothing newer than the tables, and DeltaComplete.
DeviceInv(d) ==
    /\ device[d].cursor <= db.seq
    /\ \A l \in Lists :
        /\ device[d].known.list[l] <= db.list[l].seq
        /\ db.list[l].seq <= device[d].cursor => device[d].known.list[l] = db.list[l].seq
    /\ \A i \in Items :
        /\ device[d].known.item[i] <= db.item[i].seq
        /\ db.item[i].seq <= device[d].cursor => device[d].known.item[i] = db.item[i].seq

IInv ==
    /\ TypeOK
    /\ TablesInv
    /\ \A s \in Sessions : SessionInv(s)
    /\ \A s, t \in Sessions : Apart(s, t)
    /\ \A d \in Devices : DeviceInv(d)

-----------------------------------------------------------------------------
(* What each step does to the session that takes it                        *)

LEMMA TypedView ==
    ASSUME TypeOK, NEW s \in Sessions
    PROVE  View(s) \in Tables
  BY DEF View, TypeOK

LEMMA CurrentRequest ==
    ASSUME TypeOK, NEW s \in Sessions, session[s].todo # <<>>
    PROVE  Current(s) \in Requests /\ Tail(session[s].todo) \in Seq(Requests)
  <1>1. session[s].todo \in Seq(Requests)
    BY DEF TypeOK, Session
  <1> QED
    BY <1>1 DEF Current

\* Sessions with and without a request.
LEMMA SessionTypes ==
    /\ Idle \in Session
    /\ Idle.pc = "idle" /\ Idle.locks = {} /\ Idle.device = NoDevice
    /\ \A todo \in Seq(Requests), d \in Devices \cup {NoDevice}, since \in Nat :
         /\ Started(todo, d, since) \in Session
         /\ Started(todo, d, since).pc = "next"
         /\ Started(todo, d, since).locks = {}
         /\ Started(todo, d, since).device = d
         /\ Started(todo, d, since).since = since
  <1>1. NoPage \in [Lists -> Nat] /\ <<>> \in Seq(Requests) /\ {} \in SUBSET Keys
    BY DEF NoPage
  <1>2. Idle \in Session
    BY <1>1, RowTypes DEF Idle, Session, Pc
  <1>3. /\ Idle.pc = "idle" /\ Idle.locks = {} /\ Idle.device = NoDevice
    BY DEF Idle
  <1>4. ASSUME NEW todo \in Seq(Requests), NEW d \in Devices \cup {NoDevice}, NEW since \in Nat
        PROVE  /\ Started(todo, d, since) \in Session
               /\ Started(todo, d, since).pc = "next"
               /\ Started(todo, d, since).locks = {}
               /\ Started(todo, d, since).device = d
               /\ Started(todo, d, since).since = since
    <2> DEFINE x == [Idle EXCEPT !.pc = "next", !.todo = todo]
               y == [x EXCEPT !.device = d, !.since = since]
    <2>1. Started(todo, d, since) = y
      BY DEF Started
    <2>2. "next" \in Pc
      BY DEF Pc
    <2>3. x \in Session /\ x.pc = "next" /\ x.locks = Idle.locks
      BY <1>2, <2>2 DEF Session
    <2> HIDE DEF x
    <2>4. /\ y \in Session /\ y.pc = "next" /\ y.locks = Idle.locks
          /\ y.device = d /\ y.since = since
      BY <2>3 DEF Session
    <2> HIDE DEF y
    <2> QED
      BY <1>3, <2>1, <2>4
  <1> QED
    BY <1>2, <1>3, <1>4

\* The end of a mutation.
LEMMA DoneTypes ==
    ASSUME NEW r \in Session, Tail(r.todo) \in Seq(Requests), NEW locks \in SUBSET Keys
    PROVE  /\ Done(r, locks) \in Session
           /\ Done(r, locks).pc = "next" /\ Done(r, locks).locks = locks
           /\ Done(r, locks).device = r.device /\ Done(r, locks).since = r.since
  BY RowTypes DEF Done, Session, Pc

\* Session s becomes r.
Becomes(s, r) ==
    /\ session' \in [Sessions -> Session]
    /\ session'[s] = r
    /\ \A t \in Sessions \ {s} : session'[t] = session[t]

LEMMA SessionStep ==
    ASSUME TypeOK, NEW s \in Sessions, NEW r \in Session,
           session' = [session EXCEPT ![s] = r]
    PROVE  Becomes(s, r)
  BY DEF Becomes, TypeOK

\* The reader of session s and its cursor stay; so do its locks.
SameReader(s) ==
    session'[s].device = session[s].device /\ session'[s].since = session[s].since
SameLocks(s) == session'[s].locks = session[s].locks

LEMMA BeginRestStep ==
    ASSUME TypeOK, NEW s \in Sessions, BeginRest(s)
    PROVE  /\ Becomes(s, session'[s])
           /\ session'[s].pc = "next" /\ session'[s].locks = {}
           /\ session'[s].device = NoDevice
  <1>1. PICK m \in Requests : session' = [session EXCEPT ![s] = Started(<<m>>, NoDevice, 0)]
    BY DEF BeginRest
  <1> DEFINE todo == <<m>>
             since == 0
             r == Started(todo, NoDevice, since)
  <1>2. todo \in Seq(Requests) /\ since \in Nat
    OBVIOUS
  <1> HIDE DEF todo, since
  <1>3. r \in Session /\ r.pc = "next" /\ r.locks = {} /\ r.device = NoDevice
    BY <1>2, SessionTypes
  <1> HIDE DEF r
  <1>4. Becomes(s, r)
    BY <1>1, <1>3, SessionStep DEF r, todo, since
  <1> QED
    BY <1>3, <1>4 DEF Becomes

LEMMA BeginSyncStep ==
    ASSUME TypeOK, NEW s \in Sessions, NEW d \in Devices, BeginSync(s, d)
    PROVE  /\ Becomes(s, session'[s])
           /\ session'[s].pc = "next" /\ session'[s].locks = {}
           /\ session'[s].device = d
           /\ session'[s].since <= device[d].cursor
  <1>1. device[d].cursor \in Nat /\ 0 <= device[d].cursor
    BY DEF TypeOK, Device
  <1>2. PICK todo \in Seq(Requests), n \in Nat :
            /\ session' = [session EXCEPT ![s] = Started(todo, d, n)]
            /\ n <= device[d].cursor
    <2>1. CASE \E batch \in Batches :
                    session' = [session EXCEPT ![s] = Started(batch, d, device[d].cursor)]
      <3>1. PICK batch \in Batches :
                session' = [session EXCEPT ![s] = Started(batch, d, device[d].cursor)]
        BY <2>1
      <3>2. batch \in Seq(Requests) /\ device[d].cursor <= device[d].cursor
        BY <1>1, ListAssumption
      <3> QED
        BY <1>1, <3>1, <3>2, Zenon
    <2>2. CASE session' = [session EXCEPT ![s] = Started(<<>>, d, 0)]
      <3>1. <<>> \in Seq(Requests)
        OBVIOUS
      <3> QED
        BY <1>1, <2>2, <3>1
    <2> QED
      BY <2>1, <2>2 DEF BeginSync
  <1> DEFINE r == Started(todo, d, n)
  <1>3. r \in Session /\ r.pc = "next" /\ r.locks = {} /\ r.device = d /\ r.since = n
    BY SessionTypes
  <1> HIDE DEF r
  <1>4. Becomes(s, r)
    BY <1>2, <1>3, SessionStep DEF r
  <1> QED
    BY <1>2, <1>3, <1>4 DEF Becomes

LEMMA GiveUpStep ==
    ASSUME TypeOK, NEW s \in Sessions, GiveUp(s)
    PROVE  /\ Becomes(s, session'[s]) /\ SameLocks(s)
           /\ session'[s].pc = session[s].pc /\ session'[s].todo = session[s].todo
           /\ session'[s].device = NoDevice
           /\ session[s].pc \in Mutating
  <1> DEFINE r == [session[s] EXCEPT !.device = NoDevice]
  <1>1. /\ r \in Session /\ r.pc = session[s].pc /\ r.todo = session[s].todo
        /\ r.locks = session[s].locks /\ r.device = NoDevice
    BY DEF TypeOK, Session
  <1>2. session' = [session EXCEPT ![s] = r]
    BY DEF GiveUp
  <1> HIDE DEF r
  <1>3. Becomes(s, r)
    BY <1>1, <1>2, SessionStep
  <1> QED
    BY <1>1, <1>3 DEF GiveUp, Becomes, SameLocks

LEMMA LockStep ==
    ASSUME TypeOK, NEW s \in Sessions, Lock(s)
    PROVE  /\ Becomes(s, session'[s]) /\ SameReader(s)
           /\ session[s].pc = "next"
           /\ session[s].locks \subseteq session'[s].locks
           /\ session'[s].locks \subseteq session[s].locks \cup {Key(Current(s))}
           /\ \/ session'[s].pc = "next"
              \/ /\ session'[s].pc = "list"
                 /\ session'[s].todo = session[s].todo
                 /\ session[s].todo # <<>>
                 /\ Key(Current(s)) \in session'[s].locks
                 /\ View(s).log[Key(Current(s))].request = NoRequest
  <1> DEFINE k == Key(Current(s))
             old == session[s]
  <1>1. /\ old \in Session /\ old.pc = "next" /\ old.todo # <<>>
        /\ Tail(old.todo) \in Seq(Requests) /\ k \in Keys
    BY CurrentRequest, RequestTypes DEF Lock, TypeOK
  <1>2. CASE /\ View(s).log[k].request = NoRequest
             /\ session' = [session EXCEPT ![s].pc = "list", ![s].locks = @ \cup {k}]
    <2> DEFINE r == [session[s] EXCEPT !.pc = "list", !.locks = @ \cup {k}]
    <2>1. /\ r \in Session /\ r.pc = "list" /\ r.locks = old.locks \cup {k}
          /\ r.device = old.device /\ r.since = old.since /\ r.todo = old.todo
      BY <1>1 DEF Session, Pc
    <2>2. session' = [session EXCEPT ![s] = r]
      BY <1>2
    <2> HIDE DEF r
    <2>3. Becomes(s, r)
      BY <2>1, <2>2, SessionStep
    <2> QED
      BY <1>1, <1>2, <2>1, <2>3 DEF Becomes, SameReader
  <1>3. ASSUME NEW locks \in SUBSET Keys, session' = [session EXCEPT ![s] = Done(@, locks)],
               old.locks \subseteq locks, locks \subseteq old.locks \cup {k}
        PROVE  /\ Becomes(s, session'[s]) /\ SameReader(s)
               /\ session'[s].pc = "next" /\ session'[s].locks = locks
    <2> DEFINE r == Done(old, locks)
    <2>1. r \in Session /\ r.pc = "next" /\ r.locks = locks
          /\ r.device = old.device /\ r.since = old.since
      BY <1>1, DoneTypes
    <2>2. session' = [session EXCEPT ![s] = r]
      BY <1>3
    <2> HIDE DEF r
    <2>3. Becomes(s, r)
      BY <2>1, <2>2, SessionStep
    <2> QED
      BY <2>1, <2>3 DEF Becomes, SameReader
  <1>4. CASE session' = [session EXCEPT ![s] = Done(@, @.locks \cup {k})]
    <2>1. old.locks \cup {k} \in SUBSET Keys
      BY <1>1 DEF Session
    <2> QED
      BY <1>1, <1>3, <1>4, <2>1
  <1>5. CASE NextMutation(s)
    <2>1. old.locks \in SUBSET Keys
      BY <1>1 DEF Session
    <2> QED
      BY <1>1, <1>3, <1>5, <2>1 DEF NextMutation
  <1> QED
    BY <1>2, <1>4, <1>5 DEF Lock, Lookup

\* A rejection gives the lock back.
LEMMA RejectStep ==
    ASSUME TypeOK, NEW s \in Sessions, session[s].todo # <<>>, Reject(s)
    PROVE  /\ Becomes(s, session'[s]) /\ SameReader(s)
           /\ session'[s].pc = "next"
           /\ session'[s].locks = session[s].locks \ {Key(Current(s))}
  <1> DEFINE k == Key(Current(s))
             old == session[s]
             locks == old.locks \ {k}
             r == Done(old, locks)
  <1>1. old \in Session /\ Tail(old.todo) \in Seq(Requests)
    BY CurrentRequest DEF TypeOK
  <1>2. locks \in SUBSET Keys
    BY <1>1 DEF Session
  <1>3. /\ r \in Session /\ r.pc = "next" /\ r.locks = locks
        /\ r.device = old.device /\ r.since = old.since
    BY <1>1, <1>2, DoneTypes
  <1>4. session' = [session EXCEPT ![s] = r]
    BY DEF Reject
  <1> HIDE DEF r
  <1>5. Becomes(s, r)
    BY <1>3, <1>4, SessionStep
  <1> QED
    BY <1>3, <1>5 DEF Becomes, SameReader

\* A handler goes on with its mutation.
Continues(s) ==
    /\ session'[s].pc \in {"item", "write"}
    /\ session'[s].todo = session[s].todo
    /\ SameLocks(s)
    /\ session'[s].pc = "write" /\ Current(s).op = "item_patch"
        => View(s).item[Current(s).item].list = Current(s).list
Rejected(s) ==
    /\ session'[s].pc = "next"
    /\ session'[s].locks = session[s].locks \ {Key(Current(s))}

LEMMA ReadListStep ==
    ASSUME TypeOK, NEW s \in Sessions, session[s].todo # <<>>, ReadList(s)
    PROVE  /\ Becomes(s, session'[s]) /\ SameReader(s)
           /\ session[s].pc = "list"
           /\ Continues(s) \/ Rejected(s)
  <1> DEFINE m == Current(s)
             row == IF m.op = "list_patch" THEN View(s).list[m.list] ELSE NoListRow
             pc == IF m.op \in {"list_create", "list_patch"} THEN "write" ELSE "item"
  <1>1. /\ row \in ListRow /\ pc \in {"item", "write"}
        /\ pc = "write" => m.op # "item_patch"
    BY TypedView, CurrentRequest, RequestTypes, RowTypes DEF Tables
  <1>2. CASE session' = [session EXCEPT ![s].list = row, ![s].pc = pc]
    <2> HIDE DEF row, pc
    <2> QED
      BY <1>1, <1>2 DEF ReadList, TypeOK, Session, Pc, Becomes, SameReader, SameLocks, Continues
  <1>3. CASE Reject(s)
    BY <1>3, RejectStep DEF Rejected, ReadList
  <1> QED
    BY <1>2, <1>3 DEF ReadList

LEMMA ReadItemStep ==
    ASSUME TypeOK, NEW s \in Sessions, session[s].todo # <<>>, ReadItem(s)
    PROVE  /\ Becomes(s, session'[s]) /\ SameReader(s)
           /\ session[s].pc = "item"
           /\ Continues(s) \/ Rejected(s)
  <1> DEFINE m == Current(s)
             row == IF m.op = "item_patch" THEN View(s).item[m.item] ELSE NoItemRow
  <1>1. /\ row \in ItemRow
        /\ \A n \in Lines(View(s), m) : n \in Nat
    BY TypedView, CurrentRequest, RequestTypes, RowTypes, ListAssumption DEF Tables, Lines
  <1>2. PICK n \in Lines(View(s), m) :
            \/ /\ ItemAccepts(View(s), m, n)
               /\ session' = [session EXCEPT ![s].pc = "write", ![s].lines = n, ![s].item = row]
            \/ Reject(s)
    BY DEF ReadItem
  <1>3. CASE /\ ItemAccepts(View(s), m, n)
             /\ session' = [session EXCEPT ![s].pc = "write", ![s].lines = n, ![s].item = row]
    <2>1. m.op = "item_patch" => View(s).item[m.item].list = m.list
      BY <1>3 DEF ItemAccepts
    <2> HIDE DEF row
    <2> DEFINE r == [session[s] EXCEPT !.pc = "write", !.lines = n, !.item = row]
    <2>2. /\ r \in Session /\ r.pc = "write" /\ r.locks = session[s].locks
          /\ r.todo = session[s].todo
          /\ r.device = session[s].device /\ r.since = session[s].since
      BY <1>1 DEF TypeOK, Session, Pc
    <2>3. session' = [session EXCEPT ![s] = r]
      BY <1>3
    <2> HIDE DEF r
    <2>4. Becomes(s, r)
      BY <2>2, <2>3, SessionStep
    <2> QED
      BY <2>1, <2>2, <2>4 DEF ReadItem, Becomes, SameReader, SameLocks, Continues
  <1>4. CASE Reject(s)
    BY <1>4, RejectStep DEF Rejected, ReadItem
  <1> QED
    BY <1>2, <1>3, <1>4

LEMMA WriteStep ==
    ASSUME TypeOK, NEW s \in Sessions, session[s].todo # <<>>, Write(s)
    PROVE  /\ Becomes(s, session'[s]) /\ SameReader(s) /\ SameLocks(s)
           /\ session'[s].pc = "next"
  <1> DEFINE old == session[s]
             locks == old.locks
             r == Done(old, locks)
  <1>1. old \in Session /\ Tail(old.todo) \in Seq(Requests)
    BY CurrentRequest DEF TypeOK
  <1>2. locks \in SUBSET Keys
    BY <1>1 DEF Session
  <1>3. /\ r \in Session /\ r.pc = "next" /\ r.locks = locks
        /\ r.device = old.device /\ r.since = old.since
    BY <1>1, <1>2, DoneTypes
  <1>4. session' = [session EXCEPT ![s] = r]
    BY DEF Write, NextMutation
  <1> HIDE DEF r
  <1>5. Becomes(s, r)
    BY <1>3, <1>4, SessionStep
  <1> QED
    BY <1>3, <1>5 DEF Becomes, SameReader, SameLocks

\* A session that ends.
LEMMA IdleStep ==
    ASSUME TypeOK, NEW s \in Sessions, session' = [session EXCEPT ![s] = Idle]
    PROVE  Becomes(s, Idle)
  BY SessionTypes, SessionStep

LEMMA CommitStep ==
    ASSUME TypeOK, NEW s \in Sessions, Commit(s)
    PROVE  /\ Becomes(s, session'[s])
           /\ session'[s].locks = {}
           /\ \/ session'[s] = Idle
              \/ SameReader(s) /\ session'[s].pc = "sequence"
  <1>1. CASE session[s].device = NoDevice
    <2>1. session' = [session EXCEPT ![s] = Idle]
      BY <1>1 DEF Commit
    <2> QED
      BY <2>1, IdleStep, SessionTypes DEF Becomes
  <1>2. CASE session[s].device # NoDevice
    <2> DEFINE r == [session[s] EXCEPT !.pc = "sequence", !.locks = {}]
    <2>1. /\ r \in Session /\ r.pc = "sequence" /\ r.locks = {}
          /\ r.device = session[s].device /\ r.since = session[s].since
      BY DEF TypeOK, Session, Pc
    <2>2. session' = [session EXCEPT ![s] = r]
      BY <1>2 DEF Commit
    <2> HIDE DEF r
    <2>3. Becomes(s, r)
      BY <2>1, <2>2, SessionStep
    <2> QED
      BY <2>1, <2>3 DEF Becomes, SameReader
  <1> QED
    BY <1>1, <1>2

LEMMA ReadSequenceStep ==
    ASSUME TypeOK, NEW s \in Sessions, ReadSequence(s)
    PROVE  /\ Becomes(s, session'[s]) /\ SameReader(s) /\ SameLocks(s)
           /\ session[s].pc = "sequence"
           /\ session'[s].pc = "lists" /\ session'[s].stamp = db.seq
  <1> DEFINE stamp == db.seq
             r == [session[s] EXCEPT !.stamp = stamp, !.pc = "lists"]
  <1>1. stamp \in Nat
    BY DEF TypeOK, Tables
  <1>2. session' = [session EXCEPT ![s] = r]
    BY DEF ReadSequence
  <1> HIDE DEF stamp
  <1>3. /\ r \in Session /\ r.pc = "lists" /\ r.stamp = stamp /\ r.locks = session[s].locks
        /\ r.device = session[s].device /\ r.since = session[s].since
    BY <1>1 DEF TypeOK, Session, Pc
  <1> HIDE DEF r
  <1>4. Becomes(s, r)
    BY <1>2, <1>3, SessionStep
  <1> QED
    BY <1>3, <1>4 DEF Becomes, SameReader, SameLocks, ReadSequence, stamp

LEMMA ReadListsStep ==
    ASSUME TypeOK, NEW s \in Sessions, ReadLists(s)
    PROVE  /\ Becomes(s, session'[s]) /\ SameReader(s) /\ SameLocks(s)
           /\ session[s].pc = "lists"
           /\ session'[s].pc = "items" /\ session'[s].stamp = session[s].stamp
           /\ session'[s].page = ChangedLists(session[s].since)
  <1> DEFINE page == ChangedLists(session[s].since)
             r == [session[s] EXCEPT !.page = page, !.pc = "items"]
  <1>1. page \in [Lists -> Nat]
    BY DEF ChangedLists, TypeOK, Tables, ListRow
  <1>2. session' = [session EXCEPT ![s] = r]
    BY DEF ReadLists
  <1> HIDE DEF page
  <1>3. /\ r \in Session /\ r.pc = "items" /\ r.stamp = session[s].stamp /\ r.page = page
        /\ r.locks = session[s].locks
        /\ r.device = session[s].device /\ r.since = session[s].since
    BY <1>1 DEF TypeOK, Session, Pc
  <1> HIDE DEF r
  <1>4. Becomes(s, r)
    BY <1>2, <1>3, SessionStep
  <1> QED
    BY <1>3, <1>4 DEF Becomes, SameReader, SameLocks, ReadLists, page

-----------------------------------------------------------------------------
(* What the tables keep                                                    *)

LEMMA AheadReflexive ==
    ASSUME NEW t \in Tables
    PROVE  Ahead(t, t)
  BY DEF Ahead, ListsStamped, ItemsStamped, Tables

LEMMA AheadTransitive ==
    ASSUME NEW t \in Tables, NEW u \in Tables, NEW v \in Tables, Ahead(t, u), Ahead(u, v)
    PROVE  Ahead(t, v)
  <1>1. t.seq \in Nat /\ u.seq \in Nat /\ v.seq \in Nat /\ t.seq <= u.seq /\ u.seq <= v.seq
    BY DEF Ahead, Tables
  <1>2. ListsStamped(t, v)
    BY <1>1 DEF Ahead, ListsStamped
  <1>3. ItemsStamped(t, v)
    <2> SUFFICES ASSUME NEW i \in Items
                 PROVE  /\ \/ v.item[i] = t.item[i]
                           \/ /\ v.item[i].seq \in (t.seq + 1)..v.seq
                              /\ v.item[i].list \in Lists
                              /\ v.list[v.item[i].list].seq >= v.item[i].seq
                        /\ t.item[i].list # NoList => v.item[i].list = t.item[i].list
                        /\ t.item[i].deleted => v.item[i].deleted
      BY DEF ItemsStamped
    <2>0. /\ \/ u.item[i] = t.item[i]
             \/ /\ u.item[i].seq \in (t.seq + 1)..u.seq
                /\ u.item[i].list \in Lists
                /\ u.list[u.item[i].list].seq >= u.item[i].seq
          /\ t.item[i].list # NoList => u.item[i].list = t.item[i].list
          /\ t.item[i].deleted => u.item[i].deleted
      BY DEF Ahead, ItemsStamped
    <2>1. CASE v.item[i] = u.item[i]
      <3>1. CASE u.item[i] = t.item[i]
        BY <2>0, <2>1, <3>1
      <3>2. CASE /\ u.item[i].seq \in (t.seq + 1)..u.seq
                 /\ u.item[i].list \in Lists
                 /\ u.list[u.item[i].list].seq >= u.item[i].seq
        <4>1. v.list[u.item[i].list] = u.list[u.item[i].list]
                \/ v.list[u.item[i].list].seq \in (u.seq + 1)..v.seq
          BY <3>2 DEF Ahead, ListsStamped
        <4>2. u.item[i].seq \in Nat
          BY DEF Tables, ItemRow
        <4>3. v.list[u.item[i].list].seq >= u.item[i].seq
          BY <1>1, <3>2, <4>1, <4>2
        <4>4. u.item[i].seq \in (t.seq + 1)..v.seq
          BY <1>1, <3>2, <4>2
        <4> QED
          BY <2>0, <2>1, <3>2, <4>3, <4>4
      <3> QED
        BY <2>0, <3>1, <3>2
    <2>2. CASE v.item[i] # u.item[i]
      BY <1>1, <2>2, ListAssumption DEF Ahead, ItemsStamped
    <2> QED
      BY <2>1, <2>2
  <1> QED
    BY <1>1, <1>2, <1>3 DEF Ahead

\* A row grows in its stamp, and one that is not stamped anew is the same.
LEMMA AheadGrows ==
    ASSUME NEW t \in Tables, NEW u \in Tables, Ahead(t, u), Covered(t)
    PROVE  /\ t.seq <= u.seq
           /\ \A l \in Lists : /\ t.list[l].seq <= u.list[l].seq
                               /\ u.list[l].seq <= t.seq => u.list[l] = t.list[l]
           /\ \A i \in Items : /\ t.item[i].seq <= u.item[i].seq
                               /\ u.item[i].seq <= t.seq => u.item[i] = t.item[i]
  <1>1. /\ t.seq \in Nat /\ u.seq \in Nat /\ t.seq <= u.seq
        /\ \A l \in Lists : t.list[l].seq \in Nat /\ u.list[l].seq \in Nat
        /\ \A i \in Items : /\ t.item[i].seq \in Nat /\ u.item[i].seq \in Nat
                            /\ t.item[i].list \in Lists \cup {NoList}
    BY DEF Ahead, Tables, ListRow, ItemRow
  <1>2. ASSUME NEW i \in Items PROVE t.item[i].seq <= t.seq
    BY <1>1, ListAssumption DEF Covered
  <1>3. ASSUME NEW l \in Lists
        PROVE  /\ t.list[l].seq <= u.list[l].seq
               /\ u.list[l].seq <= t.seq => u.list[l] = t.list[l]
    BY <1>1 DEF Covered, Ahead, ListsStamped
  <1>4. ASSUME NEW i \in Items
        PROVE  /\ t.item[i].seq <= u.item[i].seq
               /\ u.item[i].seq <= t.seq => u.item[i] = t.item[i]
    BY <1>1, <1>2 DEF Ahead, ItemsStamped
  <1> QED
    BY <1>1, <1>3, <1>4

LEMMA EffectAhead ==
    ASSUME NEW t \in Tables, NEW u, NEW m \in Requests, Effect(t, u, m)
    PROVE  u \in Tables /\ Ahead(t, u)
  BY DEF Effect, Ahead, Tables

LEMMA EffectCovered ==
    ASSUME NEW t \in Tables, NEW u, NEW m \in Requests, Effect(t, u, m), Covered(t)
    PROVE  Covered(u)
  <1>1. /\ t.seq \in Nat /\ u.seq \in Nat /\ t.seq <= u.seq
        /\ \A l \in Lists : t.list[l].seq \in Nat /\ u.list[l].seq \in Nat
        /\ \A i \in Items : /\ t.item[i].seq \in Nat /\ u.item[i].seq \in Nat
                            /\ u.item[i].list \in Lists \cup {NoList}
                            /\ t.item[i].list \in Lists \cup {NoList}
    BY DEF Effect, Tables, ListRow, ItemRow
  <1>2. \A l \in Lists : u.list[l].seq <= u.seq /\ t.list[l].seq <= u.list[l].seq
    BY <1>1 DEF Effect, ListsStamped, Covered
  <1>3. ASSUME NEW i \in Items
        PROVE  /\ u.item[i].list = NoList => u.item[i].seq = 0
               /\ u.item[i].list # NoList
                    => u.item[i].seq <= u.list[u.item[i].list].seq
    <2>1. CASE u.item[i] = t.item[i]
      BY <1>1, <1>2, <2>1 DEF Covered
    <2>2. CASE /\ u.item[i].list \in Lists
               /\ u.list[u.item[i].list].seq >= u.item[i].seq
      BY <1>1, <2>2, ListAssumption
    <2> QED
      BY <2>1, <2>2 DEF Effect, ItemsStamped
  <1> QED
    BY <1>2, <1>3 DEF Covered

\* The mutation that was not recorded gets all the new numbers.
LEMMA EffectStamped ==
    ASSUME NEW t \in Tables, NEW u, NEW m \in Requests, Effect(t, u, m), Stamped(t),
           t.log[Key(m)].request = NoRequest
    PROVE  /\ Stamped(u)
           /\ \A k \in Keys : u.log[k].request # NoRequest
                                => t.log[k].request # NoRequest \/ k = Key(m)
           /\ \A k \in Keys : k # Key(m) => u.log[k] = t.log[k]
  <1>1. PICK n \in Nat \ {0} : u.seq = t.seq + n /\ u.log = LoggedBy(t, m, n)
    BY DEF Effect
  <1> DEFINE new == (t.seq + 1)..(t.seq + n)
  <1>2. t.seq \in Nat /\ Key(m) \in Keys /\ m # NoRequest /\ t.log \in [Keys -> Stored]
    BY RequestTypes DEF Tables
  <1>3. u.log = [t.log EXCEPT ![Key(m)] = [request |-> m, stamps |-> new]]
    BY <1>1 DEF LoggedBy
  <1>4. /\ new \subseteq 1..u.seq /\ new \cap (1..t.seq) = {}
        /\ 1..t.seq \subseteq 1..u.seq /\ 1..u.seq \subseteq (1..t.seq) \cup new
    BY <1>1, <1>2
  <1> HIDE DEF new
  <1>5. /\ u.log[Key(m)].request = m /\ u.log[Key(m)].stamps = new
        /\ \A k \in Keys : k # Key(m) => u.log[k] = t.log[k]
    BY <1>2, <1>3
  <1>6. t.log[Key(m)].stamps = {}
    BY <1>2 DEF Stamped
  <1>7. \A k \in Keys : u.log[k].stamps \subseteq 1..u.seq
    BY <1>4, <1>5 DEF Stamped
  <1>8. \A x \in 1..u.seq : \E k \in Keys : x \in u.log[k].stamps
    BY <1>2, <1>4, <1>5, <1>6 DEF Stamped
  <1>9. \A j, k \in Keys : j # k => u.log[j].stamps \cap u.log[k].stamps = {}
    BY <1>4, <1>5 DEF Stamped
  <1> QED
    BY <1>2, <1>5, <1>7, <1>8, <1>9 DEF Stamped

\* The handler's writes are those of its mutation.
LEMMA WriteEffect ==
    ASSUME TypeOK, TablesInv, NEW s \in Sessions, HandlerInv(s), Write(s)
    PROVE  /\ session[s].todo # <<>>
           /\ Current(s) \in Requests
           /\ work.log[Key(Current(s))].request = NoRequest
           /\ Effect(work, work', Current(s))
  <1> DEFINE m == Current(s)
  <1>1. /\ session[s].todo # <<>> /\ m \in Requests /\ work \in Tables
        /\ session[s].list \in ListRow /\ session[s].item \in ItemRow
        /\ session[s].lines \in Nat
    BY CurrentRequest DEF HandlerInv, Write, TypeOK, Session
  <1>2. View(s) = work
    BY ListAssumption DEF Write, CanWrite, View, TablesInv
  <1>3. /\ work.log[Key(m)].request = NoRequest
        /\ m.op = "item_patch" => work.item[m.item].list = m.list
    BY <1>2 DEF HandlerInv, Write
  <1>4. /\ m.op = "item_create" => work.item[m.item] = NoItemRow
        /\ m.op \in {"list_create", "list_copy", "list_from_receipt"}
            => work.list[m.list] = NoListRow
    BY DEF Write, Clashes
  <1> HIDE DEF m
  <1>5. Effect(work, work', m)
    <2>1. CASE m.op = "list_create" /\ work' = ListCreated(work, m)
      BY <1>1, <1>4, <2>1, ListCreatedEffect
    <2>2. CASE m.op = "list_patch" /\ work' = ListPatched(work, m, session[s].list)
      BY <1>1, <2>2, ListPatchedEffect
    <2>3. CASE m.op = "item_create" /\ work' = ItemCreated(work, m)
      BY <1>1, <1>4, <2>3, ItemCreatedEffect
    <2>4. CASE m.op = "item_patch" /\ work' = ItemPatched(work, m, session[s].item)
      BY <1>1, <1>3, <2>4, ItemPatchedEffect
    <2>5. CASE /\ m.op \in {"list_copy", "list_from_receipt"}
               /\ ListFilled(work, m, session[s].lines)
      <3>1. PICK fresh \in SUBSET {i \in Items : work.item[i] = NoItemRow} :
                 \E rank \in Numbered(fresh, session[s].lines) :
                      work' = Filled(work, m, session[s].lines, rank)
        BY <2>5 DEF ListFilled
      <3>2. PICK rank \in [fresh -> 1..session[s].lines] :
                  work' = Filled(work, m, session[s].lines, rank)
        BY <3>1 DEF Numbered
      <3> QED
        BY <1>1, <1>4, <2>5, <3>2, FilledEffect
    <2> QED
      BY <2>1, <2>2, <2>3, <2>4, <2>5 DEF Write, Apply, m
  <1> QED
    BY <1>1, <1>3, <1>5 DEF m

-----------------------------------------------------------------------------
(* Every step keeps the invariant                                          *)

\* Locks and readers stay apart when a session takes only what is free.
LEMMA ApartStep ==
    ASSUME \A a, b \in Sessions : Apart(a, b), NEW s \in Sessions, Becomes(s, session'[s]),
           \A t \in Sessions \ {s} :
                /\ session'[s].locks \cap session[t].locks = {}
                /\ session'[s].device \in Devices => session'[s].device # session[t].device
    PROVE  (\A a, b \in Sessions : Apart(a, b))'
  <1> SUFFICES ASSUME NEW a \in Sessions, NEW b \in Sessions PROVE Apart(a, b)'
    OBVIOUS
  <1>1. CASE a = s
    BY <1>1 DEF Becomes, Apart
  <1>2. CASE b = s
    BY <1>2 DEF Becomes, Apart
  <1>3. CASE a # s /\ b # s
    BY <1>3 DEF Becomes, Apart
  <1> QED
    BY <1>1, <1>2, <1>3

\* Fewer locks and no new reader.
LEMMA ApartKept ==
    ASSUME \A a, b \in Sessions : Apart(a, b), NEW s \in Sessions, Becomes(s, session'[s]),
           session'[s].locks \subseteq session[s].locks,
           session'[s].device \in {session[s].device, NoDevice}
    PROVE  (\A a, b \in Sessions : Apart(a, b))'
  <1>1. ASSUME NEW t \in Sessions \ {s}
        PROVE  /\ session'[s].locks \cap session[t].locks = {}
               /\ session'[s].device \in Devices => session'[s].device # session[t].device
    BY ListAssumption DEF Apart
  <1> QED
    BY <1>1, ApartStep

\* A step of one session that touches nothing but that session.
LEMMA PrivateStep ==
    ASSUME IInv, NEW s \in Sessions, Becomes(s, session'[s]),
           UNCHANGED <<db, work, owner, device>>,
           SessionInv(s)', (\A a, b \in Sessions : Apart(a, b))'
    PROVE  IInv'
  <1>1. TypeOK'
    BY DEF IInv, TypeOK, Becomes
  <1>2. TablesInv'
    BY DEF IInv, TablesInv, Covered, Stamped, Ahead, ListsStamped, ItemsStamped
  <1>3. (\A t \in Sessions : SessionInv(t))'
    <2> SUFFICES ASSUME NEW t \in Sessions \ {s} PROVE SessionInv(t)'
      OBVIOUS
    <2>1. /\ session'[t] = session[t] /\ SessionInv(t)
          /\ db' = db /\ work' = work /\ owner' = owner /\ device' = device
      BY DEF Becomes, IInv
    <2>2. OwnerInv(t)'
      BY <2>1 DEF SessionInv, OwnerInv
    <2>3. HandlerInv(t)'
      BY <2>1 DEF SessionInv, HandlerInv, Current, View
    <2>4. AnswerInv(t)'
      BY <2>1 DEF SessionInv, AnswerInv, PageInv
    <2> QED
      BY <2>2, <2>3, <2>4 DEF SessionInv
  <1>4. (\A d \in Devices : DeviceInv(d))'
    BY DEF IInv, DeviceInv
  <1> QED
    BY <1>1, <1>2, <1>3, <1>4 DEF IInv

LEMMA BeginRestInv ==
    ASSUME IInv, NEW s \in Sessions, BeginRest(s)
    PROVE  IInv'
  <1>1. /\ Becomes(s, session'[s])
        /\ session'[s].pc = "next" /\ session'[s].locks = {} /\ session'[s].device = NoDevice
    BY BeginRestStep DEF IInv
  <1>2. /\ SessionInv(s) /\ session[s].pc = "idle"
        /\ UNCHANGED <<db, work, owner, device>>
    BY DEF IInv, BeginRest
  <1>3. SessionInv(s)'
    <2>1. OwnerInv(s)'
      BY <1>2 DEF SessionInv, OwnerInv, Mutating
    <2>2. HandlerInv(s)' /\ AnswerInv(s)'
      BY <1>1, ListAssumption DEF HandlerInv, AnswerInv
    <2> QED
      BY <2>1, <2>2 DEF SessionInv
  <1>4. (\A a, b \in Sessions : Apart(a, b))'
    BY <1>1, ApartKept DEF IInv
  <1> QED
    BY <1>1, <1>2, <1>3, <1>4, PrivateStep

LEMMA BeginSyncInv ==
    ASSUME IInv, NEW s \in Sessions, NEW d \in Devices, BeginSync(s, d)
    PROVE  IInv'
  <1>1. /\ Becomes(s, session'[s])
        /\ session'[s].pc = "next" /\ session'[s].locks = {} /\ session'[s].device = d
        /\ session'[s].since <= device[d].cursor
    BY BeginSyncStep DEF IInv
  <1>2. /\ SessionInv(s) /\ session[s].pc = "idle"
        /\ UNCHANGED <<db, work, owner, device>>
        /\ \A t \in Sessions : session[t].device # d
    BY DEF IInv, BeginSync
  <1>3. SessionInv(s)'
    <2>1. OwnerInv(s)'
      BY <1>2 DEF SessionInv, OwnerInv, Mutating
    <2>2. HandlerInv(s)' /\ AnswerInv(s)'
      BY <1>1, <1>2 DEF HandlerInv, AnswerInv
    <2> QED
      BY <2>1, <2>2 DEF SessionInv
  <1>4. (\A a, b \in Sessions : Apart(a, b))'
    BY <1>1, <1>2, ApartStep DEF IInv
  <1> QED
    BY <1>1, <1>2, <1>3, <1>4, PrivateStep

LEMMA GiveUpInv ==
    ASSUME IInv, NEW s \in Sessions, GiveUp(s)
    PROVE  IInv'
  <1>1. /\ Becomes(s, session'[s]) /\ SameLocks(s)
        /\ session'[s].pc = session[s].pc /\ session'[s].todo = session[s].todo
        /\ session'[s].device = NoDevice /\ session[s].pc \in Mutating
    BY GiveUpStep DEF IInv
  <1>2. SessionInv(s) /\ UNCHANGED <<db, work, owner, device>>
    BY DEF IInv, GiveUp
  <1>3. SessionInv(s)'
    <2>1. OwnerInv(s)'
      BY <1>1, <1>2 DEF SessionInv, OwnerInv, SameLocks
    <2>2. HandlerInv(s)'
      BY <1>1, <1>2 DEF SessionInv, HandlerInv, SameLocks, Current, View
    <2>3. AnswerInv(s)'
      BY <1>1, ListAssumption DEF AnswerInv, Mutating
    <2> QED
      BY <2>1, <2>2, <2>3 DEF SessionInv
  <1>4. (\A a, b \in Sessions : Apart(a, b))'
    BY <1>1, ApartKept DEF IInv, SameLocks
  <1> QED
    BY <1>1, <1>2, <1>3, <1>4, PrivateStep

LEMMA LockInv ==
    ASSUME IInv, NEW s \in Sessions, Lock(s)
    PROVE  IInv'
  <1> DEFINE k == Key(Current(s))
  <1>1. /\ Becomes(s, session'[s]) /\ SameReader(s)
        /\ session[s].pc = "next"
        /\ session[s].locks \subseteq session'[s].locks
        /\ session'[s].locks \subseteq session[s].locks \cup {k}
        /\ \/ session'[s].pc = "next"
           \/ /\ session'[s].pc = "list"
              /\ session'[s].todo = session[s].todo
              /\ session[s].todo # <<>>
              /\ k \in session'[s].locks
              /\ View(s).log[k].request = NoRequest
    BY LockStep DEF IInv
  <1>2. /\ SessionInv(s) /\ UNCHANGED <<db, work, owner, device>>
        /\ \A t \in Sessions \ {s} : k \notin session[t].locks
    BY DEF IInv, Lock, LockFree
  <1>3. SessionInv(s)'
    <2>1. OwnerInv(s)'
      BY <1>1, <1>2 DEF SessionInv, OwnerInv, Mutating
    <2>2. HandlerInv(s)'
      BY <1>1, <1>2 DEF HandlerInv, Current, View
    <2>3. AnswerInv(s)'
      BY <1>1, <1>2 DEF SessionInv, AnswerInv, SameReader
    <2> QED
      BY <2>1, <2>2, <2>3 DEF SessionInv
  <1>4. (\A a, b \in Sessions : Apart(a, b))'
    <2>1. ASSUME NEW t \in Sessions \ {s}
          PROVE  /\ session'[s].locks \cap session[t].locks = {}
                 /\ session'[s].device \in Devices => session'[s].device # session[t].device
      BY <1>1, <1>2 DEF IInv, Apart, SameReader
    <2> QED
      BY <1>1, <2>1, ApartStep DEF IInv
  <1> QED
    BY <1>1, <1>2, <1>3, <1>4, PrivateStep

\* ReadList and ReadItem.
LEMMA HandlerStepInv ==
    ASSUME IInv, NEW s \in Sessions, Becomes(s, session'[s]), SameReader(s),
           UNCHANGED <<db, work, owner, device>>,
           session[s].pc \in {"list", "item"}, Continues(s) \/ Rejected(s)
    PROVE  IInv'
  <1> DEFINE k == Key(Current(s))
  <1>1. /\ SessionInv(s)
        /\ session[s].todo # <<>> /\ k \in session[s].locks
        /\ View(s).log[k].request = NoRequest
    BY DEF IInv, SessionInv, HandlerInv
  <1>2. OwnerInv(s)'
    <2>1. CASE Continues(s)
      BY <1>1, <2>1 DEF SessionInv, OwnerInv, Continues, SameLocks, Mutating
    <2>2. CASE Rejected(s)
      BY <1>1, <2>2 DEF SessionInv, OwnerInv, Rejected, View, Mutating
    <2> QED
      BY <2>1, <2>2
  <1>3. HandlerInv(s)'
    <2>1. CASE Continues(s)
      BY <1>1, <2>1 DEF HandlerInv, Continues, SameLocks, Current, View
    <2>2. CASE Rejected(s)
      BY <2>2 DEF HandlerInv, Rejected
    <2> QED
      BY <2>1, <2>2
  <1>4. AnswerInv(s)'
    BY <1>1 DEF SessionInv, AnswerInv, SameReader, Continues, Rejected
  <1>5. (\A a, b \in Sessions : Apart(a, b))'
    BY ApartKept DEF IInv, SameReader, Continues, Rejected, SameLocks
  <1> QED
    BY <1>2, <1>3, <1>4, <1>5, PrivateStep DEF SessionInv

LEMMA ReadListInv ==
    ASSUME IInv, NEW s \in Sessions, ReadList(s)
    PROVE  IInv'
  <1>1. session[s].todo # <<>> /\ UNCHANGED <<db, work, owner, device>>
    BY DEF IInv, SessionInv, HandlerInv, ReadList
  <1> QED
    BY <1>1, ReadListStep, HandlerStepInv DEF IInv

LEMMA ReadItemInv ==
    ASSUME IInv, NEW s \in Sessions, ReadItem(s)
    PROVE  IInv'
  <1>1. session[s].todo # <<>> /\ UNCHANGED <<db, work, owner, device>>
    BY DEF IInv, SessionInv, HandlerInv, ReadItem
  <1> QED
    BY <1>1, ReadItemStep, HandlerStepInv DEF IInv

LEMMA ReadSequenceInv ==
    ASSUME IInv, NEW s \in Sessions, ReadSequence(s)
    PROVE  IInv'
  <1>1. /\ Becomes(s, session'[s]) /\ SameReader(s) /\ SameLocks(s)
        /\ session[s].pc = "sequence"
        /\ session'[s].pc = "lists" /\ session'[s].stamp = db.seq
        /\ SessionInv(s) /\ UNCHANGED <<db, work, owner, device>>
    BY ReadSequenceStep DEF IInv, ReadSequence
  <1>2. OwnerInv(s)' /\ HandlerInv(s)'
    BY <1>1 DEF SessionInv, OwnerInv, HandlerInv, Mutating
  <1>3. AnswerInv(s)'
    BY <1>1 DEF IInv, TypeOK, Tables, SessionInv, AnswerInv, SameReader
  <1>4. (\A a, b \in Sessions : Apart(a, b))'
    BY <1>1, ApartKept DEF IInv, SameReader, SameLocks
  <1> QED
    BY <1>1, <1>2, <1>3, <1>4, PrivateStep DEF SessionInv

\* The page has what changed since; a changed line's list is on it.
LEMMA ReadListsInv ==
    ASSUME IInv, NEW s \in Sessions, ReadLists(s)
    PROVE  IInv'
  <1>1. /\ Becomes(s, session'[s]) /\ SameReader(s) /\ SameLocks(s)
        /\ session[s].pc = "lists"
        /\ session'[s].pc = "items" /\ session'[s].stamp = session[s].stamp
        /\ session'[s].page = ChangedLists(session[s].since)
        /\ SessionInv(s) /\ UNCHANGED <<db, work, owner, device>>
    BY ReadListsStep DEF IInv, ReadLists
  <1> DEFINE since == session[s].since
             page == session'[s].page
  <1>2. /\ since \in Nat /\ session[s].stamp \in Nat
        /\ \A l \in Lists : db.list[l].seq \in Nat
        /\ \A i \in Items : db.item[i].seq \in Nat /\ db.item[i].list \in Lists \cup {NoList}
    BY DEF IInv, TypeOK, Session, Tables, ListRow, ItemRow
  <1>3. \A l \in Lists : page[l] = IF db.list[l].seq > since THEN db.list[l].seq ELSE 0
    BY <1>1 DEF ChangedLists
  <1>4. ASSUME NEW i \in Items, since < db.item[i].seq
        PROVE  page[db.item[i].list] > 0
    <2>1. db.item[i].list \in Lists /\ db.item[i].seq <= db.list[db.item[i].list].seq
      BY <1>2, <1>4 DEF IInv, TablesInv, Covered
    <2> QED
      BY <1>2, <1>3, <1>4, <2>1
  <1>5. ASSUME NEW d \in Devices, NEW l \in Lists, page[l] > 0
        PROVE  device[d].known.list[l] <= page[l]
    BY <1>2, <1>3, <1>5 DEF IInv, DeviceInv
  <1>6. PageInv(s)'
    BY <1>1, <1>2, <1>3, <1>4, <1>5 DEF PageInv, SameReader
  <1>7. OwnerInv(s)' /\ HandlerInv(s)'
    BY <1>1 DEF SessionInv, OwnerInv, HandlerInv, Mutating
  <1>8. AnswerInv(s)'
    BY <1>1, <1>6 DEF SessionInv, AnswerInv, SameReader
  <1>9. (\A a, b \in Sessions : Apart(a, b))'
    BY <1>1, ApartKept DEF IInv, SameReader, SameLocks
  <1> QED
    BY <1>1, <1>7, <1>8, <1>9, PrivateStep DEF SessionInv

\* The owner's tables are not committed: nobody else sees what it writes.
LEMMA WriteInv ==
    ASSUME IInv, NEW s \in Sessions, Write(s)
    PROVE  IInv'
  <1> DEFINE m == Current(s)
             k == Key(m)
  <1>1. /\ TypeOK /\ TablesInv /\ SessionInv(s)
        /\ \A t \in Sessions : SessionInv(t)
        /\ owner \in {s, NoSession} /\ session[s].pc = "write"
        /\ db' = db /\ device' = device /\ owner' = s
    BY DEF IInv, Write, CanWrite
  <1>2. /\ session[s].todo # <<>> /\ m \in Requests
        /\ work.log[k].request = NoRequest
        /\ k \in session[s].locks
        /\ Effect(work, work', m)
    BY <1>1, WriteEffect DEF SessionInv, HandlerInv
  <1>3. /\ Becomes(s, session'[s]) /\ SameReader(s) /\ SameLocks(s)
        /\ session'[s].pc = "next"
    BY <1>1, <1>2, WriteStep
  <1>4. /\ work \in Tables /\ work' \in Tables /\ db \in Tables
        /\ Ahead(work, work') /\ Covered(work') /\ Stamped(work')
        /\ \A j \in Keys : work'.log[j].request # NoRequest
                                => work.log[j].request # NoRequest \/ j = k
    BY <1>1, <1>2, EffectAhead, EffectCovered, EffectStamped DEF TypeOK, TablesInv
  <1>5. Ahead(db, work')
    BY <1>1, <1>4, AheadTransitive DEF TablesInv
  <1>6. TypeOK'
    BY <1>1, <1>3, <1>4 DEF TypeOK, Becomes
  <1>7. TablesInv'
    BY <1>1, <1>4, <1>5, ListAssumption DEF TablesInv
  <1>8. (\A t \in Sessions : SessionInv(t))'
    <2>1. SessionInv(s)'
      <3>1. OwnerInv(s)'
        <4>1. ASSUME NEW j \in Keys, db.log[j].request = NoRequest,
                     work'.log[j].request # NoRequest
              PROVE  j \in session[s].locks
          <5>1. CASE owner = s
            BY <1>1, <1>2, <1>4, <4>1, <5>1 DEF SessionInv, OwnerInv
          <5>2. CASE owner = NoSession
            BY <1>1, <1>2, <1>4, <4>1, <5>2 DEF TablesInv
          <5> QED
            BY <1>1, <5>1, <5>2
        <4> QED
          BY <1>1, <1>3, <4>1 DEF OwnerInv, Mutating, SameLocks
      <3>2. HandlerInv(s)' /\ AnswerInv(s)'
        BY <1>1, <1>3 DEF SessionInv, HandlerInv, AnswerInv, SameReader
      <3> QED
        BY <3>1, <3>2 DEF SessionInv
    <2>2. ASSUME NEW t \in Sessions \ {s} PROVE SessionInv(t)'
      <3>1. /\ session'[t] = session[t] /\ owner # t /\ owner' # t /\ SessionInv(t)
        BY <1>1, <1>3, ListAssumption DEF Becomes
      <3>2. OwnerInv(t)'
        BY <3>1 DEF OwnerInv
      <3>3. HandlerInv(t)'
        BY <1>1, <3>1 DEF SessionInv, HandlerInv, Current, View
      <3>4. AnswerInv(t)'
        BY <1>1, <3>1 DEF SessionInv, AnswerInv, PageInv
      <3> QED
        BY <3>2, <3>3, <3>4 DEF SessionInv
    <2> QED
      BY <2>1, <2>2
  <1>9. (\A a, b \in Sessions : Apart(a, b))'
    BY <1>3, ApartKept DEF IInv, SameReader, SameLocks
  <1>10. (\A d \in Devices : DeviceInv(d))'
    BY <1>1 DEF IInv, DeviceInv
  <1> QED
    BY <1>6, <1>7, <1>8, <1>9, <1>10 DEF IInv

LEMMA RollbackInv ==
    ASSUME IInv, NEW s \in Sessions, Rollback(s)
    PROVE  IInv'
  <1>1. /\ TypeOK /\ TablesInv /\ db' = db /\ device' = device
        /\ \A t \in Sessions : SessionInv(t)
        /\ owner' = IF owner = s THEN NoSession ELSE owner
        /\ work' = IF owner = s THEN db ELSE work
    BY DEF IInv, Rollback
  <1>2. Becomes(s, Idle) /\ session'[s] = Idle
    BY <1>1, IdleStep DEF Rollback, Becomes
  <1>3. TypeOK'
    BY <1>1, <1>2 DEF TypeOK, Becomes
  <1>4. TablesInv'
    <2>1. CASE owner = s
      <3>1. work' = db /\ db' = db
        BY <1>1, <2>1
      <3>2. Ahead(db, db)
        BY <1>1, AheadReflexive DEF TypeOK
      <3> QED
        BY <1>1, <3>1, <3>2 DEF TablesInv
    <2>2. CASE owner # s
      BY <1>1, <2>2 DEF TablesInv
    <2> QED
      BY <2>1, <2>2
  <1>5. (\A t \in Sessions : SessionInv(t))'
    <2>1. SessionInv(s)'
      <3>1. OwnerInv(s)'
        BY <1>1, ListAssumption DEF OwnerInv
      <3>2. HandlerInv(s)' /\ AnswerInv(s)'
        BY <1>2, SessionTypes, ListAssumption DEF HandlerInv, AnswerInv
      <3> QED
        BY <3>1, <3>2 DEF SessionInv
    <2>2. ASSUME NEW t \in Sessions \ {s} PROVE SessionInv(t)'
      <3>1. /\ session'[t] = session[t] /\ SessionInv(t)
            /\ owner' = t => owner = t /\ work' = work
            /\ (IF owner' = t THEN work' ELSE db) = View(t)
        BY <1>1, <1>2, ListAssumption DEF Becomes, View
      <3>2. OwnerInv(t)'
        BY <1>1, <3>1 DEF SessionInv, OwnerInv
      <3>3. HandlerInv(t)'
        BY <1>1, <3>1 DEF SessionInv, HandlerInv, Current, View
      <3>4. AnswerInv(t)'
        BY <1>1, <3>1 DEF SessionInv, AnswerInv, PageInv
      <3> QED
        BY <3>2, <3>3, <3>4 DEF SessionInv
    <2> QED
      BY <2>1, <2>2
  <1>6. (\A a, b \in Sessions : Apart(a, b))'
    <2>1. Becomes(s, session'[s])
      BY <1>2
    <2> QED
      BY <1>2, <2>1, SessionTypes, ApartKept DEF IInv
  <1>7. (\A d \in Devices : DeviceInv(d))'
    BY <1>1 DEF IInv, DeviceInv
  <1> QED
    BY <1>3, <1>4, <1>5, <1>6, <1>7 DEF IInv

\* A commit moves the tables ahead; what others rely on is stamped at or below
\* the old sequence, or recorded under a lock that they do not hold.
LEMMA CommitAhead ==
    ASSUME IInv, NEW s \in Sessions, Commit(s)
    PROVE  /\ db' \in Tables /\ Ahead(db, db') /\ Covered(db') /\ Stamped(db')
           /\ owner = s => db' = work
           /\ owner # s => db' = db
  <1>1. db \in Tables /\ work \in Tables /\ TablesInv
    BY DEF IInv, TypeOK
  <1>2. CASE owner = s
    BY <1>1, <1>2 DEF Commit, View, TablesInv
  <1>3. CASE owner # s
    <2>1. db' = db
      BY <1>3 DEF Commit, View
    <2>2. Ahead(db, db)
      BY <1>1, AheadReflexive
    <2> QED
      BY <1>1, <1>3, <2>1, <2>2 DEF TablesInv
  <1> QED
    BY <1>2, <1>3

LEMMA CommitInv ==
    ASSUME IInv, NEW s \in Sessions, Commit(s)
    PROVE  IInv'
  <1>1. /\ TypeOK /\ TablesInv /\ work' = work /\ device' = device
        /\ \A t \in Sessions : SessionInv(t)
        /\ db \in Tables /\ work \in Tables
        /\ owner' = IF owner = s THEN NoSession ELSE owner
    BY DEF IInv, Commit, TypeOK
  <1>2. /\ db' \in Tables /\ Ahead(db, db') /\ Covered(db') /\ Stamped(db')
        /\ owner = s => db' = work
        /\ owner # s => db' = db
    BY CommitAhead
  <1>3. /\ db.seq \in Nat /\ db'.seq \in Nat /\ db.seq <= db'.seq
        /\ \A l \in Lists : /\ db.list[l].seq \in Nat /\ db'.list[l].seq \in Nat
                            /\ db.list[l].seq <= db'.list[l].seq
                            /\ db'.list[l].seq <= db.seq => db'.list[l] = db.list[l]
        /\ \A i \in Items : /\ db.item[i].seq \in Nat /\ db'.item[i].seq \in Nat
                            /\ db.item[i].seq <= db'.item[i].seq
                            /\ db'.item[i].seq <= db.seq => db'.item[i] = db.item[i]
    <2>1. Covered(db)
      BY <1>1 DEF TablesInv
    <2>2. /\ db.seq \in Nat /\ \A l \in Lists : db.list[l].seq \in Nat
          /\ \A i \in Items : db.item[i].seq \in Nat
      BY <1>1 DEF Tables, ListRow, ItemRow
    <2>3. /\ db'.seq \in Nat /\ \A l \in Lists : db'.list[l].seq \in Nat
          /\ \A i \in Items : db'.item[i].seq \in Nat
      BY <1>2 DEF Tables, ListRow, ItemRow
    <2>4. /\ db.seq <= db'.seq
          /\ \A l \in Lists : /\ db.list[l].seq <= db'.list[l].seq
                              /\ db'.list[l].seq <= db.seq => db'.list[l] = db.list[l]
          /\ \A i \in Items : /\ db.item[i].seq <= db'.item[i].seq
                              /\ db'.item[i].seq <= db.seq => db'.item[i] = db.item[i]
      BY <1>1, <1>2, <2>1, AheadGrows
    <2> QED
      BY <2>2, <2>3, <2>4
  <1>4. /\ Becomes(s, session'[s])
        /\ session'[s].locks = {}
        /\ \/ session'[s] = Idle
           \/ SameReader(s) /\ session'[s].pc = "sequence"
    BY <1>1, CommitStep
  <1>5. TypeOK'
    BY <1>1, <1>2, <1>4 DEF TypeOK, Becomes
  <1>6. TablesInv'
    <2>1. CASE owner = s
      <3>1. Ahead(work, work)
        BY <1>1, AheadReflexive
      <3>2. db' = work /\ work' = work
        BY <1>1, <1>2, <2>1
      <3> QED
        BY <1>1, <3>1, <3>2 DEF TablesInv
    <2>2. CASE owner # s
      BY <1>1, <1>2, <2>2 DEF TablesInv
    <2> QED
      BY <2>1, <2>2
  <1>7. (\A t \in Sessions : SessionInv(t))'
    <2>1. SessionInv(s)'
      <3>1. OwnerInv(s)'
        BY <1>1, ListAssumption DEF OwnerInv
      <3>2. HandlerInv(s)' /\ AnswerInv(s)'
        BY <1>1, <1>4, SessionTypes, ListAssumption
        DEF SessionInv, HandlerInv, AnswerInv, SameReader
      <3> QED
        BY <3>1, <3>2 DEF SessionInv
    <2>2. ASSUME NEW t \in Sessions \ {s} PROVE SessionInv(t)'
      <3>1. /\ session'[t] = session[t] /\ SessionInv(t)
            /\ owner' = t <=> owner = t
            /\ owner = t => db' = db
        BY <1>1, <1>2, <1>4, ListAssumption DEF Becomes
      <3>2. OwnerInv(t)'
        BY <1>1, <3>1 DEF SessionInv, OwnerInv
      <3>3. HandlerInv(t)'
        <4> DEFINE m == Current(t)
                   k == Key(m)
        <4> SUFFICES ASSUME session[t].pc \in {"list", "item", "write"}
                     PROVE  /\ session[t].todo # <<>> /\ k \in session[t].locks
                            /\ (View(t)').log[k].request = NoRequest
                            /\ session[t].pc = "write" /\ m.op = "item_patch"
                                => (View(t)').item[m.item].list = m.list
          BY <3>1 DEF HandlerInv, Current
        <4>1. /\ session[t].todo # <<>> /\ k \in session[t].locks
              /\ View(t).log[k].request = NoRequest
              /\ session[t].pc = "write" /\ m.op = "item_patch"
                    => View(t).item[m.item].list = m.list
              /\ m \in Requests /\ k \in Keys /\ m.list \in Lists
              /\ m.op = "item_patch" => m.item \in Items
          <5>1. HandlerInv(t)
            BY <3>1 DEF SessionInv
          <5> QED
            BY <1>1, <5>1, CurrentRequest, RequestTypes DEF HandlerInv
        <4>2. CASE owner = t \/ owner # s
          <5>1. View(t)' = View(t)
            BY <1>1, <1>2, <3>1, <4>2 DEF View
          <5> QED
            BY <4>1, <5>1
        <4>3. CASE owner = s
          <5>1. View(t) = db /\ View(t)' = db'
            BY <3>1, <4>3 DEF View
          <5>2. k \notin session[s].locks
            BY <4>1 DEF IInv, Apart
          <5>3. db'.log[k].request = NoRequest
            BY <1>1, <1>2, <4>1, <4>3, <5>1, <5>2 DEF SessionInv, OwnerInv
          <5>4. ASSUME session[t].pc = "write", m.op = "item_patch"
                PROVE  db'.item[m.item].list = m.list
            BY <1>2, <4>1, <5>1, <5>4, ListAssumption DEF Ahead, ItemsStamped
          <5> QED
            BY <4>1, <5>1, <5>3, <5>4
        <4> QED
          BY <4>2, <4>3
      <3>4. AnswerInv(t)'
        <4> DEFINE r == session[t]
        <4>1. /\ AnswerInv(t) /\ r.stamp \in Nat /\ r.since \in Nat
              /\ \A l \in Lists : r.page[l] \in Nat
          BY <1>1, <3>1 DEF SessionInv, TypeOK, Session
        <4>2. r.pc \in {"lists", "items"} => r.stamp <= db.seq /\ r.stamp <= db'.seq
          BY <1>3, <4>1 DEF AnswerInv
        <4>3. ASSUME r.pc = "items" PROVE PageInv(t)'
          <5>1. PageInv(t) /\ r.stamp <= db.seq
            BY <4>1, <4>2, <4>3 DEF AnswerInv
          <5>2. ASSUME NEW l \in Lists, r.page[l] > 0
                PROVE  r.since < r.page[l] /\ r.page[l] <= db'.list[l].seq
            BY <1>3, <4>1, <5>1, <5>2 DEF PageInv
          <5>3. ASSUME NEW l \in Lists, r.since < db'.list[l].seq, db'.list[l].seq <= r.stamp
                PROVE  r.page[l] = db'.list[l].seq
            BY <1>3, <4>1, <5>1, <5>3 DEF PageInv
          <5>4. ASSUME NEW i \in Items, r.since < db'.item[i].seq, db'.item[i].seq <= r.stamp
                PROVE  r.page[db'.item[i].list] > 0
            BY <1>3, <4>1, <5>1, <5>4 DEF PageInv
          <5> QED
            BY <1>1, <3>1, <5>1, <5>2, <5>3, <5>4 DEF PageInv
        <4> QED
          BY <1>1, <3>1, <4>1, <4>2, <4>3 DEF AnswerInv
      <3> QED
        BY <3>2, <3>3, <3>4 DEF SessionInv
    <2> QED
      BY <2>1, <2>2
  <1>8. (\A a, b \in Sessions : Apart(a, b))'
    <2>1. session'[s].device \in {session[s].device, NoDevice}
      BY <1>4, SessionTypes DEF SameReader
    <2> QED
      BY <1>4, <2>1, ApartKept DEF IInv
  <1>9. (\A d \in Devices : DeviceInv(d))'
    <2> SUFFICES ASSUME NEW d \in Devices PROVE DeviceInv(d)'
      OBVIOUS
    <2>1. /\ DeviceInv(d) /\ device[d].cursor \in Nat
          /\ \A l \in Lists : device[d].known.list[l] \in Nat
          /\ \A i \in Items : device[d].known.item[i] \in Nat
      BY DEF IInv, TypeOK, Device, Known
    <2>2. device[d].cursor <= db'.seq
      BY <1>3, <2>1 DEF DeviceInv
    <2>3. ASSUME NEW l \in Lists
          PROVE  /\ device[d].known.list[l] <= db'.list[l].seq
                 /\ db'.list[l].seq <= device[d].cursor
                        => device[d].known.list[l] = db'.list[l].seq
      BY <1>3, <2>1 DEF DeviceInv
    <2>4. ASSUME NEW i \in Items
          PROVE  /\ device[d].known.item[i] <= db'.item[i].seq
                 /\ db'.item[i].seq <= device[d].cursor
                        => device[d].known.item[i] = db'.item[i].seq
      BY <1>3, <2>1 DEF DeviceInv
    <2> QED
      BY <1>1, <2>2, <2>3, <2>4 DEF DeviceInv
  <1> QED
    BY <1>5, <1>6, <1>7, <1>8, <1>9 DEF IInv

\* What an answer gives its device: nothing older than it had, and all it lacked.
LEMMA ReceivedContent ==
    ASSUME IInv, NEW s \in Sessions, NEW d \in Devices, session[s].device = d,
           session[s].pc = "items"
    PROVE  /\ Received(d, s) \in Device
           /\ Received(d, s).cursor <= db.seq
           /\ \A l \in Lists :
                LET k == Received(d, s).known.list[l]
                IN /\ k \in Nat /\ device[d].known.list[l] <= k /\ k <= db.list[l].seq
                   /\ db.list[l].seq <= Received(d, s).cursor => k = db.list[l].seq
           /\ \A i \in Items :
                LET k == Received(d, s).known.item[i]
                IN /\ k \in Nat /\ device[d].known.item[i] <= k /\ k <= db.item[i].seq
                   /\ db.item[i].seq <= Received(d, s).cursor => k = db.item[i].seq
  <1> DEFINE r == session[s]
             lists == [l \in Lists |-> IF r.page[l] > 0 THEN r.page[l]
                                       ELSE device[d].known.list[l]]
             items == [i \in Items |-> IF i \in ChangedItems(r.since, r.page)
                                       THEN db.item[i].seq ELSE device[d].known.item[i]]
             R == Received(d, s)
  <1>1. /\ r.stamp \in Nat /\ r.since \in Nat /\ db.seq \in Nat
        /\ device[d].cursor \in Nat
        /\ \A l \in Lists : /\ r.page[l] \in Nat /\ device[d].known.list[l] \in Nat
                            /\ db.list[l].seq \in Nat
        /\ \A i \in Items : /\ device[d].known.item[i] \in Nat /\ db.item[i].seq \in Nat
                            /\ db.item[i].list \in Lists \cup {NoList}
    <2>1. /\ r.stamp \in Nat /\ r.since \in Nat /\ \A l \in Lists : r.page[l] \in Nat
      BY DEF IInv, TypeOK, Session
    <2>2. /\ db.seq \in Nat /\ \A l \in Lists : db.list[l].seq \in Nat
          /\ \A i \in Items : /\ db.item[i].seq \in Nat
                              /\ db.item[i].list \in Lists \cup {NoList}
      BY DEF IInv, TypeOK, Tables, ListRow, ItemRow
    <2>3. /\ device[d].cursor \in Nat
          /\ \A l \in Lists : device[d].known.list[l] \in Nat
          /\ \A i \in Items : device[d].known.item[i] \in Nat
      BY DEF IInv, TypeOK, Device, Known
    <2> QED
      BY <2>1, <2>2, <2>3
  <1>2. /\ lists \in [Lists -> Nat] /\ items \in [Items -> Nat]
        /\ R = [cursor |-> r.stamp, known |-> [list |-> lists, item |-> items]]
    BY <1>1 DEF Received
  <1>3. /\ DeviceInv(d) /\ PageInv(s) /\ r.since <= device[d].cursor /\ r.stamp <= db.seq
    BY DEF IInv, SessionInv, AnswerInv
  <1>4. ASSUME NEW l \in Lists
        PROVE  /\ device[d].known.list[l] <= lists[l] /\ lists[l] <= db.list[l].seq
               /\ db.list[l].seq <= r.stamp => lists[l] = db.list[l].seq
    BY <1>1, <1>3 DEF PageInv, DeviceInv
  <1>5. ASSUME NEW i \in Items
        PROVE  /\ device[d].known.item[i] <= items[i] /\ items[i] <= db.item[i].seq
               /\ db.item[i].seq <= r.stamp => items[i] = db.item[i].seq
    <2>1. device[d].known.item[i] <= items[i] /\ items[i] <= db.item[i].seq
      BY <1>1, <1>3 DEF DeviceInv
    <2>2. ASSUME db.item[i].seq <= r.stamp PROVE items[i] = db.item[i].seq
      <3>1. CASE r.since < db.item[i].seq
        <4>1. db.item[i].list \in Lists
          BY <1>1, <3>1 DEF IInv, TablesInv, Covered
        <4>2. i \in ChangedItems(r.since, r.page)
          BY <1>1, <1>3, <2>2, <3>1, <4>1 DEF PageInv, ChangedItems
        <4> QED
          BY <4>2
      <3>2. CASE db.item[i].seq <= r.since
        BY <1>1, <1>3, <3>2 DEF DeviceInv
      <3> QED
        BY <1>1, <3>1, <3>2
    <2> QED
      BY <2>1, <2>2
  <1> HIDE DEF lists, items
  <1>6. /\ R \in Device /\ R.cursor = r.stamp /\ R.known.list = lists /\ R.known.item = items
    BY <1>1, <1>2 DEF Device, Known
  <1> HIDE DEF R
  <1>7. \A l \in Lists : lists[l] \in Nat
    BY <1>2
  <1>8. \A i \in Items : items[i] \in Nat
    BY <1>2
  <1>9. /\ R \in Device /\ R.cursor <= db.seq
        /\ \A l \in Lists :
             LET k == R.known.list[l]
             IN /\ k \in Nat /\ device[d].known.list[l] <= k /\ k <= db.list[l].seq
                /\ db.list[l].seq <= R.cursor => k = db.list[l].seq
        /\ \A i \in Items :
             LET k == R.known.item[i]
             IN /\ k \in Nat /\ device[d].known.item[i] <= k /\ k <= db.item[i].seq
                /\ db.item[i].seq <= R.cursor => k = db.item[i].seq
    BY <1>3, <1>4, <1>5, <1>6, <1>7, <1>8
  <1> QED
    BY <1>9 DEF R

LEMMA AnswerStep ==
    ASSUME IInv, NEW s \in Sessions, Answer(s)
    PROVE  /\ UNCHANGED <<db, work, owner>> /\ session[s].pc = "items"
           /\ device' \in [Devices -> Device]
           /\ \A d \in Devices : /\ session[s].device = d => device'[d] = Received(d, s)
                                 /\ session[s].device # d => device'[d] = device[d]
  <1>1. device' = [d \in Devices |-> IF session[s].device = d THEN Received(d, s) ELSE device[d]]
    BY DEF Answer
  <1>2. \A d \in Devices : session[s].device = d => Received(d, s) \in Device
    BY ReceivedContent DEF Answer
  <1>3. device \in [Devices -> Device]
    BY DEF IInv, TypeOK
  <1> QED
    BY <1>1, <1>2, <1>3 DEF Answer

LEMMA AnswerActionInv ==
    ASSUME IInv, NEW s \in Sessions, Answer(s)
    PROVE  IInv'
  <1>1. /\ db' = db /\ work' = work /\ owner' = owner /\ session[s].pc = "items"
        /\ device' \in [Devices -> Device]
        /\ \A d \in Devices : /\ session[s].device = d => device'[d] = Received(d, s)
                              /\ session[s].device # d => device'[d] = device[d]
    BY AnswerStep
  <1>2. /\ TypeOK /\ TablesInv /\ \A t \in Sessions : SessionInv(t)
        /\ Becomes(s, Idle) /\ session'[s] = Idle
    BY IdleStep DEF IInv, Answer, Becomes
  <1>3. TypeOK'
    BY <1>1, <1>2 DEF TypeOK, Becomes
  <1>4. TablesInv'
    BY <1>1, <1>2 DEF TablesInv, Covered, Stamped, Ahead, ListsStamped, ItemsStamped
  <1>5. (\A t \in Sessions : SessionInv(t))'
    <2>1. SessionInv(s)'
      <3>1. OwnerInv(s)'
        BY <1>1, <1>2 DEF SessionInv, OwnerInv, Mutating
      <3>2. HandlerInv(s)' /\ AnswerInv(s)'
        BY <1>2, SessionTypes, ListAssumption DEF HandlerInv, AnswerInv
      <3> QED
        BY <3>1, <3>2 DEF SessionInv
    <2>2. ASSUME NEW t \in Sessions \ {s} PROVE SessionInv(t)'
      <3>1. /\ session'[t] = session[t] /\ SessionInv(t)
            /\ \A d \in Devices : session[t].device = d => device'[d] = device[d]
        BY <1>1, <1>2 DEF Becomes, IInv, Apart
      <3>2. OwnerInv(t)'
        BY <1>1, <3>1 DEF SessionInv, OwnerInv
      <3>3. HandlerInv(t)'
        BY <1>1, <3>1 DEF SessionInv, HandlerInv, Current, View
      <3>4. AnswerInv(t)'
        BY <1>1, <3>1 DEF SessionInv, AnswerInv, PageInv
      <3> QED
        BY <3>2, <3>3, <3>4 DEF SessionInv
    <2> QED
      BY <2>1, <2>2
  <1>6. (\A a, b \in Sessions : Apart(a, b))'
    <2>1. Becomes(s, session'[s])
      BY <1>2
    <2> QED
      BY <1>2, <2>1, SessionTypes, ApartKept DEF IInv
  <1>7. (\A d \in Devices : DeviceInv(d))'
    <2> SUFFICES ASSUME NEW d \in Devices PROVE DeviceInv(d)'
      OBVIOUS
    <2>1. CASE session[s].device = d
      BY <1>1, <2>1, ReceivedContent DEF DeviceInv
    <2>2. CASE session[s].device # d
      BY <1>1, <2>2 DEF IInv, DeviceInv
    <2> QED
      BY <2>1, <2>2
  <1> QED
    BY <1>3, <1>4, <1>5, <1>6, <1>7 DEF IInv

-----------------------------------------------------------------------------
(* The theorems                                                            *)

LEMMA InitInv ==
    ASSUME Init
    PROVE  IInv
  <1>1. EmptyTables \in Tables /\ NotRecorded \in Stored
    BY RowTypes DEF EmptyTables, Tables, NotRecorded, Stored
  <1>2. TypeOK
    <2>1. \A d \in Devices : NewDevice \in Device
      BY DEF NewDevice, NoPage, Device, Known
    <2> QED
      BY <1>1, <2>1, SessionTypes DEF Init, TypeOK
  <1>3. TablesInv
    <2>1. /\ EmptyTables.seq = 0
          /\ \A l \in Lists : EmptyTables.list[l] = NoListRow
          /\ \A i \in Items : EmptyTables.item[i] = NoItemRow
          /\ \A k \in Keys : EmptyTables.log[k] = NotRecorded
      BY DEF EmptyTables
    <2>2. Covered(EmptyTables)
      BY <2>1, RowTypes DEF Covered
    <2>3. Stamped(EmptyTables)
      BY <2>1 DEF Stamped, NotRecorded
    <2>4. Ahead(EmptyTables, EmptyTables)
      BY <1>1, AheadReflexive
    <2> QED
      BY <2>2, <2>3, <2>4 DEF Init, TablesInv
  <1>4. ASSUME NEW s \in Sessions PROVE SessionInv(s)
    BY SessionTypes, ListAssumption DEF Init, SessionInv, OwnerInv, HandlerInv, AnswerInv
  <1>5. ASSUME NEW s \in Sessions, NEW t \in Sessions PROVE Apart(s, t)
    BY SessionTypes, ListAssumption DEF Init, Apart
  <1>6. ASSUME NEW d \in Devices PROVE DeviceInv(d)
    <2>1. /\ device[d].cursor = 0 /\ db.seq = 0
          /\ \A l \in Lists : device[d].known.list[l] = 0 /\ db.list[l] = NoListRow
          /\ \A i \in Items : device[d].known.item[i] = 0 /\ db.item[i] = NoItemRow
      BY DEF Init, NewDevice, NoPage, EmptyTables
    <2> QED
      BY <2>1, RowTypes DEF DeviceInv
  <1> QED
    BY <1>2, <1>3, <1>4, <1>5, <1>6 DEF IInv

LEMMA NextInv ==
    ASSUME IInv, [Next]_vars
    PROVE  IInv'
  <1>1. CASE UNCHANGED vars
    <2>1. TypeOK'
      BY <1>1 DEF vars, IInv, TypeOK
    <2>2. TablesInv'
      BY <1>1 DEF vars, IInv, TablesInv
    <2>3. ASSUME NEW s \in Sessions PROVE SessionInv(s)'
      <3>1. SessionInv(s)
        BY DEF IInv
      <3> QED
        BY <1>1, <3>1 DEF vars, SessionInv, OwnerInv, HandlerInv, AnswerInv, PageInv, View, Current
    <2>4. ASSUME NEW s \in Sessions, NEW t \in Sessions PROVE Apart(s, t)'
      BY <1>1 DEF vars, IInv, Apart
    <2>5. ASSUME NEW d \in Devices PROVE DeviceInv(d)'
      <3>1. DeviceInv(d)
        BY DEF IInv
      <3> QED
        BY <1>1, <3>1 DEF vars, DeviceInv
    <2> QED
      BY <2>1, <2>2, <2>3, <2>4, <2>5 DEF IInv
  <1>2. CASE Next
    <2>1. PICK s \in Sessions : \/ Progress(s)
                                \/ BeginRest(s)
                                \/ \E d \in Devices : BeginSync(s, d)
                                \/ GiveUp(s)
                                \/ Abort(s)
      BY <1>2 DEF Next
    <2>2. CASE BeginRest(s)
      BY <2>2, BeginRestInv
    <2>3. CASE \E d \in Devices : BeginSync(s, d)
      BY <2>3, BeginSyncInv
    <2>4. CASE GiveUp(s)
      BY <2>4, GiveUpInv
    <2>5. CASE Lock(s)
      BY <2>5, LockInv
    <2>6. CASE ReadList(s)
      BY <2>6, ReadListInv
    <2>7. CASE ReadItem(s)
      BY <2>7, ReadItemInv
    <2>8. CASE Write(s)
      BY <2>8, WriteInv
    <2>9. CASE Clash(s) \/ Abort(s)
      BY <2>9, RollbackInv DEF Clash, Abort
    <2>10. CASE Commit(s)
      BY <2>10, CommitInv
    <2>11. CASE ReadSequence(s)
      BY <2>11, ReadSequenceInv
    <2>12. CASE ReadLists(s)
      BY <2>12, ReadListsInv
    <2>13. CASE Answer(s)
      BY <2>13, AnswerActionInv
    <2> QED
      BY <2>1, <2>2, <2>3, <2>4, <2>5, <2>6, <2>7, <2>8, <2>9, <2>10, <2>11, <2>12, <2>13
      DEF Progress
  <1> QED
    BY <1>1, <1>2

\* The invariant of which the others are consequences.
THEOREM Invariance == Spec => []IInv
  BY InitInv, NextInv, PTL DEF Spec

\* The tables, the sessions and the devices keep their types.
THEOREM ListsTypeCorrect == Spec => []TypeOK
  <1>1. IInv => TypeOK
    BY DEF IInv
  <1> QED
    BY <1>1, Invariance, PTL

\* A device whose cursor covers a change has that change, for any number of
\* writers that commit between the statements of its sync.
THEOREM NothingMissed == Spec => []DeltaComplete
  <1>1. IInv => DeltaComplete
    BY DEF IInv, DeviceInv, DeltaComplete
  <1> QED
    BY <1>1, Invariance, PTL

\* A mutation takes effect at most once, with a record, under numbers of its own.
THEOREM EffectOnce == Spec => []StampedOnce
  <1>1. IInv => StampedOnce
    BY DEF IInv, TablesInv, Stamped, StampedOnce
  <1> QED
    BY <1>1, Invariance, PTL

\* Only an answer changes what a device has, and it hands it nothing older.
THEOREM DevicesMoveForward == Spec => NoStepBack
  <1> DEFINE Forward ==
          \A d \in Devices :
            /\ \A l \in Lists : device'[d].known.list[l] >= device[d].known.list[l]
            /\ \A i \in Items : device'[d].known.item[i] >= device[d].known.item[i]
  <1>1. ASSUME IInv, [Next]_vars PROVE [Forward]_device
    <2>1. CASE \E s \in Sessions : Answer(s)
      <3>1. PICK s \in Sessions : Answer(s)
        BY <2>1
      <3>2. ASSUME NEW d \in Devices
            PROVE  /\ \A l \in Lists :
                        device'[d].known.list[l] >= device[d].known.list[l]
                   /\ \A i \in Items :
                        device'[d].known.item[i] >= device[d].known.item[i]
        <4>1. /\ \A l \in Lists : device[d].known.list[l] \in Nat
              /\ \A i \in Items : device[d].known.item[i] \in Nat
          BY <1>1 DEF IInv, TypeOK, Device, Known
        <4>2. CASE session[s].device = d
          BY <1>1, <3>1, <4>1, <4>2, AnswerStep, ReceivedContent
        <4>3. CASE session[s].device # d
          BY <1>1, <3>1, <4>1, <4>3, AnswerStep
        <4> QED
          BY <4>2, <4>3
      <3> QED
        BY <3>2
    <2>2. CASE ~\E s \in Sessions : Answer(s)
      <3>1. UNCHANGED device
        BY <1>1, <2>2
        DEF Next, Progress, Lock, ReadList, ReadItem, Write, Clash, Rollback, Commit,
            ReadSequence, ReadLists, BeginRest, BeginSync, GiveUp, Abort, vars
      <3> QED
        BY <3>1
    <2> QED
      BY <2>1, <2>2
  <1> QED
    BY <1>1, Invariance, PTL DEF Spec, NoStepBack

\* Only a commit changes the tables, and what it makes visible keeps every
\* tombstone, whatever the mutation had read.
THEOREM NothingRevived == Spec => TombstonesStay
  <1> DEFINE Kept == /\ \A l \in Lists : db.list[l].deleted => db'.list[l].deleted
                     /\ \A i \in Items : db.item[i].deleted => db'.item[i].deleted
  <1>1. ASSUME IInv, [Next]_vars PROVE [Kept]_db
    <2>1. CASE \E s \in Sessions : Commit(s)
      BY <1>1, <2>1, CommitAhead DEF Ahead, ListsStamped, ItemsStamped
    <2>2. CASE ~\E s \in Sessions : Commit(s)
      <3>1. UNCHANGED db
        BY <1>1, <2>2
        DEF Next, Progress, Lock, ReadList, ReadItem, Write, Clash, Rollback, Answer,
            ReadSequence, ReadLists, BeginRest, BeginSync, GiveUp, Abort, vars
      <3> QED
        BY <3>1
    <2> QED
      BY <2>1, <2>2
  <1> QED
    BY <1>1, Invariance, PTL DEF Spec, TombstonesStay

-----------------------------------------------------------------------------
(* The limit on the lines of a list                                        *)
(*                                                                         *)
(* The number of lines is read before the handler waits for the sequence   *)
(* row and not again after it, so it may have grown at the write.  What    *)
(* bounds it is how many handlers can be on their way to a write: every    *)
(* session but the owner has read the committed tables, and the owner,     *)
(* after its first write, reads its own.                                   *)

Placed(t) == \A i \in Items : t.item[i].list # NoList => t.item[i].seq > 0
Count(t, l) == Cardinality(ActiveItems(t, l))

\* The sessions that will add a line to list l once they get the sequence row.
Adding(l) ==
    {s \in Sessions : /\ session[s].pc = "write"
                      /\ Current(s).op = "item_create" /\ Current(s).list = l}

\* Committed tables d, tables w of the owner o, a set A of sessions that add to l.
Room(d, w, o, A, l) ==
    /\ Count(w, l) + Cardinality(A) < MaxActiveItems + Cardinality(Sessions)
    /\ Count(d, l) + Cardinality(A \ {o}) < MaxActiveItems + Cardinality(Sessions)
    /\ o \in Sessions /\ Count(d, l) < MaxActiveItems
        => Count(w, l) <= MaxActiveItems /\ (o \in A => Count(w, l) < MaxActiveItems)

\* A handler of a line has seen its list, one that fills a list has counted its lines.
CheckedInv(s) ==
    /\ session[s].pc \in {"item", "write"} /\ Current(s).op = "item_create"
        => View(s).list[Current(s).list] # NoListRow
    /\ session[s].pc = "write" /\ Current(s).op \in {"list_copy", "list_from_receipt"}
        => session[s].lines <= MaxActiveItems

LimitInv ==
    /\ Placed(db) /\ Placed(work)
    /\ \A s \in Sessions : CheckedInv(s)
    /\ \A l \in Lists : Room(db, work, owner, Adding(l), l)

StepOf(s) ==
    \/ Progress(s)
    \/ BeginRest(s)
    \/ \E d \in Devices : BeginSync(s, d)
    \/ GiveUp(s)
    \/ Abort(s)

\* A session without a transaction that writes leaves the tables alone.
LEMMA StepOfOne ==
    ASSUME IInv, NEW s \in Sessions, StepOf(s)
    PROVE  /\ Becomes(s, session'[s])
           /\ session[s].pc \notin Mutating => UNCHANGED <<db, work, owner>>
  <1>1. TypeOK /\ OwnerInv(s) /\ HandlerInv(s)
    BY DEF IInv, SessionInv
  <1>2. CASE BeginRest(s)
    BY <1>1, <1>2, BeginRestStep DEF BeginRest
  <1>3. CASE \E d \in Devices : BeginSync(s, d)
    BY <1>1, <1>3, BeginSyncStep DEF BeginSync
  <1>4. CASE GiveUp(s)
    BY <1>1, <1>4, GiveUpStep
  <1>5. CASE Lock(s)
    BY <1>1, <1>5, LockStep DEF Mutating
  <1>6. CASE ReadList(s)
    <2>1. session[s].todo # <<>> /\ session[s].pc \in Mutating
      BY <1>1, <1>6 DEF ReadList, HandlerInv, Mutating
    <2> QED
      BY <1>1, <1>6, <2>1, ReadListStep
  <1>7. CASE ReadItem(s)
    <2>1. session[s].todo # <<>> /\ session[s].pc \in Mutating
      BY <1>1, <1>7 DEF ReadItem, HandlerInv, Mutating
    <2> QED
      BY <1>1, <1>7, <2>1, ReadItemStep
  <1>8. CASE Write(s)
    <2>1. session[s].todo # <<>> /\ session[s].pc \in Mutating
      BY <1>1, <1>8 DEF Write, HandlerInv, Mutating
    <2> QED
      BY <1>1, <1>8, <2>1, WriteStep
  <1>9. CASE Clash(s) \/ Abort(s)
    <2>1. Rollback(s)
      BY <1>9 DEF Clash, Abort
    <2>2. Becomes(s, Idle) /\ session'[s] = Idle
      BY <1>1, <2>1, IdleStep DEF Rollback, Becomes
    <2>3. session[s].pc \notin Mutating => owner # s
      BY <1>1 DEF OwnerInv
    <2> QED
      BY <2>1, <2>2, <2>3 DEF Rollback
  <1>10. CASE Commit(s)
    BY <1>1, <1>10, CommitStep DEF Commit, Mutating
  <1>11. CASE ReadSequence(s)
    BY <1>1, <1>11, ReadSequenceStep DEF ReadSequence
  <1>12. CASE ReadLists(s)
    BY <1>1, <1>12, ReadListsStep DEF ReadLists
  <1>13. CASE Answer(s)
    <2>1. Becomes(s, Idle) /\ session'[s] = Idle
      BY <1>1, <1>13, IdleStep DEF Answer, Becomes
    <2> QED
      BY <1>13, <2>1 DEF Answer
  <1> QED
    BY <1>2, <1>3, <1>4, <1>5, <1>6, <1>7, <1>8, <1>9, <1>10, <1>11, <1>12, <1>13
    DEF StepOf, Progress

LEMMA ActiveCount ==
    ASSUME IsFiniteSet(Items), NEW t, NEW l
    PROVE  IsFiniteSet(ActiveItems(t, l)) /\ Cardinality(ActiveItems(t, l)) \in Nat
  <1>1. ActiveItems(t, l) \in SUBSET Items
    BY DEF ActiveItems
  <1> QED
    BY <1>1, FS_Subset, FS_CardinalityType

\* A list of which no line became active stays within the limit.
LEMMA FewerActive ==
    ASSUME IsFiniteSet(Items), NEW t, NEW u, NEW l,
           ActiveItems(u, l) \subseteq ActiveItems(t, l)
    PROVE  Cardinality(ActiveItems(u, l)) <= Cardinality(ActiveItems(t, l))
  BY ActiveCount, FS_Subset

\* A list that is not there has no lines.
LEMMA NoListNoLines ==
    ASSUME NEW t \in Tables, NEW l \in Lists, Covered(t), Placed(t), t.list[l] = NoListRow
    PROVE  \A i \in Items : t.item[i].list # l
  <1> SUFFICES ASSUME NEW i \in Items, t.item[i].list = l PROVE FALSE
    OBVIOUS
  <1>1. t.item[i].list # NoList /\ t.item[i].seq \in Nat
    BY ListAssumption DEF Tables, ItemRow
  <1>2. t.item[i].seq <= 0
    BY <1>1, RowTypes DEF Covered
  <1> QED
    BY <1>1, <1>2 DEF Placed

\* Placed lines stay placed: what changed has a new stamp.
LEMMA EffectPlaced ==
    ASSUME NEW t \in Tables, NEW u, NEW m \in Requests, Effect(t, u, m), Placed(t)
    PROVE  Placed(u)
  <1> SUFFICES ASSUME NEW i \in Items, u.item[i].list # NoList PROVE u.item[i].seq > 0
    BY DEF Placed
  <1>1. CASE u.item[i] = t.item[i]
    BY <1>1 DEF Placed
  <1>2. CASE u.item[i].seq \in (t.seq + 1)..u.seq
    <2>1. t.seq \in Nat /\ u.seq \in Nat
      BY DEF Effect, Tables
    <2> QED
      BY <1>2, <2>1
  <1> QED
    BY <1>1, <1>2 DEF Effect, ItemsStamped

LEMMA SetsOfSessions ==
    ASSUME IsFiniteSet(Sessions), NEW A \in SUBSET Sessions, NEW s
    PROVE  /\ Cardinality(A) \in Nat /\ Cardinality(A \ {s}) \in Nat /\ Cardinality(Sessions) \in Nat
           /\ Cardinality(A) <= Cardinality(Sessions) /\ Cardinality(A \ {s}) <= Cardinality(A)
           /\ s \in A => Cardinality(A) = Cardinality(A \ {s}) + 1
           /\ s \in Sessions => Cardinality(A \ {s}) < Cardinality(Sessions)
           /\ s \in Sessions => Cardinality(Sessions) > 0
  <1>1. /\ IsFiniteSet(A) /\ IsFiniteSet(A \ {s})
        /\ Cardinality(A) <= Cardinality(Sessions) /\ Cardinality(A \ {s}) <= Cardinality(A)
    <2>1. IsFiniteSet(A) /\ Cardinality(A) <= Cardinality(Sessions)
      BY FS_Subset
    <2>2. A \ {s} \in SUBSET A
      OBVIOUS
    <2> QED
      BY <2>1, <2>2, FS_Subset
  <1>2. Cardinality(A) \in Nat /\ Cardinality(A \ {s}) \in Nat /\ Cardinality(Sessions) \in Nat
    BY <1>1, FS_CardinalityType
  <1>3. ASSUME s \in A PROVE Cardinality(A) = Cardinality(A \ {s}) + 1
    BY <1>3, <1>1, FS_RemoveElement, <1>2
  <1>4. ASSUME s \in Sessions
        PROVE  Cardinality(A \ {s}) < Cardinality(Sessions)
    <2>1. Cardinality(Sessions \ {s}) = Cardinality(Sessions) - 1 /\ IsFiniteSet(Sessions \ {s})
      BY <1>4, FS_RemoveElement
    <2>2. A \ {s} \in SUBSET (Sessions \ {s})
      OBVIOUS
    <2>3. Cardinality(A \ {s}) <= Cardinality(Sessions \ {s})
      BY <2>1, <2>2, FS_Subset
    <2> QED
      BY <1>2, <2>1, <2>3
  <1> QED
    BY <1>1, <1>2, <1>3, <1>4

\* Sessions that leave the set leave room.
LEMMA RoomShrinks ==
    ASSUME IsFiniteSet(Items), IsFiniteSet(Sessions), NEW d, NEW w, NEW o, NEW l,
           NEW A \in SUBSET Sessions, NEW B \in SUBSET A, Room(d, w, o, A, l)
    PROVE  Room(d, w, o, B, l)
  <1>1. B \in SUBSET Sessions /\ B \ {o} \in SUBSET (A \ {o}) /\ A \ {o} \in SUBSET Sessions
    OBVIOUS
  <1>2. IsFiniteSet(A) /\ IsFiniteSet(A \ {o})
    BY <1>1, FS_Subset
  <1>3. Cardinality(B) <= Cardinality(A) /\ Cardinality(B \ {o}) <= Cardinality(A \ {o})
    BY <1>1, <1>2, FS_Subset
  <1>4. /\ Cardinality(A) \in Nat /\ Cardinality(B) \in Nat /\ Cardinality(A \ {o}) \in Nat
        /\ Cardinality(B \ {o}) \in Nat /\ Cardinality(Sessions) \in Nat
    BY <1>1, SetsOfSessions
  <1>5. Count(d, l) \in Nat /\ Count(w, l) \in Nat /\ MaxActiveItems \in Nat
    BY ActiveCount, ListAssumption DEF Count
  <1>6. (o \in B) => (o \in A)
    OBVIOUS
  <1> QED
    BY <1>3, <1>4, <1>5, <1>6 DEF Room

\* A session that has seen room joins.
LEMMA RoomJoined ==
    ASSUME IsFiniteSet(Items), IsFiniteSet(Sessions), NEW d, NEW w, NEW o, NEW l,
           o = NoSession => w = d, o \in Sessions \cup {NoSession},
           NEW A \in SUBSET Sessions, NEW s \in Sessions, Room(d, w, o, A, l),
           Count(IF o = s THEN w ELSE d, l) < MaxActiveItems
    PROVE  Room(d, w, o, A \cup {s}, l)
  <1> DEFINE B == A \cup {s}
             c == Cardinality(Sessions)
  <1>1. B \in SUBSET Sessions
    OBVIOUS
  <1>2. Count(d, l) \in Nat /\ Count(w, l) \in Nat /\ MaxActiveItems \in Nat
    BY ActiveCount, ListAssumption DEF Count
  <1> HIDE DEF B
  <1>3. /\ Cardinality(B) \in Nat /\ Cardinality(B \ {o}) \in Nat /\ c \in Nat
        /\ Cardinality(B) <= c /\ Cardinality(B \ {o}) <= Cardinality(B)
        /\ o \in B => Cardinality(B) = Cardinality(B \ {o}) + 1
        /\ o \in Sessions => Cardinality(B \ {o}) < c
        /\ o \notin B => B \ {o} = B
    BY <1>1, SetsOfSessions
  <1>4. (o \in B) => (o \in A \/ o = s)
    BY DEF B
  <1> HIDE DEF c
  <1>5. CASE o = s
    <2>1. B \ {o} = A \ {o}
      BY <1>5 DEF B
    <2> QED
      BY <1>2, <1>3, <1>5, <2>1 DEF Room, B, c
  <1>6. CASE o = NoSession
    <2>1. Count(d, l) < MaxActiveItems /\ Count(w, l) < MaxActiveItems
      BY <1>6
    <2>2. o \notin Sessions
      BY <1>6, ListAssumption
    <2> QED
      BY <1>2, <1>3, <2>1, <2>2 DEF Room, B, c
  <1>7. CASE o \in Sessions /\ o # s
    <2>1. Count(d, l) < MaxActiveItems
      BY <1>7
    <2>2. Count(w, l) <= MaxActiveItems /\ (o \in A => Count(w, l) < MaxActiveItems)
      BY <1>7, <2>1 DEF Room
    <2> QED
      BY <1>2, <1>3, <1>4, <1>7, <2>1, <2>2 DEF Room, B, c
  <1> QED
    BY <1>5, <1>6, <1>7

\* The owner writes a line, or writes none, or fills a list that nobody adds to.
LEMMA RoomWritten ==
    ASSUME IsFiniteSet(Items), IsFiniteSet(Sessions), NEW d, NEW w, NEW v, NEW o, NEW l,
           NEW s \in Sessions, o \in {s, NoSession}, o = NoSession => w = d,
           NEW A \in SUBSET Sessions, Room(d, w, o, A, l),
           \/ Count(v, l) <= Count(w, l)
           \/ s \in A /\ Count(v, l) <= Count(w, l) + 1
           \/ A = {} /\ Count(v, l) <= MaxActiveItems
    PROVE  Room(d, v, s, A \ {s}, l)
  <1> DEFINE B == A \ {s}
             c == Cardinality(Sessions)
  <1>1. B \in SUBSET Sessions /\ B \ {s} = B /\ s \notin B
    OBVIOUS
  <1>2. /\ Count(d, l) \in Nat /\ Count(w, l) \in Nat /\ Count(v, l) \in Nat
        /\ MaxActiveItems \in Nat
    BY ActiveCount, ListAssumption DEF Count
  <1>3. /\ Cardinality(A) \in Nat /\ Cardinality(B) \in Nat /\ c \in Nat /\ c > 0
        /\ Cardinality(B) <= Cardinality(A)
        /\ s \in A => Cardinality(A) = Cardinality(B) + 1
    BY SetsOfSessions
  <1>4. A = {} => Cardinality(B) = 0
    <2>1. Cardinality({}) = 0
      BY FS_EmptySet
    <2> QED
      BY <2>1
  <1>5. Count(d, l) + Cardinality(B) < MaxActiveItems + c
    <2>1. CASE o = s
      BY <2>1 DEF Room, B, c
    <2>2. CASE o = NoSession
      <3>1. Count(d, l) + Cardinality(A) < MaxActiveItems + c
        BY <2>2 DEF Room
      <3> HIDE DEF B, c
      <3> QED
        BY <1>2, <1>3, <3>1
    <2> QED
      BY <2>1, <2>2
  <1>6. Count(w, l) + Cardinality(A) < MaxActiveItems + c
    BY DEF Room
  <1>7. Count(d, l) < MaxActiveItems
            => Count(w, l) <= MaxActiveItems /\ (s \in A => Count(w, l) < MaxActiveItems)
    <2>1. CASE o = s
      BY <2>1 DEF Room
    <2>2. CASE o = NoSession
      BY <1>2, <2>2
    <2> QED
      BY <2>1, <2>2
  <1>8. /\ Count(v, l) + Cardinality(B) < MaxActiveItems + c
        /\ Count(d, l) < MaxActiveItems => Count(v, l) <= MaxActiveItems
    <2> HIDE DEF B, c
    <2>1. CASE Count(v, l) <= Count(w, l)
      BY <1>2, <1>3, <1>6, <1>7, <2>1
    <2>2. CASE s \in A /\ Count(v, l) <= Count(w, l) + 1
      BY <1>2, <1>3, <1>6, <1>7, <2>2
    <2>3. CASE A = {} /\ Count(v, l) <= MaxActiveItems
      BY <1>2, <1>3, <1>4, <2>3
    <2> QED
      BY <2>1, <2>2, <2>3
  <1> QED
    BY <1>1, <1>5, <1>8 DEF Room, B, c

-----------------------------------------------------------------------------
(* How many lines a write makes                                            *)

LEMMA CreatedCount ==
    ASSUME IsFiniteSet(Items), NEW t \in Tables, NEW m \in Requests, m.op = "item_create",
           NEW l \in Lists
    PROVE  /\ l = m.list => Count(ItemCreated(t, m), l) <= Count(t, l) + 1
           /\ l # m.list => Count(ItemCreated(t, m), l) <= Count(t, l)
  <1> DEFINE row == NewItem(m.list, t.seq + 1)
             u == ItemCreated(t, m)
  <1>1. m.item \in Items /\ t.item \in [Items -> ItemRow]
    BY RequestTypes DEF Tables
  <1>2. row.list = m.list
    BY DEF NewItem
  <1>3. u.item = [t.item EXCEPT ![m.item] = row]
    BY DEF ItemCreated, Recorded
  <1> HIDE DEF row, u
  <1>4. /\ u.item[m.item] = row
        /\ \A i \in Items \ {m.item} : u.item[i] = t.item[i]
    BY <1>1, <1>3
  <1>5. Count(u, l) \in Nat /\ Count(t, l) \in Nat
    BY ActiveCount DEF Count
  <1>6. ASSUME l = m.list PROVE Count(u, l) <= Count(t, l) + 1
    <2>1. ActiveItems(u, l) \in SUBSET (ActiveItems(t, l) \cup {m.item})
      BY <1>4 DEF ActiveItems
    <2>2. /\ IsFiniteSet(ActiveItems(t, l) \cup {m.item})
          /\ \/ Cardinality(ActiveItems(t, l) \cup {m.item}) = Count(t, l) + 1
             \/ Cardinality(ActiveItems(t, l) \cup {m.item}) = Count(t, l)
      BY ActiveCount, FS_AddElement DEF Count
    <2>3. Count(u, l) <= Cardinality(ActiveItems(t, l) \cup {m.item})
      BY <2>1, <2>2, FS_Subset DEF Count
    <2> QED
      BY <1>5, <2>2, <2>3
  <1>7. ASSUME l # m.list PROVE Count(u, l) <= Count(t, l)
    <2>1. ActiveItems(u, l) \subseteq ActiveItems(t, l)
      BY <1>2, <1>4, <1>7 DEF ActiveItems
    <2> QED
      BY <2>1, FewerActive DEF Count
  <1> QED
    BY <1>6, <1>7 DEF u

LEMMA PatchedCount ==
    ASSUME IsFiniteSet(Items), NEW t \in Tables, NEW m \in Requests, m.op = "item_patch",
           NEW read, NEW l \in Lists
    PROVE  Count(ItemPatched(t, m, read), l) <= Count(t, l)
  <1> DEFINE now == t.item[m.item]
             row == PatchedItem(now, read, m.change, t.seq + 1)
             u == ItemPatched(t, m, read)
  <1>1. m.item \in Items /\ t.item \in [Items -> ItemRow]
    BY RequestTypes DEF Tables
  <1>2. row.list = now.list /\ (now.deleted => row.deleted)
    BY DEF PatchedItem
  <1>3. u.item = [t.item EXCEPT ![m.item] = row]
    BY DEF ItemPatched, Recorded
  <1> HIDE DEF row, u
  <1>4. /\ u.item[m.item] = row
        /\ \A i \in Items \ {m.item} : u.item[i] = t.item[i]
    BY <1>1, <1>3
  <1>5. ActiveItems(u, l) \subseteq ActiveItems(t, l)
    BY <1>2, <1>4 DEF ActiveItems
  <1> QED
    BY <1>5, FewerActive DEF Count, u

\* A new list has as many lines as were counted.
LEMMA FilledCount ==
    ASSUME IsFiniteSet(Items), NEW t \in Tables, NEW m \in Requests, NEW n \in Nat,
           t.list[m.list] = NoListRow, Covered(t), Placed(t), NEW l \in Lists,
           NEW fresh \in SUBSET {i \in Items : t.item[i] = NoItemRow}, Cardinality(fresh) = n,
           NEW rank \in [fresh -> 1..n]
    PROVE  /\ l = m.list => Count(Filled(t, m, n, rank), l) <= n
           /\ l # m.list => Count(Filled(t, m, n, rank), l) <= Count(t, l)
  <1> DEFINE u == Filled(t, m, n, rank)
  <1>1. m.list \in Lists
    BY RequestTypes
  <1>2. u.item = [i \in Items |-> IF i \in DOMAIN rank
                                  THEN NewItem(m.list, t.seq + 1 + rank[i]) ELSE t.item[i]]
    BY DEF Filled, Recorded
  <1> HIDE DEF u
  <1>3. \A i \in fresh : u.item[i].list = m.list
    BY <1>2 DEF NewItem
  <1>4. \A i \in Items \ fresh : u.item[i] = t.item[i]
    BY <1>2
  <1>5. ASSUME l = m.list PROVE Count(u, l) <= n
    <2>1. \A i \in Items : t.item[i].list # l
      BY <1>1, <1>5, NoListNoLines
    <2>2. ActiveItems(u, l) \in SUBSET fresh
      BY <1>4, <2>1 DEF ActiveItems
    <2>3. fresh \in SUBSET Items
      OBVIOUS
    <2>4. IsFiniteSet(fresh)
      BY <2>3, FS_Subset
    <2> QED
      BY <2>2, <2>4, FS_Subset DEF Count
  <1>6. ASSUME l # m.list PROVE Count(u, l) <= Count(t, l)
    <2>1. ActiveItems(u, l) \subseteq ActiveItems(t, l)
      BY <1>3, <1>4, <1>6 DEF ActiveItems
    <2> QED
      BY <2>1, FewerActive DEF Count
  <1> QED
    BY <1>5, <1>6 DEF u

\* A list that is there stays.
LEMMA ListStays ==
    ASSUME NEW t \in Tables, NEW u \in Tables, ListsStamped(t, u), NEW l \in Lists,
           t.list[l] # NoListRow
    PROVE  u.list[l] # NoListRow
  <1>1. u.list[l] = t.list[l] \/ u.list[l].seq \in (t.seq + 1)..u.seq
    BY DEF ListsStamped
  <1>2. t.seq \in Nat /\ u.seq \in Nat /\ NoListRow.seq = 0
    BY RowTypes DEF Tables
  <1> QED
    BY <1>1, <1>2

-----------------------------------------------------------------------------
(* The steps                                                               *)

\* What another session sees when s takes a step: the same, or a commit.
LEMMA OthersView ==
    ASSUME IInv, NEW s \in Sessions, StepOf(s), NEW t \in Sessions \ {s}
    PROVE  View(t)' = View(t) \/ (View(t) = db /\ View(t)' = work)
  <1>1. owner \in Sessions \cup {NoSession} /\ s # NoSession /\ t # NoSession
    BY ListAssumption DEF IInv, TypeOK
  <1>2. CASE Write(s)
    BY <1>1, <1>2 DEF Write, CanWrite, View
  <1>3. CASE Clash(s) \/ Abort(s)
    BY <1>1, <1>3 DEF Clash, Abort, Rollback, View
  <1>4. CASE Commit(s)
    BY <1>1, <1>4 DEF Commit, View
  <1>5. CASE \/ Lock(s) \/ ReadList(s) \/ ReadItem(s) \/ ReadSequence(s) \/ ReadLists(s)
             \/ Answer(s) \/ BeginRest(s) \/ (\E d \in Devices : BeginSync(s, d)) \/ GiveUp(s)
    BY <1>5 DEF Lock, ReadList, ReadItem, ReadSequence, ReadLists, Answer, BeginRest,
                BeginSync, GiveUp, View
  <1> QED
    BY <1>2, <1>3, <1>4, <1>5 DEF StepOf, Progress

LEMMA OthersChecked ==
    ASSUME IInv, IInv', NEW s \in Sessions, StepOf(s), NEW t \in Sessions \ {s}, CheckedInv(t)
    PROVE  CheckedInv(t)'
  <1>1. session'[t] = session[t]
    BY StepOfOne DEF Becomes
  <1>2. Current(t)' = Current(t)
    BY <1>1 DEF Current
  <1>3. ASSUME session[t].pc \in {"item", "write"}, Current(t).op = "item_create"
        PROVE  View(t)'.list[Current(t).list] # NoListRow
    <2>1. Current(t).list \in Lists
      <3>1. TypeOK /\ session[t].todo # <<>>
        BY <1>3 DEF IInv, SessionInv, HandlerInv
      <3> QED
        BY <3>1, CurrentRequest, RequestTypes
    <2>2. View(t).list[Current(t).list] # NoListRow
      BY <1>3 DEF CheckedInv
    <2>3. db \in Tables /\ work \in Tables /\ ListsStamped(db, work)
      BY DEF IInv, TypeOK, TablesInv, Ahead
    <2> QED
      BY <2>1, <2>2, <2>3, OthersView, ListStays
  <1> QED
    BY <1>1, <1>2, <1>3 DEF CheckedInv

\* A handler that reads a list: it goes on with a line only if the list is there.
LEMMA ListChecked ==
    ASSUME IInv, NEW s \in Sessions, ReadList(s)
    PROVE  CheckedInv(s)' /\ UNCHANGED <<db, work, owner>> /\ (Current(s).op = "item_create" => session'[s].pc # "write")
  <1> DEFINE m == Current(s)
  <1>1. /\ TypeOK /\ session[s].todo # <<>> /\ session[s].pc = "list"
        /\ UNCHANGED <<db, work, owner>>
    BY DEF IInv, SessionInv, HandlerInv, ReadList
  <1>2. CASE Reject(s)
    BY <1>1, <1>2, RejectStep DEF CheckedInv
  <1> DEFINE row == IF m.op = "list_patch" THEN View(s).list[m.list] ELSE NoListRow
             pc == IF m.op \in {"list_create", "list_patch"} THEN "write" ELSE "item"
  <1>3. CASE ListAccepts(View(s), m) /\ session' = [session EXCEPT ![s].list = row, ![s].pc = pc]
    <2>1. /\ pc = "write" => m.op \in {"list_create", "list_patch"}
          /\ m.op = "item_create" => pc = "item"
      OBVIOUS
    <2>2. m.op = "item_create" => View(s).list[m.list] # NoListRow
      BY <1>3 DEF ListAccepts, IsMutable, NoListRow
    <2> HIDE DEF row, pc
    <2>3. session'[s].pc = pc /\ session'[s].todo = session[s].todo
      BY <1>1, <1>3 DEF TypeOK, Session
    <2>4. Current(s)' = m /\ View(s)' = View(s)
      BY <1>1, <2>3 DEF Current, View
    <2> QED
      BY <1>1, <2>1, <2>2, <2>3, <2>4 DEF CheckedInv
  <1> QED
    BY <1>1, <1>2, <1>3 DEF ReadList

LEMMA ItemChecked ==
    ASSUME IInv, NEW s \in Sessions, ReadItem(s), CheckedInv(s)
    PROVE  /\ CheckedInv(s)' /\ UNCHANGED <<db, work, owner>>
           /\ \/ session'[s].pc # "write"
              \/ /\ Current(s)' = Current(s)
                 /\ Current(s).op = "item_create"
                        => Count(View(s), Current(s).list) < MaxActiveItems
  <1> DEFINE m == Current(s)
             row == IF m.op = "item_patch" THEN View(s).item[m.item] ELSE NoItemRow
  <1>1. /\ TypeOK /\ session[s].todo # <<>> /\ session[s].pc = "item"
        /\ UNCHANGED <<db, work, owner>>
    BY DEF IInv, SessionInv, HandlerInv, ReadItem
  <1>2. CASE Reject(s)
    BY <1>1, <1>2, RejectStep DEF CheckedInv
  <1>3. ASSUME NEW n, ItemAccepts(View(s), m, n),
               session' = [session EXCEPT ![s].pc = "write", ![s].lines = n, ![s].item = row]
        PROVE  CheckedInv(s)' /\ Current(s)' = m
               /\ (m.op = "item_create" => Count(View(s), m.list) < MaxActiveItems)
    <2>1. /\ m.op = "item_create" => Count(View(s), m.list) < MaxActiveItems
          /\ m.op \in {"list_copy", "list_from_receipt"} => n <= MaxActiveItems
      BY <1>3 DEF ItemAccepts, Count
    <2> HIDE DEF row
    <2>2. session'[s].lines = n /\ session'[s].todo = session[s].todo
      BY <1>1, <1>3 DEF TypeOK, Session
    <2>3. Current(s)' = m /\ View(s)' = View(s)
      BY <1>1, <2>2 DEF Current, View
    <2> QED
      BY <1>1, <2>1, <2>2, <2>3 DEF CheckedInv
  <1> QED
    BY <1>1, <1>2, <1>3 DEF ReadItem

\* A device that gives up changes nothing else.
LEMMA GiveUpChecked ==
    ASSUME IInv, NEW s \in Sessions, GiveUp(s), CheckedInv(s)
    PROVE  /\ CheckedInv(s)' /\ UNCHANGED <<db, work, owner>>
           /\ session'[s].pc = session[s].pc /\ Current(s)' = Current(s)
  <1>1. session' = [session EXCEPT ![s].device = NoDevice] /\ UNCHANGED <<db, work, owner>>
    BY DEF GiveUp
  <1>2. /\ session'[s].pc = session[s].pc /\ session'[s].lines = session[s].lines
        /\ session'[s].todo = session[s].todo
    BY <1>1 DEF IInv, TypeOK, Session
  <1>3. Current(s)' = Current(s) /\ View(s)' = View(s)
    BY <1>1, <1>2 DEF Current, View
  <1> QED
    BY <1>1, <1>2, <1>3 DEF CheckedInv

\* No other step leaves a session before a write.
LEMMA OtherSteps ==
    ASSUME IInv, NEW s \in Sessions, StepOf(s), ~ReadList(s), ~ReadItem(s), ~GiveUp(s)
    PROVE  session'[s].pc \notin {"item", "write"}
  <1>1. TypeOK /\ HandlerInv(s)
    BY DEF IInv, SessionInv
  <1>2. CASE BeginRest(s) \/ Lock(s) \/ ReadSequence(s) \/ ReadLists(s)
    BY <1>1, <1>2, BeginRestStep, LockStep, ReadSequenceStep, ReadListsStep
  <1>3. CASE \E d \in Devices : BeginSync(s, d)
    BY <1>1, <1>3, BeginSyncStep
  <1>4. CASE Write(s)
    <2>1. session[s].todo # <<>>
      BY <1>1, <1>4 DEF Write, HandlerInv
    <2> QED
      BY <1>1, <1>4, <2>1, WriteStep
  <1>5. CASE Commit(s)
    BY <1>1, <1>5, CommitStep, SessionTypes
  <1>6. CASE Clash(s) \/ Abort(s) \/ Answer(s)
    <2>1. session' = [session EXCEPT ![s] = Idle]
      BY <1>6 DEF Clash, Abort, Rollback, Answer
    <2>2. session'[s].pc = "idle"
      BY <1>1, <2>1, SessionTypes DEF TypeOK
    <2> QED
      BY <2>2
  <1> QED
    BY <1>2, <1>3, <1>4, <1>5, <1>6 DEF StepOf, Progress

\* A step of s changes only whether s itself is on its way to a write.
LEMMA AddingStep ==
    ASSUME IInv, NEW s \in Sessions, StepOf(s), NEW l \in Lists
    PROVE  /\ Adding(l)' \subseteq Adding(l) \cup {s}
           /\ s \in Adding(l)' => /\ session'[s].pc = "write"
                                  /\ Current(s)'.op = "item_create" /\ Current(s)'.list = l
           /\ session'[s].pc # "write" => Adding(l)' \subseteq Adding(l) \ {s}
  <1>1. \A t \in Sessions \ {s} : session'[t] = session[t] /\ Current(t)' = Current(t)
    BY StepOfOne DEF Becomes, Current
  <1>2. \A t \in Adding(l)' : /\ t \in Sessions /\ session'[t].pc = "write"
                              /\ Current(t)'.op = "item_create" /\ Current(t)'.list = l
    BY DEF Adding
  <1>3. \A t \in Adding(l)' : t # s => t \in Adding(l)
    BY <1>1, <1>2 DEF Adding
  <1> QED
    BY <1>2, <1>3

\* A list that a transaction is about to fill is one that nobody adds to.
LEMMA NobodyAdds ==
    ASSUME IInv, LimitInv, NEW l \in Lists, work.list[l] = NoListRow
    PROVE  Adding(l) = {}
  <1> SUFFICES ASSUME NEW t \in Sessions, session[t].pc = "write",
                      Current(t).op = "item_create", Current(t).list = l
               PROVE  FALSE
    BY DEF Adding
  <1>1. View(t).list[l] # NoListRow
    BY DEF LimitInv, CheckedInv
  <1>2. db \in Tables /\ work \in Tables /\ ListsStamped(db, work)
    BY DEF IInv, TypeOK, TablesInv, Ahead
  <1>3. CASE View(t) = work
    BY <1>1, <1>3
  <1>4. CASE View(t) = db
    BY <1>1, <1>2, <1>4, ListStays
  <1> QED
    BY <1>3, <1>4 DEF View

\* A write makes no line active on a list, or the one line of a session that
\* adds to it, or fills a list.
LEMMA WriteCount ==
    ASSUME IsFiniteSet(Items), IInv, LimitInv, NEW s \in Sessions, Write(s), NEW l \in Lists
    PROVE  \/ Count(work', l) <= Count(work, l)
           \/ s \in Adding(l) /\ Count(work', l) <= Count(work, l) + 1
           \/ Adding(l) = {} /\ Count(work', l) <= MaxActiveItems
  <1> DEFINE m == Current(s)
  <1>1. /\ session[s].pc = "write" /\ m \in Requests
        /\ work \in Tables /\ Covered(work) /\ Placed(work)
    <2>1. TypeOK /\ HandlerInv(s) /\ session[s].pc = "write"
      BY DEF IInv, SessionInv, Write
    <2>2. session[s].todo # <<>>
      BY <2>1 DEF HandlerInv
    <2> QED
      BY <2>1, <2>2, CurrentRequest DEF IInv, TypeOK, TablesInv, LimitInv
  <1>2. CASE work'.item = work.item
    <2>1. ActiveItems(work', l) \subseteq ActiveItems(work, l)
      BY <1>2 DEF ActiveItems
    <2> QED
      BY <2>1, FewerActive DEF Count
  <1>3. CASE m.op = "item_create" /\ work' = ItemCreated(work, m)
    <2>1. l = m.list => s \in Adding(l)
      BY <1>1, <1>3 DEF Adding
    <2> QED
      BY <1>1, <1>3, <2>1, CreatedCount
  <1>4. CASE m.op = "item_patch" /\ work' = ItemPatched(work, m, session[s].item)
    BY <1>1, <1>4, PatchedCount
  <1>5. CASE /\ m.op \in {"list_copy", "list_from_receipt"}
             /\ ListFilled(work, m, session[s].lines)
    <2>1. work.list[m.list] = NoListRow
      BY <1>5 DEF Write, Clashes
    <2>2. session[s].lines \in Nat /\ session[s].lines <= MaxActiveItems /\ MaxActiveItems \in Nat
      BY <1>1, <1>5, ListAssumption DEF IInv, TypeOK, Session, LimitInv, CheckedInv
    <2>3. PICK fresh \in SUBSET {i \in Items : work.item[i] = NoItemRow} :
               /\ Cardinality(fresh) = session[s].lines
               /\ \E rank \in Numbered(fresh, session[s].lines) :
                      work' = Filled(work, m, session[s].lines, rank)
      BY <1>5 DEF ListFilled
    <2>4. PICK rank \in [fresh -> 1..session[s].lines] :
                work' = Filled(work, m, session[s].lines, rank)
      BY <2>3 DEF Numbered
    <2> HIDE DEF m
    <2>5. /\ l = m.list => Count(work', l) <= session[s].lines
          /\ l # m.list => Count(work', l) <= Count(work, l)
      BY <1>1, <2>1, <2>2, <2>3, <2>4, FilledCount
    <2>6. CASE l = m.list
      <3>1. Count(work', l) \in Nat
        BY ActiveCount DEF Count
      <3> QED
        BY <2>1, <2>2, <2>5, <2>6, <3>1, NobodyAdds
    <2> QED
      BY <2>5, <2>6
  <1>6. CASE \/ m.op = "list_create" /\ work' = ListCreated(work, m)
             \/ m.op = "list_patch" /\ work' = ListPatched(work, m, session[s].list)
    BY <1>2, <1>6 DEF ListCreated, ListPatched, Recorded
  <1> QED
    BY <1>3, <1>4, <1>5, <1>6 DEF Write, Apply

\* A transaction ends, with its tables or without.
LEMMA RoomEnds ==
    ASSUME IsFiniteSet(Items), IsFiniteSet(Sessions), NEW d, NEW w, NEW l,
           NEW s \in Sessions, NEW A \in SUBSET Sessions, Room(d, w, s, A, l), NEW t \in {d, w}
    PROVE  Room(t, t, NoSession, A \ {s}, l)
  <1> DEFINE B == A \ {s}
             c == Cardinality(Sessions)
  <1>1. NoSession \notin Sessions /\ B \ {NoSession} = B
    BY ListAssumption
  <1>2. Count(d, l) \in Nat /\ Count(w, l) \in Nat /\ MaxActiveItems \in Nat
    BY ActiveCount, ListAssumption DEF Count
  <1>3. /\ Cardinality(A) \in Nat /\ Cardinality(B) \in Nat /\ c \in Nat
        /\ Cardinality(B) <= Cardinality(A)
    BY SetsOfSessions
  <1>4. /\ Count(w, l) + Cardinality(A) < MaxActiveItems + c
        /\ Count(d, l) + Cardinality(B) < MaxActiveItems + c
    BY DEF Room, B, c
  <1> HIDE DEF B, c
  <1>5. Count(t, l) + Cardinality(B) < MaxActiveItems + c
    <2>1. CASE t = d
      BY <1>4, <2>1
    <2>2. CASE t = w
      BY <1>2, <1>3, <1>4, <2>2
    <2> QED
      BY <2>1, <2>2
  <1> QED
    BY <1>1, <1>5 DEF Room, B, c

LEMMA RoomStep ==
    ASSUME IsFiniteSet(Items), IsFiniteSet(Sessions), IInv, LimitInv,
           NEW s \in Sessions, StepOf(s), NEW l \in Lists
    PROVE  Room(db', work', owner', Adding(l)', l)
  <1> PICK A : A = Adding(l)
    OBVIOUS
  <1> PICK B : B = Adding(l)'
    OBVIOUS
  <1>1. /\ A \in SUBSET Sessions /\ A \ {s} \in SUBSET Sessions /\ A \cup {s} \in SUBSET Sessions
        /\ B \in SUBSET (A \cup {s})
        /\ session'[s].pc # "write" => B \in SUBSET (A \ {s})
    <2>1. A \in SUBSET Sessions
      BY DEF Adding
    <2> QED
      BY <2>1, AddingStep
  <1>2. Room(db, work, owner, A, l)
    BY DEF LimitInv
  <1>3. owner \in Sessions \cup {NoSession} /\ (owner = NoSession => work = db)
    BY DEF IInv, TypeOK, TablesInv
  <1>4. CASE B \in SUBSET A /\ UNCHANGED <<db, work, owner>>
    BY <1>1, <1>2, <1>4, RoomShrinks
  <1>5. CASE GiveUp(s)
    <2>1. UNCHANGED <<db, work, owner>> /\ session'[s].pc = session[s].pc
          /\ Current(s)' = Current(s)
      BY <1>5, GiveUpChecked DEF LimitInv
    <2>2. s \in B => s \in A
      BY <2>1, AddingStep DEF Adding
    <2> QED
      BY <1>1, <1>4, <2>1, <2>2
  <1>6. CASE ReadList(s)
    <2>1. UNCHANGED <<db, work, owner>>
      BY <1>6 DEF ReadList
    <2>2. s \notin B
      <3> SUFFICES ASSUME s \in B PROVE FALSE
        OBVIOUS
      <3>1. session'[s].pc = "write" /\ Current(s)'.op = "item_create"
        BY AddingStep
      <3>2. TypeOK /\ session[s].todo # <<>>
        BY <1>6 DEF IInv, SessionInv, HandlerInv, ReadList
      <3>3. CASE Reject(s)
        BY <3>1, <3>2, <3>3, RejectStep
      <3>4. CASE ~Reject(s)
        <4>1. session'[s].todo = session[s].todo
          BY <1>6, <3>2, <3>4 DEF ReadList, TypeOK, Session
        <4>2. Current(s)' = Current(s)
          BY <4>1 DEF Current
        <4> QED
          BY <1>6, <3>1, <4>2, ListChecked
      <3> QED
        BY <3>3, <3>4
    <2> QED
      BY <1>1, <1>4, <2>1, <2>2
  <1>7. CASE ReadItem(s)
    <2>1. UNCHANGED <<db, work, owner>>
      BY <1>7 DEF ReadItem
    <2>2. CASE s \notin B
      BY <1>1, <1>4, <2>1, <2>2
    <2>3. CASE s \in B
      <3>1. /\ session'[s].pc = "write" /\ Current(s)'.op = "item_create"
            /\ Current(s)'.list = l
        BY <2>3, AddingStep
      <3>2. Count(View(s), l) < MaxActiveItems
        BY <1>7, <3>1, ItemChecked DEF LimitInv
      <3>3. Room(db, work, owner, A \cup {s}, l)
        BY <1>1, <1>2, <1>3, <3>2, RoomJoined DEF View
      <3> QED
        BY <1>1, <2>1, <3>3, RoomShrinks
    <2> QED
      BY <2>2, <2>3
  <1>8. CASE ~ReadList(s) /\ ~ReadItem(s) /\ ~GiveUp(s)
    <2>1. B \in SUBSET (A \ {s})
      BY <1>1, <1>8, OtherSteps
    <2>2. CASE UNCHANGED <<db, work, owner>>
      BY <1>1, <1>4, <2>1, <2>2
    <2>3. CASE Write(s)
      <3>1. owner \in {s, NoSession} /\ owner' = s /\ db' = db
        BY <2>3 DEF Write, CanWrite
      <3>2. \/ Count(work', l) <= Count(work, l)
            \/ s \in A /\ Count(work', l) <= Count(work, l) + 1
            \/ A = {} /\ Count(work', l) <= MaxActiveItems
        BY <2>3, WriteCount
      <3>3. Room(db, work', s, A \ {s}, l)
        BY <1>1, <1>2, <1>3, <3>1, <3>2, RoomWritten
      <3> QED
        BY <1>1, <2>1, <3>1, <3>3, RoomShrinks
    <2>4. CASE owner = s /\ db' \in {db, work} /\ work' = db' /\ owner' = NoSession
      <3>1. Room(db', work', NoSession, A \ {s}, l)
        BY <1>1, <1>2, <2>4, RoomEnds
      <3> QED
        BY <1>1, <2>1, <2>4, <3>1, RoomShrinks
    <2>5. CASE Clash(s) \/ Abort(s)
      BY <2>2, <2>4, <2>5 DEF Clash, Abort, Rollback
    <2>6. CASE Commit(s)
      BY <2>2, <2>4, <2>6 DEF Commit, View
    <2>7. CASE \/ BeginRest(s) \/ (\E d \in Devices : BeginSync(s, d)) \/ Lock(s)
               \/ ReadSequence(s) \/ ReadLists(s) \/ Answer(s)
      BY <2>2, <2>7 DEF BeginRest, BeginSync, Lock, ReadSequence, ReadLists, Answer
    <2> QED
      BY <1>8, <2>3, <2>5, <2>6, <2>7 DEF StepOf, Progress
  <1> QED
    BY <1>5, <1>6, <1>7, <1>8

LEMMA PlacedStep ==
    ASSUME IInv, LimitInv, NEW s \in Sessions, StepOf(s)
    PROVE  Placed(db') /\ Placed(work')
  <1>1. Placed(db) /\ Placed(work)
    BY DEF LimitInv
  <1>2. CASE Write(s)
    <2>1. TypeOK /\ TablesInv /\ HandlerInv(s) /\ work \in Tables
      BY DEF IInv, SessionInv, TypeOK
    <2>2. Current(s) \in Requests /\ Effect(work, work', Current(s))
      BY <1>2, <2>1, WriteEffect
    <2>3. db' = db
      BY <1>2 DEF Write
    <2> QED
      BY <1>1, <2>1, <2>2, <2>3, EffectPlaced
  <1>3. CASE Clash(s) \/ Abort(s) \/ Commit(s)
    BY <1>1, <1>3 DEF Clash, Abort, Rollback, Commit, View
  <1>4. CASE \/ BeginRest(s) \/ (\E d \in Devices : BeginSync(s, d)) \/ GiveUp(s) \/ Lock(s)
             \/ ReadList(s) \/ ReadItem(s) \/ ReadSequence(s) \/ ReadLists(s) \/ Answer(s)
    BY <1>1, <1>4 DEF BeginRest, BeginSync, GiveUp, Lock, ReadList, ReadItem,
                      ReadSequence, ReadLists, Answer
  <1> QED
    BY <1>2, <1>3, <1>4 DEF StepOf, Progress

LEMMA LimitStep ==
    ASSUME IsFiniteSet(Items), IsFiniteSet(Sessions), IInv, IInv', LimitInv, [Next]_vars
    PROVE  LimitInv'
  <1>1. CASE UNCHANGED vars
    BY <1>1 DEF vars, LimitInv, CheckedInv, Placed, Room, Count, ActiveItems, Adding,
                Current, View
  <1>2. ASSUME NEW s \in Sessions, StepOf(s) PROVE LimitInv'
    <2>1. CheckedInv(s)'
      <3>1. CheckedInv(s)
        BY DEF LimitInv
      <3>2. CASE ReadList(s) \/ ReadItem(s) \/ GiveUp(s)
        BY <3>1, <3>2, ListChecked, ItemChecked, GiveUpChecked
      <3>3. CASE ~ReadList(s) /\ ~ReadItem(s) /\ ~GiveUp(s)
        BY <1>2, <3>3, OtherSteps DEF CheckedInv
      <3> QED
        BY <3>2, <3>3
    <2>2. ASSUME NEW t \in Sessions \ {s} PROVE CheckedInv(t)'
      BY <1>2, OthersChecked DEF LimitInv
    <2>3. ASSUME NEW l \in Lists PROVE Room(db, work, owner, Adding(l), l)'
      <3>1. Room(db', work', owner', Adding(l)', l)
        BY <1>2, RoomStep
      <3> QED
        BY <3>1 DEF Room, Count, ActiveItems
    <2>4. Placed(db)' /\ Placed(work)'
      BY <1>2, PlacedStep DEF Placed
    <2> QED
      BY <2>1, <2>2, <2>3, <2>4 DEF LimitInv
  <1> QED
    BY <1>1, <1>2 DEF Next, StepOf

\* However many transactions that add lines overlap, and however many lines each of
\* them adds, a list has fewer lines beyond its limit than there are sessions.
THEOREM LimitNearlyKept ==
    ASSUME IsFiniteSet(Items), IsFiniteSet(Sessions)
    PROVE  Spec => []ItemLimit
  <1>1. Init => LimitInv
    <2> SUFFICES ASSUME Init PROVE LimitInv
      OBVIOUS
    <2>1. /\ db = EmptyTables /\ work = EmptyTables /\ owner = NoSession
          /\ \A s \in Sessions : session[s].pc = "idle"
      BY DEF Init, Idle
    <2>2. Placed(EmptyTables)
      BY DEF Placed, EmptyTables, NoItemRow
    <2>3. ASSUME NEW s \in Sessions PROVE CheckedInv(s)
      BY <2>1 DEF CheckedInv
    <2>4. ASSUME NEW l \in Lists PROVE Room(db, work, owner, Adding(l), l)
      <3>1. ActiveItems(EmptyTables, l) = {} /\ Adding(l) = {}
        BY <2>1, ListAssumption DEF ActiveItems, EmptyTables, NoItemRow, Adding
      <3>2. Cardinality({}) = 0
        BY FS_EmptySet
      <3>3. Cardinality(Sessions) \in Nat /\ MaxActiveItems \in Nat \ {0}
        BY FS_CardinalityType, ListAssumption
      <3>4. {} \ {owner} = {} /\ owner \notin Sessions
        BY <2>1, ListAssumption
      <3>5. Count(db, l) = 0 /\ Count(work, l) = 0
        BY <2>1, <3>1, <3>2 DEF Count
      <3> QED
        BY <3>1, <3>2, <3>3, <3>4, <3>5 DEF Room
    <2> QED
      BY <2>1, <2>2, <2>3, <2>4 DEF LimitInv
  <1>2. IInv /\ IInv' /\ LimitInv /\ [Next]_vars => LimitInv'
    BY LimitStep
  <1>3. IInv /\ LimitInv => ItemLimit
    <2> SUFFICES ASSUME LimitInv, NEW l \in Lists
                 PROVE  Count(db, l) < MaxActiveItems + Cardinality(Sessions)
      BY DEF ItemLimit, Count
    <2>1. Count(db, l) + Cardinality(Adding(l) \ {owner}) < MaxActiveItems + Cardinality(Sessions)
      BY DEF LimitInv, Room
    <2>2. Adding(l) \in SUBSET Sessions
      BY DEF Adding
    <2>3. /\ Count(db, l) \in Nat /\ Cardinality(Adding(l) \ {owner}) \in Nat
          /\ MaxActiveItems \in Nat /\ Cardinality(Sessions) \in Nat
      BY <2>2, ActiveCount, SetsOfSessions, FS_CardinalityType, ListAssumption DEF Count
    <2> QED
      BY <2>1, <2>3
  <1> QED
    BY <1>1, <1>2, <1>3, Invariance, PTL DEF Spec
=============================================================================
