-------------------------- MODULE ListClientProofs --------------------------
(***************************************************************************)
(* Theorems about ListClient, for every value of its constants: types,     *)
(* that no edit is lost, and that a settled device agrees with the server. *)
(*                                                                         *)
(* ClientInv says what connects the outbox, the batch that is being sent,  *)
(* the log of the server and the conflicts.  Its heart is EditsHeld: what  *)
(* the device shows of a row is on the server since the version in Room,   *)
(* or is carried by an edit that may be sent again without harm, because   *)
(* what was applied of it has arrived there too.                           *)
(*                                                                         *)
(* AgreeInv, further down, adds what connects the cursor with the stamps   *)
(* of the server.  Its heart is Followed: a row stamped no later than the  *)
(* cursor is on the device as the server has it, unless an edit protects   *)
(* it, and what an applied edit reached comes with a later answer.         *)
(***************************************************************************)
EXTENDS ListClient, FiniteFacts

-----------------------------------------------------------------------------
(* The inductive invariant                                                 *)

Waiting == outbox \cup InHand
Id(o) == o.mutation.id
RowOfEdit(o) == o.mutation.row

ServerRecord ==
    [row : [Rows -> Seq(Value)], stamp : [Rows -> Nat], seq : Nat, log : SUBSET Mutation]
SentRows == UNION {[some -> Versioned] : some \in SUBSET Rows}
AnswerRecord ==
    [full : BOOLEAN, expired : BOOLEAN, rows : SentRows, refusals : SUBSET Conflict, cursor : Nat]
SyncRecord == [phase : Phases, batch : Seq(OutboxRow), marked : Nat, answer : AnswerRecord]
Resolution == [conflict : 1..MaxMutations, rows : SUBSET OutboxRow]

ServerTyped == server \in ServerRecord
RoomTyped ==
    /\ local \in [Rows -> Versioned]
    /\ outbox \subseteq OutboxRow
    /\ conflicts \subseteq Conflict
    /\ cursor \in Nat /\ cursor <= server.seq
    /\ forgone \subseteq Rows
HandTyped == resolving \subseteq Resolution /\ \A g, h \in resolving : g = h
SyncTyped ==
    /\ sync \in SyncRecord
    /\ sync.marked <= Len(sync.batch)
    /\ sync.answer.cursor <= server.seq
    /\ sync.phase = "idle" => sync = NoSync
    /\ sync.phase = "answered" => sync.marked = Len(sync.batch)
RestTyped ==
    /\ made \in 0..MaxMutations
    /\ left \in [remote : Nat, faults : Nat, expiries : Nat]
    /\ wanted \in BOOLEAN /\ owed \in {"none", "enqueue", "forgotten"}

Typed == ServerTyped /\ RoomTyped /\ HandTyped /\ SyncTyped /\ RestTyped

\* IDs and times number what the device made, and name one row each.
Numbered ==
    /\ \A o \in Waiting : Id(o) <= made /\ o.createdAt <= made
    /\ \A m \in server.log : m.id <= made
    /\ \A c \in conflicts : c.id <= made
    /\ \A h \in resolving : h.conflict <= made
    /\ \A o, p \in Waiting : Id(o) = Id(p) \/ o.createdAt = p.createdAt => o = p
    /\ \A o \in outbox : o \notin InHand

SameEdit(o, p) ==
    /\ Id(o) = Id(p) /\ o.createdAt = p.createdAt
    /\ RowOfEdit(o) = RowOfEdit(p) /\ o.mutation.op = p.mutation.op

\* Row n of the batch stands in the outbox as the worker has it.
Exact(n) ==
    \/ sync.phase = "answered"
    \/ sync.phase = "marking" /\ n <= sync.marked
    \/ sync.phase = "failed" /\ n > sync.marked

InFlight(o) == [o EXCEPT !.status = "in_flight"]

\* The rows of the batch are in the outbox all the time, as they were read unless
\* an edit was merged into one before it was marked, and then it is forgone.
Batched ==
    /\ \A m, n \in DOMAIN sync.batch : Id(sync.batch[m]) = Id(sync.batch[n]) => m = n
    /\ \A n \in DOMAIN sync.batch : \E o \in outbox :
        /\ SameEdit(o, sync.batch[n])
        /\ o.status # "conflict"
        /\ Exact(n) => o = InFlight(sync.batch[n])
        /\ sync.phase = "marking" /\ ~Exact(n) =>
               \/ o.mutation = sync.batch[n].mutation
               \/ RowOfEdit(o) \in forgone /\ o.mutation.op = "patch"

\* A conflict is not being sent, and its row of the outbox waits for the user.
Settling ==
    /\ \A c \in conflicts, n \in DOMAIN sync.batch : Id(sync.batch[n]) # c.id
    /\ \A c \in conflicts, o \in outbox :
            Id(o) = c.id => o.status = "conflict" /\ RowOfEdit(o) = c.row
    /\ \A h \in resolving, n \in DOMAIN sync.batch : Id(sync.batch[n]) # h.conflict
    /\ \A h \in resolving, o \in outbox : Id(o) = h.conflict => o.status = "conflict"
    /\ \A h \in resolving, o \in InHand : Id(o) # h.conflict
    /\ \A c \in conflicts, o \in InHand : Id(o) # c.id

\* A creation carries a whole row.
Creations ==
    \A o \in Waiting : o.mutation.op = "create" =>
        o.mutation.deletion = Unchanged /\ o.mutation.content # Unchanged

\* The log knows an edit by its ID, and has none that the user has just kept.
LogRows ==
    /\ \A m \in server.log, o \in Waiting : m.id = Id(o) => m.row = RowOfEdit(o)
    /\ \A m \in server.log, o \in InHand : m.id # Id(o)

\* An answer says what the server had; what it does not refuse is in the log.
AnswerTrue ==
    sync.phase = "answered" =>
        /\ \A r \in DOMAIN sync.answer.rows :
            /\ sync.answer.rows[r].version \in DOMAIN server.row[r]
            /\ sync.answer.rows[r].value = server.row[r][sync.answer.rows[r].version]
        /\ ~sync.answer.expired => \A n \in DOMAIN sync.batch :
                \/ sync.batch[n].mutation \in server.log
                \/ \E c \in sync.answer.refusals : c.id = Id(sync.batch[n])
        /\ \A c \in sync.answer.refusals : \E n \in DOMAIN sync.batch :
               c.id = Id(sync.batch[n]) /\ c.row = RowOfEdit(sync.batch[n])
        /\ sync.answer.expired => sync.answer.refusals = {}

Versions == \A r \in Rows \ forgone : local[r].version <= Len(server.row[r]) + 1

Wrote(v, m) ==
    /\ m.content # Unchanged => v.content = m.content
    /\ v.deleted = (m.deletion = "delete")

\* What was applied of the edit o is on the server since the version in Room.
Arrived(o) ==
    \A m \in server.log : m.id = Id(o) =>
        \E k \in DOMAIN server.row[RowOfEdit(o)] :
            /\ k >= local[RowOfEdit(o)].version
            /\ Wrote(server.row[RowOfEdit(o)][k], m)

LinesArrive == \A o \in Waiting : RowOfEdit(o) \in Lines \ forgone => Arrived(o)

\* Edits that may still be sent: not the one that the user is giving up.
Carriers == {o \in Waiting : \A h \in resolving : Id(o) # h.conflict}

\* What the device shows of a row is on the server, or carried there.
CarriesContent(o, r) ==
    RowOfEdit(o) = r /\ Arrived(o) /\ o.mutation.content = local[r].value.content
CarriesDeletion(o, r) ==
    /\ RowOfEdit(o) = r /\ Arrived(o)
    /\ IF local[r].value.deleted THEN o.mutation.deletion = "delete"
       ELSE o.mutation.deletion = "restore" \/ o.mutation.op = "create"
ContentHeld(r) ==
    \/ \E v \in Since(r) : v.content = local[r].value.content
    \/ \E o \in Carriers : CarriesContent(o, r)
DeletionHeld(r) ==
    \/ \E v \in Since(r) : v.deleted = local[r].value.deleted
    \/ \E o \in Carriers : CarriesDeletion(o, r)

EditsHeld == \A r \in Rows \ forgone : local[r] # Missing => ContentHeld(r) /\ DeletionHeld(r)

ClientInv ==
    /\ Typed
    /\ Numbered
    /\ Batched
    /\ Settling
    /\ Creations
    /\ LogRows
    /\ AnswerTrue
    /\ Versions
    /\ LinesArrive
    /\ EditsHeld

-----------------------------------------------------------------------------
(* Records                                                                 *)

LEMMA RowContents ==
    /\ \A r \in Rows : HomeOf(r) \in Rows
    /\ \A r \in Rows : \A c \in ContentsOf(r) : c \in AnyContent /\ Live(c) \in Value
    /\ Missing \in Versioned /\ Missing.version = 0
    /\ Unchanged \notin AnyContent
    /\ NoJson \in Json
  BY ClientAssumption
     DEF Rows, HomeOf, ContentsOf, AnyContent, Live, Value, Missing, Versioned, NoJson, Json

LEMMA LiveFields == \A c : Live(c).content = c /\ Live(c).deleted = FALSE
  BY DEF Live

\* A row of the outbox that gets another status.
LEMMA StatusRows ==
    ASSUME NEW o \in OutboxRow, NEW st \in Statuses
    PROVE  LET p == [o EXCEPT !.status = st]
           IN  /\ p \in OutboxRow /\ p.mutation = o.mutation
               /\ p.createdAt = o.createdAt /\ p.status = st
               /\ SameEdit(p, o)
  BY DEF OutboxRow, SameEdit, Id, RowOfEdit

\* Rows in flight are the same if their edits are.
LEMMA InFlightRows ==
    ASSUME NEW o \in OutboxRow
    PROVE  /\ InFlight(o) \in OutboxRow /\ InFlight(o).mutation = o.mutation
           /\ InFlight(o).createdAt = o.createdAt /\ InFlight(o).status = "in_flight"
           /\ SameEdit(InFlight(o), o)
  BY StatusRows DEF InFlight, Statuses

LEMMA NewRows ==
    ASSUME NEW m \in Mutation
    PROVE  /\ NewOutboxRow(m) \in OutboxRow /\ NewOutboxRow(m).mutation = m
           /\ NewOutboxRow(m).createdAt = m.id /\ NewOutboxRow(m).status = "pending"
  BY DEF NewOutboxRow, OutboxRow, Mutation, Statuses

MergedRow(o, content, deletion) == [o EXCEPT !.mutation = Merge(@, content, deletion)]

Merges(p, o, content, deletion) ==
    /\ p \in OutboxRow /\ SameEdit(p, o) /\ p.status = o.status
    /\ p.mutation.content = IF content = Unchanged THEN o.mutation.content ELSE content
    /\ p.mutation.deletion = IF deletion = Unchanged THEN o.mutation.deletion ELSE deletion

LEMMA MergedRows ==
    ASSUME NEW o \in OutboxRow, NEW content \in AnyContent \cup {Unchanged},
           NEW deletion \in {Unchanged, "delete", "restore"}
    PROVE  Merges(MergedRow(o, content, deletion), o, content, deletion)
  <1>a. PICK p : p = MergedRow(o, content, deletion)
    OBVIOUS
  <1> DEFINE m == Merge(o.mutation, content, deletion)
  <1>1. o.mutation \in Mutation
    BY DEF OutboxRow
  <1>2. /\ m \in Mutation /\ m.id = o.mutation.id /\ m.row = o.mutation.row /\ m.op = o.mutation.op
        /\ m.content = IF content = Unchanged THEN o.mutation.content ELSE content
        /\ m.deletion = IF deletion = Unchanged THEN o.mutation.deletion ELSE deletion
    BY <1>1 DEF Merge, Mutation
  <1>3. p = [o EXCEPT !.mutation = m]
    BY <1>a DEF MergedRow
  <1> HIDE DEF m
  <1>4. p \in OutboxRow /\ p.mutation = m /\ p.createdAt = o.createdAt /\ p.status = o.status
    BY <1>2, <1>3 DEF OutboxRow
  <1>5. SameEdit(p, o)
    BY <1>2, <1>4 DEF SameEdit, Id, RowOfEdit
  <1> QED BY <1>a, <1>2, <1>4, <1>5 DEF Merges

\* What the server has of a row.
LEMMA CurrentRow ==
    ASSUME NEW s \in ServerRecord, NEW r \in Rows
    PROVE  /\ Current(s, r) \in Versioned
           /\ Current(s, r).version = Len(s.row[r])
           /\ s.row[r] # <<>> =>
                /\ Len(s.row[r]) \in DOMAIN s.row[r]
                /\ Current(s, r).value = s.row[r][Len(s.row[r])]
           /\ Current(s, r) # Missing => s.row[r] # <<>>
  <1> DEFINE rows == s.row[r]
  <1>1. rows \in Seq(Value)
    BY DEF ServerRecord
  <1>2. CASE rows = <<>>
    <2>1. Current(s, r) = Missing /\ Len(rows) = 0
      BY <1>2 DEF Current
    <2> HIDE DEF rows
    <2> QED BY <1>2, <2>1, RowContents DEF rows
  <1>3. CASE rows # <<>>
    <2>1. Current(s, r) = [version |-> Len(rows), value |-> rows[Len(rows)]]
      BY <1>3 DEF Current, Last
    <2> HIDE DEF rows
    <2>2. Len(rows) \in Nat /\ Len(rows) \in DOMAIN rows /\ rows[Len(rows)] \in Value
      BY <1>1, <1>3
    <2> QED BY <1>3, <2>1, <2>2 DEF rows, Versioned
  <1> QED BY <1>2, <1>3

LEMMA InitialSync ==
    /\ NoSync \in SyncRecord /\ NoSync.batch = <<>> /\ NoSync.marked = 0
    /\ NoSync.phase = "idle" /\ NoSync.answer = NoAnswer
    /\ NoAnswer \in AnswerRecord /\ NoAnswer.cursor = 0
  <1>1. <<>> \in SentRows
    <2>1. <<>> \in [{} -> Versioned]
      OBVIOUS
    <2> QED BY <2>1 DEF SentRows
  <1>2. NoAnswer \in AnswerRecord /\ NoAnswer.cursor = 0
    BY <1>1 DEF NoAnswer, AnswerRecord
  <1>3. <<>> \in Seq(OutboxRow) /\ "idle" \in Phases
    BY DEF Phases
  <1> QED
    BY <1>2, <1>3 DEF NoSync, SyncRecord

-----------------------------------------------------------------------------
(* The batch                                                               *)

LEMMA OutboxFinite ==
    ASSUME RoomTyped, Numbered, NEW rows \in SUBSET outbox
    PROVE  IsFiniteSet(rows)
  <1> DEFINE f == [o \in outbox |-> o.createdAt]
  <1>1. f \in Injection(outbox, 1..MaxMutations)
    <2>1. f \in [outbox -> 1..MaxMutations]
      BY DEF RoomTyped, OutboxRow
    <2>2. ASSUME NEW o \in outbox, NEW p \in outbox, f[o] = f[p] PROVE o = p
      BY <2>2 DEF Numbered, Waiting
    <2> HIDE DEF f
    <2> QED BY <2>1, <2>2 DEF Injection, IsInjective
  <1>2. IsFiniteSet(1..MaxMutations)
    BY ClientAssumption, FS_Interval
  <1>3. IsFiniteSet(outbox)
    BY <1>1, <1>2, FS_Injection
  <1> QED BY <1>3, FS_Subset

\* The rows that are sent are each there once, in the order of their times.
LEMMA BatchInOrder ==
    ASSUME RoomTyped, Numbered, NEW rows \in SUBSET outbox
    PROVE  /\ InOrder(rows) \in Seq(OutboxRow)
           /\ \A n \in DOMAIN InOrder(rows) : InOrder(rows)[n] \in rows
           /\ \A o \in rows : \E n \in DOMAIN InOrder(rows) : InOrder(rows)[n] = o
           /\ \A m, n \in DOMAIN InOrder(rows) :
                /\ Id(InOrder(rows)[m]) = Id(InOrder(rows)[n]) => m = n
                /\ m < n => InOrder(rows)[m].createdAt < InOrder(rows)[n].createdAt
  <1> DEFINE R == {p \in rows \X rows : p[1].createdAt < p[2].createdAt}
             size == Cardinality(rows)
             Timed(s) == \A m, n \in DOMAIN s : m < n => s[m].createdAt < s[n].createdAt
  <1>1. IsFiniteSet(rows)
    BY OutboxFinite
  <1>2. \A o \in rows : o \in OutboxRow /\ o \in Waiting /\ o.createdAt \in Nat
    BY DEF RoomTyped, OutboxRow, Waiting
  <1>3. \A o, p \in rows : <<o, p>> \in R <=> o.createdAt < p.createdAt
    OBVIOUS
  <1>4. TotalOrder(R, rows)
    <2>1. \A o, p \in rows : o # p => o.createdAt # p.createdAt
      BY <1>2 DEF Numbered
    <2> HIDE DEF R
    <2> QED BY <1>2, <1>3, <2>1 DEF TotalOrder
  <1>5. size \in Nat
    BY <1>1, FS_CardinalityType
  <1> HIDE DEF R, size
  <1>6. \A s \in [1..size -> rows] : Timed(s) <=> Sorted(s, size, R)
    BY <1>3 DEF Sorted
  <1>7. \E s \in [1..size -> rows] : Timed(s)
    BY <1>1, <1>4, <1>6, SortedExists DEF size
  <1>8. InOrder(rows) = CHOOSE s \in [1..size -> rows] : Timed(s)
    BY DEF InOrder, size
  <1> DEFINE t == InOrder(rows)
  <1>9. t \in [1..size -> rows] /\ Timed(t)
    BY <1>7, <1>8
  <1>10. /\ \A m, n \in 1..size : t[m] = t[n] => m = n
         /\ \A o \in rows : \E n \in 1..size : t[n] = o
    <2>1. (\A n \in 1..size : t[n] \in rows) /\ Sorted(t, size, R)
      BY <1>6, <1>9
    <2>2. size = Cardinality(rows)
      BY DEF size
    <2> HIDE DEF t
    <2> QED BY <1>1, <1>4, <2>1, <2>2, SortedEnumerates
  <1> HIDE DEF t
  <1>11. DOMAIN t = 1..size /\ \A n \in 1..size : t[n] \in rows
    BY <1>9
  <1>12. t \in Seq(OutboxRow)
    <2>1. t \in [1..size -> OutboxRow]
      BY <1>2, <1>9
    <2> QED BY <1>5, <2>1
  <1>13. ASSUME NEW m \in 1..size, NEW n \in 1..size, Id(t[m]) = Id(t[n]) PROVE m = n
    BY <1>2, <1>10, <1>11, <1>13 DEF Numbered
  <1>14. /\ \A n \in DOMAIN t : t[n] \in rows
         /\ \A o \in rows : \E n \in DOMAIN t : t[n] = o
         /\ \A m, n \in DOMAIN t : /\ Id(t[m]) = Id(t[n]) => m = n
                                   /\ m < n => t[m].createdAt < t[n].createdAt
    <2> HIDE DEF Timed
    <2>1. \A m, n \in DOMAIN t : m < n => t[m].createdAt < t[n].createdAt
      BY <1>9 DEF Timed
    <2> QED BY <1>10, <1>11, <1>13, <2>1
  <1> QED BY <1>12, <1>14 DEF t

-----------------------------------------------------------------------------
(* The server's answer                                                     *)

\* Later states of the server: rows get versions, the log gets mutations.
Extends(s, t) ==
    /\ \A r \in Rows : /\ Len(s.row[r]) <= Len(t.row[r])
                       /\ \A k \in DOMAIN s.row[r] : k \in DOMAIN t.row[r] /\ t.row[r][k] = s.row[r][k]
    /\ s.seq <= t.seq
    /\ s.log \subseteq t.log

LEMMA ExtendsFurther ==
    ASSUME NEW s, NEW t, NEW u, Extends(s, t), Extends(t, u),
           s \in ServerRecord, t \in ServerRecord, u \in ServerRecord
    PROVE  Extends(s, u)
  <1>1. \A r \in Rows : /\ Len(s.row[r]) \in Nat /\ Len(t.row[r]) \in Nat /\ Len(u.row[r]) \in Nat
                        /\ s.seq \in Nat /\ t.seq \in Nat /\ u.seq \in Nat
    BY DEF ServerRecord
  <1>2. s.seq <= u.seq
    BY DEF Extends, ServerRecord
  <1>3. ASSUME NEW r \in Rows
        PROVE  /\ Len(s.row[r]) <= Len(u.row[r])
               /\ \A k \in DOMAIN s.row[r] : k \in DOMAIN u.row[r] /\ u.row[r][k] = s.row[r][k]
    <2>1. Len(s.row[r]) <= Len(t.row[r]) /\ Len(t.row[r]) <= Len(u.row[r])
      BY DEF Extends
    <2>2. ASSUME NEW k \in DOMAIN s.row[r] PROVE k \in DOMAIN u.row[r] /\ u.row[r][k] = s.row[r][k]
      <3>1. k \in DOMAIN t.row[r] /\ t.row[r][k] = s.row[r][k]
        BY DEF Extends
      <3> QED BY <3>1 DEF Extends
    <2>3. \A a, b, c \in Nat : (a <= b /\ b <= c) => a <= c
      OBVIOUS
    <2>4. Len(s.row[r]) <= Len(u.row[r])
      BY <1>1, <2>1, <2>3
    <2> QED BY <2>2, <2>4
  <1>4. s.log \subseteq u.log
    BY DEF Extends
  <1> QED BY <1>2, <1>3, <1>4 DEF Extends

LEMMA WriteGrows ==
    ASSUME NEW s \in ServerRecord, NEW m, m.row \in Rows, m.content \in AnyContent \cup {Unchanged}
    PROVE  /\ Write(s, m) \in ServerRecord
           /\ Extends(s, Write(s, m))
           /\ Write(s, m).log = s.log
           /\ Len(Write(s, m).row[m.row]) = Len(s.row[m.row]) + 1
           /\ Len(s.row[m.row]) + 1 \in DOMAIN Write(s, m).row[m.row]
           /\ Wrote(Write(s, m).row[m.row][Len(s.row[m.row]) + 1], m)
  <1> DEFINE v == Written(s, m)
             t == Write(s, m)
             stamps == [r \in Rows |-> IF r \in {m.row, HomeOf(m.row)} THEN s.seq + 1 ELSE s.stamp[r]]
  <1>1. v \in Value /\ Wrote(v, m)
    <2>1. Current(s, m.row).value \in Value
      BY CurrentRow DEF Versioned
    <2> QED BY <2>1 DEF Written, Wrote, Value
  <1>2. /\ t.row = [s.row EXCEPT ![m.row] = Append(s.row[m.row], v)]
        /\ t.stamp = stamps /\ t.seq = s.seq + 1 /\ t.log = s.log
        /\ t = [row |-> t.row, stamp |-> t.stamp, seq |-> t.seq, log |-> t.log]
    <2> HIDE DEF v
    <2>1. Write(s, m) = [s EXCEPT !.row[m.row] = Append(@, v),
              !.stamp = [r \in Rows |-> IF r \in {m.row, HomeOf(m.row)} THEN s.seq + 1 ELSE @[r]],
              !.seq = @ + 1]
      BY DEF Write, v
    <2>2. s = [row |-> s.row, stamp |-> s.stamp, seq |-> s.seq, log |-> s.log]
      BY DEF ServerRecord
    <2> QED BY <2>1, <2>2
  <1> HIDE DEF v, t
  <1>3. stamps \in [Rows -> Nat]
    BY DEF ServerRecord
  <1> HIDE DEF stamps
  <1>4. s.row[m.row] \in Seq(Value)
    BY DEF ServerRecord
  <1>5. /\ Append(s.row[m.row], v) \in Seq(Value)
        /\ Len(Append(s.row[m.row], v)) = Len(s.row[m.row]) + 1
        /\ Append(s.row[m.row], v)[Len(s.row[m.row]) + 1] = v
        /\ Len(s.row[m.row]) + 1 \in DOMAIN Append(s.row[m.row], v)
        /\ \A k \in DOMAIN s.row[m.row] :
             /\ k \in DOMAIN Append(s.row[m.row], v)
             /\ Append(s.row[m.row], v)[k] = s.row[m.row][k]
    BY <1>1, <1>4
  <1> DEFINE long == Append(s.row[m.row], v)
             rows == [s.row EXCEPT ![m.row] = long]
  <1>6. /\ t.row = rows /\ t.stamp = stamps /\ t.seq = s.seq + 1 /\ t.log = s.log
        /\ t = [row |-> rows, stamp |-> stamps, seq |-> s.seq + 1, log |-> s.log]
    BY <1>2
  <1>7. long \in Seq(Value)
    BY <1>5
  <1> HIDE DEF long
  <1>8. rows \in [Rows -> Seq(Value)] /\ rows[m.row] = long
        /\ \A r \in Rows \ {m.row} : rows[r] = s.row[r]
    BY <1>7 DEF ServerRecord
  <1> HIDE DEF rows
  <1>9. t \in ServerRecord
    BY <1>3, <1>6, <1>8 DEF ServerRecord
  <1>10. ASSUME NEW r \in Rows
         PROVE  /\ Len(s.row[r]) <= Len(t.row[r])
                /\ \A k \in DOMAIN s.row[r] : k \in DOMAIN t.row[r] /\ t.row[r][k] = s.row[r][k]
    <2>1. CASE r = m.row
      <3>1. Len(s.row[r]) \in Nat
        BY <1>4, <2>1
      <3> QED BY <1>5, <1>6, <1>8, <2>1, <3>1 DEF long
    <2>2. CASE r # m.row
      <3>1. t.row[r] = s.row[r] /\ Len(s.row[r]) \in Nat
        BY <1>6, <1>8, <2>2 DEF ServerRecord
      <3> QED BY <3>1
    <2> QED BY <2>1, <2>2
  <1>11. Extends(s, t)
    <2>1. s.seq <= t.seq
      BY <1>6 DEF ServerRecord
    <2> QED BY <1>6, <1>10, <2>1 DEF Extends
  <1> QED BY <1>1, <1>5, <1>6, <1>8, <1>9, <1>11 DEF t, long

LEMMA SequenceLength ==
    \A q \in Seq(Value) : Len(q) \in Nat /\ DOMAIN q \subseteq Nat
  OBVIOUS

LEMMA VerdictJson ==
    ASSUME NEW s \in ServerRecord, NEW m \in Mutation
    PROVE  Verdict(s, m).json \in Json
  <1>1. m.row \in Rows /\ HomeOf(m.row) \in Rows
    BY RowContents DEF Mutation
  <1>2. ASSUME NEW r \in Rows PROVE RefusedWith(s, r).json \in Json
    BY CurrentRow DEF RefusedWith, Json, Versioned
  <1>3. RefusedBare.json \in Json /\ Applied.json \in Json
    BY RowContents DEF RefusedBare, Applied
  <1>4. Verdict(s, m) \in {RefusedBare, Applied, RefusedWith(s, HomeOf(m.row)), RefusedWith(s, m.row)}
    BY DEF Verdict
  <1> QED BY <1>1, <1>2, <1>3, <1>4

\* The account while a request is answered.
Account == [server : ServerRecord, refusals : SUBSET Conflict]

\* What the answer to m does to the account.
AnswersOne(acc, m, new) ==
    /\ new \in Account
    /\ Extends(acc.server, new.server)
    /\ acc.refusals \subseteq new.refusals
    /\ \A c \in new.refusals \ acc.refusals : c.id = m.id /\ c.row = m.row
    /\ m \in new.server.log \/ \E c \in new.refusals : c.id = m.id
    /\ \A l \in new.server.log \ acc.server.log :
        /\ l = m
        /\ \E k \in DOMAIN new.server.row[m.row] :
            k > Len(acc.server.row[m.row]) /\ Wrote(new.server.row[m.row][k], m)

LEMMA SameServer ==
    ASSUME NEW s \in ServerRecord
    PROVE  Extends(s, s)
  BY DEF Extends, ServerRecord

LEMMA AnswerStep ==
    ASSUME NEW acc \in Account, NEW m \in Mutation
    PROVE  AnswersOne(acc, m, Answer(acc, m))
  <1> DEFINE s == acc.server
             refused(v) == [acc EXCEPT !.refusals = @ \cup {[id |-> m.id, row |-> m.row, json |-> v.json]}]
             applied == [acc EXCEPT !.server = [Write(s, m) EXCEPT !.log = @ \cup {m}]]
  <1>1. s \in ServerRecord /\ acc.refusals \subseteq Conflict
        /\ acc = [server |-> s, refusals |-> acc.refusals]
    BY DEF Account
  <1>2. m.row \in Rows /\ m.id \in 1..MaxMutations /\ m.content \in AnyContent \cup {Unchanged}
    BY DEF Mutation
  <1>3. CASE m \in s.log
    <2>1. Answer(acc, m) = acc
      BY <1>3 DEF Answer
    <2> QED BY <1>1, <1>3, <2>1, SameServer DEF AnswersOne
  <1>4. ASSUME NEW v, v.json \in Json PROVE AnswersOne(acc, m, refused(v))
    <2> DEFINE c == [id |-> m.id, row |-> m.row, json |-> v.json]
    <2>1. c \in Conflict /\ c.id = m.id /\ c.row = m.row
      BY <1>2, <1>4 DEF Conflict
    <2>2. refused(v) = [server |-> s, refusals |-> acc.refusals \cup {c}]
      BY <1>1
    <2> HIDE DEF c, refused
    <2>3. refused(v) \in Account /\ refused(v).server = s /\ refused(v).refusals = acc.refusals \cup {c}
      BY <1>1, <2>1, <2>2 DEF Account
    <2> HIDE DEF s
    <2> QED BY <1>1, <2>1, <2>3, SameServer DEF AnswersOne, s
  <1>5. AnswersOne(acc, m, applied)
    <2> DEFINE w == Write(s, m)
               t == [w EXCEPT !.log = @ \cup {m}]
    <2>1. /\ w \in ServerRecord /\ Extends(s, w) /\ w.log = s.log
          /\ Len(s.row[m.row]) + 1 \in DOMAIN w.row[m.row]
          /\ Wrote(w.row[m.row][Len(s.row[m.row]) + 1], m)
          /\ Len(s.row[m.row]) \in Nat
      <3>1. Len(s.row[m.row]) \in Nat
        BY <1>1, <1>2 DEF ServerRecord
      <3> QED BY <1>1, <1>2, <3>1, WriteGrows
    <2>2. applied = [server |-> t, refusals |-> acc.refusals]
      BY <1>1
    <2> HIDE DEF w, applied, s
    <2>3. /\ t \in ServerRecord /\ t.row = w.row /\ t.seq = w.seq /\ t.log = s.log \cup {m}
      <3>1. w = [row |-> w.row, stamp |-> w.stamp, seq |-> w.seq, log |-> w.log]
        BY <2>1 DEF ServerRecord
      <3>2. t = [row |-> w.row, stamp |-> w.stamp, seq |-> w.seq, log |-> w.log \cup {m}]
        BY <3>1
      <3> HIDE DEF t
      <3> QED BY <2>1, <3>2 DEF ServerRecord
    <2> HIDE DEF t
    <2>4. Extends(s, t)
      BY <2>1, <2>3 DEF Extends
    <2>5. applied \in Account /\ applied.server = t /\ applied.refusals = acc.refusals
      BY <1>1, <2>2, <2>3 DEF Account
    <2>6. \E k \in DOMAIN t.row[m.row] : k > Len(s.row[m.row]) /\ Wrote(t.row[m.row][k], m)
      BY <2>1, <2>3
    <2> QED BY <2>3, <2>4, <2>5, <2>6 DEF AnswersOne, s
  <1>6. RefusedBare.json \in Json /\ Verdict(s, m).json \in Json
    BY <1>1, VerdictJson, RowContents DEF RefusedBare
  <1>7. CASE m \notin s.log
    <2>1. Answer(acc, m) \in {refused(RefusedBare), refused(Verdict(s, m)), applied}
      BY <1>7 DEF Answer
    <2>2. AnswersOne(acc, m, refused(RefusedBare)) /\ AnswersOne(acc, m, refused(Verdict(s, m)))
      BY <1>4, <1>6
    <2> HIDE DEF refused, applied
    <2> QED BY <1>5, <2>1, <2>2
  <1> QED BY <1>3, <1>7

\* What the answers to the first k mutations of a request do to the server s.
AnswersMany(s, ms, k, acc) ==
    /\ acc \in Account
    /\ Extends(s, acc.server)
    /\ \A c \in acc.refusals : \E n \in 1..k : c.id = ms[n].id /\ c.row = ms[n].row
    /\ \A n \in 1..k : ms[n] \in acc.server.log \/ \E c \in acc.refusals : c.id = ms[n].id
    /\ \A l \in acc.server.log \ s.log :
        /\ \E n \in 1..k : l = ms[n]
        /\ \E j \in DOMAIN acc.server.row[l.row] :
            j > Len(s.row[l.row]) /\ Wrote(acc.server.row[l.row][j], l)

LEMMA AnswersAdd ==
    ASSUME NEW s \in ServerRecord, NEW ms, NEW k \in Nat, NEW acc, NEW new,
           ms[k + 1] \in Mutation,
           AnswersMany(s, ms, k, acc), AnswersOne(acc, ms[k + 1], new)
    PROVE  AnswersMany(s, ms, k + 1, new)
  <1> DEFINE m == ms[k + 1]
  <1>1. m.row \in Rows /\ m \in Mutation
    BY DEF Mutation
  <1>2. /\ acc.server \in ServerRecord /\ new.server \in ServerRecord /\ new \in Account
        /\ Extends(acc.server, new.server) /\ Extends(s, acc.server)
    BY DEF AnswersMany, AnswersOne, Account
  <1>3. Extends(s, new.server)
    BY <1>2, ExtendsFurther
  <1>4. 1..k \subseteq 1..(k + 1) /\ k + 1 \in 1..(k + 1)
    OBVIOUS
  <1>5. ASSUME NEW c \in new.refusals
        PROVE  \E n \in 1..(k + 1) : c.id = ms[n].id /\ c.row = ms[n].row
    <2>1. CASE c \in acc.refusals
      BY <1>4, <2>1 DEF AnswersMany
    <2>2. CASE c \notin acc.refusals
      BY <1>4, <1>5, <2>2 DEF AnswersOne
    <2> QED BY <2>1, <2>2
  <1>6. ASSUME NEW n \in 1..(k + 1)
        PROVE  ms[n] \in new.server.log \/ \E c \in new.refusals : c.id = ms[n].id
    <2>1. CASE n = k + 1
      BY <2>1 DEF AnswersOne
    <2>2. CASE n \in 1..k
      <3>1. ms[n] \in acc.server.log \/ \E c \in acc.refusals : c.id = ms[n].id
        BY <2>2 DEF AnswersMany
      <3>2. acc.server.log \subseteq new.server.log /\ acc.refusals \subseteq new.refusals
        BY DEF AnswersOne, Extends
      <3> QED BY <3>1, <3>2
    <2> QED BY <2>1, <2>2
  <1>7. ASSUME NEW l \in new.server.log \ s.log
        PROVE  /\ \E n \in 1..(k + 1) : l = ms[n]
               /\ \E j \in DOMAIN new.server.row[l.row] :
                    j > Len(s.row[l.row]) /\ Wrote(new.server.row[l.row][j], l)
    <2>1. l.row \in Rows
      BY <1>2 DEF ServerRecord, Mutation
    <2>2. CASE l \in acc.server.log
      <3>1. PICK n \in 1..k : l = ms[n]
        BY <2>2 DEF AnswersMany
      <3>2. PICK j \in DOMAIN acc.server.row[l.row] :
                j > Len(s.row[l.row]) /\ Wrote(acc.server.row[l.row][j], l)
        BY <2>2 DEF AnswersMany
      <3>3. j \in DOMAIN new.server.row[l.row] /\ new.server.row[l.row][j] = acc.server.row[l.row][j]
        BY <1>2, <2>1 DEF Extends
      <3> QED BY <1>4, <3>1, <3>2, <3>3
    <2>3. CASE l \notin acc.server.log
      <3>1. l = m
        BY <1>7, <2>3 DEF AnswersOne
      <3>2. PICK j \in DOMAIN new.server.row[m.row] :
                j > Len(acc.server.row[m.row]) /\ Wrote(new.server.row[m.row][j], m)
        BY <1>7, <2>3 DEF AnswersOne
      <3>3. Len(s.row[m.row]) <= Len(acc.server.row[m.row])
        BY <1>1, <1>2 DEF Extends
      <3>4. /\ Len(s.row[m.row]) \in Nat /\ Len(acc.server.row[m.row]) \in Nat /\ j \in Nat
        <4>1. /\ s.row[m.row] \in Seq(Value) /\ acc.server.row[m.row] \in Seq(Value)
              /\ new.server.row[m.row] \in Seq(Value)
          BY <1>1, <1>2 DEF ServerRecord
        <4> QED BY <3>2, <4>1, SequenceLength
      <3>5. j > Len(s.row[m.row])
        BY <3>2, <3>3, <3>4
      <3> HIDE DEF m
      <3> QED BY <1>4, <3>1, <3>2, <3>5 DEF m
    <2> QED BY <2>2, <2>3
  <1> HIDE DEF m
  <1> QED BY <1>2, <1>3, <1>5, <1>6, <1>7 DEF AnswersMany

\* A whole request, one mutation after the other: what each of them leaves.
LEMMA AnsweredInTurn ==
    ASSUME server \in ServerRecord, NEW n \in Nat, NEW ms, DOMAIN ms = 1..n,
           \A k \in 1..n : ms[k] \in Mutation
    PROVE  \E accs \in [0..n -> Account] :
             /\ accs[0] = [server |-> server, refusals |-> {}]
             /\ accs[n] = Answered(ms)
             /\ \A k \in 0..n - 1 : accs[k + 1] = Answer(accs[k], ms[k + 1])
  <1> DEFINE base == [server |-> server, refusals |-> {}]
             g == [p \in Account \X (1..n) |-> Answer(p[1], ms[p[2]])]
             Unfolds(f) == f = [s \in SUBSET (1..n) |->
                 IF s = {} THEN base ELSE Answer(f[s \ {Max(s)}], ms[Max(s)])]
             it == CHOOSE f : Unfolds(f)
  <1>1. base \in Account
    BY DEF Account
  <1>2. ASSUME NEW acc \in Account, NEW k \in 1..n PROVE Answer(acc, ms[k]) \in Account
    BY AnswerStep DEF AnswersOne
  <1>3. /\ g \in [Account \X (1..n) -> Account]
        /\ \A acc \in Account, k \in 1..n : g[<<acc, k>>] = Answer(acc, ms[k])
    BY <1>2
  <1> HIDE DEF base, g
  <1>4. PICK h \in [SUBSET (1..n) -> Account] : FoldOf(h, g, base, n)
    BY <1>1, <1>3, FoldExists
  <1>5. Unfolds(h)
    <2>1. ASSUME NEW s \in SUBSET (1..n), s # {}
          PROVE  g[<<h[s \ {Max(s)}], Max(s)>>] = Answer(h[s \ {Max(s)}], ms[Max(s)])
      <3>1. s \in SUBSET (0..n)
        OBVIOUS
      <3>2. Max(s) \in s
        BY <2>1, <3>1, MaxNatural
      <3>3. h[s \ {Max(s)}] \in Account
        OBVIOUS
      <3> QED BY <1>3, <3>2, <3>3
    <2>2. h = [s \in SUBSET (1..n) |->
                 IF s = {} THEN base ELSE g[<<h[s \ {Max(s)}], Max(s)>>]]
      BY <1>4 DEF FoldOf
    <2> QED BY <2>1, <2>2
  <1>6. Unfolds(it)
    <2> HIDE DEF Unfolds
    <2> QED BY <1>5
  <1>7. Answered(ms) = it[1..n]
    BY DEF Answered, FoldLeft, MapThenFoldSet, base
  <1> HIDE DEF it
  <1>8. it[{}] = base
    BY <1>6
  <1>9. ASSUME NEW k \in 1..n PROVE it[1..k] = Answer(it[1..(k - 1)], ms[k])
    <2>1. 1..k # {} /\ Max(1..k) = k /\ (1..k) \ {k} = 1..(k - 1) /\ 1..k \in SUBSET (1..n)
      BY FoldPrefixes
    <2>2. \A s \in SUBSET (1..n) : s # {} => it[s] = Answer(it[s \ {Max(s)}], ms[Max(s)])
      BY <1>6
    <2>3. it[1..k] = Answer(it[(1..k) \ {Max(1..k)}], ms[Max(1..k)])
      BY <2>1, <2>2
    <2> QED BY <2>1, <2>3
  <1> HIDE DEF Unfolds
  <1> DEFINE N == {k \in Nat : k <= n => it[1..k] \in Account}
  <1>10. 0 \in N
    <2>1. 1..0 = {}
      OBVIOUS
    <2> QED BY <1>1, <1>8, <2>1
  <1>11. ASSUME NEW k \in Nat, k \in N PROVE k + 1 \in N
    <2> SUFFICES ASSUME k + 1 <= n PROVE it[1..(k + 1)] \in Account
      OBVIOUS
    <2>1. k + 1 \in 1..n /\ (k + 1) - 1 = k /\ it[1..k] \in Account
      BY <1>11
    <2>2. it[1..(k + 1)] = Answer(it[1..k], ms[k + 1])
      BY <1>9, <2>1
    <2> QED BY <1>2, <2>1, <2>2
  <1>12. N = Nat
    <2>1. N \subseteq Nat
      OBVIOUS
    <2> HIDE DEF N
    <2> QED BY <1>10, <1>11, <2>1, NaturalInduction
  <1> DEFINE accs == [k \in 0..n |-> it[1..k]]
  <1>13. accs \in [0..n -> Account]
    BY <1>12
  <1>14. accs[0] = base
    <2>1. 1..0 = {} /\ 0 \in 0..n
      OBVIOUS
    <2> QED BY <1>8, <2>1
  <1>15. ASSUME NEW k \in 0..n - 1 PROVE accs[k + 1] = Answer(accs[k], ms[k + 1])
    <2>1. k + 1 \in 1..n /\ (k + 1) - 1 = k /\ k \in 0..n /\ k + 1 \in 0..n
      OBVIOUS
    <2> QED BY <1>9, <2>1
  <1>16. accs[n] = Answered(ms)
    BY <1>7
  <1> QED BY <1>13, <1>14, <1>15, <1>16 DEF base

LEMMA AnsweredAll ==
    ASSUME server \in ServerRecord, NEW n \in Nat, NEW ms, DOMAIN ms = 1..n,
           \A k \in 1..n : ms[k] \in Mutation
    PROVE  AnswersMany(server, ms, n, Answered(ms))
  <1>1. PICK accs \in [0..n -> Account] :
          /\ accs[0] = [server |-> server, refusals |-> {}]
          /\ accs[n] = Answered(ms)
          /\ \A k \in 0..n - 1 : accs[k + 1] = Answer(accs[k], ms[k + 1])
    BY AnsweredInTurn
  <1> DEFINE N == {k \in Nat : k <= n => AnswersMany(server, ms, k, accs[k])}
  <1>2. 0 \in N
    <2>1. accs[0].server = server /\ accs[0].refusals = {} /\ accs[0] \in Account
      <3>1. accs[0] \in Account
        OBVIOUS
      <3> HIDE DEF N
      <3> QED BY <1>1, <3>1
    <2>2. 1..0 = {} /\ Extends(server, accs[0].server)
      BY <2>1, SameServer
    <2>3. AnswersMany(server, ms, 0, accs[0])
      BY <2>1, <2>2 DEF AnswersMany
    <2> QED BY <2>3
  <1>3. ASSUME NEW k \in Nat, k \in N PROVE k + 1 \in N
    <2> SUFFICES ASSUME k + 1 <= n PROVE AnswersMany(server, ms, k + 1, accs[k + 1])
      OBVIOUS
    <2>1. k + 1 \in 1..n /\ k \in 0..n - 1 /\ ms[k + 1] \in Mutation /\ accs[k] \in Account
      OBVIOUS
    <2>2. AnswersMany(server, ms, k, accs[k])
      BY <1>3, <2>1
    <2>3. AnswersOne(accs[k], ms[k + 1], accs[k + 1])
      BY <1>1, <2>1, AnswerStep
    <2> QED BY <2>1, <2>2, <2>3, AnswersAdd
  <1>4. n \in N
    <2> HIDE DEF N
    <2> QED BY <1>2, <1>3, NaturalInduction
  <1> QED BY <1>1, <1>4

-----------------------------------------------------------------------------
(* What a step keeps                                                       *)

LEMMA WaitingRows ==
    ASSUME Typed
    PROVE  \A o \in Waiting :
             /\ o \in OutboxRow /\ o.mutation \in Mutation
             /\ Id(o) \in 1..MaxMutations /\ RowOfEdit(o) \in Rows
             /\ o.createdAt \in 1..MaxMutations
  <1>1. outbox \subseteq OutboxRow /\ InHand \subseteq OutboxRow
    BY DEF Typed, RoomTyped, HandTyped, InHand, Resolution
  <1>2. \A o \in OutboxRow :
             /\ o.mutation \in Mutation
             /\ Id(o) \in 1..MaxMutations /\ RowOfEdit(o) \in Rows
             /\ o.createdAt \in 1..MaxMutations
    BY DEF OutboxRow, Mutation, Id, RowOfEdit
  <1> QED BY <1>1, <1>2 DEF Waiting

\* Rows and versions of the server, by their numbers.
LEMMA ServerRows ==
    ASSUME Typed
    PROVE  \A r \in Rows : /\ server.row[r] \in Seq(Value) /\ Len(server.row[r]) \in Nat
                           /\ DOMAIN server.row[r] = 1..Len(server.row[r])
                           /\ local[r].version \in Nat /\ local[r].value \in Value
                           /\ local[r] = [version |-> local[r].version, value |-> local[r].value]
                           /\ local[r].value.deleted \in BOOLEAN
  <1>1. \A r \in Rows : server.row[r] \in Seq(Value)
    BY DEF Typed, ServerTyped, ServerRecord
  <1>2. \A q \in Seq(Value) : Len(q) \in Nat /\ DOMAIN q = 1..Len(q)
    OBVIOUS
  <1>3. \A r \in Rows : local[r] \in Versioned
    BY DEF Typed, RoomTyped
  <1>4. \A v \in Versioned : /\ v.version \in Nat /\ v.value \in Value /\ v.value.deleted \in BOOLEAN
                             /\ v = [version |-> v.version, value |-> v.value]
    BY DEF Versioned, Value
  <1> QED BY <1>1, <1>2, <1>3, <1>4

LEMMA SameHand ==
    ASSUME UNCHANGED resolving
    PROVE  InHand' = InHand
  BY DEF InHand

\* A step that changes no row, no edit and no conflict.
LEMMA QuietStep ==
    ASSUME ClientInv, UNCHANGED <<server, local, outbox, conflicts, resolving, made, forgone>>
    PROVE  /\ ServerTyped' /\ HandTyped' /\ Numbered' /\ Creations' /\ LogRows' /\ Versions'
           /\ LinesArrive' /\ EditsHeld'
  <1>1. InHand' = InHand /\ Waiting' = Waiting
    BY SameHand DEF Waiting
  <1>2. ServerTyped' /\ HandTyped'
    BY DEF ClientInv, Typed, ServerTyped, HandTyped
  <1>3. Numbered' /\ Creations' /\ LogRows' /\ Versions'
    BY <1>1 DEF ClientInv, Numbered, Creations, LogRows, Versions
  <1>4. \A o : Arrived(o)' <=> Arrived(o)
    BY DEF Arrived
  <1>5. LinesArrive'
    BY <1>1, <1>4 DEF ClientInv, LinesArrive
  <1>6. \A r : Since(r)' = Since(r)
    BY DEF Since
  <1>7. \A o, r : /\ CarriesContent(o, r)' <=> CarriesContent(o, r)
                  /\ CarriesDeletion(o, r)' <=> CarriesDeletion(o, r)
    BY <1>4 DEF CarriesContent, CarriesDeletion
  <1>9. Carriers' = Carriers
    BY <1>1 DEF Carriers
  <1>8. EditsHeld'
    BY <1>9, <1>6, <1>7 DEF ClientInv, EditsHeld, ContentHeld, DeletionHeld
  <1> QED BY <1>2, <1>3, <1>5, <1>8

\* What has arrived of an edit stays, and what the server adds to its log arrives.
LEMMA ArrivedStays ==
    ASSUME Typed, NEW o, NEW p, Arrived(o), Id(p) = Id(o), RowOfEdit(p) = RowOfEdit(o),
           RowOfEdit(o) \in Rows, Extends(server, server'),
           local'[RowOfEdit(o)].version = local[RowOfEdit(o)].version,
           \A m \in server'.log \ server.log : m.id = Id(o) =>
               \E k \in DOMAIN server'.row[RowOfEdit(o)] :
                   k >= local[RowOfEdit(o)].version /\ Wrote(server'.row[RowOfEdit(o)][k], m)
    PROVE  Arrived(p)'
  <1> DEFINE r == RowOfEdit(o)
  <1>1. ASSUME NEW m \in server'.log, m.id = Id(o)
        PROVE  \E k \in DOMAIN server'.row[r] : k >= local[r].version /\ Wrote(server'.row[r][k], m)
    <2>1. CASE m \in server.log
      <3>1. PICK k \in DOMAIN server.row[r] : k >= local[r].version /\ Wrote(server.row[r][k], m)
        BY <1>1, <2>1 DEF Arrived
      <3>2. k \in DOMAIN server'.row[r] /\ server'.row[r][k] = server.row[r][k]
        BY DEF Extends
      <3> QED BY <3>1, <3>2
    <2>2. CASE m \notin server.log
      BY <1>1, <2>2
    <2> QED BY <2>1, <2>2
  <1> QED BY <1>1 DEF Arrived, Id, RowOfEdit, Wrote

LEMMA SinceStays ==
    ASSUME Typed, NEW r \in Rows, Extends(server, server'), local'[r].version = local[r].version
    PROVE  \A v \in Since(r) : v \in Since(r)'
  <1> SUFFICES ASSUME NEW k \in DOMAIN server.row[r], k >= local[r].version
               PROVE  server.row[r][k] \in Since(r)'
    BY DEF Since
  <1>1. k \in DOMAIN server'.row[r] /\ server'.row[r][k] = server.row[r][k]
    BY DEF Extends
  <1> QED BY <1>1 DEF Since

\* What the device shows as before of a row is held as before if its edits are.
LEMMA ContentStays ==
    ASSUME Typed, NEW r \in Rows, Extends(server, server'), local'[r].version = local[r].version,
           local'[r].value.content = local[r].value.content,
           \A o \in Carriers : RowOfEdit(o) = r /\ Arrived(o) =>
               \E p \in Carriers' : /\ RowOfEdit(p) = r /\ Arrived(p)'
                                    /\ p.mutation.content = o.mutation.content,
           ContentHeld(r)
    PROVE  ContentHeld(r)'
  <1>1. ASSUME NEW o \in Carriers, CarriesContent(o, r) PROVE ContentHeld(r)'
    <2>1. PICK p \in Carriers' : /\ RowOfEdit(p) = r /\ Arrived(p)'
                                /\ p.mutation.content = o.mutation.content
      BY <1>1 DEF CarriesContent
    <2>2. CarriesContent(p, r)'
      BY <1>1, <2>1 DEF CarriesContent, RowOfEdit
    <2> QED BY <2>2 DEF ContentHeld
  <1>2. ASSUME NEW v \in Since(r), v.content = local[r].value.content PROVE ContentHeld(r)'
    BY <1>2, SinceStays DEF ContentHeld
  <1> QED BY <1>1, <1>2 DEF ContentHeld

LEMMA DeletionStays ==
    ASSUME Typed, NEW r \in Rows, Extends(server, server'), local'[r].version = local[r].version,
           local'[r].value.deleted = local[r].value.deleted,
           \A o \in Carriers : RowOfEdit(o) = r /\ Arrived(o) =>
               \E p \in Carriers' : /\ RowOfEdit(p) = r /\ Arrived(p)'
                                    /\ p.mutation.deletion = o.mutation.deletion
                                    /\ p.mutation.op = o.mutation.op,
           DeletionHeld(r)
    PROVE  DeletionHeld(r)'
  <1>1. ASSUME NEW o \in Carriers, CarriesDeletion(o, r) PROVE DeletionHeld(r)'
    <2>1. PICK p \in Carriers' : /\ RowOfEdit(p) = r /\ Arrived(p)'
                                /\ p.mutation.deletion = o.mutation.deletion
                                /\ p.mutation.op = o.mutation.op
      BY <1>1 DEF CarriesDeletion
    <2>2. CarriesDeletion(p, r)'
      BY <1>1, <2>1 DEF CarriesDeletion, RowOfEdit
    <2> QED BY <2>2 DEF DeletionHeld
  <1>2. ASSUME NEW v \in Since(r), v.deleted = local[r].value.deleted PROVE DeletionHeld(r)'
    BY <1>2, SinceStays DEF DeletionHeld
  <1> QED BY <1>1, <1>2 DEF DeletionHeld

LEMMA HeldStays ==
    ASSUME Typed, NEW r \in Rows, Extends(server, server'), local'[r] = local[r],
           \A o \in Carriers : RowOfEdit(o) = r /\ Arrived(o) =>
               \E p \in Carriers' : p.mutation = o.mutation /\ Arrived(p)',
           ContentHeld(r), DeletionHeld(r)
    PROVE  ContentHeld(r)' /\ DeletionHeld(r)'
  <1>1. \A o \in Carriers : RowOfEdit(o) = r /\ Arrived(o) =>
           \E p \in Carriers' : RowOfEdit(p) = r /\ Arrived(p)' /\ p.mutation = o.mutation
    BY DEF RowOfEdit
  <1>2. ContentHeld(r)'
    BY <1>1, ContentStays
  <1>3. DeletionHeld(r)'
    BY <1>1, DeletionStays
  <1> QED BY <1>2, <1>3

-----------------------------------------------------------------------------
(* Steps of the worker that change no row                                  *)

LEMMA InvInit ==
    ASSUME Init
    PROVE  ClientInv
  <1>1. /\ outbox = {} /\ conflicts = {} /\ forgone = {} /\ resolving = {} /\ sync = NoSync
        /\ made = 0 /\ wanted = FALSE /\ owed = "none" /\ cursor = server.seq
        /\ left = [remote |-> MaxRemote, faults |-> MaxFaults, expiries |-> MaxExpiries]
    BY DEF Init, Nothing
  <1>2. InHand = {} /\ Waiting = {}
    BY <1>1 DEF InHand, Waiting
  <1>3. PICK there \in SUBSET Rows : server = Holding(there)
    <2>1. PICK there \in {{}} \cup {{l} \cup some : l \in Lists, some \in SUBSET Lines} :
            server = Holding(there)
      BY DEF Init
    <2>2. there \in SUBSET Rows
      BY <2>1 DEF Rows
    <2> QED BY <2>1, <2>2
  <1>4. server \in ServerRecord /\ server.log = {} /\ server.seq \in Nat
    <2>1. ASSUME NEW r \in Rows PROVE server.row[r] \in Seq(Value)
      <3>1. \E c \in ContentsOf(r) : r \in Lists => c = "active"
        BY ClientAssumption DEF Rows, ContentsOf
      <3> DEFINE c == FirstContent(r)
      <3>2. c \in ContentsOf(r)
        BY <3>1 DEF FirstContent
      <3>3. Live(c) \in Value
        BY <3>2, RowContents
      <3>4. server.row[r] = IF r \notin there THEN <<>> ELSE <<Live(c)>>
        BY <1>3 DEF Holding
      <3> HIDE DEF c
      <3>5. <<>> \in Seq(Value) /\ <<Live(c)>> \in Seq(Value)
        BY <3>3
      <3> QED BY <3>4, <3>5
    <2> DEFINE rows == server.row  stamps == server.stamp
    <2>2. /\ server = [row |-> rows, stamp |-> stamps, seq |-> server.seq, log |-> {}]
          /\ server.log = {} /\ server.seq \in Nat
          /\ stamps \in [Rows -> Nat] /\ DOMAIN rows = Rows
          /\ rows = [r \in Rows |-> rows[r]]
      BY <1>3 DEF Holding
    <2>3. rows \in [Rows -> Seq(Value)]
      BY <2>1, <2>2
    <2> HIDE DEF rows, stamps
    <2> QED BY <2>2, <2>3 DEF ServerRecord
  <1>5. local = [r \in Rows |-> Current(server, r)]
    BY DEF Init
  <1>6. ASSUME NEW r \in Rows
        PROVE  /\ local[r] \in Versioned /\ local[r].version = Len(server.row[r])
               /\ Len(server.row[r]) \in Nat
               /\ local[r] # Missing => local[r].value \in Since(r)
    <2>1. Len(server.row[r]) \in Nat
      BY <1>4, SequenceLength DEF ServerRecord
    <2>2. CASE local[r] # Missing
      <3>1. /\ Len(server.row[r]) \in DOMAIN server.row[r]
            /\ local[r].value = server.row[r][Len(server.row[r])]
            /\ local[r].version = Len(server.row[r])
        BY <1>4, <1>5, <2>2, CurrentRow
      <3> QED BY <1>4, <1>5, <2>1, <3>1, CurrentRow DEF Since
    <2> QED BY <1>4, <1>5, <2>1, <2>2, CurrentRow
  <1>7. Typed
    <2>1. local \in [Rows -> Versioned]
      BY <1>5, <1>6
    <2>2. RoomTyped /\ ServerTyped
      BY <1>1, <1>4, <2>1 DEF RoomTyped, ServerTyped
    <2>3. SyncTyped
      <3>1. /\ sync \in SyncRecord /\ sync.batch = <<>> /\ sync.marked = 0
            /\ sync.phase = "idle" /\ sync.answer.cursor = 0
        BY <1>1, InitialSync
      <3>2. sync.marked <= Len(sync.batch) /\ sync.answer.cursor <= server.seq
        BY <1>4, <3>1
      <3> QED BY <1>1, <3>1, <3>2 DEF SyncTyped
    <2>4. HandTyped
      BY <1>1 DEF HandTyped
    <2>5. RestTyped
      <3>1. left \in [remote : Nat, faults : Nat, expiries : Nat]
        BY <1>1, ClientAssumption
      <3>2. wanted \in BOOLEAN
        BY <1>1
      <3> QED BY <1>1, <3>1, <3>2, ClientAssumption DEF RestTyped
    <2> QED BY <2>2, <2>3, <2>4, <2>5 DEF Typed
  <1>8. Numbered /\ Creations /\ LogRows /\ LinesArrive
    BY <1>1, <1>2, <1>4 DEF Numbered, Creations, LogRows, LinesArrive
  <1>9. Batched /\ Settling /\ AnswerTrue
    BY <1>1, <1>2, InitialSync DEF Batched, Settling, AnswerTrue
  <1>10. Versions /\ EditsHeld
    BY <1>6 DEF Versions, EditsHeld, ContentHeld, DeletionHeld
  <1> QED BY <1>7, <1>8, <1>9, <1>10 DEF ClientInv

\* A step that changes only what is wanted, owed or left.
LEMMA AsideStep ==
    ASSUME ClientInv, RestTyped',
           UNCHANGED <<server, local, outbox, conflicts, resolving, made, forgone, sync, cursor>>
    PROVE  ClientInv'
  <1>1. /\ ServerTyped' /\ HandTyped' /\ Numbered' /\ Creations' /\ LogRows' /\ Versions'
        /\ LinesArrive' /\ EditsHeld'
    BY QuietStep
  <1>2. RoomTyped' /\ SyncTyped'
    BY DEF ClientInv, Typed, RoomTyped, SyncTyped
  <1>3. InHand' = InHand
    BY SameHand
  <1>4. Batched' /\ Settling' /\ AnswerTrue'
    BY <1>3 DEF ClientInv, Batched, Settling, AnswerTrue, Exact
  <1> QED BY <1>1, <1>2, <1>4 DEF ClientInv, Typed

LEMMA InvEnqueue ==
    ASSUME ClientInv, Enqueue \/ Resume
    PROVE  ClientInv'
  <1>1. RestTyped'
    BY DEF ClientInv, Typed, RestTyped, Enqueue, Resume
  <1> QED BY <1>1, AsideStep DEF Enqueue, Resume, room

LEMMA BatchRows ==
    ASSUME Typed
    PROVE  /\ sync.batch \in Seq(OutboxRow) /\ DOMAIN sync.batch = 1..Len(sync.batch)
           /\ Len(sync.batch) \in Nat /\ sync.marked \in Nat
           /\ \A n \in DOMAIN sync.batch : sync.batch[n] \in OutboxRow
           /\ sync = [phase |-> sync.phase, batch |-> sync.batch, marked |-> sync.marked,
                      answer |-> sync.answer]
           /\ sync.answer \in AnswerRecord /\ sync.phase \in Phases
           /\ sync.marked <= Len(sync.batch)
  <1>1. sync \in SyncRecord /\ sync.marked <= Len(sync.batch)
    BY DEF Typed, SyncTyped
  <1>2. \A q \in Seq(OutboxRow) : /\ Len(q) \in Nat /\ DOMAIN q = 1..Len(q)
                                  /\ \A n \in DOMAIN q : q[n] \in OutboxRow
    OBVIOUS
  <1> QED BY <1>1, <1>2 DEF SyncRecord

LEMMA InvStartSync ==
    ASSUME ClientInv, StartSync
    PROVE  ClientInv'
  <1> DEFINE batch == InOrder(Sendable)
  <1>1. /\ UNCHANGED <<server, local, outbox, conflicts, resolving, made, forgone, cursor, left, owed>>
        /\ wanted' = FALSE
    BY DEF StartSync, room
  <1>2. ServerTyped' /\ HandTyped' /\ Numbered' /\ Creations' /\ LogRows' /\ Versions'
        /\ LinesArrive' /\ EditsHeld'
    BY <1>1, QuietStep
  <1>3. \A o \in Sendable : o \in outbox /\ o.status # "conflict"
    BY DEF Sendable
  <1>4. /\ batch \in Seq(OutboxRow)
        /\ \A n \in DOMAIN batch : batch[n] \in Sendable
        /\ \A m, n \in DOMAIN batch : Id(batch[m]) = Id(batch[n]) => m = n
    BY <1>3, BatchInOrder DEF ClientInv, Typed
  <1> HIDE DEF batch
  <1>5. sync' = [phase |-> "marking", batch |-> batch, marked |-> 0, answer |-> NoAnswer]
    BY DEF StartSync, NoSync, batch
  <1>6. sync'.phase = "marking" /\ sync'.batch = batch /\ sync'.marked = 0 /\ sync'.answer = NoAnswer
    BY <1>5
  <1>7. SyncTyped'
    <2>1. sync' \in SyncRecord
      BY <1>4, <1>5, InitialSync DEF SyncRecord, Phases
    <2>2. Len(batch) \in Nat /\ 0 <= Len(batch)
      BY <1>4
    <2>3. sync'.answer.cursor = 0 /\ server.seq \in Nat
      BY <1>6, InitialSync DEF ClientInv, Typed, ServerTyped, ServerRecord
    <2>4. sync'.answer.cursor <= server'.seq
      BY <1>1, <2>3
    <2> QED BY <1>6, <2>1, <2>2, <2>4 DEF SyncTyped
  <1>8. RoomTyped' /\ RestTyped'
    BY <1>1 DEF ClientInv, Typed, RoomTyped, RestTyped
  <1>9. Batched'
    <2>1. ASSUME NEW n \in DOMAIN batch
          PROVE  /\ SameEdit(batch[n], batch[n]) /\ batch[n].status # "conflict"
                 /\ batch[n] \in outbox' /\ ~Exact(n)'
      <3>1. n \in Nat /\ n > 0
        BY <1>4
      <3> QED BY <1>1, <1>3, <1>4, <1>6, <3>1 DEF SameEdit, Exact
    <2> QED BY <1>4, <1>6, <2>1 DEF Batched
  <1>10. Settling'
    <2>1. InHand' = InHand
      BY <1>1, SameHand
    <2>2. \A n \in DOMAIN batch : batch[n] \in outbox /\ batch[n].status # "conflict"
      BY <1>3, <1>4
    <2> QED BY <1>1, <1>6, <2>1, <2>2 DEF ClientInv, Settling
  <1>11. AnswerTrue'
    BY <1>6 DEF AnswerTrue
  <1> QED BY <1>2, <1>7, <1>8, <1>9, <1>10, <1>11 DEF ClientInv, Typed

\* Once the batch is out, its rows stand in the outbox as they were sent.
LEMMA SentExactly ==
    ASSUME ClientInv, Sent \/ sync.phase = "answered", NEW n \in DOMAIN sync.batch
    PROVE  \E o \in outbox : /\ SameEdit(o, sync.batch[n]) /\ o.status # "conflict"
                             /\ o = InFlight(sync.batch[n])
  <1>1. Exact(n)
    <2>1. n <= Len(sync.batch)
      BY BatchRows DEF ClientInv
    <2> QED BY <2>1 DEF Exact, Sent
  <1> QED BY <1>1 DEF ClientInv, Batched

LEMMA InvFail ==
    ASSUME ClientInv, Fail
    PROVE  ClientInv'
  <1>1. /\ UNCHANGED <<server, local, outbox, conflicts, resolving, made, forgone, cursor, wanted, owed>>
        /\ left.faults > 0 /\ left' = [left EXCEPT !.faults = @ - 1]
    BY DEF Fail, room
  <1>2. ServerTyped' /\ HandTyped' /\ Numbered' /\ Creations' /\ LogRows' /\ Versions'
        /\ LinesArrive' /\ EditsHeld'
    BY <1>1, QuietStep
  <1>3. sync' = [phase |-> "failed", batch |-> sync.batch, marked |-> 0, answer |-> NoAnswer]
    <2>1. sync' = [sync EXCEPT !.phase = "failed", !.marked = 0, !.answer = NoAnswer]
      BY DEF Fail
    <2> QED BY <2>1, BatchRows DEF ClientInv
  <1>4. sync'.phase = "failed" /\ sync'.batch = sync.batch /\ sync'.marked = 0 /\ sync'.answer = NoAnswer
    BY <1>3
  <1>5. SyncTyped'
    <2>1. sync' \in SyncRecord
      BY <1>3, BatchRows, InitialSync DEF ClientInv, SyncRecord, Phases
    <2>2. Len(sync'.batch) \in Nat
      BY <1>4, BatchRows DEF ClientInv
    <2>3. sync'.answer.cursor = 0 /\ server.seq \in Nat
      BY <1>4, InitialSync DEF ClientInv, Typed, ServerTyped, ServerRecord
    <2>4. sync'.answer.cursor <= server'.seq
      BY <1>1, <2>3
    <2> QED BY <1>4, <2>1, <2>2, <2>4 DEF SyncTyped
  <1>6. RoomTyped' /\ RestTyped'
    <2>1. left' \in [remote : Nat, faults : Nat, expiries : Nat]
      BY <1>1 DEF ClientInv, Typed, RestTyped
    <2> QED BY <1>1, <2>1 DEF ClientInv, Typed, RoomTyped, RestTyped
  <1>7. Batched'
    <2>1. Sent \/ sync.phase = "answered"
      BY DEF Fail
    <2>2. \A n \in DOMAIN sync'.batch : \E o \in outbox' :
             /\ SameEdit(o, sync'.batch[n]) /\ o.status # "conflict"
             /\ o = InFlight(sync'.batch[n])
      BY <1>1, <1>4, <2>1, SentExactly
    <2>3. \A m, n \in DOMAIN sync'.batch : Id(sync'.batch[m]) = Id(sync'.batch[n]) => m = n
      BY <1>4 DEF ClientInv, Batched
    <2> QED BY <1>4, <2>2, <2>3 DEF Batched
  <1>8. Settling'
    <2>1. InHand' = InHand
      BY <1>1, SameHand
    <2> QED BY <1>1, <1>4, <2>1 DEF ClientInv, Settling
  <1>9. AnswerTrue'
    BY <1>4 DEF AnswerTrue
  <1> QED BY <1>2, <1>5, <1>6, <1>7, <1>8, <1>9 DEF ClientInv, Typed

LEMMA InvRetry ==
    ASSUME ClientInv, Retry
    PROVE  ClientInv'
  <1>1. /\ UNCHANGED <<server, local, outbox, conflicts, resolving, made, forgone, cursor, left, owed>>
        /\ wanted' = TRUE /\ sync' = NoSync
    BY DEF Retry, room
  <1>2. ServerTyped' /\ HandTyped' /\ Numbered' /\ Creations' /\ LogRows' /\ Versions'
        /\ LinesArrive' /\ EditsHeld'
    BY <1>1, QuietStep
  <1>3. SyncTyped'
    <2>1. server'.seq \in Nat
      BY <1>1 DEF ClientInv, Typed, ServerTyped, ServerRecord
    <2>2. sync' \in SyncRecord /\ sync'.batch = <<>> /\ sync'.marked = 0 /\ sync'.phase = "idle"
          /\ sync'.answer.cursor = 0
      BY <1>1, InitialSync
    <2>3. Len(sync'.batch) = 0
      BY <2>2
    <2> QED BY <1>1, <2>1, <2>2, <2>3 DEF SyncTyped
  <1>4. RoomTyped' /\ RestTyped'
    BY <1>1 DEF ClientInv, Typed, RoomTyped, RestTyped
  <1>5. Batched' /\ AnswerTrue'
    BY <1>1, InitialSync DEF Batched, AnswerTrue
  <1>6. Settling'
    <2>1. InHand' = InHand
      BY <1>1, SameHand
    <2>2. sync'.batch = <<>>
      BY <1>1, InitialSync
    <2> QED BY <1>1, <2>1, <2>2 DEF ClientInv, Settling
  <1> QED BY <1>2, <1>3, <1>4, <1>5, <1>6 DEF ClientInv, Typed

\* An answer's rows are what the server has.
LEMMA RowsSinceTrue ==
    ASSUME NEW s \in ServerRecord, NEW since
    PROVE  /\ RowsSince(s, since) \in SentRows
           /\ \A r \in DOMAIN RowsSince(s, since) :
                /\ RowsSince(s, since)[r] = Current(s, r)
                /\ RowsSince(s, since)[r].version \in DOMAIN s.row[r]
                /\ RowsSince(s, since)[r].value = s.row[r][RowsSince(s, since)[r].version]
  <1> DEFINE some == {q \in Rows : s.row[q] # <<>> /\ s.stamp[q] > since}
             rows == RowsSince(s, since)
  <1>1. rows = [r \in some |-> Current(s, r)]
    BY DEF RowsSince
  <1>2. \A r \in some : r \in Rows /\ s.row[r] # <<>>
    OBVIOUS
  <1> HIDE DEF rows
  <1>3. rows \in [some -> Versioned]
    BY <1>1, <1>2, CurrentRow
  <1>4. some \in SUBSET Rows
    OBVIOUS
  <1> HIDE DEF some
  <1>5. \A r \in DOMAIN rows : rows[r] = Current(s, r) /\ r \in Rows /\ s.row[r] # <<>>
    BY <1>1, <1>2
  <1>6. rows \in SentRows
    BY <1>3, <1>4 DEF SentRows
  <1>7. \A r \in DOMAIN rows : /\ rows[r].version \in DOMAIN s.row[r]
                               /\ rows[r].value = s.row[r][rows[r].version]
    BY <1>5, CurrentRow
  <1> QED BY <1>5, <1>6, <1>7 DEF rows

LEMMA InvRefuseCursor ==
    ASSUME ClientInv, RefuseCursor
    PROVE  ClientInv'
  <1> DEFINE rows == RowsSince(server, 0)
             answer == [full |-> TRUE, expired |-> TRUE, rows |-> rows, refusals |-> {},
                        cursor |-> server.seq]
  <1>1. /\ UNCHANGED <<server, local, outbox, conflicts, resolving, made, forgone, cursor, wanted, owed>>
        /\ left.expiries > 0 /\ left' = [left EXCEPT !.expiries = @ - 1]
        /\ Sent
    BY DEF RefuseCursor, room
  <1>2. ServerTyped' /\ HandTyped' /\ Numbered' /\ Creations' /\ LogRows' /\ Versions'
        /\ LinesArrive' /\ EditsHeld'
    BY <1>1, QuietStep
  <1>3. server \in ServerRecord /\ server.seq \in Nat
    BY DEF ClientInv, Typed, ServerTyped, ServerRecord
  <1>4. /\ rows \in SentRows
        /\ \A r \in DOMAIN rows : /\ rows[r].version \in DOMAIN server.row[r]
                                  /\ rows[r].value = server.row[r][rows[r].version]
    BY <1>3, RowsSinceTrue
  <1> HIDE DEF rows
  <1>5. /\ answer \in AnswerRecord /\ answer.cursor = server.seq /\ answer.expired = TRUE
        /\ answer.rows = rows /\ answer.refusals = {}
    BY <1>3, <1>4 DEF AnswerRecord
  <1>6. sync' = [sync EXCEPT !.phase = "answered", !.answer = answer]
    BY DEF RefuseCursor, rows
  <1> HIDE DEF answer
  <1>7. sync' = [phase |-> "answered", batch |-> sync.batch, marked |-> sync.marked, answer |-> answer]
    BY <1>6, BatchRows DEF ClientInv
  <1>8. /\ sync'.phase = "answered" /\ sync'.batch = sync.batch /\ sync'.marked = Len(sync.batch)
        /\ sync'.answer = answer
    BY <1>1, <1>7 DEF Sent
  <1>9. SyncTyped'
    <2>1. sync' \in SyncRecord
      BY <1>5, <1>7, BatchRows DEF ClientInv, SyncRecord, Phases
    <2>2. Len(sync.batch) \in Nat
      BY BatchRows DEF ClientInv
    <2> QED BY <1>1, <1>3, <1>5, <1>8, <2>1, <2>2 DEF SyncTyped
  <1>10. RoomTyped' /\ RestTyped'
    <2>1. left' \in [remote : Nat, faults : Nat, expiries : Nat]
      BY <1>1 DEF ClientInv, Typed, RestTyped
    <2> QED BY <1>1, <2>1 DEF ClientInv, Typed, RoomTyped, RestTyped
  <1>11. Batched'
    <2>1. \A n \in DOMAIN sync.batch : \E o \in outbox :
             /\ SameEdit(o, sync.batch[n]) /\ o.status # "conflict"
             /\ o = InFlight(sync.batch[n])
      BY <1>1, SentExactly
    <2>2. \A m, n \in DOMAIN sync.batch : Id(sync.batch[m]) = Id(sync.batch[n]) => m = n
      BY DEF ClientInv, Batched
    <2> QED BY <1>1, <1>8, <2>1, <2>2 DEF Batched
  <1>12. Settling'
    <2>1. InHand' = InHand
      BY <1>1, SameHand
    <2> QED BY <1>1, <1>8, <2>1 DEF ClientInv, Settling
  <1>13. AnswerTrue'
    BY <1>1, <1>4, <1>5, <1>8 DEF AnswerTrue
  <1> QED BY <1>2, <1>9, <1>10, <1>11, <1>12, <1>13 DEF ClientInv, Typed

\* A step of the server alone, whose log gets nothing but what was sent.
LEMMA ServerStep ==
    ASSUME ClientInv, server' \in ServerRecord, Extends(server, server'),
           UNCHANGED <<local, outbox, conflicts, resolving, made, forgone, cursor>>,
           \A l \in server'.log \ server.log :
              /\ \E n \in DOMAIN sync.batch : l = sync.batch[n].mutation
              /\ \E j \in DOMAIN server'.row[l.row] :
                    j > Len(server.row[l.row]) /\ Wrote(server'.row[l.row][j], l)
    PROVE  /\ ServerTyped' /\ RoomTyped' /\ HandTyped' /\ Numbered' /\ Creations' /\ LogRows'
           /\ Versions' /\ LinesArrive' /\ EditsHeld'
  <1>0. Typed
    BY DEF ClientInv
  <1>1. InHand' = InHand /\ Waiting' = Waiting
    BY SameHand DEF Waiting
  <1>2. ServerTyped' /\ HandTyped' /\ Creations'
    BY <1>1 DEF ClientInv, Typed, ServerTyped, HandTyped, Creations
  <1>3. RoomTyped'
    <2>1. cursor' \in Nat /\ cursor' <= server'.seq
      BY DEF ClientInv, Typed, ServerTyped, RoomTyped, ServerRecord, Extends
    <2> QED BY <2>1 DEF ClientInv, Typed, RoomTyped
  <1>4. ASSUME NEW l \in server'.log \ server.log
        PROVE  \E o \in outbox : Id(o) = l.id /\ RowOfEdit(o) = l.row
    <2>1. PICK n \in DOMAIN sync.batch : l = sync.batch[n].mutation
      BY <1>4
    <2>2. PICK o \in outbox : SameEdit(o, sync.batch[n])
      BY DEF ClientInv, Batched
    <2> QED BY <2>1, <2>2 DEF SameEdit, Id, RowOfEdit
  <1>5. ASSUME NEW l \in server'.log \ server.log, NEW p \in Waiting, l.id = Id(p)
        PROVE  l.row = RowOfEdit(p) /\ p \notin InHand
    <2>1. PICK o \in outbox : Id(o) = l.id /\ RowOfEdit(o) = l.row
      BY <1>4, <1>5
    <2>2. o = p
      BY <1>5, <2>1 DEF ClientInv, Numbered, Waiting
    <2> QED BY <2>1, <2>2 DEF ClientInv, Numbered
  <1>6. Numbered'
    <2>1. ASSUME NEW l \in server'.log PROVE l.id <= made'
      <3>1. CASE l \in server.log
        BY <3>1 DEF ClientInv, Numbered
      <3>2. CASE l \notin server.log
        BY <1>4, <3>2 DEF ClientInv, Numbered, Waiting
      <3> QED BY <3>1, <3>2
    <2> QED BY <1>1, <2>1 DEF ClientInv, Numbered
  <1>7. LogRows'
    <2>1. ASSUME NEW m \in server'.log, NEW o \in Waiting, m.id = Id(o) PROVE m.row = RowOfEdit(o)
      <3>1. CASE m \in server.log
        BY <2>1, <3>1 DEF ClientInv, LogRows
      <3>2. CASE m \notin server.log
        BY <1>5, <2>1, <3>2
      <3> QED BY <3>1, <3>2
    <2>2. ASSUME NEW m \in server'.log, NEW o \in InHand PROVE m.id # Id(o)
      <3>1. CASE m \in server.log
        BY <3>1 DEF ClientInv, LogRows
      <3>2. CASE m \notin server.log
        BY <1>5, <3>2 DEF Waiting
      <3> QED BY <3>1, <3>2
    <2> QED BY <1>1, <2>1, <2>2 DEF LogRows
  <1>8. Versions'
    <2> SUFFICES ASSUME NEW r \in Rows \ forgone
                 PROVE  local[r].version <= Len(server'.row[r]) + 1
      BY DEF Versions
    <2>1. local[r].version <= Len(server.row[r]) + 1
      BY DEF ClientInv, Versions
    <2>2. Len(server.row[r]) <= Len(server'.row[r])
      BY DEF Extends
    <2>3. Len(server.row[r]) \in Nat /\ Len(server'.row[r]) \in Nat /\ local[r].version \in Nat
      BY <1>0, ServerRows, SequenceLength DEF ServerRecord
    <2> QED BY <2>1, <2>2, <2>3
  <1>9. ASSUME NEW o \in Waiting, RowOfEdit(o) \notin forgone, Arrived(o)
        PROVE  Arrived(o)'
    <2>1. RowOfEdit(o) \in Rows
      BY <1>0, WaitingRows
    <2>2. ASSUME NEW m \in server'.log \ server.log, m.id = Id(o)
          PROVE  \E k \in DOMAIN server'.row[RowOfEdit(o)] :
                   k >= local[RowOfEdit(o)].version /\ Wrote(server'.row[RowOfEdit(o)][k], m)
      <3>1. m.row = RowOfEdit(o)
        BY <1>5, <2>2
      <3>2. PICK j \in DOMAIN server'.row[RowOfEdit(o)] :
              j > Len(server.row[RowOfEdit(o)]) /\ Wrote(server'.row[RowOfEdit(o)][j], m)
        BY <2>2, <3>1
      <3>3. local[RowOfEdit(o)].version <= Len(server.row[RowOfEdit(o)]) + 1
        BY <1>9, <2>1 DEF ClientInv, Versions
      <3>4. /\ Len(server.row[RowOfEdit(o)]) \in Nat /\ local[RowOfEdit(o)].version \in Nat /\ j \in Nat
        <4>1. server'.row[RowOfEdit(o)] \in Seq(Value)
          BY <2>1 DEF ServerRecord
        <4>2. j \in Nat
          BY <3>2, <4>1, SequenceLength
        <4> QED BY <1>0, <2>1, <4>2, ServerRows
      <3>5. j >= local[RowOfEdit(o)].version
        BY <3>2, <3>3, <3>4
      <3> QED BY <3>2, <3>5
    <2> QED BY <1>0, <1>9, <2>1, <2>2, ArrivedStays
  <1>10. LinesArrive'
    BY <1>1, <1>9 DEF ClientInv, LinesArrive, RowOfEdit
  <1>11. ASSUME NEW r \in Rows \ forgone, local[r] # Missing
         PROVE  ContentHeld(r)' /\ DeletionHeld(r)'
    <2>1. ContentHeld(r) /\ DeletionHeld(r)
      BY <1>11 DEF ClientInv, EditsHeld
    <2>2. \A o \in Carriers : RowOfEdit(o) = r /\ Arrived(o) =>
             \E p \in Carriers' : p.mutation = o.mutation /\ Arrived(p)'
      <3>1. Carriers' = Carriers /\ Carriers \subseteq Waiting
        BY <1>1 DEF Carriers
      <3> QED BY <1>9, <3>1
    <2> QED BY <1>0, <2>1, <2>2, HeldStays
  <1>12. EditsHeld'
    BY <1>11 DEF EditsHeld
  <1> QED BY <1>2, <1>3, <1>6, <1>7, <1>8, <1>10, <1>12

LEMMA InvRemote ==
    ASSUME ClientInv, Remote
    PROVE  ClientInv'
  <1>1. /\ UNCHANGED <<local, outbox, conflicts, resolving, made, forgone, cursor, sync, wanted, owed>>
        /\ left.remote > 0 /\ left' = [left EXCEPT !.remote = @ - 1]
    BY DEF Remote, room
  <1>2. server \in ServerRecord /\ server.seq \in Nat
    BY DEF ClientInv, Typed, ServerTyped, ServerRecord
  <1>3. server' \in ServerRecord /\ Extends(server, server') /\ server'.log = server.log
    <2>1. PICK r \in Rows, content \in AnyContent, deletion \in {Unchanged, "delete"} :
            server' = Write(server,
               [id |-> 0, op |-> IF server.row[r] = <<>> THEN "create" ELSE "patch",
                row |-> r, expected |-> Current(server, r).version,
                content |-> content, deletion |-> deletion])
      BY DEF Remote
    <2> DEFINE m == [id |-> 0, op |-> IF server.row[r] = <<>> THEN "create" ELSE "patch",
                     row |-> r, expected |-> Current(server, r).version,
                     content |-> content, deletion |-> deletion]
    <2>2. m.row \in Rows /\ m.content \in AnyContent \cup {Unchanged}
      OBVIOUS
    <2> HIDE DEF m
    <2> QED BY <1>2, <2>1, <2>2, WriteGrows DEF m
  <1>4. /\ ServerTyped' /\ RoomTyped' /\ HandTyped' /\ Numbered' /\ Creations' /\ LogRows'
        /\ Versions' /\ LinesArrive' /\ EditsHeld'
    BY <1>1, <1>3, ServerStep
  <1>5. SyncTyped' /\ RestTyped'
    <2>1. sync.answer.cursor \in Nat /\ server'.seq \in Nat /\ server.seq <= server'.seq
      BY <1>3, BatchRows DEF ClientInv, AnswerRecord, ServerRecord, Extends
    <2>2. sync.answer.cursor <= server.seq
      BY DEF ClientInv, Typed, SyncTyped
    <2>3. sync'.answer.cursor <= server'.seq
      BY <1>1, <1>2, <2>1, <2>2
    <2>4. left' \in [remote : Nat, faults : Nat, expiries : Nat]
      BY <1>1 DEF ClientInv, Typed, RestTyped
    <2>5. SyncTyped'
      BY <1>1, <2>3 DEF ClientInv, Typed, SyncTyped
    <2> QED BY <1>1, <2>4, <2>5 DEF ClientInv, Typed, RestTyped
  <1>6. Batched' /\ Settling'
    <2>1. InHand' = InHand
      BY <1>1, SameHand
    <2> QED BY <1>1, <2>1 DEF ClientInv, Batched, Settling, Exact
  <1>7. AnswerTrue'
    <2> SUFFICES ASSUME sync.phase = "answered" PROVE AnswerTrue'
      BY <1>1 DEF AnswerTrue
    <2>1. ASSUME NEW r \in DOMAIN sync.answer.rows
          PROVE  /\ sync.answer.rows[r].version \in DOMAIN server'.row[r]
                 /\ sync.answer.rows[r].value = server'.row[r][sync.answer.rows[r].version]
      <3>1. r \in Rows
        BY BatchRows DEF ClientInv, AnswerRecord, SentRows
      <3>2. /\ sync.answer.rows[r].version \in DOMAIN server.row[r]
            /\ sync.answer.rows[r].value = server.row[r][sync.answer.rows[r].version]
        BY DEF ClientInv, AnswerTrue
      <3> QED BY <1>3, <3>1, <3>2 DEF Extends
    <2> QED BY <1>1, <1>3, <2>1 DEF ClientInv, AnswerTrue
  <1> QED BY <1>4, <1>5, <1>6, <1>7 DEF ClientInv, Typed

LEMMA InvServe ==
    ASSUME ClientInv, Serve
    PROVE  ClientInv'
  <1> DEFINE ms == [n \in DOMAIN sync.batch |-> sync.batch[n].mutation]
             done == Answered(ms)
             size == Len(sync.batch)
             rows == RowsSince(done.server, cursor)
             answer == [full |-> cursor = 0, expired |-> FALSE, rows |-> rows,
                        refusals |-> done.refusals, cursor |-> done.server.seq]
  <1>1. /\ UNCHANGED <<local, outbox, conflicts, resolving, made, forgone, cursor, wanted, owed, left>>
        /\ Sent /\ server' = done.server
        /\ sync' = [sync EXCEPT !.phase = "answered", !.answer = answer]
    BY DEF Serve, room
  <1>2. /\ server \in ServerRecord /\ size \in Nat /\ DOMAIN sync.batch = 1..size
        /\ \A n \in 1..size : sync.batch[n] \in OutboxRow
    BY BatchRows DEF ClientInv, Typed, ServerTyped
  <1>3. /\ DOMAIN ms = 1..size
        /\ \A n \in 1..size : ms[n] = sync.batch[n].mutation /\ ms[n] \in Mutation
    BY <1>2 DEF OutboxRow
  <1> HIDE DEF ms, size
  <1>4. AnswersMany(server, ms, size, done)
    BY <1>2, <1>3, AnsweredAll
  <1> HIDE DEF done
  <1>5. /\ done.server \in ServerRecord /\ done.server.seq \in Nat /\ done.refusals \subseteq Conflict
        /\ Extends(server, done.server)
    BY <1>4 DEF AnswersMany, Account, ServerRecord
  <1>6. \A l \in done.server.log \ server.log :
              /\ \E n \in DOMAIN sync.batch : l = sync.batch[n].mutation
              /\ \E j \in DOMAIN done.server.row[l.row] :
                    j > Len(server.row[l.row]) /\ Wrote(done.server.row[l.row][j], l)
    BY <1>2, <1>3, <1>4 DEF AnswersMany
  <1>7. /\ ServerTyped' /\ RoomTyped' /\ HandTyped' /\ Numbered' /\ Creations' /\ LogRows'
        /\ Versions' /\ LinesArrive' /\ EditsHeld'
    BY <1>1, <1>5, <1>6, ServerStep
  <1>8. /\ rows \in SentRows
        /\ \A r \in DOMAIN rows : /\ rows[r].version \in DOMAIN done.server.row[r]
                                  /\ rows[r].value = done.server.row[r][rows[r].version]
    BY <1>5, RowsSinceTrue
  <1> HIDE DEF rows
  <1>9. /\ answer \in AnswerRecord /\ answer.cursor = done.server.seq /\ answer.expired = FALSE
        /\ answer.rows = rows /\ answer.refusals = done.refusals
    BY <1>5, <1>8 DEF AnswerRecord
  <1> HIDE DEF answer
  <1>10. sync' = [phase |-> "answered", batch |-> sync.batch, marked |-> sync.marked, answer |-> answer]
    BY <1>1, BatchRows DEF ClientInv
  <1>11. /\ sync'.phase = "answered" /\ sync'.batch = sync.batch /\ sync'.marked = size
         /\ sync'.answer = answer /\ size = Len(sync.batch)
    BY <1>1, <1>10 DEF Sent, size
  <1>12. SyncTyped'
    <2>1. sync' \in SyncRecord
      BY <1>9, <1>10, BatchRows DEF ClientInv, SyncRecord, Phases
    <2> QED BY <1>1, <1>2, <1>5, <1>9, <1>11, <2>1 DEF SyncTyped
  <1>13. RestTyped'
    BY <1>1 DEF ClientInv, Typed, RestTyped
  <1>14. Batched'
    <2>1. \A n \in DOMAIN sync.batch : \E o \in outbox :
             /\ SameEdit(o, sync.batch[n]) /\ o.status # "conflict"
             /\ o = InFlight(sync.batch[n])
      BY <1>1, SentExactly
    <2>2. \A m, n \in DOMAIN sync.batch : Id(sync.batch[m]) = Id(sync.batch[n]) => m = n
      BY DEF ClientInv, Batched
    <2> QED BY <1>1, <1>11, <2>1, <2>2 DEF Batched
  <1>15. Settling'
    <2>1. InHand' = InHand
      BY <1>1, SameHand
    <2> QED BY <1>1, <1>11, <2>1 DEF ClientInv, Settling
  <1>16. AnswerTrue'
    <2>1. \A n \in 1..size : \/ sync.batch[n].mutation \in done.server.log
                             \/ \E c \in done.refusals : c.id = Id(sync.batch[n])
      BY <1>3, <1>4 DEF AnswersMany, Id
    <2>2. \A c \in done.refusals : \E n \in 1..size :
               c.id = Id(sync.batch[n]) /\ c.row = RowOfEdit(sync.batch[n])
      BY <1>3, <1>4 DEF AnswersMany, Id, RowOfEdit
    <2> QED BY <1>1, <1>2, <1>8, <1>9, <1>11, <2>1, <2>2 DEF AnswerTrue
  <1> QED BY <1>7, <1>12, <1>13, <1>14, <1>15, <1>16 DEF ClientInv, Typed

-----------------------------------------------------------------------------
(* Edits                                                                   *)

LEMMA NoArrival ==
    ASSUME NEW o, \A m \in server'.log : m.id # Id(o)
    PROVE  Arrived(o)'
  BY DEF Arrived, Id

LEMMA ServerStays ==
    ASSUME Typed, UNCHANGED server
    PROVE  Extends(server, server')
  BY SameServer DEF Typed, ServerTyped

\* An edit with an outbox row of its own, whose ID and time are the next ones.
LEMMA EditAdded ==
    ASSUME ClientInv, CanEdit, NEW m \in Mutation, m.id = Fresh,
           m.op = "create" => m.deletion = Unchanged /\ m.content # Unchanged,
           outbox' = outbox \cup {NewOutboxRow(m)}, made' = Fresh,
           local' \in [Rows -> Versioned], owed' = "enqueue",
           UNCHANGED <<server, conflicts, cursor, sync, wanted, resolving, left, forgone>>
    PROVE  /\ Typed' /\ Numbered' /\ Batched' /\ Settling' /\ Creations' /\ LogRows' /\ AnswerTrue'
           /\ Waiting' = Waiting \cup {NewOutboxRow(m)}
           /\ Carriers' = Carriers \cup {NewOutboxRow(m)}
           /\ Arrived(NewOutboxRow(m))'
  <1> DEFINE new == NewOutboxRow(m)
  <1>1. /\ new \in OutboxRow /\ new.mutation = m /\ new.createdAt = made + 1
        /\ new.status = "pending" /\ Id(new) = made + 1 /\ RowOfEdit(new) = m.row
    BY NewRows DEF Fresh, Id, RowOfEdit
  <1> HIDE DEF new
  <1>2. outbox' = outbox \cup {new} /\ InHand' = InHand /\ Waiting' = Waiting \cup {new}
    BY SameHand DEF new, Waiting
  <1>3. made \in 0..MaxMutations /\ made' = made + 1 /\ made' \in 0..MaxMutations
    BY ClientAssumption DEF ClientInv, Typed, RestTyped, CanEdit, Fresh
  <1>4. Typed'
    <2>1. ServerTyped' /\ HandTyped' /\ SyncTyped'
      BY DEF ClientInv, Typed, ServerTyped, HandTyped, SyncTyped
    <2>2. RoomTyped'
      BY <1>1, <1>2 DEF ClientInv, Typed, RoomTyped
    <2>3. RestTyped'
      BY <1>3 DEF ClientInv, Typed, RestTyped
    <2> QED BY <2>1, <2>2, <2>3 DEF Typed
  <1>5. \A o \in Waiting : Id(o) # made + 1 /\ o.createdAt # made + 1 /\ Id(o) <= made /\ o.createdAt <= made
    <2>1. \A o \in Waiting : Id(o) \in Nat /\ o.createdAt \in Nat
      BY WaitingRows DEF ClientInv
    <2> QED BY <1>3, <2>1 DEF ClientInv, Numbered
  <1>6. Numbered'
    <2>1. \A o \in Waiting' : Id(o) <= made' /\ o.createdAt <= made'
      <3>1. \A o \in Waiting : Id(o) \in Nat /\ o.createdAt \in Nat
        BY WaitingRows DEF ClientInv
      <3> QED BY <1>1, <1>2, <1>3, <1>5, <3>1
    <2>2. \A l \in server'.log : l.id <= made'
      <3>1. \A l \in server.log : l.id \in Nat /\ l.id <= made
        BY DEF ClientInv, Typed, ServerTyped, ServerRecord, Mutation, Numbered
      <3> QED BY <1>3, <3>1
    <2>3. (\A c \in conflicts' : c.id <= made') /\ \A h \in resolving' : h.conflict <= made'
      <3>1. /\ \A c \in conflicts : c.id \in Nat /\ c.id <= made
            /\ \A h \in resolving : h.conflict \in Nat /\ h.conflict <= made
        BY DEF ClientInv, Typed, RoomTyped, HandTyped, Conflict, Resolution, Numbered
      <3> QED BY <1>3, <3>1
    <2>4. \A o, p \in Waiting' : Id(o) = Id(p) \/ o.createdAt = p.createdAt => o = p
      BY <1>1, <1>2, <1>5 DEF ClientInv, Numbered
    <2>5. \A o \in outbox' : o \notin InHand'
      BY <1>1, <1>2, <1>5 DEF ClientInv, Numbered, Waiting
    <2> QED BY <2>1, <2>2, <2>3, <2>4, <2>5 DEF Numbered, Id
  <1>7. Batched'
    BY <1>2 DEF ClientInv, Batched, Exact
  <1>14. \A h \in resolving : h.conflict # made + 1
    BY <1>3 DEF ClientInv, Typed, HandTyped, Resolution, Numbered
  <1>8. Settling'
    <2>1. \A c \in conflicts : c.id # made + 1
      BY <1>3 DEF ClientInv, Typed, RoomTyped, Conflict, Numbered
    <2> QED BY <1>1, <1>2, <1>14, <2>1 DEF ClientInv, Settling
  <1>15. Carriers' = Carriers \cup {new}
    BY <1>1, <1>2, <1>14 DEF Carriers
  <1>9. Creations'
    BY <1>1, <1>2 DEF ClientInv, Creations
  <1>10. \A l \in server.log : l.id # Id(new)
    BY <1>1, <1>3 DEF ClientInv, Typed, ServerTyped, ServerRecord, Mutation, Numbered
  <1>11. LogRows'
    BY <1>2, <1>10 DEF ClientInv, LogRows
  <1>12. AnswerTrue'
    BY DEF ClientInv, AnswerTrue
  <1>13. Arrived(new)'
    BY <1>10, NoArrival
  <1> QED BY <1>2, <1>4, <1>6, <1>7, <1>8, <1>9, <1>11, <1>12, <1>13, <1>15 DEF new

LEMMA InvCreate ==
    ASSUME ClientInv, NEW r \in Rows, NEW content \in ContentsOf(r), Create(r, content)
    PROVE  ClientInv'
  <1>a. PICK m : m = [id |-> Fresh, op |-> "create", row |-> r, expected |-> 0,
                      content |-> content, deletion |-> Unchanged]
    OBVIOUS
  <1>b. PICK new : new = NewOutboxRow(m)
    OBVIOUS
  <1> DEFINE first == [version |-> 1, value |-> Live(content)]
  <1>0. Typed /\ UNCHANGED server /\ UNCHANGED forgone
    BY DEF ClientInv, Create
  <1>1. content \in AnyContent /\ content # Unchanged /\ Live(content) \in Value
    BY RowContents
  <1>2. /\ m \in Mutation /\ m.id = Fresh /\ m.row = r /\ m.op = "create"
        /\ m.content = content /\ m.deletion = Unchanged
    <2>1. Fresh \in 1..MaxMutations
      BY ClientAssumption DEF ClientInv, Typed, RestTyped, Create, CanEdit, Fresh
    <2> QED BY <1>a, <1>1, <2>1 DEF Mutation
  <1>3. first \in Versioned /\ first.version = 1 /\ first.value.content = content
        /\ first.value.deleted = FALSE
    BY <1>1, LiveFields DEF Versioned
  <1>4. local' = [local EXCEPT ![r] = first] /\ outbox' = outbox \cup {new}
    BY <1>a, <1>b DEF Create
  <1> HIDE DEF first
  <1>5. /\ local' \in [Rows -> Versioned] /\ local'[r] = first
        /\ \A s \in Rows \ {r} : local'[s] = local[s]
    BY <1>3, <1>4 DEF ClientInv, Typed, RoomTyped
  <1>6. /\ Typed' /\ Numbered' /\ Batched' /\ Settling' /\ Creations' /\ LogRows' /\ AnswerTrue'
        /\ Waiting' = Waiting \cup {new} /\ Carriers' = Carriers \cup {new}
        /\ Arrived(new)' /\ Carriers \subseteq Waiting
    BY <1>b, <1>1, <1>2, <1>4, <1>5, EditAdded DEF Create, Carriers
  <1>7. new.mutation = m /\ RowOfEdit(new) = r
    BY <1>b, <1>2, NewRows DEF RowOfEdit
  <1>8. Extends(server, server')
    BY <1>0, ServerStays
  <1>9. \A o \in Waiting : RowOfEdit(o) # r
    BY DEF Create, Unused, Waiting, RowOfEdit
  <1>10. ASSUME NEW o \in Waiting, Arrived(o) PROVE Arrived(o)'
    <2>1. RowOfEdit(o) \in Rows
      BY <1>0, WaitingRows
    <2> QED BY <1>0, <1>5, <1>8, <1>9, <1>10, <2>1, ArrivedStays
  <1>11. Versions'
    <2>1. local'[r].version <= Len(server'.row[r]) + 1
      BY <1>0, <1>3, <1>5, ServerRows
    <2> QED BY <1>0, <1>5, <2>1 DEF ClientInv, Versions
  <1>12. LinesArrive'
    BY <1>0, <1>6, <1>10 DEF ClientInv, LinesArrive, RowOfEdit
  <1>13. ASSUME NEW s \in Rows \ forgone, local'[s] # Missing
         PROVE  ContentHeld(s)' /\ DeletionHeld(s)'
    <2>1. CASE s = r
      <3>1. CarriesContent(new, s)' /\ CarriesDeletion(new, s)'
        BY <1>2, <1>3, <1>5, <1>6, <1>7, <2>1 DEF CarriesContent, CarriesDeletion, RowOfEdit
      <3> QED BY <1>6, <3>1 DEF ContentHeld, DeletionHeld
    <2>2. CASE s # r
      <3>1. local'[s] = local[s] /\ ContentHeld(s) /\ DeletionHeld(s)
        BY <1>5, <1>13, <2>2 DEF ClientInv, EditsHeld
      <3> QED BY <1>0, <1>6, <1>8, <1>10, <3>1, HeldStays
    <2> QED BY <2>1, <2>2
  <1>14. EditsHeld'
    BY <1>0, <1>13 DEF EditsHeld
  <1> QED BY <1>6, <1>11, <1>12, <1>14 DEF ClientInv

\* The inputs of Patch in Edit.
OneField(r, content, deletion) ==
    \/ content \in ContentsOf(r) /\ deletion = Unchanged
    \/ content = Unchanged /\ deletion \in {"delete", "restore"}

EditedRoom(r, content, deletion) == [local EXCEPT ![r].value = Edited(@, content, deletion)]

LEMMA PatchedRow ==
    ASSUME Typed, NEW r \in Rows, NEW content, NEW deletion, OneField(r, content, deletion),
           local' = EditedRoom(r, content, deletion)
    PROVE  /\ local' \in [Rows -> Versioned] /\ \A s \in Rows \ {r} : local'[s] = local[s]
           /\ \A s \in Rows : local'[s].version = local[s].version
           /\ content \in AnyContent \cup {Unchanged} /\ deletion \in {Unchanged, "delete", "restore"}
           /\ local'[r].value.content = IF content = Unchanged THEN local[r].value.content ELSE content
           /\ local'[r].value.deleted = IF deletion = Unchanged THEN local[r].value.deleted
                                        ELSE deletion = "delete"
  <1>1. content \in AnyContent \cup {Unchanged} /\ deletion \in {Unchanged, "delete", "restore"}
    BY RowContents DEF OneField
  <1> DEFINE v == Edited(local[r].value, content, deletion)
  <1>2. /\ local[r].version \in Nat /\ local[r].value \in Value
        /\ local[r] = [version |-> local[r].version, value |-> local[r].value]
    BY ServerRows
  <1>3. /\ v \in Value
        /\ v.content = IF content = Unchanged THEN local[r].value.content ELSE content
        /\ v.deleted = IF deletion = Unchanged THEN local[r].value.deleted ELSE deletion = "delete"
    BY <1>1, <1>2 DEF Edited, Value
  <1> HIDE DEF v
  <1>4. local' = [local EXCEPT ![r] = [version |-> local[r].version, value |-> v]]
    <2>1. [local[r] EXCEPT !.value = v] = [version |-> local[r].version, value |-> v]
      BY <1>2
    <2>2. local' = [local EXCEPT ![r] = [local[r] EXCEPT !.value = v]]
      BY DEF v, EditedRoom
    <2> QED BY <2>1, <2>2
  <1>5. [version |-> local[r].version, value |-> v] \in Versioned
    BY <1>2, <1>3 DEF Versioned
  <1>6. local \in [Rows -> Versioned]
    BY DEF Typed, RoomTyped
  <1>7. /\ local' \in [Rows -> Versioned] /\ \A s \in Rows \ {r} : local'[s] = local[s]
        /\ local'[r].version = local[r].version /\ local'[r].value = v
    <2> DEFINE row == [version |-> local[r].version, value |-> v]
    <2>1. row.version = local[r].version /\ row.value = v /\ row \in Versioned
      BY <1>5
    <2>2. local' = [local EXCEPT ![r] = row]
      BY <1>4
    <2> HIDE DEF row
    <2>3. local' \in [Rows -> Versioned] /\ local'[r] = row /\ \A s \in Rows \ {r} : local'[s] = local[s]
      BY <1>6, <2>1, <2>2
    <2> QED BY <2>1, <2>3
  <1> QED BY <1>1, <1>3, <1>7

LEMMA InvPatchNew ==
    ASSUME ClientInv, NEW r \in Rows, NEW content, NEW deletion, OneField(r, content, deletion),
           CanEdit, local[r] # Missing,
           local' = EditedRoom(r, content, deletion),
           outbox' = outbox \cup {NewOutboxRow(
                [id |-> Fresh, op |-> "patch", row |-> r, expected |-> local[r].version,
                 content |-> content, deletion |-> deletion])},
           made' = Fresh, owed' = "enqueue",
           UNCHANGED <<server, conflicts, cursor, sync, wanted, resolving, left, forgone>>
    PROVE  ClientInv'
  <1>a. PICK m : m = [id |-> Fresh, op |-> "patch", row |-> r, expected |-> local[r].version,
                      content |-> content, deletion |-> deletion]
    OBVIOUS
  <1>b. PICK new : new = NewOutboxRow(m)
    OBVIOUS
  <1>0. Typed
    BY DEF ClientInv
  <1>1. /\ local' \in [Rows -> Versioned] /\ \A s \in Rows \ {r} : local'[s] = local[s]
        /\ \A s \in Rows : local'[s].version = local[s].version
        /\ content \in AnyContent \cup {Unchanged} /\ deletion \in {Unchanged, "delete", "restore"}
        /\ local'[r].value.content = IF content = Unchanged THEN local[r].value.content ELSE content
        /\ local'[r].value.deleted = IF deletion = Unchanged THEN local[r].value.deleted
                                     ELSE deletion = "delete"
    BY <1>0, PatchedRow
  <1>2. /\ m \in Mutation /\ m.id = Fresh /\ m.row = r /\ m.op = "patch"
        /\ m.content = content /\ m.deletion = deletion
    <2>1. Fresh \in 1..MaxMutations
      BY ClientAssumption DEF ClientInv, Typed, RestTyped, CanEdit, Fresh
    <2>2. local[r].version \in Nat
      BY <1>0, ServerRows
    <2> QED BY <1>a, <1>1, <2>1, <2>2 DEF Mutation
  <1>3. outbox' = outbox \cup {new}
    BY <1>a, <1>b
  <1>4. /\ Typed' /\ Numbered' /\ Batched' /\ Settling' /\ Creations' /\ LogRows' /\ AnswerTrue'
        /\ Waiting' = Waiting \cup {new} /\ Carriers' = Carriers \cup {new}
        /\ Arrived(new)' /\ Carriers \subseteq Waiting
    BY <1>b, <1>1, <1>2, <1>3, EditAdded DEF Carriers
  <1>5. new.mutation = m /\ RowOfEdit(new) = r
    BY <1>b, <1>2, NewRows DEF RowOfEdit
  <1>6. Extends(server, server')
    BY <1>0, ServerStays
  <1>7. ASSUME NEW o \in Waiting, Arrived(o) PROVE Arrived(o)'
    <2>1. RowOfEdit(o) \in Rows
      BY <1>0, WaitingRows
    <2> QED BY <1>0, <1>1, <1>6, <1>7, <2>1, ArrivedStays
  <1>8. Versions'
    BY <1>1 DEF ClientInv, Versions
  <1>9. LinesArrive'
    BY <1>4, <1>7 DEF ClientInv, LinesArrive, RowOfEdit
  <1>10. ContentHeld(r) => ContentHeld(r)'
    <2>1. CASE content = Unchanged
      BY <1>0, <1>1, <1>4, <1>6, <1>7, <2>1, ContentStays
    <2>2. CASE content # Unchanged
      <3>1. CarriesContent(new, r)'
        BY <1>1, <1>2, <1>4, <1>5, <2>2 DEF CarriesContent, RowOfEdit
      <3> QED BY <1>4, <3>1 DEF ContentHeld
    <2> QED BY <2>1, <2>2
  <1>11. DeletionHeld(r) => DeletionHeld(r)'
    <2>1. CASE deletion = Unchanged
      BY <1>0, <1>1, <1>4, <1>6, <1>7, <2>1, DeletionStays
    <2>2. CASE deletion # Unchanged
      <3>1. CarriesDeletion(new, r)'
        BY <1>1, <1>2, <1>4, <1>5, <2>2 DEF CarriesDeletion, RowOfEdit
      <3> QED BY <1>4, <3>1 DEF DeletionHeld
    <2> QED BY <2>1, <2>2
  <1>12. ASSUME NEW s \in Rows \ forgone, local'[s] # Missing
         PROVE  ContentHeld(s)' /\ DeletionHeld(s)'
    <2>1. CASE s = r
      BY <1>10, <1>11, <2>1 DEF ClientInv, EditsHeld
    <2>2. CASE s # r
      <3>1. local'[s] = local[s] /\ ContentHeld(s) /\ DeletionHeld(s)
        BY <1>1, <1>12, <2>2 DEF ClientInv, EditsHeld
      <3> QED BY <1>0, <1>4, <1>6, <1>7, <3>1, HeldStays
    <2> QED BY <2>1, <2>2
  <1>13. EditsHeld'
    BY <1>12 DEF EditsHeld
  <1> QED BY <1>4, <1>8, <1>9, <1>13 DEF ClientInv

\* An outbox row that another row of the same edit replaces.
LEMMA RowReplaced ==
    ASSUME ClientInv, NEW o \in outbox, NEW p \in OutboxRow, SameEdit(p, o),
           outbox' = (outbox \ {o}) \cup {p},
           o.mutation.op = "create" => p.mutation.deletion = o.mutation.deletion
                                       /\ p.mutation.content = o.mutation.content,
           made <= made', made' \in 0..MaxMutations,
           UNCHANGED <<server, conflicts, resolving>>
    PROVE  /\ Numbered' /\ Creations' /\ LogRows'
           /\ InHand' = InHand /\ Waiting' = (Waiting \ {o}) \cup {p}
           /\ \A q \in Carriers : q \in Waiting /\ (q # o => q \in Carriers')
           /\ o \in Carriers => p \in Carriers'
  <1>1. /\ Id(p) = Id(o) /\ p.createdAt = o.createdAt /\ RowOfEdit(p) = RowOfEdit(o)
        /\ p.mutation.op = o.mutation.op
    BY DEF SameEdit
  <1>2. InHand' = InHand /\ o \notin InHand
    BY SameHand DEF ClientInv, Numbered
  <1>3. Waiting' = (Waiting \ {o}) \cup {p}
    BY <1>2 DEF Waiting
  <1>5. made \in Nat /\ made' \in Nat
    BY ClientAssumption DEF ClientInv, Typed, RestTyped
  <1>6. Numbered'
    <2>1. \A q \in Waiting : Id(q) \in Nat /\ q.createdAt \in Nat /\ Id(q) <= made /\ q.createdAt <= made
      BY WaitingRows DEF ClientInv, Numbered
    <2>2. \A q \in Waiting' : Id(q) <= made' /\ q.createdAt <= made'
      BY <1>1, <1>3, <1>5, <2>1 DEF Waiting
    <2>3. \A l \in server'.log : l.id <= made'
      <3>1. \A l \in server.log : l.id \in Nat /\ l.id <= made
        BY DEF ClientInv, Typed, ServerTyped, ServerRecord, Mutation, Numbered
      <3> QED BY <1>5, <3>1
    <2>4. (\A c \in conflicts' : c.id <= made') /\ \A h \in resolving' : h.conflict <= made'
      <3>1. /\ \A c \in conflicts : c.id \in Nat /\ c.id <= made
            /\ \A h \in resolving : h.conflict \in Nat /\ h.conflict <= made
        BY DEF ClientInv, Typed, RoomTyped, HandTyped, Conflict, Resolution, Numbered
      <3> QED BY <1>5, <3>1
    <2>5. \A a, b \in Waiting' : Id(a) = Id(b) \/ a.createdAt = b.createdAt => a = b
      <3>1. \A a, b \in Waiting : Id(a) = Id(b) \/ a.createdAt = b.createdAt => a = b
        BY DEF ClientInv, Numbered
      <3>2. o \in Waiting
        BY DEF Waiting
      <3> QED BY <1>1, <1>3, <3>1, <3>2
    <2>6. p \notin InHand
      <3>1. \A b \in InHand : Id(b) # Id(o)
        BY <1>2 DEF ClientInv, Numbered, Waiting
      <3> QED BY <1>1, <3>1
    <2>7. \A q \in outbox' : q \notin InHand'
      BY <1>2, <2>6 DEF ClientInv, Numbered
    <2> QED BY <2>2, <2>3, <2>4, <2>5, <2>7 DEF Numbered, Id
  <1>7. Creations'
    <2>1. \A q \in Waiting : q.mutation.op = "create" =>
             q.mutation.deletion = Unchanged /\ q.mutation.content # Unchanged
      BY DEF ClientInv, Creations
    <2>2. o \in Waiting
      BY DEF Waiting
    <2> QED BY <1>1, <1>3, <2>1, <2>2 DEF Creations
  <1>8. LogRows'
    <2>1. \A m \in server.log, q \in Waiting : m.id = Id(q) => m.row = RowOfEdit(q)
      BY DEF ClientInv, LogRows
    <2>2. o \in Waiting
      BY DEF Waiting
    <2>3. \A m \in server.log, q \in Waiting' : m.id = Id(q) => m.row = RowOfEdit(q)
      BY <1>1, <1>3, <2>1, <2>2
    <2>4. \A m \in server.log, q \in InHand : m.id # Id(q)
      BY DEF ClientInv, LogRows
    <2> QED BY <1>2, <2>3, <2>4 DEF LogRows
  <1>9. /\ \A q \in Carriers : q \in Waiting /\ (q # o => q \in Carriers')
        /\ o \in Carriers => p \in Carriers'
    BY <1>1, <1>3 DEF Carriers
  <1> QED BY <1>2, <1>3, <1>6, <1>7, <1>8, <1>9

LEMMA InvPatchMerged ==
    ASSUME ClientInv, NEW r \in Rows, NEW content, NEW deletion, OneField(r, content, deletion),
           CanEdit, local[r] # Missing, NEW o \in Mergeable(r),
           local' = EditedRoom(r, content, deletion),
           outbox' = (outbox \ {o}) \cup {MergedRow(o, content, deletion)},
           forgone' = forgone \cup (IF AboutToBeMarked(o) THEN {r} ELSE {}),
           made' = Fresh, owed' = "enqueue",
           UNCHANGED <<server, conflicts, cursor, sync, wanted, resolving, left>>
    PROVE  ClientInv'
  <1>a. PICK p : p = MergedRow(o, content, deletion)
    OBVIOUS
  <1>0. Typed
    BY DEF ClientInv
  <1>1. /\ local' \in [Rows -> Versioned] /\ \A s \in Rows \ {r} : local'[s] = local[s]
        /\ \A s \in Rows : local'[s].version = local[s].version
        /\ content \in AnyContent \cup {Unchanged} /\ deletion \in {Unchanged, "delete", "restore"}
        /\ local'[r].value.content = IF content = Unchanged THEN local[r].value.content ELSE content
        /\ local'[r].value.deleted = IF deletion = Unchanged THEN local[r].value.deleted
                                     ELSE deletion = "delete"
    BY <1>0, PatchedRow
  <1>2. /\ o \in outbox /\ o \in OutboxRow /\ o.status = "pending" /\ r \in Lines
        /\ o.mutation.op = "patch" /\ RowOfEdit(o) = r
    BY <1>0 DEF Mergeable, Typed, RoomTyped, RowOfEdit
  <1>3. /\ p \in OutboxRow /\ SameEdit(p, o) /\ p.status = o.status
        /\ p.mutation.content = IF content = Unchanged THEN o.mutation.content ELSE content
        /\ p.mutation.deletion = IF deletion = Unchanged THEN o.mutation.deletion ELSE deletion
    <2>1. /\ o \in OutboxRow /\ content \in AnyContent \cup {Unchanged}
          /\ deletion \in {Unchanged, "delete", "restore"}
      BY <1>1, <1>2
    <2>2. Merges(p, o, content, deletion)
      BY <1>a, <2>1, MergedRows
    <2> QED BY <2>2 DEF Merges
  <1>4. made' \in 0..MaxMutations /\ made <= made' /\ outbox' = (outbox \ {o}) \cup {p}
    BY <1>a, ClientAssumption DEF ClientInv, Typed, RestTyped, CanEdit, Fresh
  <1>5. /\ Numbered' /\ Creations' /\ LogRows'
        /\ InHand' = InHand /\ Waiting' = (Waiting \ {o}) \cup {p}
        /\ \A q \in Carriers : q \in Waiting /\ (q # o => q \in Carriers')
        /\ o \in Carriers => p \in Carriers'
    BY <1>2, <1>3, <1>4, RowReplaced
  <1>6. forgone \subseteq forgone' /\ forgone' \subseteq Rows
    BY DEF ClientInv, Typed, RoomTyped
  <1>7. Typed'
    <2>1. ServerTyped' /\ HandTyped' /\ SyncTyped'
      BY DEF ClientInv, Typed, ServerTyped, HandTyped, SyncTyped
    <2>2. RoomTyped'
      BY <1>1, <1>3, <1>4, <1>6 DEF ClientInv, Typed, RoomTyped
    <2>3. RestTyped'
      BY <1>4 DEF ClientInv, Typed, RestTyped
    <2> QED BY <2>1, <2>2, <2>3 DEF Typed
  <1>8. Batched'
    <2> SUFFICES ASSUME NEW n \in DOMAIN sync.batch
                 PROVE  \E q \in outbox' :
                          /\ SameEdit(q, sync.batch[n])
                          /\ q.status # "conflict"
                          /\ Exact(n) => q = InFlight(sync.batch[n])
                          /\ sync.phase = "marking" /\ ~Exact(n) =>
                               \/ q.mutation = sync.batch[n].mutation
                               \/ RowOfEdit(q) \in forgone' /\ q.mutation.op = "patch"
      BY DEF ClientInv, Batched, Exact
    <2>1. PICK q \in outbox :
             /\ SameEdit(q, sync.batch[n])
             /\ q.status # "conflict"
             /\ Exact(n) => q = InFlight(sync.batch[n])
             /\ sync.phase = "marking" /\ ~Exact(n) =>
                  \/ q.mutation = sync.batch[n].mutation
                  \/ RowOfEdit(q) \in forgone /\ q.mutation.op = "patch"
      BY DEF ClientInv, Batched
    <2>2. CASE q # o
      BY <1>4, <1>6, <2>1, <2>2
    <2>3. CASE q = o
      <3>1. ~Exact(n)
        <4>1. InFlight(sync.batch[n]).status = "in_flight"
          BY <1>0, BatchRows, InFlightRows
        <4> QED BY <1>2, <2>1, <2>3, <4>1
      <3>2. /\ SameEdit(p, sync.batch[n]) /\ p.status # "conflict"
            /\ RowOfEdit(p) = r /\ p.mutation.op = "patch"
        BY <1>2, <1>3, <2>1, <2>3 DEF SameEdit
      <3>3. sync.phase = "marking" => r \in forgone'
        <4> SUFFICES ASSUME sync.phase = "marking" PROVE AboutToBeMarked(o)
          OBVIOUS
        <4>1. ~(n <= sync.marked) /\ n \in Nat /\ sync.marked \in Nat
          BY <1>0, <3>1, BatchRows DEF Exact
        <4>2. sync.batch[n].mutation.id = o.mutation.id
          BY <2>1, <2>3 DEF SameEdit, Id
        <4> QED BY <4>1, <4>2 DEF AboutToBeMarked
      <3> QED BY <1>4, <3>1, <3>2, <3>3
    <2> QED BY <2>2, <2>3
  <1>9. Settling'
    <2>1. \A q \in outbox' : q \in outbox \/ (q = p /\ Id(p) = Id(o))
      BY <1>3, <1>4 DEF SameEdit
    <2>2. /\ \A c \in conflicts : Id(o) # c.id
          /\ \A h \in resolving : Id(o) # h.conflict
      BY <1>2 DEF ClientInv, Settling
    <2>3. /\ \A c \in conflicts, q \in outbox' :
                Id(q) = c.id => q.status = "conflict" /\ RowOfEdit(q) = c.row
          /\ \A h \in resolving, q \in outbox' : Id(q) = h.conflict => q.status = "conflict"
      BY <2>1, <2>2 DEF ClientInv, Settling
    <2> QED BY <1>5, <2>3 DEF ClientInv, Settling
  <1>10. AnswerTrue'
    BY DEF ClientInv, AnswerTrue
  <1>11. Extends(server, server')
    BY <1>0, ServerStays
  <1>12. ASSUME NEW q \in Waiting, NEW s \in Waiting', SameEdit(s, q), Arrived(q) PROVE Arrived(s)'
    <2>1. RowOfEdit(q) \in Rows /\ Id(s) = Id(q) /\ RowOfEdit(s) = RowOfEdit(q)
      BY <1>0, <1>12, WaitingRows DEF SameEdit
    <2> QED BY <1>0, <1>1, <1>11, <1>12, <2>1, ArrivedStays
  <1>13. Versions'
    BY <1>1, <1>6 DEF ClientInv, Versions
  <1>14. o \in Waiting /\ p \in Waiting' /\ RowOfEdit(p) = r /\ p.mutation.op = o.mutation.op
    BY <1>2, <1>3, <1>5 DEF Waiting, SameEdit
  <1>15. \A q \in Waiting \ {o} : q \in Waiting' /\ SameEdit(q, q)
    BY <1>5 DEF SameEdit
  <1>16. LinesArrive'
    <2> SUFFICES ASSUME NEW s \in Waiting', RowOfEdit(s) \in Lines \ forgone' PROVE Arrived(s)'
      BY DEF LinesArrive, RowOfEdit
    <2>1. CASE s = p
      BY <1>2, <1>3, <1>6, <1>12, <1>14, <2>1 DEF ClientInv, LinesArrive
    <2>2. CASE s # p
      BY <1>5, <1>6, <1>12, <1>15, <2>2 DEF ClientInv, LinesArrive
    <2> QED BY <2>1, <2>2
  <1>17. ASSUME r \notin forgone' PROVE Arrived(p)'
    BY <1>2, <1>14, <1>16, <1>17 DEF LinesArrive, RowOfEdit
  <1>22. p \in Carriers'
    <2>1. \A h \in resolving : Id(o) # h.conflict
      BY <1>2 DEF ClientInv, Settling
    <2> QED BY <1>5, <1>14, <2>1 DEF Carriers
  <1>18. ASSUME r \notin forgone', ContentHeld(r) PROVE ContentHeld(r)'
    <2>1. CASE content = Unchanged
      <3>1. \A q \in Carriers : RowOfEdit(q) = r /\ Arrived(q) =>
               \E s \in Carriers' : /\ RowOfEdit(s) = r /\ Arrived(s)'
                                   /\ s.mutation.content = q.mutation.content
        BY <1>3, <1>5, <1>12, <1>14, <1>15, <2>1
      <3> QED BY <1>0, <1>1, <1>11, <1>18, <2>1, <3>1, ContentStays
    <2>2. CASE content # Unchanged
      <3>1. CarriesContent(p, r)'
        BY <1>1, <1>3, <1>14, <1>17, <1>18, <2>2 DEF CarriesContent, RowOfEdit
      <3> QED BY <1>22, <3>1 DEF ContentHeld
    <2> QED BY <2>1, <2>2
  <1>19. ASSUME r \notin forgone', DeletionHeld(r) PROVE DeletionHeld(r)'
    <2>1. CASE deletion = Unchanged
      <3>1. \A q \in Carriers : RowOfEdit(q) = r /\ Arrived(q) =>
               \E s \in Carriers' : /\ RowOfEdit(s) = r /\ Arrived(s)'
                                   /\ s.mutation.deletion = q.mutation.deletion
                                   /\ s.mutation.op = q.mutation.op
        BY <1>3, <1>5, <1>12, <1>14, <1>15, <2>1
      <3> QED BY <1>0, <1>1, <1>11, <1>19, <2>1, <3>1, DeletionStays
    <2>2. CASE deletion # Unchanged
      <3>1. CarriesDeletion(p, r)'
        BY <1>1, <1>3, <1>14, <1>17, <1>19, <2>2 DEF CarriesDeletion, RowOfEdit
      <3> QED BY <1>22, <3>1 DEF DeletionHeld
    <2> QED BY <2>1, <2>2
  <1>20. ASSUME NEW s \in Rows \ forgone', local'[s] # Missing
         PROVE  ContentHeld(s)' /\ DeletionHeld(s)'
    <2>1. CASE s = r
      <3>1. local[r] # Missing
        OBVIOUS
      <3> QED BY <1>6, <1>18, <1>19, <1>20, <2>1, <3>1 DEF ClientInv, EditsHeld
    <2>2. CASE s # r
      <3>1. local'[s] = local[s] /\ ContentHeld(s) /\ DeletionHeld(s)
        BY <1>1, <1>6, <1>20, <2>2 DEF ClientInv, EditsHeld
      <3>2. \A q \in Carriers : RowOfEdit(q) = s /\ Arrived(q) =>
               \E t \in Carriers' : t.mutation = q.mutation /\ Arrived(t)'
        BY <1>2, <1>5, <1>12, <1>15, <2>2
      <3> QED BY <1>0, <1>11, <3>1, <3>2, HeldStays
    <2> QED BY <2>1, <2>2
  <1>21. EditsHeld'
    BY <1>20 DEF EditsHeld
  <1> QED BY <1>5, <1>7, <1>8, <1>9, <1>10, <1>13, <1>16, <1>21 DEF ClientInv

LEMMA InvPatch ==
    ASSUME ClientInv, NEW r \in Rows, NEW content, NEW deletion, OneField(r, content, deletion),
           Patch(r, content, deletion)
    PROVE  ClientInv'
  <1>1. /\ CanEdit /\ local[r] # Missing /\ local' = EditedRoom(r, content, deletion)
        /\ made' = Fresh /\ owed' = "enqueue"
        /\ UNCHANGED <<server, conflicts, cursor, sync, wanted, resolving, left>>
    BY DEF Patch, EditedRoom
  <1>2. CASE Mergeable(r) # {}
    <2>1. PICK o \in Mergeable(r) :
            /\ outbox' = (outbox \ {o}) \cup {MergedRow(o, content, deletion)}
            /\ forgone' = forgone \cup (IF AboutToBeMarked(o) THEN {r} ELSE {})
      BY <1>2 DEF Patch, MergedRow
    <2> QED BY <1>1, <2>1, InvPatchMerged
  <1>3. CASE Mergeable(r) = {}
    <2>1. /\ outbox' = outbox \cup {NewOutboxRow(
                [id |-> Fresh, op |-> "patch", row |-> r, expected |-> local[r].version,
                 content |-> content, deletion |-> deletion])}
          /\ UNCHANGED forgone
      BY <1>3 DEF Patch
    <2> QED BY <1>1, <2>1, InvPatchNew
  <1> QED BY <1>2, <1>3

LEMMA InvEdit ==
    ASSUME ClientInv, Edit
    PROVE  ClientInv'
  <1>1. PICK r \in Rows :
        \/ \E content \in ContentsOf(r) : Create(r, content)
        \/ \E content \in ContentsOf(r) : Patch(r, content, Unchanged)
        \/ \E deletion \in {"delete", "restore"} : Patch(r, Unchanged, deletion)
    BY DEF Edit
  <1>2. CASE \E content \in ContentsOf(r) : Create(r, content)
    BY <1>2, InvCreate
  <1>3. CASE \E content \in ContentsOf(r) : Patch(r, content, Unchanged)
    BY <1>3, InvPatch DEF OneField
  <1>4. CASE \E deletion \in {"delete", "restore"} : Patch(r, Unchanged, deletion)
    BY <1>4, InvPatch DEF OneField
  <1> QED BY <1>1, <1>2, <1>3, <1>4

-----------------------------------------------------------------------------
(* Marking the batch                                                       *)

LEMMA InvWriteBack ==
    ASSUME ClientInv, NEW st \in {"in_flight", "pending"}, WriteBack(st),
           \/ sync.phase = "marking" /\ st = "in_flight"
           \/ sync.phase = "failed" /\ st = "pending",
           UNCHANGED <<server, local, conflicts, cursor, wanted, owed, resolving, made, left, forgone>>
    PROVE  ClientInv'
  <1> DEFINE N == sync.marked + 1
  <1>a. PICK p : p = [sync.batch[N] EXCEPT !.status = st]
    OBVIOUS
  <1>0. Typed
    BY DEF ClientInv
  <1>1. /\ sync.batch \in Seq(OutboxRow) /\ DOMAIN sync.batch = 1..Len(sync.batch)
        /\ Len(sync.batch) \in Nat /\ sync.marked \in Nat
        /\ \A n \in DOMAIN sync.batch : sync.batch[n] \in OutboxRow
        /\ sync = [phase |-> sync.phase, batch |-> sync.batch, marked |-> sync.marked,
                   answer |-> sync.answer]
        /\ sync.answer \in AnswerRecord /\ sync.phase \in Phases
    BY <1>0, BatchRows
  <1>2. /\ sync.marked < Len(sync.batch)
        /\ outbox' = {o \in outbox : o.mutation.id # p.mutation.id} \cup {p}
        /\ sync' = [sync EXCEPT !.marked = @ + 1]
    BY <1>a DEF WriteBack
  <1>3. N \in DOMAIN sync.batch /\ sync.batch[N] \in OutboxRow
    BY <1>1, <1>2
  <1>4. /\ sync' = [phase |-> sync.phase, batch |-> sync.batch, marked |-> N, answer |-> sync.answer]
        /\ sync'.phase = sync.phase /\ sync'.batch = sync.batch /\ sync'.marked = N
        /\ sync'.answer = sync.answer
    BY <1>1, <1>2
  <1>5. /\ p \in OutboxRow /\ p.mutation = sync.batch[N].mutation /\ p.status = st
        /\ SameEdit(p, sync.batch[N]) /\ (st = "in_flight" => p = InFlight(sync.batch[N]))
    <2> HIDE DEF N
    <2>1. /\ p \in OutboxRow /\ p.mutation = sync.batch[N].mutation /\ p.status = st
          /\ p.createdAt = sync.batch[N].createdAt
      BY <1>a, <1>3 DEF OutboxRow, Statuses
    <2>2. SameEdit(p, sync.batch[N])
      BY <2>1 DEF SameEdit, Id, RowOfEdit
    <2>3. st = "in_flight" => p = InFlight(sync.batch[N])
      BY <1>a DEF InFlight
    <2> QED BY <2>1, <2>2, <2>3
  <1> HIDE DEF N
  <1>6. PICK o \in outbox :
          /\ SameEdit(o, sync.batch[N]) /\ o.status # "conflict"
          /\ Exact(N) => o = InFlight(sync.batch[N])
          /\ sync.phase = "marking" /\ ~Exact(N) =>
               \/ o.mutation = sync.batch[N].mutation
               \/ RowOfEdit(o) \in forgone /\ o.mutation.op = "patch"
    BY <1>3 DEF ClientInv, Batched
  <1>7. /\ SameEdit(p, o) /\ Id(p) = Id(o) /\ RowOfEdit(p) = RowOfEdit(o)
        /\ p.mutation.op = o.mutation.op
    BY <1>5, <1>6 DEF SameEdit
  <1>8. p.mutation = o.mutation \/ (RowOfEdit(o) \in forgone /\ o.mutation.op = "patch")
    <2>1. CASE sync.phase = "marking"
      <3>1. ~Exact(N)
        BY <1>1, <2>1 DEF Exact, N
      <3>2. \/ o.mutation = sync.batch[N].mutation
            \/ RowOfEdit(o) \in forgone /\ o.mutation.op = "patch"
        BY <1>6, <2>1, <3>1
      <3> QED BY <1>5, <3>2
    <2>2. CASE sync.phase = "failed"
      <3>1. Exact(N)
        BY <1>1, <2>2 DEF Exact, N
      <3>2. InFlight(sync.batch[N]).mutation = sync.batch[N].mutation
        BY <1>3, InFlightRows
      <3>3. o = InFlight(sync.batch[N])
        BY <1>6, <3>1
      <3> QED BY <1>5, <3>2, <3>3
    <2> QED BY <2>1, <2>2
  <1>9. outbox' = (outbox \ {o}) \cup {p}
    <2>1. \A q \in outbox : Id(q) = Id(p) <=> q = o
      BY <1>7 DEF ClientInv, Numbered, Waiting
    <2> QED BY <1>2, <2>1 DEF Id
  <1>10. made' \in 0..MaxMutations /\ made <= made'
    BY ClientAssumption DEF ClientInv, Typed, RestTyped
  <1>11. /\ Numbered' /\ Creations' /\ LogRows'
         /\ InHand' = InHand /\ Waiting' = (Waiting \ {o}) \cup {p}
         /\ \A q \in Carriers : q \in Waiting /\ (q # o => q \in Carriers')
         /\ o \in Carriers => p \in Carriers'
    BY <1>5, <1>7, <1>8, <1>9, <1>10, RowReplaced
  <1>12. Typed'
    <2>1. ServerTyped' /\ HandTyped' /\ RestTyped'
      BY DEF ClientInv, Typed, ServerTyped, HandTyped, RestTyped
    <2>2. RoomTyped'
      BY <1>5, <1>9 DEF ClientInv, Typed, RoomTyped
    <2>3. N \in Nat /\ N <= Len(sync.batch)
      BY <1>1, <1>2 DEF N
    <2>4. sync' \in SyncRecord
      BY <1>1, <1>4, <2>3 DEF SyncRecord
    <2>5. SyncTyped'
      BY <1>4, <2>3, <2>4 DEF Typed, SyncTyped, ClientInv
    <2> QED BY <2>1, <2>2, <2>5 DEF Typed
  <1>13. Batched'
    <2>1. ASSUME NEW n \in DOMAIN sync.batch
          PROVE  \E q \in outbox' :
                   /\ SameEdit(q, sync.batch[n])
                   /\ q.status # "conflict"
                   /\ Exact(n)' => q = InFlight(sync.batch[n])
                   /\ sync.phase = "marking" /\ ~Exact(n)' =>
                        \/ q.mutation = sync.batch[n].mutation
                        \/ RowOfEdit(q) \in forgone /\ q.mutation.op = "patch"
      <3>1. CASE n = N
        <4>1. Exact(n)' => st = "in_flight"
          BY <1>1, <1>4, <3>1 DEF Exact
        <4> QED BY <1>5, <1>9, <3>1, <4>1
      <3>2. CASE n # N
        <4>1. PICK q \in outbox :
                /\ SameEdit(q, sync.batch[n])
                /\ q.status # "conflict"
                /\ Exact(n) => q = InFlight(sync.batch[n])
                /\ sync.phase = "marking" /\ ~Exact(n) =>
                     \/ q.mutation = sync.batch[n].mutation
                     \/ RowOfEdit(q) \in forgone /\ q.mutation.op = "patch"
          BY DEF ClientInv, Batched
        <4>2. q # o
          BY <1>3, <1>6, <3>2, <4>1 DEF ClientInv, Batched, SameEdit
        <4>3. Exact(n)' <=> Exact(n)
          BY <1>1, <1>4, <3>2 DEF Exact, N
        <4> QED BY <1>9, <4>1, <4>2, <4>3
      <3> QED BY <3>1, <3>2
    <2>2. \A m, n \in DOMAIN sync.batch : Id(sync.batch[m]) = Id(sync.batch[n]) => m = n
      BY DEF ClientInv, Batched
    <2> QED BY <1>4, <2>1, <2>2 DEF Batched
  <1>14. Settling'
    <2>1. \A q \in outbox' : q \in outbox \/ (q = p /\ Id(p) = Id(sync.batch[N]))
      BY <1>5, <1>9 DEF SameEdit
    <2>2. /\ \A c \in conflicts : Id(sync.batch[N]) # c.id
          /\ \A h \in resolving : Id(sync.batch[N]) # h.conflict
      BY <1>3 DEF ClientInv, Settling
    <2>3. /\ \A c \in conflicts, q \in outbox' :
                Id(q) = c.id => q.status = "conflict" /\ RowOfEdit(q) = c.row
          /\ \A h \in resolving, q \in outbox' : Id(q) = h.conflict => q.status = "conflict"
      BY <2>1, <2>2 DEF ClientInv, Settling
    <2> QED BY <1>4, <1>11, <2>3 DEF ClientInv, Settling
  <1>15. AnswerTrue'
    BY <1>4 DEF AnswerTrue
  <1>16. Extends(server, server')
    BY <1>0, ServerStays
  <1>17. ASSUME NEW q \in Waiting, NEW s \in Waiting', SameEdit(s, q), Arrived(q) PROVE Arrived(s)'
    <2>1. RowOfEdit(q) \in Rows /\ Id(s) = Id(q) /\ RowOfEdit(s) = RowOfEdit(q)
      BY <1>0, <1>17, WaitingRows DEF SameEdit
    <2> QED BY <1>0, <1>16, <1>17, <2>1, ArrivedStays
  <1>18. Versions'
    BY DEF ClientInv, Versions
  <1>19. o \in Waiting /\ p \in Waiting'
    BY <1>11 DEF Waiting
  <1>20. \A q \in Waiting \ {o} : q \in Waiting' /\ SameEdit(q, q)
    BY <1>11 DEF SameEdit
  <1>21. LinesArrive'
    <2> SUFFICES ASSUME NEW s \in Waiting', RowOfEdit(s) \in Lines \ forgone PROVE Arrived(s)'
      BY DEF LinesArrive, RowOfEdit
    <2>1. CASE s = p
      BY <1>7, <1>17, <1>19, <2>1 DEF ClientInv, LinesArrive
    <2>2. CASE s # p
      BY <1>11, <1>17, <1>20, <2>2 DEF ClientInv, LinesArrive
    <2> QED BY <2>1, <2>2
  <1>22. ASSUME NEW s \in Rows \ forgone, local[s] # Missing
         PROVE  ContentHeld(s)' /\ DeletionHeld(s)'
    <2>1. ContentHeld(s) /\ DeletionHeld(s)
      BY <1>22 DEF ClientInv, EditsHeld
    <2>2. \A q \in Carriers : RowOfEdit(q) = s /\ Arrived(q) =>
             \E t \in Carriers' : t.mutation = q.mutation /\ Arrived(t)'
      BY <1>7, <1>8, <1>11, <1>17, <1>19, <1>20
    <2> QED BY <1>0, <1>16, <2>1, <2>2, HeldStays
  <1>23. EditsHeld'
    BY <1>22 DEF EditsHeld
  <1> QED BY <1>11, <1>12, <1>13, <1>14, <1>15, <1>18, <1>21, <1>23 DEF ClientInv

LEMMA InvMark ==
    ASSUME ClientInv, Mark \/ Unmark
    PROVE  ClientInv'
  BY InvWriteBack DEF Mark, Unmark

-----------------------------------------------------------------------------
(* Deaths and decisions about conflicts                                    *)

LEMMA IdleSync ==
    ASSUME server.seq \in Nat, sync' = NoSync, server' = server
    PROVE  SyncTyped' /\ Batched' /\ AnswerTrue'
  <1>1. sync' \in SyncRecord /\ sync'.batch = <<>> /\ sync'.marked = 0 /\ sync'.phase = "idle"
        /\ sync'.answer.cursor = 0
    BY InitialSync
  <1>2. Len(sync'.batch) = 0 /\ DOMAIN sync'.batch = {}
    BY <1>1
  <1> QED BY <1>1, <1>2 DEF SyncTyped, Batched, AnswerTrue

\* A step of the user or a death: some of what waits is dropped or marked as given
\* up, and neither the server nor a row outside forgone changes.
LEMMA FewerEdits ==
    ASSUME ClientInv, UNCHANGED <<server, made>>, Typed',
           outbox' \subseteq Waiting, Waiting' \subseteq Waiting, \A o \in outbox' : o \notin InHand',
           \A o \in InHand' : o \in InHand,
           forgone \subseteq forgone', conflicts' \subseteq conflicts,
           \A h \in resolving' : h.conflict <= made,
           \A r \in Rows \ forgone' : local'[r] = local[r],
           \A o \in Carriers : RowOfEdit(o) \notin forgone' => o \in Carriers'
    PROVE  Numbered' /\ Creations' /\ LogRows' /\ Versions' /\ LinesArrive' /\ EditsHeld'
  <1>0. Typed
    BY DEF ClientInv
  <1>1. Numbered' /\ Creations' /\ LogRows'
    BY DEF ClientInv, Numbered, Creations, LogRows
  <1>2. Versions'
    BY DEF ClientInv, Versions
  <1>3. Extends(server, server')
    BY <1>0, ServerStays
  <1>4. ASSUME NEW o \in Waiting, RowOfEdit(o) \notin forgone', Arrived(o) PROVE Arrived(o)'
    <2>1. RowOfEdit(o) \in Rows
      BY <1>0, WaitingRows
    <2> QED BY <1>0, <1>3, <1>4, <2>1, ArrivedStays
  <1>5. LinesArrive'
    BY <1>4 DEF ClientInv, LinesArrive, RowOfEdit
  <1>6. ASSUME NEW r \in Rows \ forgone', local'[r] # Missing
        PROVE  ContentHeld(r)' /\ DeletionHeld(r)'
    <2>1. local'[r] = local[r] /\ ContentHeld(r) /\ DeletionHeld(r)
      BY <1>6 DEF ClientInv, EditsHeld
    <2>2. \A o \in Carriers : RowOfEdit(o) = r /\ Arrived(o) =>
             \E p \in Carriers' : p.mutation = o.mutation /\ Arrived(p)'
      BY <1>4 DEF Carriers
    <2> QED BY <1>0, <1>3, <2>1, <2>2, HeldStays
  <1>7. EditsHeld'
    BY <1>6 DEF EditsHeld
  <1> QED BY <1>1, <1>2, <1>5, <1>7

LEMMA InvDie ==
    ASSUME ClientInv, Die
    PROVE  ClientInv'
  <1>1. /\ UNCHANGED <<server, local, outbox, conflicts, cursor, made>>
        /\ left.faults > 0 /\ left' = [left EXCEPT !.faults = @ - 1]
        /\ wanted' = (wanted \/ sync # NoSync) /\ sync' = NoSync /\ resolving' = {}
        /\ forgone' = forgone \cup InHandRows
        /\ owed' \in {"none", "forgotten", owed}
    BY DEF Die, room, Nothing
  <1>2. InHand' = {} /\ Waiting' = outbox /\ Carriers' = outbox
    BY <1>1 DEF InHand, Waiting, Carriers
  <1>3. \A o \in InHand : RowOfEdit(o) \in InHandRows
    BY DEF InHandRows, RowOfEdit
  <1>4. InHandRows \subseteq Rows
    <2>1. \A o \in InHand : o.mutation.row \in Rows
      BY WaitingRows DEF ClientInv, Waiting, RowOfEdit
    <2> QED BY <2>1, RowContents DEF InHandRows
  <1>5. SyncTyped' /\ Batched' /\ AnswerTrue'
    BY <1>1, IdleSync DEF ClientInv, Typed, ServerTyped, ServerRecord
  <1>6. Typed'
    <2>1. ServerTyped' /\ HandTyped'
      BY <1>1 DEF ClientInv, Typed, ServerTyped, HandTyped
    <2>2. RoomTyped'
      BY <1>1, <1>4 DEF ClientInv, Typed, RoomTyped
    <2>3. left' \in [remote : Nat, faults : Nat, expiries : Nat]
      BY <1>1 DEF ClientInv, Typed, RestTyped
    <2>4. wanted' \in BOOLEAN
      BY <1>1
    <2>5. RestTyped'
      BY <1>1, <2>3, <2>4 DEF ClientInv, Typed, RestTyped
    <2> QED BY <1>5, <2>1, <2>2, <2>5 DEF Typed
  <1>7. Numbered' /\ Creations' /\ LogRows' /\ Versions' /\ LinesArrive' /\ EditsHeld'
    <2>1. outbox \subseteq Waiting /\ Carriers \subseteq Waiting
      BY DEF Waiting, Carriers
    <2>2. \A o \in Carriers : RowOfEdit(o) \notin forgone' => o \in Carriers'
      BY <1>1, <1>2, <1>3, <2>1 DEF Waiting
    <2> QED BY <1>1, <1>2, <1>6, <2>1, <2>2, FewerEdits
  <1>8. Settling'
    <2>1. DOMAIN sync'.batch = {}
      BY <1>1, InitialSync
    <2> QED BY <1>1, <1>2, <2>1 DEF ClientInv, Settling
  <1> QED BY <1>5, <1>6, <1>7, <1>8 DEF ClientInv

LEMMA InvForget ==
    ASSUME ClientInv, Forget
    PROVE  ClientInv'
  <1>1. /\ UNCHANGED <<server, local, cursor, sync, wanted, made, left, forgone>>
        /\ InHand = {} /\ resolving' = {} /\ owed' = "enqueue"
    BY DEF Forget, Nothing
  <1>2. PICK h \in resolving :
            /\ outbox' = {o \in outbox : o.mutation.id # h.conflict}
            /\ conflicts' = {c \in conflicts : c.id # h.conflict}
    BY DEF Forget
  <1>3. InHand' = {} /\ Waiting' = outbox' /\ Carriers' = outbox' /\ Waiting = outbox
    BY <1>1 DEF InHand, Waiting, Carriers
  <1>4. outbox' \subseteq outbox /\ conflicts' \subseteq conflicts
    BY <1>2
  <1>5. Typed'
    <2>1. ServerTyped' /\ HandTyped' /\ SyncTyped'
      BY <1>1 DEF ClientInv, Typed, ServerTyped, HandTyped, SyncTyped
    <2>2. RoomTyped'
      BY <1>1, <1>4 DEF ClientInv, Typed, RoomTyped
    <2>3. RestTyped'
      BY <1>1 DEF ClientInv, Typed, RestTyped
    <2> QED BY <2>1, <2>2, <2>3 DEF Typed
  <1>6. Numbered' /\ Creations' /\ LogRows' /\ Versions' /\ LinesArrive' /\ EditsHeld'
    <2>1. \A o \in Carriers : o \in outbox /\ o.mutation.id # h.conflict
      BY <1>3 DEF Carriers, Id
    <2>2. \A o \in Carriers : o \in Carriers'
      BY <1>2, <1>3, <2>1
    <2> QED BY <1>1, <1>3, <1>4, <1>5, <2>2, FewerEdits
  <1>7. Batched'
    <2>1. \A n \in DOMAIN sync.batch : \A o \in outbox : SameEdit(o, sync.batch[n]) => o \in outbox'
      BY <1>2 DEF ClientInv, Settling, SameEdit, Id
    <2> QED BY <1>1, <2>1 DEF ClientInv, Batched, Exact
  <1>8. Settling'
    BY <1>1, <1>3, <1>4 DEF ClientInv, Settling
  <1>9. AnswerTrue'
    BY <1>1 DEF ClientInv, AnswerTrue
  <1> QED BY <1>5, <1>6, <1>7, <1>8, <1>9 DEF ClientInv

\* KeepAgain moves the rows from the hand to the outbox.
LEMMA KeptAgain ==
    ASSUME Typed, KeepAgain
    PROVE  /\ InHand' = {} /\ Waiting' = Waiting /\ Carriers' = Carriers
           /\ \A g \in resolving' : g \in Resolution /\ \E h \in resolving : g.conflict = h.conflict
           /\ \A g, h \in resolving' : g = h
  <1>1. /\ outbox' = outbox \cup InHand
        /\ resolving' = {[h EXCEPT !.rows = {}] : h \in resolving}
    BY DEF KeepAgain
  <1>2. resolving \subseteq Resolution
    BY DEF Typed, HandTyped
  <1>3. ASSUME NEW h \in resolving, NEW g, g = [h EXCEPT !.rows = {}]
        PROVE  g \in Resolution /\ g.conflict = h.conflict /\ g.rows = {}
    BY <1>2, <1>3 DEF Resolution
  <1>4. /\ \A g \in resolving' : /\ g \in Resolution /\ g.rows = {}
                                /\ \E h \in resolving : /\ g = [h EXCEPT !.rows = {}]
                                                       /\ g.conflict = h.conflict
        /\ \A h \in resolving : \E g \in resolving' : g.conflict = h.conflict
    <2>1. ASSUME NEW g \in resolving'
          PROVE  /\ g \in Resolution /\ g.rows = {}
                 /\ \E h \in resolving : g = [h EXCEPT !.rows = {}] /\ g.conflict = h.conflict
      <3>1. PICK h \in resolving : g = [h EXCEPT !.rows = {}]
        BY <1>1
      <3> QED BY <1>3, <3>1
    <2>2. ASSUME NEW h \in resolving PROVE \E g \in resolving' : g.conflict = h.conflict
      <3>1. PICK g : g = [h EXCEPT !.rows = {}]
        OBVIOUS
      <3>2. g \in resolving'
        BY <1>1, <3>1
      <3> QED BY <1>3, <3>1, <3>2
    <2> QED BY <2>1, <2>2
  <1>5. InHand' = {} /\ Waiting' = Waiting
    <2>1. InHand' = {}
      BY <1>4 DEF InHand
    <2> QED BY <1>1, <2>1 DEF Waiting
  <1>6. Carriers' = Carriers
    BY <1>4, <1>5 DEF Carriers
  <1>7. \A g, h \in resolving' : g = h
    BY <1>4 DEF Typed, HandTyped
  <1> QED BY <1>4, <1>5, <1>6, <1>7

LEMMA InvKeepAgain ==
    ASSUME ClientInv, KeepAgain
    PROVE  ClientInv'
  <1>1. /\ UNCHANGED <<server, local, conflicts, cursor, sync, wanted, owed, made, left, forgone>>
        /\ outbox' = outbox \cup InHand
        /\ resolving' = {[h EXCEPT !.rows = {}] : h \in resolving}
    BY DEF KeepAgain
  <1>2. /\ \A g \in resolving' : g \in Resolution /\ \E h \in resolving : g.conflict = h.conflict
        /\ \A g, h \in resolving' : g = h
    BY KeptAgain DEF ClientInv
  <1>3. InHand' = {} /\ Waiting' = Waiting /\ Carriers' = Carriers
    BY KeptAgain DEF ClientInv
  <1>4. Typed'
    <2>1. ServerTyped' /\ SyncTyped' /\ RestTyped'
      BY <1>1 DEF ClientInv, Typed, ServerTyped, SyncTyped, RestTyped
    <2>2. RoomTyped'
      <3>1. outbox' \subseteq OutboxRow
        BY <1>1, WaitingRows DEF ClientInv, Waiting
      <3> QED BY <1>1, <3>1 DEF ClientInv, Typed, RoomTyped
    <2>3. HandTyped'
      BY <1>2 DEF HandTyped
    <2> QED BY <2>1, <2>2, <2>3 DEF Typed
  <1>5. Numbered' /\ Creations' /\ LogRows' /\ Versions' /\ LinesArrive' /\ EditsHeld'
    <2>1. \A h \in resolving' : h.conflict <= made
      BY <1>2 DEF ClientInv, Numbered
    <2>2. outbox' \subseteq Waiting /\ \A o \in outbox' : o \notin InHand'
      BY <1>1, <1>3 DEF Waiting
    <2> QED BY <1>1, <1>3, <1>4, <2>1, <2>2, FewerEdits
  <1>6. Batched'
    BY <1>1 DEF ClientInv, Batched, Exact
  <1>7. Settling'
    <2>1. \A c \in conflicts, o \in outbox' :
             Id(o) = c.id => o.status = "conflict" /\ RowOfEdit(o) = c.row
      BY <1>1 DEF ClientInv, Settling
    <2>2. \A h \in resolving', o \in outbox' : Id(o) = h.conflict => o.status = "conflict"
      BY <1>1, <1>2 DEF ClientInv, Settling
    <2>3. \A h \in resolving', n \in DOMAIN sync.batch : Id(sync.batch[n]) # h.conflict
      BY <1>2 DEF ClientInv, Settling
    <2> QED BY <1>1, <1>3, <2>1, <2>2, <2>3 DEF ClientInv, Settling
  <1>8. AnswerTrue'
    BY <1>1 DEF ClientInv, AnswerTrue
  <1> QED BY <1>4, <1>5, <1>6, <1>7, <1>8 DEF ClientInv

LEMMA InvTakeTheirs ==
    ASSUME ClientInv, NEW c \in conflicts, TakeTheirs(c)
    PROVE  ClientInv'
  <1>1. /\ UNCHANGED <<server, outbox, conflicts, cursor, sync, wanted, owed, made, left>>
        /\ resolving = {} /\ resolving' = {[conflict |-> c.id, rows |-> {}]}
        /\ forgone' = forgone \cup {c.row, HomeOf(c.row)}
    BY DEF TakeTheirs, Nothing
  <1>2. c \in Conflict /\ c.row \in Rows /\ HomeOf(c.row) \in Rows /\ c.json \in Json
        /\ c.id \in 1..MaxMutations
    BY RowContents DEF ClientInv, Typed, RoomTyped, Conflict
  <1>3. /\ local' \in [Rows -> Versioned]
        /\ \A r \in Rows \ {c.row} : local'[r] = local[r]
    <2> DEFINE value == IF c.json.row = c.row THEN c.json.value
                        ELSE [local[c.row].value EXCEPT !.deleted = c.json.value.deleted]
               row == [version |-> c.json.version, value |-> value]
    <2>1. value \in Value
      <3>1. c.json.value \in Value
        BY <1>2 DEF Json
      <3>2. local[c.row].value \in Value
        BY <1>2, ServerRows DEF ClientInv
      <3> QED BY <3>1, <3>2 DEF Value
    <2>2. local' = local \/ local' = [local EXCEPT ![c.row] = row]
      BY DEF TakeTheirs
    <2> HIDE DEF value
    <2>3. row \in Versioned
      BY <1>2, <2>1 DEF Versioned, Json
    <2> HIDE DEF row
    <2>4. local \in [Rows -> Versioned]
      BY DEF ClientInv, Typed, RoomTyped
    <2> QED BY <1>2, <2>2, <2>3, <2>4
  <1>4. InHand = {} /\ InHand' = {} /\ Waiting = outbox /\ Waiting' = outbox
    BY <1>1 DEF InHand, Waiting
  <1>5. Typed'
    <2>1. ServerTyped' /\ SyncTyped' /\ RestTyped'
      BY <1>1 DEF ClientInv, Typed, ServerTyped, SyncTyped, RestTyped
    <2>2. RoomTyped'
      BY <1>1, <1>2, <1>3 DEF ClientInv, Typed, RoomTyped
    <2>3. HandTyped'
      BY <1>1, <1>2 DEF HandTyped, Resolution
    <2> QED BY <2>1, <2>2, <2>3 DEF Typed
  <1>6. Numbered' /\ Creations' /\ LogRows' /\ Versions' /\ LinesArrive' /\ EditsHeld'
    <2>1. \A o \in Carriers : o \in outbox /\ (RowOfEdit(o) \notin forgone' => Id(o) # c.id)
      BY <1>1, <1>4 DEF ClientInv, Settling, Carriers
    <2>2. \A o \in Carriers : RowOfEdit(o) \notin forgone' => o \in Carriers'
      BY <1>1, <1>4, <2>1 DEF Carriers
    <2>3. \A h \in resolving' : h.conflict <= made
      BY <1>1 DEF ClientInv, Numbered
    <2> QED BY <1>1, <1>3, <1>4, <1>5, <2>2, <2>3, FewerEdits
  <1>7. Batched'
    BY <1>1 DEF ClientInv, Batched, Exact
  <1>8. Settling'
    <2>1. \A h \in resolving' : h.conflict = c.id
      BY <1>1
    <2> QED BY <1>1, <1>4, <2>1 DEF ClientInv, Settling
  <1>9. AnswerTrue'
    BY <1>1 DEF ClientInv, AnswerTrue
  <1> QED BY <1>5, <1>6, <1>7, <1>8, <1>9 DEF ClientInv

\* The edit that resolveConflict inserts again for o.
KeptRow(c, o) ==
    [o EXCEPT !.mutation.id = Fresh, !.status = "pending",
              !.mutation.expected = IF c.json = NoJson THEN @ ELSE c.json.version]

LEMMA KeptRows ==
    ASSUME NEW c \in Conflict, NEW o \in OutboxRow, Fresh \in 1..MaxMutations,
           NEW p, p = KeptRow(c, o)
    PROVE  /\ p \in OutboxRow /\ Id(p) = Fresh /\ p.createdAt = o.createdAt /\ p.status = "pending"
           /\ RowOfEdit(p) = RowOfEdit(o) /\ p.mutation.op = o.mutation.op
           /\ p.mutation.content = o.mutation.content /\ p.mutation.deletion = o.mutation.deletion
  <1> DEFINE e == IF c.json = NoJson THEN o.mutation.expected ELSE c.json.version
             m == [o.mutation EXCEPT !.id = Fresh, !.expected = e]
  <1>1. o.mutation \in Mutation
    BY DEF OutboxRow
  <1>2. e \in Nat
    BY <1>1 DEF Mutation, Conflict, Json
  <1>3. p = [o EXCEPT !.mutation = m, !.status = "pending"]
    <2>1. o = [mutation |-> o.mutation, status |-> o.status, createdAt |-> o.createdAt]
      BY DEF OutboxRow
    <2>2. o.mutation = [id |-> o.mutation.id, op |-> o.mutation.op, row |-> o.mutation.row,
                        expected |-> o.mutation.expected, content |-> o.mutation.content,
                        deletion |-> o.mutation.deletion]
      BY <1>1 DEF Mutation
    <2> QED BY <2>1, <2>2 DEF KeptRow
  <1> HIDE DEF e
  <1>4. /\ m \in Mutation /\ m.id = Fresh /\ m.row = o.mutation.row /\ m.op = o.mutation.op
        /\ m.content = o.mutation.content /\ m.deletion = o.mutation.deletion
    BY <1>1, <1>2 DEF Mutation
  <1> HIDE DEF m
  <1>5. p \in OutboxRow /\ p.mutation = m /\ p.createdAt = o.createdAt /\ p.status = "pending"
    BY <1>3, <1>4 DEF OutboxRow, Statuses
  <1> QED BY <1>4, <1>5 DEF Id, RowOfEdit

LEMMA InvKeepMine ==
    ASSUME ClientInv, NEW c \in conflicts, KeepMine(c)
    PROVE  ClientInv'
  <1> DEFINE new == made + 1
  <1>0. Typed
    BY DEF ClientInv
  <1>1. /\ UNCHANGED <<server, local, conflicts, cursor, sync, wanted, owed, left, forgone>>
        /\ resolving = {} /\ made < MaxMutations /\ made' = new
        /\ outbox' = outbox \ RowOf(c)
        /\ resolving' = {[conflict |-> c.id, rows |-> {KeptRow(c, o) : o \in RowOf(c)}]}
    BY DEF KeepMine, Nothing, Fresh, KeptRow
  <1>2. c \in Conflict /\ c.id \in 1..MaxMutations /\ c.id <= made
    BY DEF ClientInv, Typed, RoomTyped, Conflict, Numbered
  <1>3. made \in Nat /\ new \in 1..MaxMutations /\ new = Fresh /\ made <= new
    BY <1>1, ClientAssumption DEF ClientInv, Typed, RestTyped, Fresh
  <1> HIDE DEF new
  <1>4. /\ InHand = {} /\ Waiting = outbox
        /\ InHand' = {KeptRow(c, o) : o \in RowOf(c)}
        /\ Waiting' = outbox' \cup InHand'
    BY <1>1 DEF InHand, Waiting
  <1>5. \A o \in RowOf(c) : o \in outbox /\ o \in OutboxRow /\ Id(o) = c.id
    BY <1>0 DEF RowOf, Typed, RoomTyped, Id
  <1>6. ASSUME NEW p \in InHand'
        PROVE  \E o \in RowOf(c) :
                 /\ p = KeptRow(c, o)
                 /\ p \in OutboxRow /\ Id(p) = new /\ p.createdAt = o.createdAt
                 /\ RowOfEdit(p) = RowOfEdit(o) /\ p.mutation.op = o.mutation.op
                 /\ p.mutation.content = o.mutation.content
                 /\ p.mutation.deletion = o.mutation.deletion
    <2>1. PICK o \in RowOf(c) : p = KeptRow(c, o)
      BY <1>4
    <2> QED BY <1>2, <1>3, <1>5, <2>1, KeptRows
  <1>7. ASSUME NEW o \in RowOf(c)
        PROVE  \E p \in InHand' :
                 /\ Id(p) = new /\ RowOfEdit(p) = RowOfEdit(o) /\ p.mutation.op = o.mutation.op
                 /\ p.mutation.content = o.mutation.content
                 /\ p.mutation.deletion = o.mutation.deletion
    <2>1. PICK p : p = KeptRow(c, o)
      OBVIOUS
    <2>2. p \in InHand'
      BY <1>4, <2>1
    <2> QED BY <1>2, <1>3, <1>5, <2>1, <2>2, KeptRows
  <1>8. /\ \A o \in outbox : Id(o) \in Nat /\ o.createdAt \in Nat /\ Id(o) <= made /\ o.createdAt <= made
        /\ \A o, p \in outbox : Id(o) = Id(p) \/ o.createdAt = p.createdAt => o = p
    BY <1>0, <1>4, WaitingRows DEF ClientInv, Numbered
  <1>9. \A o \in outbox' : o \in outbox /\ o \notin RowOf(c) /\ Id(o) # c.id
    BY <1>1 DEF RowOf, Id
  <1>10. Typed'
    <2>1. ServerTyped' /\ SyncTyped'
      BY <1>1 DEF ClientInv, Typed, ServerTyped, SyncTyped
    <2>2. RestTyped'
      BY <1>1, <1>3 DEF ClientInv, Typed, RestTyped
    <2>3. RoomTyped'
      BY <1>1, <1>9 DEF ClientInv, Typed, RoomTyped
    <2>4. HandTyped'
      <3>1. {KeptRow(c, o) : o \in RowOf(c)} \subseteq OutboxRow
        BY <1>4, <1>6
      <3>2. [conflict |-> c.id, rows |-> {KeptRow(c, o) : o \in RowOf(c)}] \in Resolution
        BY <1>2, <3>1 DEF Resolution
      <3> QED BY <1>1, <3>2 DEF HandTyped
    <2> QED BY <2>1, <2>2, <2>3, <2>4 DEF Typed
  <1>11. made < new /\ new \in Nat
    BY <1>3 DEF new
  <1>12. Numbered'
    <2>1. \A o \in Waiting' : Id(o) <= made' /\ o.createdAt <= made'
      <3>1. \A o \in outbox' : Id(o) <= new /\ o.createdAt <= new
        BY <1>3, <1>8, <1>9, <1>11
      <3>2. \A p \in InHand' : Id(p) <= new /\ p.createdAt <= new
        BY <1>3, <1>5, <1>6, <1>8, <1>11
      <3> QED BY <1>1, <1>4, <3>1, <3>2
    <2>2. \A m \in server'.log : m.id <= made'
      <3>1. \A m \in server.log : m.id \in Nat /\ m.id <= made
        BY DEF ClientInv, Typed, ServerTyped, ServerRecord, Mutation, Numbered
      <3> QED BY <1>1, <1>3, <1>11, <3>1
    <2>3. \A d \in conflicts' : d.id <= made'
      <3>1. \A d \in conflicts : d.id \in Nat /\ d.id <= made
        BY DEF ClientInv, Typed, RoomTyped, Conflict, Numbered
      <3> QED BY <1>1, <1>3, <1>11, <3>1
    <2>4. \A h \in resolving' : h.conflict <= made'
      BY <1>1, <1>2, <1>3, <1>11
    <2>5. \A p, q \in InHand' : p = q
      BY <1>5, <1>6, <1>8
    <2>6. \A p \in InHand', o \in outbox' : Id(o) # Id(p) /\ o.createdAt # p.createdAt
      <3> SUFFICES ASSUME NEW p \in InHand', NEW o \in outbox'
                   PROVE  Id(o) # Id(p) /\ o.createdAt # p.createdAt
        OBVIOUS
      <3>1. PICK q \in RowOf(c) : Id(p) = new /\ p.createdAt = q.createdAt
        BY <1>6
      <3>2. o \in outbox /\ q \in outbox /\ o # q
        BY <1>5, <1>9
      <3>3. Id(o) # new
        BY <1>3, <1>8, <1>11, <3>2
      <3> QED BY <1>8, <3>1, <3>2, <3>3
    <2>7. \A o, p \in Waiting' : Id(o) = Id(p) \/ o.createdAt = p.createdAt => o = p
      BY <1>4, <1>8, <1>9, <2>5, <2>6
    <2>8. \A o \in outbox' : o \notin InHand'
      BY <2>6
    <2> QED BY <2>1, <2>2, <2>3, <2>4, <2>7, <2>8 DEF Numbered, Id
  <1>13. Batched'
    <2>1. \A n \in DOMAIN sync.batch : \A o \in outbox : SameEdit(o, sync.batch[n]) => o \in outbox'
      BY <1>1, <1>5 DEF ClientInv, Settling, SameEdit
    <2> QED BY <1>1, <2>1 DEF ClientInv, Batched, Exact
  <1>14. Settling'
    <2>1. /\ \A d \in conflicts, n \in DOMAIN sync.batch : Id(sync.batch[n]) # d.id
          /\ \A d \in conflicts, o \in outbox' :
                Id(o) = d.id => o.status = "conflict" /\ RowOfEdit(o) = d.row
      BY <1>9 DEF ClientInv, Settling
    <2>2. \A h \in resolving' : h.conflict = c.id
      BY <1>1
    <2>3. \A d \in conflicts, p \in InHand' : Id(p) # d.id
      <3>1. \A d \in conflicts : d.id \in Nat /\ d.id <= made
        BY DEF ClientInv, Typed, RoomTyped, Conflict, Numbered
      <3> QED BY <1>3, <1>6, <1>11, <3>1
    <2> QED BY <1>1, <1>9, <2>1, <2>2, <2>3 DEF Settling
  <1>15. Creations'
    <2>1. \A o \in outbox : o.mutation.op = "create" =>
            o.mutation.deletion = Unchanged /\ o.mutation.content # Unchanged
      BY <1>4 DEF ClientInv, Creations
    <2>2. \A p \in InHand' : p.mutation.op = "create" =>
            p.mutation.deletion = Unchanged /\ p.mutation.content # Unchanged
      BY <1>5, <1>6, <2>1
    <2> QED BY <1>4, <1>9, <2>1, <2>2 DEF Creations
  <1>16. \A m \in server.log, p \in InHand' : m.id # Id(p)
    <2>1. \A m \in server.log : m.id \in Nat /\ m.id <= made
      BY DEF ClientInv, Typed, ServerTyped, ServerRecord, Mutation, Numbered
    <2> QED BY <1>3, <1>6, <1>11, <2>1
  <1>17. LogRows'
    <2>1. \A m \in server.log, o \in outbox : m.id = Id(o) => m.row = RowOfEdit(o)
      BY <1>4 DEF ClientInv, LogRows
    <2> QED BY <1>1, <1>4, <1>9, <1>16, <2>1 DEF LogRows
  <1>18. AnswerTrue'
    BY <1>1 DEF ClientInv, AnswerTrue
  <1>19. Versions'
    BY <1>1 DEF ClientInv, Versions
  <1>20. Extends(server, server')
    BY <1>0, <1>1, ServerStays
  <1>21. ASSUME NEW o \in outbox, Arrived(o) PROVE Arrived(o)'
    <2>1. RowOfEdit(o) \in Rows
      BY <1>0, <1>4, WaitingRows
    <2> QED BY <1>0, <1>1, <1>20, <1>21, <2>1, ArrivedStays
  <1>22. ASSUME NEW p \in InHand' PROVE Arrived(p)'
    BY <1>1, <1>16, NoArrival
  <1>23. LinesArrive'
    BY <1>1, <1>4, <1>9, <1>21, <1>22 DEF ClientInv, LinesArrive, RowOfEdit
  <1>24. ASSUME NEW o \in Carriers, Arrived(o)
         PROVE  \E p \in Carriers' :
                  /\ RowOfEdit(p) = RowOfEdit(o) /\ Arrived(p)' /\ p.mutation.op = o.mutation.op
                  /\ p.mutation.content = o.mutation.content
                  /\ p.mutation.deletion = o.mutation.deletion
    <2>1. \A h \in resolving' : h.conflict = c.id
      BY <1>1
    <2>2. o \in outbox
      BY <1>4 DEF Carriers
    <2>3. CASE o \in RowOf(c)
      <3>1. PICK p \in InHand' :
                 /\ Id(p) = new /\ RowOfEdit(p) = RowOfEdit(o) /\ p.mutation.op = o.mutation.op
                 /\ p.mutation.content = o.mutation.content
                 /\ p.mutation.deletion = o.mutation.deletion
        BY <1>7, <2>3
      <3>2. p \in Carriers'
        <4>1. c.id # new
          BY <1>2, <1>3, <1>11
        <4> QED BY <1>4, <2>1, <3>1, <4>1 DEF Carriers, Id
      <3> QED BY <1>22, <3>1, <3>2
    <2>4. CASE o \notin RowOf(c)
      <3>1. o \in outbox' /\ Id(o) # c.id
        BY <1>1, <1>9, <2>2, <2>4
      <3>2. o \in Carriers'
        BY <1>4, <2>1, <3>1 DEF Carriers, Id
      <3> QED BY <1>21, <1>24, <2>2, <3>2
    <2> QED BY <2>3, <2>4
  <1>25. ASSUME NEW r \in Rows \ forgone, local[r] # Missing
         PROVE  ContentHeld(r)' /\ DeletionHeld(r)'
    <2>1. ContentHeld(r) /\ DeletionHeld(r)
      BY <1>25 DEF ClientInv, EditsHeld
    <2>2. ContentHeld(r)'
      BY <1>0, <1>1, <1>20, <1>24, <2>1, ContentStays
    <2>3. DeletionHeld(r)'
      BY <1>0, <1>1, <1>20, <1>24, <2>1, DeletionStays
    <2> QED BY <2>2, <2>3
  <1>26. EditsHeld'
    BY <1>1, <1>25 DEF EditsHeld
  <1> QED BY <1>10, <1>12, <1>13, <1>14, <1>15, <1>17, <1>18, <1>19, <1>23, <1>26 DEF ClientInv

-----------------------------------------------------------------------------
(* An answer is received                                                   *)

\* What becomes of the rows of the outbox: q is what is left of b.
LeftOf(q, b) ==
    /\ q \in OutboxRow /\ q.mutation = b.mutation /\ q.createdAt = b.createdAt
    /\ \/ q = b /\ ~SentRow(b)
       \/ SentRow(b) /\ q.status = "pending" /\ sync.answer.expired
       \/ /\ SentRow(b) /\ q.status = "conflict" /\ ~sync.answer.expired
          /\ \E c \in sync.answer.refusals : c.id = Id(b)

LEMMA SentFromBatch ==
    ASSUME ClientInv, sync.phase = "answered", NEW o \in outbox, SentRow(o)
    PROVE  \E n \in DOMAIN sync.batch : /\ Id(sync.batch[n]) = Id(o) /\ o = InFlight(sync.batch[n])
                                        /\ sync.batch[n].mutation = o.mutation
                                        /\ sync.batch[n].createdAt = o.createdAt
                                        /\ sync.batch[n] \in OutboxRow
  <1>1. PICK n \in DOMAIN sync.batch : Id(sync.batch[n]) = Id(o)
    BY DEF SentRow, Id
  <1>2. PICK p \in outbox : SameEdit(p, sync.batch[n]) /\ p = InFlight(sync.batch[n])
    BY SentExactly
  <1>3. p = o
    BY <1>1, <1>2 DEF SameEdit, ClientInv, Numbered, Waiting
  <1>4. sync.batch[n] \in OutboxRow
    BY BatchRows DEF ClientInv
  <1>5. /\ InFlight(sync.batch[n]).mutation = sync.batch[n].mutation
        /\ InFlight(sync.batch[n]).createdAt = sync.batch[n].createdAt
    BY <1>4, InFlightRows
  <1> QED BY <1>1, <1>2, <1>3, <1>4, <1>5

LEMMA SettledRows ==
    ASSUME ClientInv, sync.phase = "answered"
    PROVE  /\ \A q \in Settled : \E b \in outbox : LeftOf(q, b)
           /\ \A o \in outbox : ~SentRow(o) => o \in Settled
           /\ \A o \in outbox : SentRow(o) =>
                \/ ~sync.answer.expired /\ o.mutation \in server.log
                \/ \E q \in Settled : LeftOf(q, o)
  <1> DEFINE rows == {sync.batch[n] : n \in DOMAIN sync.batch}
             again == {[o EXCEPT !.status = "pending"] : o \in rows}
             refused == {o \in rows : \E c \in sync.answer.refusals : c.id = o.mutation.id}
             kept == {[o EXCEPT !.status = "conflict"] : o \in refused}
  <1>1. Settled = {o \in outbox : ~SentRow(o)} \cup (IF sync.answer.expired THEN again ELSE kept)
    BY DEF Settled
  <1>2. sync.answer.expired \in BOOLEAN
    BY BatchRows DEF ClientInv, AnswerRecord
  <1>3. ASSUME NEW b \in rows, NEW st \in Statuses, NEW q, q = [b EXCEPT !.status = st]
        PROVE  q \in OutboxRow /\ q.mutation = b.mutation /\ q.createdAt = b.createdAt /\ q.status = st
    <2>1. b \in OutboxRow
      BY BatchRows DEF ClientInv
    <2> HIDE DEF rows
    <2> QED BY <1>3, <2>1 DEF OutboxRow
  <1>4. ASSUME NEW b \in rows
        PROVE  \E o \in outbox : /\ o.mutation = b.mutation /\ o.createdAt = b.createdAt /\ SentRow(o)
    <2>1. PICK n \in DOMAIN sync.batch : b = sync.batch[n]
      OBVIOUS
    <2>2. PICK o \in outbox : o = InFlight(b)
      BY <2>1, SentExactly
    <2>3. o.mutation = b.mutation /\ o.createdAt = b.createdAt
      BY <2>1, <2>2, BatchRows, InFlightRows DEF ClientInv
    <2>4. SentRow(o)
      BY <2>1, <2>3 DEF SentRow
    <2> QED BY <2>3, <2>4
  <1> HIDE DEF rows
  <1>5. ASSUME NEW q \in Settled PROVE \E b \in outbox : LeftOf(q, b)
    <2>1. CASE q \in outbox /\ ~SentRow(q)
      <3>1. q \in OutboxRow
        BY <2>1 DEF ClientInv, Typed, RoomTyped
      <3> QED BY <2>1, <3>1 DEF LeftOf
    <2>2. CASE sync.answer.expired /\ q \in again
      <3>1. PICK b \in rows : q = [b EXCEPT !.status = "pending"]
        BY <2>2
      <3>2. q \in OutboxRow /\ q.mutation = b.mutation /\ q.createdAt = b.createdAt /\ q.status = "pending"
        BY <1>3, <3>1 DEF Statuses
      <3>3. PICK o \in outbox : o.mutation = b.mutation /\ o.createdAt = b.createdAt /\ SentRow(o)
        BY <1>4
      <3> QED BY <2>2, <3>2, <3>3 DEF LeftOf
    <2>3. CASE ~sync.answer.expired /\ q \in kept
      <3>1. PICK b \in refused : q = [b EXCEPT !.status = "conflict"]
        BY <2>3
      <3>2. b \in rows /\ \E c \in sync.answer.refusals : c.id = b.mutation.id
        BY <3>1
      <3>3. q \in OutboxRow /\ q.mutation = b.mutation /\ q.createdAt = b.createdAt /\ q.status = "conflict"
        BY <1>3, <3>1, <3>2 DEF Statuses
      <3>4. PICK o \in outbox : o.mutation = b.mutation /\ o.createdAt = b.createdAt /\ SentRow(o)
        BY <1>4, <3>2
      <3> QED BY <2>3, <3>2, <3>3, <3>4 DEF LeftOf, Id
    <2> HIDE DEF again, kept
    <2> QED BY <1>1, <1>2, <2>1, <2>2, <2>3
  <1>6. \A o \in outbox : ~SentRow(o) => o \in Settled
    BY <1>1
  <1>7. ASSUME NEW o \in outbox, SentRow(o)
        PROVE  \/ ~sync.answer.expired /\ o.mutation \in server.log
               \/ \E q \in Settled : LeftOf(q, o)
    <2>1. PICK n \in DOMAIN sync.batch : /\ Id(sync.batch[n]) = Id(o)
                                         /\ sync.batch[n].mutation = o.mutation
                                         /\ sync.batch[n].createdAt = o.createdAt
      BY <1>7, SentFromBatch
    <2> DEFINE b == sync.batch[n]
    <2>2. b \in rows
      BY DEF rows
    <2>3. CASE sync.answer.expired
      <3>1. PICK q : q = [b EXCEPT !.status = "pending"]
        OBVIOUS
      <3>2. q \in Settled
        BY <1>1, <2>2, <2>3, <3>1
      <3>3. q \in OutboxRow /\ q.mutation = b.mutation /\ q.createdAt = b.createdAt /\ q.status = "pending"
        BY <1>3, <2>2, <3>1 DEF Statuses
      <3> QED BY <1>7, <2>1, <2>3, <3>2, <3>3 DEF LeftOf
    <2>4. CASE ~sync.answer.expired
      <3>1. o.mutation \in server.log \/ \E c \in sync.answer.refusals : c.id = Id(o)
        BY <2>1, <2>4 DEF ClientInv, AnswerTrue
      <3>2. CASE \E c \in sync.answer.refusals : c.id = Id(o)
        <4>1. PICK q : q = [b EXCEPT !.status = "conflict"]
          OBVIOUS
        <4>2. b \in refused
          BY <2>1, <2>2, <3>2 DEF Id
        <4> HIDE DEF refused, again
        <4>3. q \in Settled
          BY <1>1, <2>4, <4>1, <4>2
        <4>4. /\ q \in OutboxRow /\ q.mutation = b.mutation /\ q.createdAt = b.createdAt
              /\ q.status = "conflict"
          BY <1>3, <2>2, <4>1 DEF Statuses
        <4>5. LeftOf(q, o)
          BY <1>7, <2>1, <2>4, <3>2, <4>4 DEF LeftOf
        <4> QED BY <4>3, <4>5
      <3> QED BY <2>4, <3>1, <3>2
    <2> QED BY <1>2, <2>3, <2>4
  <1> QED BY <1>5, <1>6, <1>7

\* What an answer does to the row r of the device.
Unprotected(r) == \A q \in Settled : RowOfEdit(q) = r => r \in Lists /\ local[r] = Missing

TakenAs(r, row) == r \in DOMAIN sync.answer.rows /\ row = sync.answer.rows[r] /\ Unprotected(r)

LEMMA ReceivedRows ==
    ASSUME ClientInv, Receive
    PROVE  /\ UNCHANGED <<server, resolving, made, wanted, left>>
           /\ sync.phase = "answered" /\ sync' = NoSync /\ outbox' = Settled
           /\ cursor' = sync.answer.cursor /\ owed' \in {"forgotten", owed}
           /\ InHandRows \subseteq forgone' /\ forgone' \subseteq forgone \cup InHandRows
           /\ \A c \in conflicts' : \/ c \in conflicts /\ \A n \in DOMAIN sync.batch : Id(sync.batch[n]) # c.id
                                    \/ c \in sync.answer.refusals
           /\ DOMAIN local' = Rows
           /\ \A r \in Rows : \/ TakenAs(r, local'[r])
                              \/ local'[r] = Missing /\ Unprotected(r)
                              \/ local'[r] = local[r] /\ (r \in forgone => r \in forgone')
  <1> DEFINE sent == DOMAIN sync.answer.rows
  <1>1. PICK kept : kept = {r \in Protected(outbox') : r \in Lines \/ local[r] # Missing}
    OBVIOUS
  <1>2. PICK purged : purged = IF sync.answer.full THEN Rows \ (sent \cup Protected(outbox')) ELSE {}
    OBVIOUS
  <1>3. PICK taken : taken = sent \ kept
    OBVIOUS
  <1>4. /\ sync.phase = "answered" /\ sync' = NoSync /\ outbox' = Settled
        /\ cursor' = sync.answer.cursor /\ owed' \in {"forgotten", owed}
        /\ UNCHANGED <<server, resolving, made, wanted, left>>
    BY DEF Receive
  <1>5. forgone' = (forgone \ (taken \cup purged)) \cup InHandRows
    BY <1>1, <1>2, <1>3 DEF Receive
  <1>6. local' = [r \in Rows |-> IF r \in taken THEN sync.answer.rows[r]
                                 ELSE IF r \in purged THEN Missing ELSE local[r]]
    BY <1>1, <1>2, <1>3 DEF Receive
  <1>7. conflicts' = {c \in conflicts : ~\E n \in DOMAIN sync.batch : sync.batch[n].mutation.id = c.id}
                       \cup sync.answer.refusals
    BY DEF Receive
  <1>8. \A q \in Settled : RowOfEdit(q) \in Protected(outbox')
    BY <1>4 DEF Protected, RowOfEdit
  <1>9. \A q \in Settled : RowOfEdit(q) \in Rows
    <2>1. \A q \in Settled : q \in OutboxRow
      BY <1>4, SettledRows DEF LeftOf
    <2> QED BY <2>1 DEF OutboxRow, Mutation, RowOfEdit
  <1>10. ASSUME NEW r \in Rows, r \notin kept PROVE Unprotected(r)
    <2>1. ASSUME NEW q \in Settled, RowOfEdit(q) = r PROVE r \in Lists /\ local[r] = Missing
      BY <1>1, <1>8, <1>10, <2>1 DEF Rows
    <2> QED BY <2>1 DEF Unprotected
  <1>11. ASSUME NEW r \in Rows
         PROVE  \/ TakenAs(r, local'[r])
                \/ local'[r] = Missing /\ Unprotected(r)
                \/ local'[r] = local[r] /\ (r \in forgone => r \in forgone')
    <2>1. CASE r \in taken
      BY <1>3, <1>6, <1>10, <2>1 DEF TakenAs
    <2>2. CASE r \notin taken /\ r \in purged
      <3>1. r \notin kept
        BY <1>1, <1>2, <2>2
      <3> QED BY <1>6, <1>10, <2>2, <3>1
    <2>3. CASE r \notin taken /\ r \notin purged
      BY <1>5, <1>6, <2>3
    <2> QED BY <2>1, <2>2, <2>3
  <1>12. \A c \in conflicts' : \/ c \in conflicts /\ \A n \in DOMAIN sync.batch : Id(sync.batch[n]) # c.id
                              \/ c \in sync.answer.refusals
    BY <1>7 DEF Id
  <1>13. DOMAIN local' = Rows
    BY <1>6
  <1> QED BY <1>4, <1>5, <1>11, <1>12, <1>13

\* An applied edit that carried what the device shows has put it on the server.
LEMMA AppliedThere ==
    ASSUME ClientInv, NEW r \in Rows, NEW o \in Waiting, o.mutation \in server.log
    PROVE  /\ CarriesContent(o, r) => \E v \in Since(r) : v.content = local[r].value.content
           /\ CarriesDeletion(o, r) => \E v \in Since(r) : v.deleted = local[r].value.deleted
  <1>1. local[r].value \in Value /\ local[r].value.content \in AnyContent
        /\ local[r].value.deleted \in BOOLEAN
    BY ServerRows DEF ClientInv, Value
  <1>2. ASSUME RowOfEdit(o) = r, Arrived(o)
        PROVE  \E v \in Since(r) : Wrote(v, o.mutation)
    <2>1. PICK k \in DOMAIN server.row[r] : /\ k >= local[r].version
                                           /\ Wrote(server.row[r][k], o.mutation)
      BY <1>2 DEF Arrived, Id
    <2> QED BY <2>1 DEF Since
  <1>3. ASSUME CarriesContent(o, r) PROVE \E v \in Since(r) : v.content = local[r].value.content
    <2>1. o.mutation.content = local[r].value.content /\ o.mutation.content # Unchanged
      BY <1>1, <1>3, RowContents DEF CarriesContent
    <2>2. PICK v \in Since(r) : Wrote(v, o.mutation)
      BY <1>2, <1>3 DEF CarriesContent
    <2> QED BY <2>1, <2>2 DEF Wrote
  <1>4. ASSUME CarriesDeletion(o, r) PROVE \E v \in Since(r) : v.deleted = local[r].value.deleted
    <2>1. local[r].value.deleted = (o.mutation.deletion = "delete")
      <3>1. o.mutation.op = "create" => o.mutation.deletion = Unchanged
        BY DEF ClientInv, Creations
      <3>2. Unchanged # "delete"
        BY ClientAssumption
      <3> QED BY <1>1, <1>4, <3>1, <3>2 DEF CarriesDeletion
    <2>2. PICK v \in Since(r) : Wrote(v, o.mutation)
      BY <1>2, <1>4 DEF CarriesDeletion
    <2> QED BY <2>1, <2>2 DEF Wrote
  <1> QED BY <1>3, <1>4

\* A carrier of a row that is not in a hand is in the outbox afterwards, or applied.
LEMMA SentCarriers ==
    ASSUME ClientInv, sync.phase = "answered", NEW r \in Rows, r \notin InHandRows,
           NEW o \in Carriers, RowOfEdit(o) = r
    PROVE  \/ o.mutation \in server.log
           \/ \E q \in Settled : q.mutation = o.mutation
  <1>1. \A p \in InHand : RowOfEdit(p) \in InHandRows
    BY DEF InHandRows, RowOfEdit
  <1>2. o \in outbox
    BY <1>1 DEF Carriers, Waiting
  <1> QED BY <1>2, SettledRows DEF LeftOf

\* What is replaced by an answer the server has had.
LEMMA ReplacedHad ==
    ASSUME ClientInv, sync.phase = "answered", NEW r \in Rows \ forgone, r \notin InHandRows,
           Unprotected(r), local[r] # Missing
    PROVE  OnServer(r)
  <1>1. \A o \in Carriers : RowOfEdit(o) = r => o \in Waiting /\ o.mutation \in server.log
    <2>1. \A q \in Settled : RowOfEdit(q) # r
      BY DEF Unprotected
    <2> QED BY <2>1, SentCarriers DEF Carriers, RowOfEdit
  <1>2. ContentHeld(r) /\ DeletionHeld(r)
    BY DEF ClientInv, EditsHeld
  <1>3. \E v \in Since(r) : v.content = local[r].value.content
    BY <1>1, <1>2, AppliedThere DEF ContentHeld, CarriesContent
  <1>4. \E v \in Since(r) : v.deleted = local[r].value.deleted
    BY <1>1, <1>2, AppliedThere DEF DeletionHeld, CarriesDeletion
  <1> QED BY <1>3, <1>4 DEF OnServer

LEMMA InvReceive ==
    ASSUME ClientInv, Receive
    PROVE  ClientInv'
  <1>1. /\ UNCHANGED <<server, resolving, made, wanted, left>>
        /\ sync.phase = "answered" /\ sync' = NoSync /\ outbox' = Settled
        /\ cursor' = sync.answer.cursor /\ owed' \in {"forgotten", owed}
        /\ InHandRows \subseteq forgone' /\ forgone' \subseteq forgone \cup InHandRows
    BY ReceivedRows
  <1>2. \A c \in conflicts' : \/ c \in conflicts /\ \A n \in DOMAIN sync.batch : Id(sync.batch[n]) # c.id
                              \/ c \in sync.answer.refusals
    BY ReceivedRows
  <1>3. \A r \in Rows : \/ TakenAs(r, local'[r])
                        \/ local'[r] = Missing /\ Unprotected(r)
                        \/ local'[r] = local[r] /\ (r \in forgone => r \in forgone')
    BY ReceivedRows
  <1>4. InHand' = InHand /\ Waiting' = Settled \cup InHand /\ Carriers' \subseteq Waiting'
    BY <1>1, SameHand DEF Waiting, Carriers
  <1>5. \A q \in outbox' : \E b \in outbox : LeftOf(q, b)
    BY <1>1, SettledRows
  <1>6. Typed
    BY DEF ClientInv
  <1>7. \A o \in InHand : o \in Waiting /\ o \notin outbox /\ RowOfEdit(o) \in InHandRows
    BY DEF ClientInv, Numbered, Waiting, InHandRows, RowOfEdit
  <1>8. \A b \in outbox : b \in Waiting
    BY DEF Waiting
  <1>9. InHandRows \subseteq Rows
    <2>1. \A o \in InHand : o.mutation.row \in Rows
      BY <1>6, <1>7, WaitingRows DEF RowOfEdit
    <2> QED BY <2>1, RowContents DEF InHandRows
  \* What is refused was in the batch, and so in the outbox.
  <1>10. \A c \in sync.answer.refusals :
            /\ c \in Conflict /\ ~sync.answer.expired
            /\ \E b \in outbox : Id(b) = c.id /\ RowOfEdit(b) = c.row /\ SentRow(b)
    <2> SUFFICES ASSUME NEW c \in sync.answer.refusals
                 PROVE  /\ c \in Conflict /\ ~sync.answer.expired
                        /\ \E b \in outbox : Id(b) = c.id /\ RowOfEdit(b) = c.row /\ SentRow(b)
      OBVIOUS
    <2>1. PICK n \in DOMAIN sync.batch : c.id = Id(sync.batch[n]) /\ c.row = RowOfEdit(sync.batch[n])
      BY <1>1 DEF ClientInv, AnswerTrue
    <2>2. PICK b \in outbox : SameEdit(b, sync.batch[n])
      BY DEF ClientInv, Batched
    <2>3. SentRow(b)
      BY <2>2 DEF SentRow, SameEdit, Id
    <2>4. sync.answer.refusals \subseteq Conflict
      BY <1>6, BatchRows DEF AnswerRecord
    <2>5. ~sync.answer.expired
      BY <1>1 DEF ClientInv, AnswerTrue
    <2> QED BY <2>1, <2>2, <2>3, <2>4, <2>5 DEF SameEdit
  <1>11. SyncTyped' /\ Batched' /\ AnswerTrue'
    BY <1>1, <1>6, IdleSync DEF Typed, ServerTyped, ServerRecord
  <1>12. Typed'
    <2>1. ServerTyped' /\ HandTyped'
      BY <1>1, <1>6 DEF Typed, ServerTyped, HandTyped
    <2>2. local' \in [Rows -> Versioned]
      <3>1. ASSUME NEW r \in DOMAIN sync.answer.rows PROVE sync.answer.rows[r] \in Versioned
        <4>1. sync.answer.rows \in SentRows
          BY <1>6, BatchRows DEF AnswerRecord
        <4>2. PICK some \in SUBSET Rows : sync.answer.rows \in [some -> Versioned]
          BY <4>1 DEF SentRows
        <4> QED BY <4>2
      <3>2. \A r \in Rows : local'[r] \in Versioned
        BY <1>3, <1>6, <3>1, RowContents DEF TakenAs, Typed, RoomTyped
      <3>3. local' = [r \in Rows |-> local'[r]]
        BY DEF Receive
      <3> QED BY <3>2, <3>3
    <2>3. outbox' \subseteq OutboxRow
      BY <1>5 DEF LeftOf
    <2>4. conflicts' \subseteq Conflict
      BY <1>2, <1>6, <1>10 DEF Typed, RoomTyped
    <2>5. cursor' \in Nat /\ cursor' <= server'.seq
      <3>1. sync.answer.cursor \in Nat
        BY <1>6, BatchRows DEF AnswerRecord
      <3> QED BY <1>1, <1>6, <3>1 DEF Typed, SyncTyped
    <2>6. forgone' \subseteq Rows
      BY <1>1, <1>6, <1>9 DEF Typed, RoomTyped
    <2>7. RoomTyped'
      BY <2>2, <2>3, <2>4, <2>5, <2>6 DEF RoomTyped
    <2>8. RestTyped'
      BY <1>1, <1>6 DEF Typed, RestTyped
    <2> QED BY <1>11, <2>1, <2>7, <2>8 DEF Typed
  <1>13. Numbered'
    <2>1. \A o \in Waiting' : Id(o) <= made' /\ o.createdAt <= made'
      <3>1. ASSUME NEW q \in outbox' PROVE Id(q) <= made' /\ q.createdAt <= made'
        BY <1>1, <1>5, <1>8 DEF LeftOf, Id, ClientInv, Numbered
      <3> QED BY <1>1, <1>4, <1>7, <3>1 DEF ClientInv, Numbered
    <2>2. \A c \in conflicts' : c.id <= made'
      BY <1>1, <1>2, <1>8, <1>10 DEF ClientInv, Numbered
    <2>3. \A q \in outbox', o \in InHand : Id(q) # Id(o) /\ q.createdAt # o.createdAt
      <3> SUFFICES ASSUME NEW q \in outbox', NEW o \in InHand
                   PROVE  Id(q) # Id(o) /\ q.createdAt # o.createdAt
        OBVIOUS
      <3>1. PICK b \in outbox : Id(q) = Id(b) /\ q.createdAt = b.createdAt
        BY <1>5 DEF LeftOf, Id
      <3>2. b # o /\ b \in Waiting /\ o \in Waiting
        BY <1>7, <1>8
      <3> QED BY <3>1, <3>2 DEF ClientInv, Numbered
    <2>4. ASSUME NEW p \in outbox', NEW q \in outbox', Id(p) = Id(q) \/ p.createdAt = q.createdAt
          PROVE  p = q
      <3>1. PICK b \in outbox : LeftOf(p, b)
        BY <1>5
      <3>2. PICK c \in outbox : LeftOf(q, c)
        BY <1>5
      <3>3. b = c
        BY <1>8, <2>4, <3>1, <3>2 DEF LeftOf, Id, ClientInv, Numbered
      <3>4. /\ p \in OutboxRow /\ q \in OutboxRow /\ p.mutation = q.mutation
            /\ p.createdAt = q.createdAt /\ p.status = q.status
        BY <3>1, <3>2, <3>3 DEF LeftOf
      <3> QED BY <3>4 DEF OutboxRow
    <2>5. \A o, p \in Waiting' : Id(o) = Id(p) \/ o.createdAt = p.createdAt => o = p
      <3>1. \A o, p \in InHand : Id(o) = Id(p) \/ o.createdAt = p.createdAt => o = p
        BY <1>7 DEF ClientInv, Numbered
      <3> QED BY <1>1, <1>4, <2>3, <2>4, <3>1
    <2>6. \A o \in outbox' : o \notin InHand'
      BY <1>4, <2>3
    <2> QED BY <1>1, <2>1, <2>2, <2>5, <2>6 DEF ClientInv, Numbered
  <1>14. Settling'
    <2>1. DOMAIN sync'.batch = {}
      BY <1>1, InitialSync
    <2>2. ASSUME NEW c \in conflicts', NEW q \in outbox', Id(q) = c.id
          PROVE  q.status = "conflict" /\ RowOfEdit(q) = c.row
      <3>1. PICK b \in outbox : LeftOf(q, b)
        BY <1>5
      <3>2. Id(b) = c.id /\ RowOfEdit(q) = RowOfEdit(b)
        BY <2>2, <3>1 DEF LeftOf, Id, RowOfEdit
      <3>3. CASE c \in conflicts /\ \A n \in DOMAIN sync.batch : Id(sync.batch[n]) # c.id
        <4>1. ~SentRow(b)
          BY <3>2, <3>3 DEF SentRow, Id
        <4>2. q = b
          BY <3>1, <4>1 DEF LeftOf
        <4> QED BY <3>2, <3>3, <4>2 DEF ClientInv, Settling
      <3>4. CASE c \in sync.answer.refusals
        <4>1. PICK o \in outbox : Id(o) = c.id /\ RowOfEdit(o) = c.row /\ SentRow(o)
          BY <1>10, <3>4
        <4>2. o = b
          BY <1>8, <3>2, <4>1 DEF ClientInv, Numbered
        <4> QED BY <1>10, <3>1, <3>2, <3>4, <4>1, <4>2 DEF LeftOf
      <3> QED BY <1>2, <3>3, <3>4
    <2>3. \A h \in resolving', q \in outbox' : Id(q) = h.conflict => q.status = "conflict"
      <3> SUFFICES ASSUME NEW h \in resolving, NEW q \in outbox', Id(q) = h.conflict
                   PROVE  q.status = "conflict"
        BY <1>1
      <3>1. PICK b \in outbox : LeftOf(q, b)
        BY <1>5
      <3>2. Id(b) = h.conflict
        BY <3>1 DEF LeftOf, Id
      <3>3. ~SentRow(b)
        BY <3>2 DEF SentRow, Id, ClientInv, Settling
      <3>4. q = b
        BY <3>1, <3>3 DEF LeftOf
      <3> QED BY <3>2, <3>4 DEF ClientInv, Settling
    <2>4. \A h \in resolving', o \in InHand' : Id(o) # h.conflict
      BY <1>1, <1>4 DEF ClientInv, Settling
    <2>5. \A c \in conflicts', o \in InHand' : Id(o) # c.id
      <3> SUFFICES ASSUME NEW c \in conflicts', NEW o \in InHand, Id(o) = c.id PROVE FALSE
        BY <1>4
      <3>1. CASE c \in conflicts
        BY <3>1 DEF ClientInv, Settling
      <3>2. CASE c \in sync.answer.refusals
        <4>1. PICK b \in outbox : Id(b) = c.id
          BY <1>10, <3>2
        <4> QED BY <1>7, <1>8, <4>1 DEF ClientInv, Numbered
      <3> QED BY <1>2, <3>1, <3>2
    <2> QED BY <2>1, <2>2, <2>3, <2>4, <2>5 DEF Settling
  <1>15. Creations' /\ LogRows'
    <2>1. \A o \in Waiting' : \E b \in Waiting : o.mutation = b.mutation
      BY <1>1, <1>4, <1>5, <1>7, <1>8 DEF LeftOf
    <2>2. Creations'
      BY <2>1 DEF ClientInv, Creations
    <2>3. LogRows'
      BY <1>1, <1>4, <2>1 DEF ClientInv, LogRows, Id, RowOfEdit
    <2> QED BY <2>2, <2>3
  <1>16. Versions'
    <2> SUFFICES ASSUME NEW r \in Rows \ forgone'
                 PROVE  local'[r].version <= Len(server.row[r]) + 1
      BY <1>1 DEF Versions
    <2>1. Len(server.row[r]) \in Nat /\ DOMAIN server.row[r] = 1..Len(server.row[r])
      BY <1>6, ServerRows
    <2>2. CASE TakenAs(r, local'[r])
      <3>1. local'[r].version \in DOMAIN server.row[r]
        BY <1>1, <2>2 DEF TakenAs, ClientInv, AnswerTrue
      <3> QED BY <2>1, <3>1
    <2>3. CASE local'[r] = Missing
      BY <2>1, <2>3, RowContents
    <2>4. CASE local'[r] = local[r] /\ (r \in forgone => r \in forgone')
      BY <2>4 DEF ClientInv, Versions
    <2> QED BY <1>3, <2>2, <2>3, <2>4
  <1>17. Extends(server, server')
    BY <1>1, <1>6, ServerStays
  <1>18. \A r \in Rows \ forgone' : r \notin InHandRows
    BY <1>1
  \* Edits of rows that the answer leaves alone.
  <1>19. ASSUME NEW b \in Waiting, NEW q \in Waiting', q.mutation = b.mutation, Arrived(b),
                RowOfEdit(b) \in Rows, local'[RowOfEdit(b)] = local[RowOfEdit(b)]
         PROVE  Arrived(q)'
    <2>1. Id(q) = Id(b) /\ RowOfEdit(q) = RowOfEdit(b)
      BY <1>19 DEF Id, RowOfEdit
    <2> QED BY <1>1, <1>6, <1>17, <1>19, <2>1, ArrivedStays
  <1>20. LinesArrive'
    <2> SUFFICES ASSUME NEW q \in Waiting', RowOfEdit(q) \in Lines \ forgone'
                 PROVE  Arrived(q)'
      BY DEF LinesArrive, RowOfEdit
    <2> DEFINE r == RowOfEdit(q)
    <2>1. r \in Rows /\ r \notin Lists
      BY ClientAssumption DEF Rows
    <2>2. q \in outbox' /\ q \in Settled
      BY <1>1, <1>4, <1>7
    <2>3. PICK b \in outbox : LeftOf(q, b)
      BY <1>5, <2>2
    <2>4. q.mutation = b.mutation /\ RowOfEdit(b) = r
      BY <2>3 DEF LeftOf, RowOfEdit
    <2>5. ~Unprotected(r)
      BY <2>1, <2>2 DEF Unprotected
    <2>6. local'[r] = local[r] /\ r \notin forgone
      BY <1>3, <2>1, <2>5 DEF TakenAs
    <2>7. Arrived(b)
      BY <1>8, <2>4, <2>6 DEF ClientInv, LinesArrive
    <2> QED BY <1>8, <1>19, <2>1, <2>4, <2>6, <2>7
  <1>21. ASSUME NEW r \in Rows \ forgone', local'[r] # Missing
         PROVE  ContentHeld(r)' /\ DeletionHeld(r)'
    <2>1. CASE TakenAs(r, local'[r])
      <3>1. /\ local'[r].version \in DOMAIN server.row[r]
            /\ local'[r].value = server.row[r][local'[r].version]
        BY <1>1, <2>1 DEF TakenAs, ClientInv, AnswerTrue
      <3>2. Len(server.row[r]) \in Nat /\ DOMAIN server.row[r] = 1..Len(server.row[r])
        BY <1>6, ServerRows
      <3>3. local'[r].value \in Since(r)'
        BY <1>1, <3>1, <3>2 DEF Since
      <3> QED BY <3>3 DEF ContentHeld, DeletionHeld
    <2>2. CASE local'[r] = local[r] /\ (r \in forgone => r \in forgone')
      <3>1. r \in Rows \ forgone /\ r \notin InHandRows /\ local[r] # Missing
        BY <1>18, <1>21, <2>2
      <3>2. ContentHeld(r) /\ DeletionHeld(r)
        BY <3>1 DEF ClientInv, EditsHeld
      <3>3. ASSUME NEW o \in Carriers, RowOfEdit(o) = r, Arrived(o), o.mutation \notin server.log
            PROVE  \E p \in Carriers' : p.mutation = o.mutation /\ Arrived(p)'
        <4>1. PICK q \in Settled : q.mutation = o.mutation
          BY <1>1, <3>1, <3>3, SentCarriers
        <4>2. q \in Carriers'
          BY <1>1, <1>4, <4>1 DEF Carriers, Id
        <4>3. Arrived(q)'
          BY <1>4, <1>19, <2>2, <3>3, <4>1 DEF Carriers
        <4> QED BY <4>1, <4>2, <4>3
      <3>4. \A v \in Since(r) : v \in Since(r)'
        BY <1>6, <1>17, <2>2, SinceStays
      <3>5. ContentHeld(r)'
        <4>1. CASE \E v \in Since(r) : v.content = local[r].value.content
          BY <2>2, <3>4, <4>1 DEF ContentHeld
        <4>2. ASSUME NEW o \in Carriers, CarriesContent(o, r) PROVE ContentHeld(r)'
          <5>1. CASE o.mutation \in server.log
            <6>1. \E v \in Since(r) : v.content = local[r].value.content
              BY <4>2, <5>1, AppliedThere DEF Carriers
            <6> QED BY <4>1, <6>1
          <5>2. CASE o.mutation \notin server.log
            <6>1. PICK p \in Carriers' : p.mutation = o.mutation /\ Arrived(p)'
              BY <3>3, <4>2, <5>2 DEF CarriesContent
            <6>2. CarriesContent(p, r)'
              BY <2>2, <4>2, <6>1 DEF CarriesContent, RowOfEdit
            <6> QED BY <6>2 DEF ContentHeld
          <5> QED BY <5>1, <5>2
        <4> QED BY <3>2, <4>1, <4>2 DEF ContentHeld
      <3>6. DeletionHeld(r)'
        <4>1. CASE \E v \in Since(r) : v.deleted = local[r].value.deleted
          BY <2>2, <3>4, <4>1 DEF DeletionHeld
        <4>2. ASSUME NEW o \in Carriers, CarriesDeletion(o, r) PROVE DeletionHeld(r)'
          <5>1. CASE o.mutation \in server.log
            <6>1. \E v \in Since(r) : v.deleted = local[r].value.deleted
              BY <4>2, <5>1, AppliedThere DEF Carriers
            <6> QED BY <4>1, <6>1
          <5>2. CASE o.mutation \notin server.log
            <6>1. PICK p \in Carriers' : p.mutation = o.mutation /\ Arrived(p)'
              BY <3>3, <4>2, <5>2 DEF CarriesDeletion
            <6>2. CarriesDeletion(p, r)'
              BY <2>2, <4>2, <6>1 DEF CarriesDeletion, RowOfEdit
            <6> QED BY <6>2 DEF DeletionHeld
          <5> QED BY <5>1, <5>2
        <4> QED BY <3>2, <4>1, <4>2 DEF DeletionHeld
      <3> QED BY <3>5, <3>6
    <2> QED BY <1>3, <1>21, <2>1, <2>2
  <1>22. EditsHeld'
    BY <1>21 DEF EditsHeld
  <1> QED BY <1>11, <1>12, <1>13, <1>14, <1>15, <1>16, <1>20, <1>22 DEF ClientInv

-----------------------------------------------------------------------------
(* Theorems                                                                *)

LEMMA InvNext ==
    ASSUME ClientInv, [Next]_vars
    PROVE  ClientInv'
  <1>1. ASSUME Remote PROVE ClientInv'
    BY <1>1, InvRemote
  <1>2. ASSUME Edit PROVE ClientInv'
    BY <1>2, InvEdit
  <1>3. ASSUME Resume \/ Enqueue PROVE ClientInv'
    BY <1>3, InvEnqueue
  <1>4. ASSUME KeepAgain PROVE ClientInv'
    BY <1>4, InvKeepAgain
  <1>5. ASSUME Forget PROVE ClientInv'
    BY <1>5, InvForget
  <1>6. ASSUME StartSync PROVE ClientInv'
    BY <1>6, InvStartSync
  <1>7. ASSUME Mark \/ Unmark PROVE ClientInv'
    BY <1>7, InvMark
  <1>8. ASSUME Serve PROVE ClientInv'
    BY <1>8, InvServe
  <1>9. ASSUME Receive PROVE ClientInv'
    BY <1>9, InvReceive
  <1>10. ASSUME Retry PROVE ClientInv'
    BY <1>10, InvRetry
  <1>11. ASSUME RefuseCursor PROVE ClientInv'
    BY <1>11, InvRefuseCursor
  <1>12. ASSUME Fail PROVE ClientInv'
    BY <1>12, InvFail
  <1>13. ASSUME Die PROVE ClientInv'
    BY <1>13, InvDie
  <1>14. ASSUME NEW c \in conflicts, KeepMine(c) PROVE ClientInv'
    BY <1>14, InvKeepMine
  <1>15. ASSUME NEW c \in conflicts, TakeTheirs(c) PROVE ClientInv'
    BY <1>15, InvTakeTheirs
  <1>16. ASSUME UNCHANGED vars PROVE ClientInv'
    <2>1. RestTyped'
      BY <1>16 DEF vars, ClientInv, Typed, RestTyped
    <2> QED BY <1>16, <2>1, AsideStep DEF vars, room
  <1> QED
    BY <1>1, <1>2, <1>3, <1>4, <1>5, <1>6, <1>7, <1>8, <1>9, <1>10, <1>11, <1>12, <1>13, <1>14,
       <1>15, <1>16 DEF Next, Step

\* What connects the device's outbox, its batch, its conflicts and the server's
\* log, in every state that edits, requests, faults and decisions can reach.
THEOREM ClientInvariant == Spec => []ClientInv
  <1>1. Init => ClientInv
    BY InvInit
  <1>2. ClientInv /\ [Next]_vars => ClientInv'
    BY InvNext
  <1> QED BY <1>1, <1>2, PTL DEF Spec

LEMMA TypesHold ==
    ASSUME ClientInv
    PROVE  TypeOK
  <1>1. outbox \subseteq OutboxRow /\ InHand \subseteq OutboxRow
    BY WaitingRows DEF ClientInv, Waiting
  <1>2. \A o, p \in outbox : o.mutation.id = p.mutation.id => o = p
    BY DEF ClientInv, Numbered, Waiting, Id
  <1>3. cursor \in 0..server.seq
    BY DEF ClientInv, Typed, RoomTyped, ServerTyped, ServerRecord
  <1>4. sync.phase \in Phases /\ sync.marked \in 0..Len(sync.batch)
    <2>1. /\ sync.batch \in Seq(OutboxRow) /\ sync.marked \in Nat /\ sync.phase \in Phases
          /\ sync.marked <= Len(sync.batch)
      BY DEF ClientInv, Typed, SyncTyped, SyncRecord
    <2>2. Len(sync.batch) \in Nat
      BY <2>1
    <2> QED BY <2>1, <2>2
  <1>5. /\ local \in [Rows -> Versioned] /\ conflicts \subseteq Conflict /\ forgone \subseteq Rows
        /\ wanted \in BOOLEAN /\ owed \in {"none", "enqueue", "forgotten"}
    BY DEF ClientInv, Typed, RoomTyped, RestTyped
  <1> QED BY <1>1, <1>2, <1>3, <1>4, <1>5 DEF TypeOK

\* Rows and records keep their types, no mutation ID names two rows of the outbox
\* (REPLACE by mutationId, fresh UUIDs), and the device's cursor is never ahead of
\* the account's sequence.
THEOREM TypeCorrect == Spec => []TypeOK
  <1>1. ClientInv => TypeOK
    BY TypesHold
  <1> QED BY <1>1, ClientInvariant, PTL

LEMMA HeldNow ==
    ASSUME ClientInv
    PROVE  Held
  <1> SUFFICES ASSUME NEW r \in Rows \ forgone, local[r] # Missing PROVE OnServerOrCarried(r)
    BY DEF Held
  <1>1. ContentHeld(r) /\ DeletionHeld(r)
    BY DEF ClientInv, EditsHeld
  <1>2. \A o \in Carriers : RowOfEdit(o) = r => o.mutation \in Carried(r)
    BY DEF Carriers, Waiting, Carried, RowOfEdit
  <1>3. \/ \E v \in Since(r) : v.content = local[r].value.content
        \/ \E m \in Carried(r) : m.content = local[r].value.content
    BY <1>1, <1>2 DEF ContentHeld, CarriesContent
  <1>4. \/ \E v \in Since(r) : v.deleted = local[r].value.deleted
        \/ \E m \in Carried(r) :
             IF local[r].value.deleted THEN m.deletion = "delete"
             ELSE m.deletion = "restore" \/ m.op = "create"
    BY <1>1, <1>2 DEF DeletionHeld, CarriesDeletion
  <1> QED BY <1>3, <1>4 DEF OnServerOrCarried

\* Only an answer and the user's choice of the server's row replace what an edit
\* has not just written; the choice names the row.
LEMMA ReplacedRows ==
    ASSUME ClientInv, [Next]_vars, made' = made, NEW r \in Rows \ (forgone \cup forgone'),
           local[r] # Missing, local'[r] # local[r]
    PROVE  OnServer(r)
  <1>1. CASE Receive
    <2>1. /\ sync.phase = "answered" /\ InHandRows \subseteq forgone'
          /\ \/ TakenAs(r, local'[r])
             \/ local'[r] = Missing /\ Unprotected(r)
             \/ local'[r] = local[r]
      BY <1>1, ReceivedRows
    <2>2. r \notin InHandRows /\ Unprotected(r)
      BY <2>1 DEF TakenAs
    <2> QED BY <2>1, <2>2, ReplacedHad
  <1>2. ASSUME NEW c \in conflicts, TakeTheirs(c) PROVE FALSE
    <2>1. c.row \in forgone'
      BY <1>2 DEF TakeTheirs
    <2>2. c.row \in Rows
      BY DEF ClientInv, Typed, RoomTyped, Conflict
    <2>3. local \in [Rows -> Versioned]
      BY DEF ClientInv, Typed, RoomTyped
    <2>4. \A row : local' = local \/ local' = [local EXCEPT ![c.row] = row] => local'[r] = local[r]
      BY <2>1, <2>3
    <2>5. \E row : local' = local \/ local' = [local EXCEPT ![c.row] = row]
      BY <1>2 DEF TakeTheirs
    <2> QED BY <2>4, <2>5
  <1>3. made \in Nat /\ made' # made + 1
    BY DEF ClientInv, Typed, RestTyped
  <1>4. CASE Edit
    <2>1. made' = Fresh
      BY <1>4 DEF Edit, Create, Patch
    <2> QED BY <1>3, <2>1 DEF Fresh
  <1>5. CASE \/ Remote \/ Resume \/ Enqueue \/ KeepAgain \/ Forget \/ StartSync \/ Mark \/ Serve
             \/ Unmark \/ Retry \/ RefuseCursor \/ Fail \/ Die
    <2>1. local' = local
      BY <1>5 DEF Remote, Resume, Enqueue, KeepAgain, Forget, StartSync, Mark, Serve, Unmark, Retry,
                  RefuseCursor, Fail, Die, room
    <2> QED BY <2>1
  <1>6. ASSUME NEW c \in conflicts, KeepMine(c) PROVE FALSE
    BY <1>6 DEF KeepMine
  <1>7. CASE UNCHANGED vars
    BY <1>7 DEF vars, room
  <1> QED BY <1>1, <1>2, <1>4, <1>5, <1>6, <1>7 DEF Next, Step

\* No edit is lost: what the device shows of a row is on the server or in the
\* outbox, and no answer replaces it before the server has had it (applyResponse
\* with getProtecting, mergePatch, the return of what was in flight), whatever is
\* lost, repeated or edited meanwhile, outside the gaps that forgone names.
THEOREM EditsKept == Spec => EditKept
  <1>1. ClientInv => Held
    BY HeldNow
  <1>2. ClientInv /\ Held' /\ [Next]_vars =>
           [/\ Held'
            /\ made' = made =>
                 \A r \in Rows \ (forgone \cup forgone') :
                     local[r] # Missing /\ local'[r] # local[r] => OnServer(r)]_vars
    BY ReplacedRows
  <1> QED BY <1>1, <1>2, ClientInvariant, PTL DEF Spec, EditKept

-----------------------------------------------------------------------------
(* Agreement: what stamps say of a server                                  *)

\* Rows that are there have a stamp, no line a newer one than its list, and what the
\* log has was written.
Stamped(s) ==
    /\ \A r \in Rows :
        /\ s.row[r] # <<>> <=> s.stamp[r] > 0
        /\ s.stamp[r] <= s.stamp[HomeOf(r)]
        /\ s.stamp[r] <= s.seq
    /\ \A m \in s.log : s.stamp[m.row] > 0

\* From s to t every row that changes is stamped anew, and the log grows by mutations
\* whose rows are.
Stamps(s, t) ==
    /\ Stamped(t)
    /\ s.seq <= t.seq
    /\ \A r \in Rows : \/ t.stamp[r] = s.stamp[r] /\ t.row[r] = s.row[r]
                       \/ t.stamp[r] > s.seq
    /\ \A m \in t.log \ s.log : t.stamp[m.row] > s.seq

LEMMA ServerTypes ==
    ASSUME NEW s \in ServerRecord
    PROVE  /\ \A r \in Rows : s.row[r] \in Seq(Value) /\ s.stamp[r] \in Nat /\ HomeOf(r) \in Rows
           /\ \A r \in Rows : HomeOf(HomeOf(r)) = HomeOf(r)
           /\ s.seq \in Nat /\ s.log \subseteq Mutation
           /\ \A m \in s.log : m.row \in Rows
           /\ s = [row |-> s.row, stamp |-> s.stamp, seq |-> s.seq, log |-> s.log]
  <1>1. \A r \in Rows : HomeOf(r) \in Rows /\ HomeOf(HomeOf(r)) = HomeOf(r)
    BY ClientAssumption DEF HomeOf, Rows
  <1> QED BY <1>1 DEF ServerRecord, Mutation

LEMMA StampsNothing ==
    ASSUME NEW s, Stamped(s), s.seq \in Nat
    PROVE  Stamps(s, s)
  BY DEF Stamps

LEMMA StampsFurther ==
    ASSUME NEW s \in ServerRecord, NEW t \in ServerRecord, NEW u \in ServerRecord,
           Stamps(s, t), Stamps(t, u)
    PROVE  Stamps(s, u)
  <1>1. s.seq \in Nat /\ t.seq \in Nat /\ u.seq \in Nat /\ s.seq <= t.seq /\ t.seq <= u.seq
    BY ServerTypes DEF Stamps
  <1>2. ASSUME NEW r \in Rows, t.stamp[r] > s.seq PROVE u.stamp[r] > s.seq
    <2>1. t.stamp[r] \in Nat /\ u.stamp[r] \in Nat
      BY ServerTypes
    <2>2. u.stamp[r] = t.stamp[r] \/ u.stamp[r] > t.seq
      BY DEF Stamps
    <2> QED BY <1>1, <1>2, <2>1, <2>2
  <1>3. ASSUME NEW r \in Rows
        PROVE  \/ u.stamp[r] = s.stamp[r] /\ u.row[r] = s.row[r]
               \/ u.stamp[r] > s.seq
    <2>1. t.stamp[r] \in Nat /\ u.stamp[r] \in Nat
      BY ServerTypes
    <2>2. CASE u.stamp[r] > t.seq
      BY <1>1, <2>1, <2>2
    <2>3. CASE u.stamp[r] = t.stamp[r] /\ u.row[r] = t.row[r]
      <3>1. \/ t.stamp[r] = s.stamp[r] /\ t.row[r] = s.row[r]
            \/ t.stamp[r] > s.seq
        BY DEF Stamps
      <3> QED BY <2>3, <3>1
    <2> QED BY <2>2, <2>3 DEF Stamps
  <1>4. ASSUME NEW m \in u.log \ s.log PROVE u.stamp[m.row] > s.seq
    <2>1. m.row \in Rows /\ u.stamp[m.row] \in Nat
      BY ServerTypes
    <2>2. CASE m \in t.log
      <3>1. t.stamp[m.row] > s.seq
        BY <2>2 DEF Stamps
      <3> QED BY <1>2, <2>1, <3>1
    <2>3. CASE m \notin t.log
      <3>1. u.stamp[m.row] > t.seq
        BY <2>3 DEF Stamps
      <3> QED BY <1>1, <2>1, <3>1
    <2> QED BY <2>2, <2>3
  <1>5. s.seq <= u.seq
    BY <1>1
  <1> QED BY <1>3, <1>4, <1>5 DEF Stamps

\* A mutation of a row whose list is there stamps the row and its list.
LEMMA WriteStamps ==
    ASSUME NEW s \in ServerRecord, Stamped(s),
           NEW m, m.row \in Rows, m.content \in AnyContent \cup {Unchanged},
           m.row = HomeOf(m.row) \/ s.row[HomeOf(m.row)] # <<>>
    PROVE  /\ Stamps(s, Write(s, m))
           /\ Write(s, m).stamp[m.row] > s.seq
           /\ Write(s, m).seq > s.seq
  <1> DEFINE v == Written(s, m)
             long == Append(s.row[m.row], v)
             touched == {m.row, HomeOf(m.row)}
  <1>1. PICK t : t = Write(s, m)
    OBVIOUS
  <1>2. /\ t \in ServerRecord /\ t.log = s.log /\ Len(t.row[m.row]) = Len(s.row[m.row]) + 1
    BY <1>1, WriteGrows
  <1>3. /\ \A r \in Rows \ {m.row} : t.row[r] = s.row[r]
        /\ t.seq = s.seq + 1
        /\ \A r \in Rows : t.stamp[r] = IF r \in touched THEN s.seq + 1 ELSE s.stamp[r]
    <2> HIDE DEF v
    <2>1. Write(s, m) = [s EXCEPT !.row[m.row] = Append(@, v),
              !.stamp = [r \in Rows |-> IF r \in {m.row, HomeOf(m.row)} THEN s.seq + 1 ELSE @[r]],
              !.seq = @ + 1]
      BY DEF Write, v
    <2>2. s = [row |-> s.row, stamp |-> s.stamp, seq |-> s.seq, log |-> s.log]
          /\ s.row \in [Rows -> Seq(Value)]
      BY ServerTypes DEF ServerRecord
    <2>3. /\ t.row = [s.row EXCEPT ![m.row] = Append(s.row[m.row], v)]
          /\ t.stamp = [r \in Rows |-> IF r \in {m.row, HomeOf(m.row)} THEN s.seq + 1 ELSE s.stamp[r]]
          /\ t.seq = s.seq + 1
      BY <1>1, <2>1, <2>2
    <2>4. \A r \in Rows : t.stamp[r] = IF r \in touched THEN s.seq + 1 ELSE s.stamp[r]
      BY <2>3
    <2>5. \A r \in Rows \ {m.row} : t.row[r] = s.row[r]
      BY <2>2, <2>3
    <2> QED BY <2>3, <2>4, <2>5
  <1>4. /\ \A r \in Rows : /\ s.stamp[r] \in Nat /\ HomeOf(r) \in Rows
                           /\ HomeOf(HomeOf(r)) = HomeOf(r)
        /\ s.seq \in Nat
    BY ServerTypes
  <1>5. t.row[m.row] # <<>>
    <2>1. Len(s.row[m.row]) \in Nat
      BY ServerTypes
    <2> QED BY <1>2, <2>1
  <1> HIDE DEF v, long
  <1>6. \A r \in touched : r \in Rows /\ t.row[r] # <<>>
    <2>1. CASE m.row = HomeOf(m.row)
      BY <1>5, <2>1
    <2>2. CASE m.row # HomeOf(m.row)
      <3>1. t.row[HomeOf(m.row)] = s.row[HomeOf(m.row)]
        BY <1>3, <1>4, <2>2
      <3> QED BY <1>4, <1>5, <2>2, <3>1
    <2> QED BY <2>1, <2>2
  <1>7. ASSUME NEW r \in Rows
        PROVE  /\ t.row[r] # <<>> <=> t.stamp[r] > 0
               /\ t.stamp[r] <= t.stamp[HomeOf(r)]
               /\ t.stamp[r] <= t.seq
               /\ \/ t.stamp[r] = s.stamp[r] /\ t.row[r] = s.row[r]
                  \/ t.stamp[r] > s.seq
    <2>1. /\ s.row[r] # <<>> <=> s.stamp[r] > 0
          /\ s.stamp[r] <= s.stamp[HomeOf(r)]
          /\ s.stamp[r] <= s.seq /\ s.stamp[HomeOf(r)] <= s.seq
      BY <1>4 DEF Stamped
    <2>2. CASE r \in touched
      <3>1. HomeOf(r) \in touched
        BY <1>4, <2>2
      <3>2. t.stamp[r] = s.seq + 1 /\ t.stamp[HomeOf(r)] = s.seq + 1
        BY <1>3, <1>4, <2>2, <3>1
      <3> QED BY <1>3, <1>4, <1>6, <2>2, <3>2
    <2>3. CASE r \notin touched
      <3>1. t.stamp[r] = s.stamp[r] /\ t.row[r] = s.row[r]
        BY <1>3, <2>3
      <3>2. t.stamp[HomeOf(r)] = s.seq + 1 \/ t.stamp[HomeOf(r)] = s.stamp[HomeOf(r)]
        BY <1>3, <1>4
      <3>3. s.stamp[r] \in Nat /\ s.stamp[HomeOf(r)] \in Nat
        BY <1>4
      <3> HIDE DEF touched
      <3> QED BY <1>3, <1>4, <2>1, <3>1, <3>2, <3>3
    <2> QED BY <2>2, <2>3
  <1>8. \A n \in t.log : t.stamp[n.row] > 0
    <2> SUFFICES ASSUME NEW n \in t.log PROVE t.stamp[n.row] > 0
      OBVIOUS
    <2>1. n \in s.log /\ n.row \in Rows
      BY <1>2, ServerTypes
    <2>2. s.stamp[n.row] > 0 /\ s.stamp[n.row] <= s.seq
      BY <2>1 DEF Stamped
    <2>3. t.stamp[n.row] = s.stamp[n.row] \/ t.stamp[n.row] > s.seq
      BY <1>7, <2>1
    <2>4. t.stamp[n.row] \in Nat /\ s.stamp[n.row] \in Nat
      BY <1>2, <2>1, ServerTypes
    <2> QED BY <1>4, <2>2, <2>3, <2>4
  <1>9. Stamped(t)
    BY <1>7, <1>8 DEF Stamped
  <1>10. t.stamp[m.row] > s.seq /\ t.seq > s.seq /\ s.seq <= t.seq
    BY <1>3, <1>4
  <1>11. Stamps(s, t)
    BY <1>2, <1>7, <1>9, <1>10 DEF Stamps
  <1> QED BY <1>1, <1>10, <1>11

LEMMA AcceptedHome ==
    ASSUME NEW s \in ServerRecord, NEW m, m.row \in Rows, ~Verdict(s, m).refused
    PROVE  m.row = HomeOf(m.row) \/ s.row[HomeOf(m.row)] # <<>>
  <1>1. CASE m.op = "create" /\ m.row \in Lists
    BY <1>1 DEF HomeOf
  <1>2. CASE ~(m.op = "create" /\ m.row \in Lists)
    <2>1. Current(s, HomeOf(m.row)) = Missing => Verdict(s, m) = RefusedBare
      BY <1>2 DEF Verdict
    <2>2. Current(s, HomeOf(m.row)) # Missing
      BY <2>1 DEF RefusedBare
    <2> QED BY <2>2, CurrentRow, RowContents
  <1> QED BY <1>1, <1>2

\* One answer; the creation of a list in an account without changes is applied.
LEMMA AnswerStamps ==
    ASSUME NEW acc \in Account, NEW m \in Mutation, Stamped(acc.server)
    PROVE  /\ Stamps(acc.server, Answer(acc, m).server)
           /\ acc.server.seq = 0 /\ m.op = "create" /\ m.row \in Lists =>
                Answer(acc, m).server.seq > 0
  <1> DEFINE refused(v) == [acc EXCEPT !.refusals = @ \cup {[id |-> m.id, row |-> m.row, json |-> v.json]}]
             applied == [acc EXCEPT !.server = [Write(acc.server, m) EXCEPT !.log = @ \cup {m}]]
             first == acc.server.seq = 0 /\ m.op = "create" /\ m.row \in Lists
  <1>1. PICK s : s = acc.server
    OBVIOUS
  <1>2. /\ s \in ServerRecord /\ Stamped(s) /\ s.seq \in Nat /\ m.row \in Rows
        /\ m.content \in AnyContent \cup {Unchanged}
        /\ acc = [server |-> s, refusals |-> acc.refusals]
    BY <1>1, ServerTypes DEF Account, Mutation
  <1>3. Stamps(s, s)
    BY <1>2, StampsNothing
  <1>4. first => s.log = {} /\ Verdict(s, m) = Applied
    <2> SUFFICES ASSUME first PROVE s.log = {} /\ Verdict(s, m) = Applied
      OBVIOUS
    <2>1. s.seq = 0 /\ m.op = "create" /\ m.row \in Lists
      BY <1>1
    <2> HIDE DEF first
    <2>2. \A r \in Rows : ~(s.stamp[r] > 0)
      <3> SUFFICES ASSUME NEW r \in Rows PROVE ~(s.stamp[r] > 0)
        OBVIOUS
      <3>1. s.stamp[r] \in Nat /\ s.stamp[r] <= s.seq
        BY <1>2, ServerTypes DEF Stamped
      <3> QED BY <2>1, <3>1
    <2>3. s.log = {}
      <3> SUFFICES ASSUME NEW n \in s.log PROVE FALSE
        OBVIOUS
      <3>1. n.row \in Rows /\ s.stamp[n.row] > 0
        BY <1>2, ServerTypes DEF Stamped
      <3> QED BY <2>2, <3>1
    <2>4. Current(s, m.row) = Missing
      <3>1. s.row[m.row] = <<>>
        BY <1>2, <2>2 DEF Stamped
      <3> QED BY <3>1 DEF Current
    <2>5. Verdict(s, m) = Applied
      BY <2>1, <2>4 DEF Verdict
    <2> QED BY <2>3, <2>5
  <1>5. CASE m \in s.log
    <2>1. Answer(acc, m) = acc
      BY <1>1, <1>5 DEF Answer
    <2> QED BY <1>1, <1>3, <1>4, <1>5, <2>1
  <1>6. ASSUME NEW v PROVE refused(v).server = s
    BY <1>2
  <1>7. CASE m \notin s.log /\ \E n \in s.log : n.id = m.id /\ (n.row \in Lists) = (m.row \in Lists)
                                                 /\ n.op = m.op
    <2>1. Answer(acc, m) = refused(RefusedBare)
      BY <1>1, <1>7 DEF Answer
    <2>2. Answer(acc, m).server = s
      BY <1>6, <2>1
    <2> HIDE DEF refused
    <2> QED BY <1>1, <1>3, <1>4, <1>7, <2>2
  <1>8. CASE /\ m \notin s.log
             /\ ~\E n \in s.log : n.id = m.id /\ (n.row \in Lists) = (m.row \in Lists) /\ n.op = m.op
             /\ Verdict(s, m).refused
    <2>1. Answer(acc, m) = refused(Verdict(s, m))
      BY <1>1, <1>8 DEF Answer
    <2>2. Answer(acc, m).server = s
      BY <1>6, <2>1
    <2>3. ~first
      BY <1>4, <1>8 DEF Applied
    <2> HIDE DEF refused, first
    <2>4. first => FALSE
      BY <2>3
    <2> QED BY <1>1, <1>3, <2>2, <2>3 DEF first
  <1>9. CASE /\ m \notin s.log
             /\ ~\E n \in s.log : n.id = m.id /\ (n.row \in Lists) = (m.row \in Lists) /\ n.op = m.op
             /\ ~Verdict(s, m).refused
    <2>1. PICK w : w = Write(s, m)
      OBVIOUS
    <2>2. PICK t : t = [w EXCEPT !.log = @ \cup {m}]
      OBVIOUS
    <2>3. Answer(acc, m) = applied
      BY <1>1, <1>9 DEF Answer
    <2>4. applied = [server |-> t, refusals |-> acc.refusals]
      BY <1>1, <1>2, <2>1, <2>2
    <2>5. Answer(acc, m).server = t
      BY <2>3, <2>4
    <2>6. m.row = HomeOf(m.row) \/ s.row[HomeOf(m.row)] # <<>>
      BY <1>2, <1>9, AcceptedHome
    <2>7. Stamps(s, w) /\ w.stamp[m.row] > s.seq /\ w.seq > s.seq /\ w \in ServerRecord /\ w.log = s.log
      BY <1>2, <2>1, <2>6, WriteStamps, WriteGrows
    <2>8. t.row = w.row /\ t.stamp = w.stamp /\ t.seq = w.seq /\ t.log = s.log \cup {m}
      <3>1. w = [row |-> w.row, stamp |-> w.stamp, seq |-> w.seq, log |-> w.log]
        BY <2>7, ServerTypes
      <3> QED BY <2>2, <2>7, <3>1
    <2>9. w.stamp[m.row] > 0 /\ w.seq > 0
      <3>1. w.stamp[m.row] \in Nat /\ w.seq \in Nat
        BY <1>2, <2>7, ServerTypes
      <3> QED BY <1>2, <2>7, <3>1
    <2>10. Stamped(t)
      BY <2>7, <2>8, <2>9 DEF Stamps, Stamped
    <2>11. Stamps(s, t)
      BY <2>7, <2>8, <2>10 DEF Stamps
    <2> HIDE DEF applied, first
    <2> QED BY <1>1, <2>5, <2>8, <2>9, <2>11
  <1> QED BY <1>5, <1>7, <1>8, <1>9

\* A whole request.
LEMMA AnsweredStamps ==
    ASSUME server \in ServerRecord, Stamped(server), NEW n \in Nat, NEW ms, DOMAIN ms = 1..n,
           \A k \in 1..n : ms[k] \in Mutation
    PROVE  /\ Stamps(server, Answered(ms).server)
           /\ n > 0 /\ server.seq = 0 /\ ms[1].op = "create" /\ ms[1].row \in Lists =>
                Answered(ms).server.seq > 0
  <1>1. PICK accs \in [0..n -> Account] :
          /\ accs[0] = [server |-> server, refusals |-> {}]
          /\ accs[n] = Answered(ms)
          /\ \A k \in 0..n - 1 : accs[k + 1] = Answer(accs[k], ms[k + 1])
    BY AnsweredInTurn
  <1> DEFINE first == server.seq = 0 /\ ms[1].op = "create" /\ ms[1].row \in Lists
             Done(k) == /\ Stamps(server, accs[k].server)
                        /\ k > 0 /\ first => accs[k].server.seq > 0
             N == {k \in Nat : k <= n => Done(k)}
  <1>2. server.seq \in Nat /\ accs[0].server = server
    <2>1. accs[0] \in Account
      OBVIOUS
    <2> HIDE DEF N, Done
    <2> QED BY <1>1, <2>1, ServerTypes
  <1>3. 0 \in N
    <2>1. Stamps(server, accs[0].server)
      <3>1. Stamps(server, server)
        BY <1>2, StampsNothing
      <3> QED BY <1>2, <3>1
    <2> QED BY <2>1
  <1>4. ASSUME NEW k \in Nat, k \in N PROVE k + 1 \in N
    <2> SUFFICES ASSUME k + 1 <= n PROVE Done(k + 1)
      OBVIOUS
    <2>1. k + 1 \in 1..n /\ k \in 0..n - 1 /\ ms[k + 1] \in Mutation /\ accs[k] \in Account
          /\ accs[k + 1] \in Account
      OBVIOUS
    <2>2. PICK acc, new, m : acc = accs[k] /\ new = accs[k + 1] /\ m = ms[k + 1]
      OBVIOUS
    <2>3. /\ Stamps(server, acc.server) /\ (k > 0 /\ first => acc.server.seq > 0)
          /\ new = Answer(acc, m) /\ acc \in Account /\ new \in Account /\ m \in Mutation
      BY <1>1, <1>4, <2>1, <2>2
    <2> HIDE DEF N
    <2>4. Stamped(acc.server) /\ acc.server \in ServerRecord /\ new.server \in ServerRecord
      BY <2>3 DEF Stamps, Account
    <2>5. /\ Stamps(acc.server, new.server)
          /\ acc.server.seq = 0 /\ m.op = "create" /\ m.row \in Lists => new.server.seq > 0
      BY <2>3, <2>4, AnswerStamps
    <2>6. Stamps(server, new.server)
      BY <2>3, <2>4, <2>5, StampsFurther
    <2>7. ASSUME first PROVE new.server.seq > 0
      <3>1. acc.server.seq \in Nat /\ new.server.seq \in Nat /\ acc.server.seq <= new.server.seq
        BY <2>4, <2>5, ServerTypes DEF Stamps
      <3>2. CASE k > 0
        BY <2>3, <2>7, <3>1, <3>2
      <3>3. CASE k = 0
        <4>1. acc.server = server /\ m = ms[1]
          BY <1>2, <2>2, <3>3
        <4> QED BY <2>5, <2>7, <4>1
      <3> QED BY <3>2, <3>3
    <2> HIDE DEF first
    <2> QED BY <2>2, <2>6, <2>7
  <1>5. n \in N
    <2> HIDE DEF N
    <2> QED BY <1>3, <1>4, NaturalInduction
  <1>6. Done(n)
    BY <1>5
  <1> QED BY <1>1, <1>6

-----------------------------------------------------------------------------
(* Agreement: the invariant                                                *)

Reached(o) == {RowOfEdit(o), HomeOf(RowOfEdit(o))}
ListMade(o) == o.mutation.op = "create" /\ RowOfEdit(o) \in Lists

\* Until the server has a change, the first edit of the device made a list.
BeforeFirst ==
    server.seq = 0 =>
        /\ \A o \in outbox :
             ListMade(o) \/ \E p \in outbox : ListMade(p) /\ p.createdAt < o.createdAt
        /\ \A r \in Rows : local[r] # Missing => \E p \in outbox : ListMade(p)
        /\ sync.batch # <<>> => ListMade(sync.batch[1])

\* Only a device with a cursor has conflicts, so an answer to one without purges
\* nothing that the user is deciding.
HasCursor ==
    conflicts # {} \/ resolving # {} \/ (\E o \in outbox : o.status = "conflict") => cursor > 0

\* The list of what the device shows and edits is there.
Homes ==
    /\ \A r \in Rows : local[r] # Missing => local[HomeOf(r)].version > 0
    /\ \A o \in Waiting : local[HomeOf(RowOfEdit(o))].version > 0

GivenUp == \A o \in outbox, h \in resolving : Id(o) = h.conflict => Reached(o) \subseteq forgone

\* An answer has every row that was stamped since the cursor it was asked with, as it
\* is unless it was stamped again, and all that an applied edit reached.
AnswerFresh ==
    sync.phase = "answered" =>
        /\ ~sync.answer.expired
        /\ sync.answer.cursor >= cursor
        /\ sync.answer.full => cursor = 0
        /\ sync.batch # <<>> => sync.answer.cursor > 0
        /\ \A r \in Rows : server.stamp[r] <= sync.answer.cursor =>
             \/ r \in DOMAIN sync.answer.rows /\ sync.answer.rows[r] = Current(server, r)
             \/ r \notin DOMAIN sync.answer.rows /\ server.stamp[r] <= cursor
        /\ \A r \in DOMAIN sync.answer.rows : HomeOf(r) \in DOMAIN sync.answer.rows
        /\ \A n \in DOMAIN sync.batch :
             \/ \E c \in sync.answer.refusals : c.id = Id(sync.batch[n])
             \/ Reached(sync.batch[n]) \subseteq DOMAIN sync.answer.rows

\* What the batch leaves out has never been applied.
Unsent ==
    sync.phase # "idle" => \A o \in outbox : o.status # "conflict" /\ ~SentRow(o) =>
        \A m \in server.log : m.id # Id(o)

\* What was applied and is still to be sent comes with an answer.
NotReceived ==
    \A o \in outbox, m \in server.log : o.status # "conflict" /\ m.id = Id(o) =>
        \A r \in Reached(o) : server.stamp[r] > cursor

Protecting == {r \in Rows : \E o \in Carriers : r \in Reached(o)}

\* What the device has been sent, it shows.
Followed ==
    \A r \in Rows \ (forgone \cup Protecting) :
        server.stamp[r] <= cursor => local[r] = Current(server, r)

Following ==
    /\ BeforeFirst
    /\ HasCursor
    /\ Homes
    /\ GivenUp
    /\ AnswerFresh
    /\ Unsent
    /\ NotReceived
    /\ Followed

AgreeInv ==
    /\ Stamped(server)
    /\ left.expiries <= MaxExpiries
    /\ left.expiries = MaxExpiries => Following

-----------------------------------------------------------------------------
(* Agreement: what a step keeps                                            *)

LEMMA ReachedRows ==
    ASSUME NEW o, RowOfEdit(o) \in Rows
    PROVE  /\ Reached(o) \subseteq Rows /\ HomeOf(RowOfEdit(o)) \in Rows
           /\ HomeOf(HomeOf(RowOfEdit(o))) = HomeOf(RowOfEdit(o))
           /\ \A r \in Reached(o) : HomeOf(r) = HomeOf(RowOfEdit(o)) /\ HomeOf(r) \in Reached(o)
  BY ClientAssumption DEF Reached, HomeOf, Rows

LEMMA SameReached ==
    ASSUME NEW o, NEW p, SameEdit(o, p)
    PROVE  /\ Reached(o) = Reached(p) /\ (ListMade(o) <=> ListMade(p))
           /\ Id(o) = Id(p) /\ o.createdAt = p.createdAt /\ RowOfEdit(o) = RowOfEdit(p)
  BY DEF SameEdit, Reached, ListMade

LEMMA SameCarriers ==
    ASSUME UNCHANGED <<outbox, resolving>>
    PROVE  InHand' = InHand /\ Waiting' = Waiting /\ Carriers' = Carriers /\ Protecting' = Protecting
  BY DEF InHand, Waiting, Carriers, Protecting

\* Edits of the outbox that were there, or whose ID the server has never had.
OldOrNew(p) ==
    \/ \E o \in outbox : SameEdit(o, p) /\ (p.status # "conflict" => o.status # "conflict")
    \/ \A m \in server.log : m.id # Id(p)

LEMMA SentStays ==
    ASSUME Unsent, NotReceived, UNCHANGED <<server, cursor>>,
           sync'.phase = sync.phase, sync'.batch = sync.batch,
           \A p \in outbox' : OldOrNew(p)
    PROVE  Unsent' /\ NotReceived'
  <1>1. ASSUME NEW p \in outbox', p.status # "conflict", NEW m \in server.log, m.id = Id(p)
        PROVE  \E o \in outbox : SameEdit(o, p) /\ o.status # "conflict"
    BY <1>1 DEF OldOrNew
  <1>2. Unsent'
    <2> SUFFICES ASSUME sync.phase # "idle", NEW p \in outbox', p.status # "conflict",
                        ~SentRow(p)', NEW m \in server.log, m.id = Id(p)
                 PROVE  FALSE
      BY DEF Unsent
    <2>1. PICK o \in outbox : SameEdit(o, p) /\ o.status # "conflict"
      BY <1>1
    <2>2. ~SentRow(o) /\ Id(o) = Id(p)
      BY <2>1, SameReached DEF SentRow, Id
    <2> QED BY <2>1, <2>2 DEF Unsent
  <1>3. NotReceived'
    <2> SUFFICES ASSUME NEW p \in outbox', NEW m \in server.log, p.status # "conflict", m.id = Id(p),
                        NEW r \in Reached(p)
                 PROVE  server.stamp[r] > cursor
      BY DEF NotReceived
    <2>1. PICK o \in outbox : SameEdit(o, p) /\ o.status # "conflict"
      BY <1>1
    <2>2. Id(o) = Id(p) /\ Reached(o) = Reached(p)
      BY <2>1, SameReached
    <2> QED BY <2>1, <2>2 DEF NotReceived
  <1> QED BY <1>2, <1>3

LEMMA AnswerStays ==
    ASSUME AnswerFresh, UNCHANGED <<server, cursor>>, sync'.phase = sync.phase,
           sync'.batch = sync.batch, sync'.answer = sync.answer
    PROVE  AnswerFresh'
  BY DEF AnswerFresh

LEMMA FollowedStays ==
    ASSUME Followed, UNCHANGED <<server, cursor>>, forgone \subseteq forgone',
           \A r \in Rows \ forgone' : r \in Protecting => r \in Protecting',
           \A r \in Rows \ (forgone' \cup Protecting') : local'[r] = local[r]
    PROVE  Followed'
  <1> SUFFICES ASSUME NEW r \in Rows \ (forgone' \cup Protecting'), server.stamp[r] <= cursor
               PROVE  local'[r] = Current(server, r)
    BY DEF Followed
  <1>1. r \notin forgone \cup Protecting /\ local'[r] = local[r]
    OBVIOUS
  <1> QED BY <1>1 DEF Followed

LEMMA ProtectingStays ==
    ASSUME \A o \in Carriers : \E p \in Carriers' : Reached(p) = Reached(o)
    PROVE  Protecting \subseteq Protecting'
  BY DEF Protecting

\* The server has a change, so nothing is before the first.
LEMMA PastFirst ==
    ASSUME Typed, HasCursor, conflicts # {} \/ resolving # {}, server' = server
    PROVE  BeforeFirst' /\ cursor > 0 /\ server.seq > 0
  <1>1. cursor > 0 /\ cursor \in Nat /\ cursor <= server.seq
    BY DEF HasCursor, Typed, RoomTyped
  <1>2. server.seq \in Nat
    BY ServerTypes DEF Typed, ServerTyped
  <1>3. server.seq > 0
    BY <1>1, <1>2
  <1> QED BY <1>1, <1>3 DEF BeforeFirst

LEMMA FirstStays ==
    ASSUME BeforeFirst, server' = server, sync'.batch = sync.batch,
           \A o \in outbox : \E p \in outbox' : SameEdit(o, p),
           \A p \in outbox' : ListMade(p) \/ \E o \in outbox :
                SameEdit(o, p) \/ (ListMade(o) /\ o.createdAt < p.createdAt),
           \A r \in Rows : local'[r] # Missing =>
                local[r] # Missing \/ \E p \in outbox' : ListMade(p)
    PROVE  BeforeFirst'
  <1> SUFFICES ASSUME server.seq = 0
               PROVE  /\ \A p \in outbox' :
                           ListMade(p) \/ \E q \in outbox' : ListMade(q) /\ q.createdAt < p.createdAt
                      /\ \A r \in Rows : local'[r] # Missing => \E q \in outbox' : ListMade(q)
                      /\ sync.batch # <<>> => ListMade(sync.batch[1])
    BY DEF BeforeFirst
  <1>1. ASSUME NEW o \in outbox, ListMade(o)
        PROVE  \E q \in outbox' : ListMade(q) /\ q.createdAt = o.createdAt
    <2>1. PICK q \in outbox' : SameEdit(o, q)
      OBVIOUS
    <2> QED BY <1>1, <2>1, SameReached
  <1>2. ASSUME NEW p \in outbox', ~ListMade(p)
        PROVE  \E q \in outbox' : ListMade(q) /\ q.createdAt < p.createdAt
    <2>1. PICK o \in outbox : SameEdit(o, p) \/ (ListMade(o) /\ o.createdAt < p.createdAt)
      BY <1>2
    <2>2. CASE SameEdit(o, p)
      <3>1. ~ListMade(o) /\ o.createdAt = p.createdAt
        BY <1>2, <2>2, SameReached
      <3>2. PICK q \in outbox : ListMade(q) /\ q.createdAt < o.createdAt
        BY <3>1 DEF BeforeFirst
      <3> QED BY <1>1, <3>1, <3>2
    <2>3. CASE ListMade(o) /\ o.createdAt < p.createdAt
      BY <1>1, <2>3
    <2> QED BY <2>1, <2>2, <2>3
  <1>3. ASSUME NEW r \in Rows, local'[r] # Missing PROVE \E q \in outbox' : ListMade(q)
    <2>1. CASE local[r] # Missing
      <3>1. PICK o \in outbox : ListMade(o)
        BY <2>1 DEF BeforeFirst
      <3> QED BY <1>1, <3>1
    <2> QED BY <1>3, <2>1
  <1>4. sync.batch # <<>> => ListMade(sync.batch[1])
    BY DEF BeforeFirst
  <1> QED BY <1>2, <1>3, <1>4

-----------------------------------------------------------------------------
(* Agreement: steps that leave Room alone                                  *)

LEMMA RoomStays ==
    ASSUME Typed, Following, UNCHANGED <<server, local, outbox, conflicts, cursor, resolving, forgone>>,
           AnswerFresh', Unsent',
           server.seq = 0 /\ sync'.batch # <<>> => ListMade(sync'.batch[1])
    PROVE  Following'
  <1>1. InHand' = InHand /\ Waiting' = Waiting /\ Protecting' = Protecting
    BY SameCarriers
  <1>2. BeforeFirst'
    BY DEF Following, BeforeFirst
  <1>3. HasCursor' /\ GivenUp'
    BY DEF Following, HasCursor, GivenUp
  <1>4. Homes'
    BY <1>1 DEF Following, Homes
  <1>5. NotReceived'
    BY DEF Following, NotReceived
  <1>6. Followed'
    BY <1>1 DEF Following, Followed
  <1> QED BY <1>2, <1>3, <1>4, <1>5, <1>6 DEF Following

LEMMA AgreeAside ==
    ASSUME ClientInv, Following, Enqueue \/ Resume \/ UNCHANGED vars
    PROVE  Following'
  <1>1. UNCHANGED <<server, local, outbox, conflicts, cursor, resolving, forgone, sync>>
    BY DEF Enqueue, Resume, vars, room
  <1>2. AnswerFresh' /\ Unsent'
    BY <1>1 DEF Following, AnswerFresh, Unsent, SentRow
  <1>3. server.seq = 0 /\ sync'.batch # <<>> => ListMade(sync'.batch[1])
    BY <1>1 DEF Following, BeforeFirst
  <1> QED BY <1>1, <1>2, <1>3, RoomStays DEF ClientInv

LEMMA AgreeStartSync ==
    ASSUME ClientInv, Following, StartSync
    PROVE  Following'
  <1>1. UNCHANGED <<server, local, outbox, conflicts, cursor, resolving, forgone>>
        /\ sync' = [NoSync EXCEPT !.phase = "marking", !.batch = InOrder(Sendable)]
    BY DEF StartSync, room
  <1>2. PICK batch : batch = InOrder(Sendable)
    OBVIOUS
  <1>3. sync'.phase = "marking" /\ sync'.batch = batch
    BY <1>1, <1>2 DEF NoSync
  <1>4. /\ batch \in Seq(OutboxRow) /\ \A n \in DOMAIN batch : batch[n] \in Sendable
        /\ \A o \in Sendable : \E n \in DOMAIN batch : batch[n] = o
        /\ \A m, n \in DOMAIN batch : m < n => batch[m].createdAt < batch[n].createdAt
    <2>1. Sendable \in SUBSET outbox
      BY DEF Sendable
    <2> QED BY <1>2, <2>1, BatchInOrder DEF ClientInv, Typed
  <1>5. \A o \in outbox : o \in OutboxRow /\ (o.status # "conflict" => o \in Sendable)
    BY DEF ClientInv, Typed, RoomTyped, Sendable, OutboxRow, Statuses
  <1>6. AnswerFresh'
    BY <1>3 DEF AnswerFresh
  <1>7. Unsent'
    <2>1. ASSUME NEW o \in outbox, o.status # "conflict" PROVE SentRow(o)'
      BY <1>3, <1>4, <1>5, <2>1 DEF SentRow
    <2> QED BY <1>1, <2>1 DEF Unsent
  <1>8. ASSUME server.seq = 0, batch # <<>>, ~ListMade(batch[1]) PROVE FALSE
    <2>1. 1 \in DOMAIN batch /\ DOMAIN batch = 1..Len(batch) /\ Len(batch) \in Nat
      BY <1>4, <1>8
    <2>2. batch[1] \in Sendable /\ batch[1] \in outbox
      BY <1>4, <2>1 DEF Sendable
    <2>3. PICK p \in outbox : ListMade(p) /\ p.createdAt < batch[1].createdAt
      BY <1>8, <2>2 DEF Following, BeforeFirst
    <2>4. p.status # "conflict"
      <3>1. cursor <= 0 /\ cursor \in Nat
        BY <1>8 DEF ClientInv, Typed, RoomTyped
      <3> QED BY <3>1 DEF Following, HasCursor
    <2>5. PICK n \in DOMAIN batch : batch[n] = p
      BY <1>4, <1>5, <2>4
    <2>6. p.createdAt \in Nat /\ batch[1].createdAt \in Nat
      BY <1>5, <2>2 DEF OutboxRow
    <2>7. CASE n = 1
      BY <1>8, <2>3, <2>5, <2>7
    <2>8. CASE n # 1
      <3>1. 1 < n
        BY <2>1, <2>8
      <3>2. batch[1].createdAt < p.createdAt
        BY <1>4, <2>1, <2>5, <3>1
      <3> QED BY <2>3, <2>6, <3>2
    <2> QED BY <2>7, <2>8
  <1> QED BY <1>1, <1>3, <1>6, <1>7, <1>8, RoomStays DEF ClientInv

LEMMA AgreeFail ==
    ASSUME ClientInv, Following, Fail \/ Retry
    PROVE  Following'
  <1>1. UNCHANGED <<server, local, outbox, conflicts, cursor, resolving, forgone>>
    BY DEF Fail, Retry, room
  <1>2. CASE Fail
    <2>1. sync' = [sync EXCEPT !.phase = "failed", !.marked = 0, !.answer = NoAnswer]
      BY <1>2 DEF Fail
    <2>2. sync'.phase = "failed" /\ sync'.batch = sync.batch /\ sync.phase # "idle"
      BY <1>2, <2>1, BatchRows DEF ClientInv, Fail, Sent
    <2>3. AnswerFresh'
      BY <2>2 DEF AnswerFresh
    <2>4. Unsent'
      BY <1>1, <2>2 DEF Following, Unsent, SentRow
    <2>5. server.seq = 0 /\ sync'.batch # <<>> => ListMade(sync'.batch[1])
      BY <2>2 DEF Following, BeforeFirst
    <2> QED BY <1>1, <2>3, <2>4, <2>5, RoomStays DEF ClientInv
  <1>3. CASE Retry
    <2>1. sync'.phase = "idle" /\ sync'.batch = <<>>
      BY <1>3, InitialSync DEF Retry
    <2>2. AnswerFresh' /\ Unsent'
      BY <2>1 DEF AnswerFresh, Unsent
    <2> QED BY <1>1, <2>1, <2>2, RoomStays DEF ClientInv
  <1> QED BY <1>2, <1>3

LEMMA AgreeDie ==
    ASSUME ClientInv, Following, Die
    PROVE  Following'
  <1>1. /\ UNCHANGED <<server, local, outbox, conflicts, cursor>>
        /\ sync' = NoSync /\ resolving' = {} /\ forgone' = forgone \cup InHandRows
    BY DEF Die, room, Nothing
  <1>2. sync'.phase = "idle" /\ sync'.batch = <<>>
    BY <1>1, InitialSync
  <1>3. InHand' = {} /\ Waiting' = outbox /\ Carriers' = outbox
    BY <1>1 DEF InHand, Waiting, Carriers
  <1>4. BeforeFirst'
    BY <1>1, <1>2 DEF Following, BeforeFirst
  <1>5. HasCursor' /\ GivenUp'
    BY <1>1 DEF Following, HasCursor, GivenUp
  <1>6. Homes'
    BY <1>1, <1>3 DEF Following, Homes, Waiting
  <1>7. AnswerFresh' /\ Unsent'
    BY <1>2 DEF AnswerFresh, Unsent
  <1>8. NotReceived'
    BY <1>1 DEF Following, NotReceived
  <1>9. Followed'
    <2>1. ASSUME NEW r \in Rows \ forgone', r \in Protecting PROVE r \in Protecting'
      <3>1. PICK o \in Carriers : r \in Reached(o)
        BY <2>1 DEF Protecting
      <3>2. o \notin InHand
        BY <1>1, <2>1, <3>1 DEF InHandRows, Reached, RowOfEdit
      <3>3. o \in Carriers'
        BY <1>3, <3>1, <3>2 DEF Carriers, Waiting
      <3> QED BY <3>1, <3>3 DEF Protecting
    <2> QED BY <1>1, <2>1, FollowedStays DEF Following
  <1> QED BY <1>4, <1>5, <1>6, <1>7, <1>8, <1>9 DEF Following

-----------------------------------------------------------------------------
(* Agreement: edits and marks                                              *)

\* An edit that nobody has seen, after all the others.
Added(p) ==
    /\ p.status # "conflict"
    /\ \A m \in server.log : m.id # Id(p)
    /\ \A o \in outbox : o.createdAt < p.createdAt
    /\ ListMade(p) \/ local[HomeOf(RowOfEdit(p))] # Missing

LEMMA AgreeEdited ==
    ASSUME ClientInv, Following, UNCHANGED <<server, conflicts, cursor, resolving>>,
           sync'.phase = sync.phase, sync'.batch = sync.batch, sync'.answer = sync.answer,
           forgone \subseteq forgone',
           NEW r \in Rows, NEW p \in outbox', p \in Carriers', RowOfEdit(p) = r,
           \A s \in Rows \ {r} : local'[s] = local[s],
           \A s \in Rows : local[s].version > 0 => local'[s].version > 0,
           local'[HomeOf(r)].version > 0,
           local'[r] = local[r] \/ local[r] # Missing \/ Added(p),
           \A o \in outbox : \E q \in outbox' : SameEdit(o, q),
           \A q \in outbox' :
               \/ \E o \in outbox : SameEdit(o, q) /\ (o.status = "conflict" <=> q.status = "conflict")
               \/ q = p /\ Added(p),
           \A o \in Carriers : \E q \in Carriers' : Reached(q) = Reached(o),
           \A w \in Waiting' : RowOfEdit(w) = r \/ \E v \in Waiting : RowOfEdit(v) = RowOfEdit(w)
    PROVE  Following'
  <1>0. /\ HomeOf(r) \in Rows /\ HomeOf(HomeOf(r)) = HomeOf(r) /\ \A s \in Rows : HomeOf(s) \in Rows
    BY ClientAssumption DEF HomeOf, Rows
  <1>1. BeforeFirst'
    <2>1. CASE server.seq = 0
      <3>1. local[HomeOf(r)] # Missing => \E o \in outbox : ListMade(o)
        BY <1>0, <2>1 DEF Following, BeforeFirst
      <3>2. \A q \in outbox' : ListMade(q) \/ \E o \in outbox :
                SameEdit(o, q) \/ (ListMade(o) /\ o.createdAt < q.createdAt)
        BY <3>1 DEF Added
      <3>3. ASSUME NEW s \in Rows, local'[s] # Missing
            PROVE  local[s] # Missing \/ \E q \in outbox' : ListMade(q)
        <4>1. CASE local'[s] = local[s]
          BY <3>3, <4>1
        <4>2. CASE s = r /\ Added(p)
          <5>1. CASE ListMade(p)
            BY <5>1
          <5>2. CASE ~ListMade(p)
            <6>1. PICK o \in outbox : ListMade(o)
              BY <3>1, <4>2, <5>2 DEF Added
            <6>2. PICK q \in outbox' : SameEdit(o, q)
              OBVIOUS
            <6> QED BY <6>1, <6>2, SameReached
          <5> QED BY <5>1, <5>2
        <4> QED BY <4>1, <4>2
      <3> QED BY <3>2, <3>3, FirstStays DEF Following
    <2>2. CASE server.seq # 0
      BY <2>2 DEF BeforeFirst
    <2> QED BY <2>1, <2>2
  <1>2. HasCursor'
    <2>1. ASSUME NEW q \in outbox', q.status = "conflict" PROVE \E o \in outbox : o.status = "conflict"
      BY <2>1 DEF Added
    <2> QED BY <2>1 DEF Following, HasCursor
  <1>3. Homes'
    <2>1. ASSUME NEW s \in Rows, local'[s] # Missing PROVE local'[HomeOf(s)].version > 0
      <3>1. CASE s = r
        BY <3>1
      <3>2. CASE s # r
        <4>1. local[HomeOf(s)].version > 0
          BY <2>1, <3>2 DEF Following, Homes
        <4> QED BY <1>0, <4>1
      <3> QED BY <3>1, <3>2
    <2>2. ASSUME NEW w \in Waiting' PROVE local'[HomeOf(RowOfEdit(w))].version > 0
      <3>1. CASE RowOfEdit(w) = r
        BY <3>1
      <3>2. CASE \E v \in Waiting : RowOfEdit(v) = RowOfEdit(w)
        <4>1. PICK v \in Waiting : RowOfEdit(v) = RowOfEdit(w)
          BY <3>2
        <4>2. local[HomeOf(RowOfEdit(w))].version > 0 /\ RowOfEdit(v) \in Rows
          BY <4>1, WaitingRows DEF Following, Homes, ClientInv
        <4> QED BY <1>0, <4>1, <4>2
      <3> QED BY <3>1, <3>2
    <2> QED BY <2>1, <2>2 DEF Homes, RowOfEdit
  <1>4. GivenUp'
    <2> SUFFICES ASSUME NEW q \in outbox', NEW h \in resolving, Id(q) = h.conflict
                 PROVE  Reached(q) \subseteq forgone'
      BY DEF GivenUp, Reached, Id, RowOfEdit
    <2>1. q # p
      BY DEF Carriers, Id
    <2>2. PICK o \in outbox : SameEdit(o, q)
      BY <2>1
    <2>3. Id(o) = h.conflict /\ Reached(o) = Reached(q)
      BY <2>2, SameReached
    <2> QED BY <2>3 DEF Following, GivenUp
  <1>5. AnswerFresh'
    BY AnswerStays DEF Following
  <1>6. Unsent' /\ NotReceived'
    <2>1. \A q \in outbox' : OldOrNew(q)
      BY DEF OldOrNew, Added
    <2> QED BY <2>1, SentStays DEF Following
  <1>7. Followed'
    <2>1. Protecting \subseteq Protecting'
      BY ProtectingStays
    <2>2. r \in Protecting'
      BY DEF Protecting, Reached, RowOfEdit
    <2> QED BY <2>1, <2>2, FollowedStays DEF Following
  <1> QED BY <1>1, <1>2, <1>3, <1>4, <1>5, <1>6, <1>7 DEF Following

\* An edit with an outbox row of its own.
LEMMA AgreeAdded ==
    ASSUME ClientInv, Following, CanEdit, NEW m \in Mutation, m.id = Fresh,
           m.op = "create" => m.deletion = Unchanged /\ m.content # Unchanged,
           NEW new, new = NewOutboxRow(m),
           outbox' = outbox \cup {new}, made' = Fresh,
           local' \in [Rows -> Versioned], owed' = "enqueue",
           UNCHANGED <<server, conflicts, cursor, sync, wanted, resolving, left, forgone>>,
           \A s \in Rows \ {m.row} : local'[s] = local[s],
           \A s \in Rows : local[s].version > 0 => local'[s].version > 0,
           local'[HomeOf(m.row)].version > 0,
           ListMade(new) \/ local[HomeOf(m.row)] # Missing
    PROVE  Following'
  <1>1. Waiting' = Waiting \cup {new} /\ Carriers' = Carriers \cup {new}
    BY EditAdded
  <1>2. /\ new.mutation = m /\ new.createdAt = made + 1 /\ new.status = "pending"
        /\ Id(new) = made + 1 /\ RowOfEdit(new) = m.row /\ m.row \in Rows
    BY NewRows DEF Fresh, Id, RowOfEdit, Mutation
  <1>3. made \in Nat
    BY ClientAssumption DEF ClientInv, Typed, RestTyped
  <1>4. Added(new)
    <2>1. \A l \in server.log : l.id # Id(new)
      BY <1>2, <1>3 DEF ClientInv, Typed, ServerTyped, ServerRecord, Mutation, Numbered
    <2>2. \A o \in outbox : o.createdAt < new.createdAt
      <3>1. \A o \in Waiting : o.createdAt \in Nat /\ o.createdAt <= made
        BY WaitingRows DEF ClientInv, Numbered
      <3> QED BY <1>2, <1>3, <3>1 DEF Waiting
    <2> QED BY <1>2, <2>1, <2>2 DEF Added
  <1>5. \A o \in outbox : o \in outbox' /\ SameEdit(o, o)
    BY DEF SameEdit
  <1>6. \A q \in outbox' : q \in outbox \/ q = new
    OBVIOUS
  <1> QED BY <1>1, <1>2, <1>4, <1>5, <1>6, AgreeEdited

LEMMA AgreeCreate ==
    ASSUME ClientInv, Following, NEW r \in Rows, NEW content \in ContentsOf(r), Create(r, content)
    PROVE  Following'
  <1>a. PICK m : m = [id |-> Fresh, op |-> "create", row |-> r, expected |-> 0,
                      content |-> content, deletion |-> Unchanged]
    OBVIOUS
  <1>b. PICK new : new = NewOutboxRow(m)
    OBVIOUS
  <1>c. PICK first : first = [version |-> 1, value |-> Live(content)]
    OBVIOUS
  <1>1. content \in AnyContent /\ content # Unchanged /\ Live(content) \in Value
    BY RowContents
  <1>2. /\ m \in Mutation /\ m.id = Fresh /\ m.row = r /\ m.op = "create"
        /\ m.content = content /\ m.deletion = Unchanged
    <2>1. Fresh \in 1..MaxMutations
      BY ClientAssumption DEF ClientInv, Typed, RestTyped, Create, CanEdit, Fresh
    <2> QED BY <1>a, <1>1, <2>1 DEF Mutation
  <1>3. first \in Versioned /\ first.version = 1
    BY <1>1, <1>c DEF Versioned
  <1>4. local' = [local EXCEPT ![r] = first] /\ outbox' = outbox \cup {new}
    BY <1>a, <1>b, <1>c DEF Create
  <1>5. /\ local' \in [Rows -> Versioned] /\ local'[r].version = 1
        /\ \A s \in Rows \ {r} : local'[s] = local[s]
    BY <1>3, <1>4 DEF ClientInv, Typed, RoomTyped
  <1>6. \A s \in Rows : local[s].version > 0 => local'[s].version > 0
    BY <1>5
  <1>7. /\ new.mutation = m /\ RowOfEdit(new) = r
    BY <1>b, <1>2, NewRows DEF RowOfEdit
  <1>8. HomeOf(r) \in Rows /\ (r \in Lists => HomeOf(r) = r /\ ListMade(new))
    BY <1>2, <1>7, RowContents DEF HomeOf, ListMade
  <1>9. r \in Lists \/ (local[HomeOf(r)] # Missing /\ local[HomeOf(r)].version > 0)
    <2>1. r \notin Lists => local[HomeOf(r)] # Missing
      BY DEF Create
    <2>2. local[HomeOf(r)] # Missing => local[HomeOf(HomeOf(r))].version > 0
      BY <1>8 DEF Following, Homes
    <2>3. HomeOf(HomeOf(r)) = HomeOf(r)
      BY ClientAssumption DEF HomeOf, Rows
    <2> QED BY <2>1, <2>2, <2>3
  <1>10. local'[HomeOf(r)].version > 0
    BY <1>5, <1>6, <1>8, <1>9
  <1>11. /\ CanEdit /\ made' = Fresh /\ owed' = "enqueue"
         /\ UNCHANGED <<server, conflicts, cursor, sync, wanted, resolving, left, forgone>>
    BY DEF Create
  <1> QED BY <1>b, <1>1, <1>2, <1>4, <1>5, <1>6, <1>8, <1>9, <1>10, <1>11, AgreeAdded

LEMMA AgreePatch ==
    ASSUME ClientInv, Following, NEW r \in Rows, NEW content, NEW deletion,
           OneField(r, content, deletion), Patch(r, content, deletion)
    PROVE  Following'
  <1>0. Typed
    BY DEF ClientInv
  <1>1. /\ CanEdit /\ local[r] # Missing /\ local' = EditedRoom(r, content, deletion)
        /\ made' = Fresh /\ owed' = "enqueue"
        /\ UNCHANGED <<server, conflicts, cursor, sync, wanted, resolving, left>>
    BY DEF Patch, EditedRoom
  <1>2. /\ local' \in [Rows -> Versioned] /\ \A s \in Rows \ {r} : local'[s] = local[s]
        /\ \A s \in Rows : local'[s].version = local[s].version
        /\ content \in AnyContent \cup {Unchanged} /\ deletion \in {Unchanged, "delete", "restore"}
    BY <1>0, <1>1, PatchedRow
  <1>3. local'[HomeOf(r)].version > 0 /\ local[HomeOf(r)] # Missing /\ HomeOf(r) \in Rows
    <2>1. local[HomeOf(r)].version > 0 /\ HomeOf(r) \in Rows
      BY <1>1, RowContents DEF Following, Homes
    <2> QED BY <1>2, <2>1, RowContents
  <1>4. CASE Mergeable(r) # {}
    <2>1. PICK o \in Mergeable(r) :
            /\ outbox' = (outbox \ {o}) \cup {MergedRow(o, content, deletion)}
            /\ forgone' = forgone \cup (IF AboutToBeMarked(o) THEN {r} ELSE {})
      BY <1>4 DEF Patch, MergedRow
    <2>2. PICK p : p = MergedRow(o, content, deletion)
      OBVIOUS
    <2>3. /\ o \in outbox /\ o \in OutboxRow /\ o.status = "pending"
          /\ o.mutation.op = "patch" /\ RowOfEdit(o) = r
      BY <1>0 DEF Mergeable, Typed, RoomTyped, RowOfEdit
    <2>4. p \in OutboxRow /\ SameEdit(p, o) /\ p.status = o.status
      <3>1. Merges(p, o, content, deletion)
        BY <1>2, <2>2, <2>3, MergedRows
      <3> QED BY <3>1 DEF Merges
    <2>5. /\ outbox' = (outbox \ {o}) \cup {p} /\ SameEdit(o, p) /\ RowOfEdit(p) = r
          /\ Reached(p) = Reached(o) /\ forgone \subseteq forgone'
      BY <2>1, <2>2, <2>3, <2>4 DEF SameEdit, Reached
    <2>6. made' \in 0..MaxMutations /\ made <= made'
      BY <1>1, ClientAssumption DEF ClientInv, Typed, RestTyped, CanEdit, Fresh
    <2>7. /\ Waiting' = (Waiting \ {o}) \cup {p}
          /\ \A q \in Carriers : q \in Waiting /\ (q # o => q \in Carriers')
          /\ o \in Carriers => p \in Carriers'
      BY <1>1, <2>3, <2>4, <2>5, <2>6, RowReplaced
    <2>8. o \in Carriers
      BY <2>3 DEF Carriers, Waiting, ClientInv, Settling
    <2>9. \A q \in outbox' : q = p \/ q \in outbox
      BY <2>5
    <2>10. \A q \in outbox : SameEdit(q, q) /\ (q = o \/ q \in outbox')
      BY <2>5 DEF SameEdit
    <2>11. \A q \in outbox' : \E s \in outbox : SameEdit(s, q)
                                 /\ (s.status = "conflict" <=> q.status = "conflict")
      BY <2>3, <2>4, <2>5, <2>9, <2>10
    <2>12. \A q \in outbox : \E s \in outbox' : SameEdit(q, s)
      BY <2>5, <2>10
    <2>13. \A q \in Carriers : \E s \in Carriers' : Reached(s) = Reached(q)
      BY <2>5, <2>7
    <2>14. \A w \in Waiting' : RowOfEdit(w) = r \/ \E v \in Waiting : RowOfEdit(v) = RowOfEdit(w)
      BY <2>5, <2>7
    <2>15. \A s \in Rows : local[s].version > 0 => local'[s].version > 0
      BY <1>2
    <2>16. p \in outbox' /\ p \in Carriers'
      BY <2>5, <2>7, <2>8
    <2> QED BY <1>1, <1>2, <1>3, <2>5, <2>11, <2>12, <2>13, <2>14, <2>15, <2>16, AgreeEdited
  <1>5. CASE Mergeable(r) = {}
    <2>1. PICK m : m = [id |-> Fresh, op |-> "patch", row |-> r, expected |-> local[r].version,
                        content |-> content, deletion |-> deletion]
      OBVIOUS
    <2>2. PICK new : new = NewOutboxRow(m)
      OBVIOUS
    <2>3. m \in Mutation /\ m.id = Fresh /\ m.row = r /\ m.op = "patch"
      <3>1. Fresh \in 1..MaxMutations
        BY <1>1, ClientAssumption DEF ClientInv, Typed, RestTyped, CanEdit, Fresh
      <3>2. local[r].version \in Nat
        BY <1>0, ServerRows
      <3> QED BY <1>2, <2>1, <3>1, <3>2 DEF Mutation
    <2>4. outbox' = outbox \cup {new} /\ UNCHANGED forgone
      BY <1>5, <2>1, <2>2 DEF Patch
    <2> QED BY <1>1, <1>2, <1>3, <2>2, <2>3, <2>4, AgreeAdded
  <1> QED BY <1>4, <1>5

LEMMA AgreeEdit ==
    ASSUME ClientInv, Following, Edit
    PROVE  Following'
  <1>1. PICK r \in Rows :
        \/ \E content \in ContentsOf(r) : Create(r, content)
        \/ \E content \in ContentsOf(r) : Patch(r, content, Unchanged)
        \/ \E deletion \in {"delete", "restore"} : Patch(r, Unchanged, deletion)
    BY DEF Edit
  <1>2. CASE \E content \in ContentsOf(r) : Create(r, content)
    BY <1>2, AgreeCreate
  <1>3. CASE \E content \in ContentsOf(r) : Patch(r, content, Unchanged)
    BY <1>3, AgreePatch DEF OneField
  <1>4. CASE \E deletion \in {"delete", "restore"} : Patch(r, Unchanged, deletion)
    BY <1>4, AgreePatch DEF OneField
  <1> QED BY <1>1, <1>2, <1>3, <1>4

LEMMA AgreeMark ==
    ASSUME ClientInv, Following, Mark \/ Unmark
    PROVE  Following'
  <1>1. PICK st : /\ st \in {"in_flight", "pending"} /\ WriteBack(st)
                  /\ UNCHANGED <<server, local, conflicts, cursor, wanted, owed, resolving, made, left, forgone>>
    BY DEF Mark, Unmark
  <1>2. PICK N : N = sync.marked + 1
    OBVIOUS
  <1>3. PICK p : p = [sync.batch[N] EXCEPT !.status = st]
    OBVIOUS
  <1>4. /\ sync.batch \in Seq(OutboxRow) /\ DOMAIN sync.batch = 1..Len(sync.batch)
        /\ Len(sync.batch) \in Nat /\ sync.marked \in Nat
        /\ \A n \in DOMAIN sync.batch : sync.batch[n] \in OutboxRow
        /\ sync = [phase |-> sync.phase, batch |-> sync.batch, marked |-> sync.marked,
                   answer |-> sync.answer]
    BY BatchRows DEF ClientInv
  <1>5. /\ sync.marked < Len(sync.batch)
        /\ outbox' = {o \in outbox : o.mutation.id # p.mutation.id} \cup {p}
        /\ sync' = [sync EXCEPT !.marked = @ + 1]
    BY <1>1, <1>2, <1>3 DEF WriteBack
  <1>6. N \in DOMAIN sync.batch /\ sync.batch[N] \in OutboxRow
    BY <1>2, <1>4, <1>5
  <1>7. sync'.phase = sync.phase /\ sync'.batch = sync.batch /\ sync'.answer = sync.answer
    BY <1>4, <1>5
  <1>8. p \in OutboxRow /\ p.status = st /\ SameEdit(p, sync.batch[N])
    <2>1. st \in Statuses
      BY <1>1 DEF Statuses
    <2>2. PICK b \in OutboxRow : b = sync.batch[N]
      BY <1>6
    <2>3. p = [b EXCEPT !.status = st]
      BY <1>3, <2>2
    <2> QED BY <2>1, <2>2, <2>3, StatusRows
  <1>9. PICK o \in outbox : SameEdit(o, sync.batch[N]) /\ o.status # "conflict"
    BY <1>6 DEF ClientInv, Batched
  <1>10. SameEdit(o, p) /\ SameEdit(p, o) /\ Reached(p) = Reached(o)
    <2>1. SameEdit(o, p) /\ SameEdit(p, o)
      BY <1>8, <1>9 DEF SameEdit
    <2> QED BY <2>1, SameReached
  <1>11. outbox' = (outbox \ {o}) \cup {p}
    <2>1. \A q \in outbox : Id(q) = Id(p) <=> q = o
      <3>1. Id(o) = Id(p)
        BY <1>10 DEF SameEdit
      <3>2. \A q \in outbox : Id(q) = Id(o) => q = o
        BY DEF ClientInv, Numbered, Waiting
      <3> QED BY <1>9, <3>1, <3>2
    <2> QED BY <1>5, <2>1 DEF Id
  <1>12. InHand' = InHand /\ Waiting' = (Waiting \ {o}) \cup {p}
    <2>1. InHand' = InHand /\ o \notin InHand
      BY <1>1, SameHand DEF ClientInv, Numbered
    <2> QED BY <1>11, <2>1 DEF Waiting
  <1>13. o \in Waiting /\ o \in Carriers /\ p \in Carriers'
         /\ \A q \in Carriers : q # o => q \in Carriers'
    <2>1. o \in Carriers /\ Id(p) = Id(o)
      BY <1>9, <1>10 DEF Carriers, Waiting, ClientInv, Settling, SameEdit
    <2> QED BY <1>1, <1>12, <2>1 DEF Carriers
  <1>14. RowOfEdit(p) = RowOfEdit(o) /\ RowOfEdit(p) \in Rows /\ local[HomeOf(RowOfEdit(p))].version > 0
    <2>1. RowOfEdit(p) = RowOfEdit(o)
      BY <1>10 DEF SameEdit
    <2> QED BY <1>13, <2>1, WaitingRows DEF Following, Homes, ClientInv
  <1>15. \A q \in outbox : SameEdit(q, q) /\ (q = o \/ q \in outbox')
    BY <1>11 DEF SameEdit
  <1>16. p.status # "conflict" /\ p \in outbox'
    BY <1>1, <1>8, <1>11
  <1>17. \A q \in outbox' : \E s \in outbox : SameEdit(s, q)
                               /\ (s.status = "conflict" <=> q.status = "conflict")
    BY <1>9, <1>10, <1>11, <1>15, <1>16
  <1>18. \A q \in outbox : \E s \in outbox' : SameEdit(q, s)
    BY <1>10, <1>15, <1>16
  <1>19. \A q \in Carriers : \E s \in Carriers' : Reached(s) = Reached(q)
    BY <1>10, <1>13
  <1>20. \A w \in Waiting' : RowOfEdit(w) = RowOfEdit(p) \/ \E v \in Waiting : RowOfEdit(v) = RowOfEdit(w)
    BY <1>12
  <1> QED BY <1>1, <1>7, <1>13, <1>14, <1>16, <1>17, <1>18, <1>19, <1>20, AgreeEdited

-----------------------------------------------------------------------------
(* Agreement: decisions about conflicts                                    *)

\* What a step of the user keeps, once the server has a change.
LEMMA Decides ==
    ASSUME ClientInv, Following, conflicts # {} \/ resolving # {},
           UNCHANGED <<server, cursor, sync>>, forgone \subseteq forgone',
           \A s \in Rows : local'[s] # Missing => local[s] # Missing,
           \A l \in Lists : local'[l] = local[l],
           \A s \in Rows \ forgone' : local'[s] = local[s],
           \A q \in outbox' : OldOrNew(q),
           \A w \in Waiting' : \E v \in Waiting : RowOfEdit(v) = RowOfEdit(w),
           \A o \in Carriers : \/ Reached(o) \subseteq forgone'
                               \/ \E p \in Carriers' : Reached(p) = Reached(o),
           GivenUp'
    PROVE  Following'
  <1>1. BeforeFirst' /\ cursor > 0
    BY PastFirst DEF ClientInv, Following
  <1>2. HasCursor'
    BY <1>1 DEF HasCursor
  <1>3. \A s \in Rows : HomeOf(s) \in Lists
    BY ClientAssumption DEF HomeOf, Rows
  <1>4. Homes'
    <2>1. ASSUME NEW w \in Waiting' PROVE local'[HomeOf(RowOfEdit(w))].version > 0
      <3>1. PICK v \in Waiting : RowOfEdit(v) = RowOfEdit(w)
        OBVIOUS
      <3>2. local[HomeOf(RowOfEdit(w))].version > 0 /\ RowOfEdit(w) \in Rows
        BY <3>1, WaitingRows DEF Following, Homes, ClientInv
      <3> QED BY <1>3, <3>2
    <2>2. ASSUME NEW s \in Rows, local'[s] # Missing PROVE local'[HomeOf(s)].version > 0
      BY <1>3, <2>2 DEF Following, Homes
    <2> QED BY <2>1, <2>2 DEF Homes, RowOfEdit
  <1>5. AnswerFresh' /\ Unsent' /\ NotReceived'
    BY AnswerStays, SentStays DEF Following
  <1>6. Followed'
    <2>1. ASSUME NEW r \in Rows \ forgone', r \in Protecting PROVE r \in Protecting'
      BY <2>1 DEF Protecting
    <2> QED BY <2>1, FollowedStays DEF Following
  <1> QED BY <1>1, <1>2, <1>4, <1>5, <1>6 DEF Following

LEMMA AgreeKeepMine ==
    ASSUME ClientInv, Following, NEW c \in conflicts, KeepMine(c)
    PROVE  Following'
  <1>1. /\ UNCHANGED <<server, local, conflicts, cursor, sync, forgone>>
        /\ resolving = {} /\ made < MaxMutations
        /\ outbox' = outbox \ RowOf(c)
        /\ resolving' = {[conflict |-> c.id, rows |-> {KeptRow(c, o) : o \in RowOf(c)}]}
    BY DEF KeepMine, Nothing, KeptRow
  <1>2. c \in Conflict /\ c.id \in Nat /\ c.id <= made
    BY ClientAssumption DEF ClientInv, Typed, RoomTyped, Conflict, Numbered
  <1>3. Fresh \in 1..MaxMutations /\ Fresh = made + 1 /\ made \in Nat
    BY <1>1, ClientAssumption DEF ClientInv, Typed, RestTyped, Fresh
  <1>4. /\ InHand = {} /\ Waiting = outbox /\ Carriers = outbox
        /\ InHand' = {KeptRow(c, o) : o \in RowOf(c)} /\ Waiting' = outbox' \cup InHand'
        /\ \A h \in resolving' : h.conflict = c.id
    BY <1>1 DEF InHand, Waiting, Carriers
  <1>5. \A o \in outbox : (o \in RowOf(c) <=> Id(o) = c.id) /\ o \in OutboxRow
    BY DEF RowOf, ClientInv, Typed, RoomTyped, Id
  <1>6. ASSUME NEW o \in RowOf(c), NEW p, p = KeptRow(c, o)
        PROVE  Id(p) = Fresh /\ RowOfEdit(p) = RowOfEdit(o) /\ Reached(p) = Reached(o) /\ o \in outbox
    <2>1. o \in outbox
      BY DEF RowOf
    <2> QED BY <1>2, <1>3, <1>5, <1>6, <2>1, KeptRows DEF Reached
  <1>7. \A w \in Waiting' : \E v \in Waiting : RowOfEdit(v) = RowOfEdit(w)
    <2> SUFFICES ASSUME NEW w \in Waiting', w \notin outbox
                 PROVE  \E v \in outbox : RowOfEdit(v) = RowOfEdit(w)
      BY <1>4
    <2>1. PICK o \in RowOf(c) : w = KeptRow(c, o)
      BY <1>1, <1>4
    <2> QED BY <1>6, <2>1
  <1>8. ASSUME NEW o \in Carriers PROVE \E p \in Carriers' : Reached(p) = Reached(o)
    <2>1. CASE o \in RowOf(c)
      <3>1. PICK p : p = KeptRow(c, o)
        OBVIOUS
      <3>2. p \in InHand' /\ Id(p) # c.id /\ Reached(p) = Reached(o)
        BY <1>2, <1>3, <1>4, <1>6, <2>1, <3>1
      <3> QED BY <1>4, <3>2 DEF Carriers, Id
    <2>2. CASE o \notin RowOf(c)
      <3>1. o \in outbox' /\ Id(o) # c.id
        BY <1>1, <1>4, <1>5, <2>2
      <3> QED BY <1>4, <3>1 DEF Carriers, Id
    <2> QED BY <2>1, <2>2
  <1>9. GivenUp'
    <2>1. \A q \in outbox', h \in resolving' : Id(q) # h.conflict
      BY <1>1, <1>4, <1>5
    <2> QED BY <2>1 DEF GivenUp, Id
  <1>10. \A q \in outbox' : OldOrNew(q)
    BY <1>1 DEF OldOrNew, SameEdit
  <1> QED BY <1>1, <1>7, <1>8, <1>9, <1>10, Decides

LEMMA AgreeKeepAgain ==
    ASSUME ClientInv, Following, KeepAgain
    PROVE  Following'
  <1>1. /\ UNCHANGED <<server, local, conflicts, cursor, sync, forgone>>
        /\ outbox' = outbox \cup InHand /\ InHand # {}
    BY DEF KeepAgain
  <1>2. /\ Waiting' = Waiting /\ Carriers' = Carriers /\ InHand' = {}
        /\ \A g \in resolving' : \E h \in resolving : g.conflict = h.conflict
    BY KeptAgain DEF ClientInv
  <1>3. resolving # {}
    BY <1>1 DEF InHand
  <1>4. GivenUp'
    <2> SUFFICES ASSUME NEW q \in outbox', NEW g \in resolving', Id(q) = g.conflict
                 PROVE  Reached(q) \subseteq forgone'
      BY DEF GivenUp, Reached, Id, RowOfEdit
    <2>1. PICK h \in resolving : Id(q) = h.conflict
      BY <1>2
    <2>2. q \in outbox
      BY <1>1, <2>1 DEF ClientInv, Settling
    <2> QED BY <1>1, <2>1, <2>2 DEF Following, GivenUp
  <1>5. \A q \in outbox' : OldOrNew(q)
    BY <1>1 DEF OldOrNew, SameEdit, ClientInv, LogRows
  <1> QED BY <1>1, <1>2, <1>3, <1>4, <1>5, Decides

LEMMA AgreeTakeTheirs ==
    ASSUME ClientInv, Following, NEW c \in conflicts, TakeTheirs(c)
    PROVE  Following'
  <1>1. /\ UNCHANGED <<server, outbox, conflicts, cursor, sync>>
        /\ resolving = {} /\ resolving' = {[conflict |-> c.id, rows |-> {}]}
        /\ forgone' = forgone \cup {c.row, HomeOf(c.row)}
    BY DEF TakeTheirs, Nothing
  <1>2. c.row \in Rows
    BY DEF ClientInv, Typed, RoomTyped, Conflict
  <1>3. /\ local' = local \/ (c.row \notin Lists /\ local[c.row] # Missing)
        /\ \A s \in Rows \ {c.row} : local'[s] = local[s]
    <2>1. local \in [Rows -> Versioned]
      BY DEF ClientInv, Typed, RoomTyped
    <2>2. \A row : local' = [local EXCEPT ![c.row] = row] => \A s \in Rows \ {c.row} : local'[s] = local[s]
      BY <2>1
    <2>3. \E row : local' = local \/ local' = [local EXCEPT ![c.row] = row]
      BY DEF TakeTheirs
    <2>4. local' = local \/ (c.row \notin Lists /\ local[c.row] # Missing)
      BY DEF TakeTheirs
    <2> QED BY <2>2, <2>3, <2>4
  <1>4. /\ \A s \in Rows : local'[s] # Missing => local[s] # Missing
        /\ \A l \in Lists : local'[l] = local[l]
    BY <1>3 DEF Rows
  <1>5. /\ InHand = {} /\ InHand' = {} /\ Waiting = outbox /\ Waiting' = outbox /\ Carriers = outbox
        /\ Carriers' = {o \in outbox : Id(o) # c.id}
        /\ \A h \in resolving' : h.conflict = c.id
    BY <1>1 DEF InHand, Waiting, Carriers
  <1>6. \A o \in outbox : Id(o) = c.id => Reached(o) \subseteq forgone'
    BY <1>1 DEF ClientInv, Settling, Reached
  <1>7. GivenUp'
    BY <1>1, <1>5, <1>6 DEF GivenUp
  <1>8. \A q \in outbox' : OldOrNew(q)
    BY <1>1 DEF OldOrNew, SameEdit
  <1>9. \A o \in Carriers : \/ Reached(o) \subseteq forgone'
                            \/ \E p \in Carriers' : Reached(p) = Reached(o)
    BY <1>5, <1>6
  <1>10. \A s \in Rows \ forgone' : local'[s] = local[s]
    BY <1>1, <1>3
  <1>11. \A w \in Waiting' : \E v \in Waiting : RowOfEdit(v) = RowOfEdit(w)
    BY <1>5
  <1> QED BY <1>1, <1>4, <1>7, <1>8, <1>9, <1>10, <1>11, Decides

LEMMA AgreeForget ==
    ASSUME ClientInv, Following, Forget
    PROVE  Following'
  <1>1. /\ UNCHANGED <<server, local, cursor, sync, forgone>>
        /\ InHand = {} /\ resolving # {} /\ resolving' = {}
    BY DEF Forget, Nothing
  <1>2. PICK h \in resolving : outbox' = {o \in outbox : o.mutation.id # h.conflict}
    BY DEF Forget
  <1>3. InHand' = {} /\ Waiting' = outbox' /\ Carriers' = outbox' /\ Waiting = outbox
    BY <1>1 DEF InHand, Waiting, Carriers
  <1>4. \A o \in Carriers : o \in Carriers'
    BY <1>2, <1>3 DEF Carriers, Id
  <1>5. GivenUp'
    BY <1>1 DEF GivenUp
  <1>6. \A q \in outbox' : OldOrNew(q)
    BY <1>2 DEF OldOrNew, SameEdit
  <1>7. \A w \in Waiting' : \E v \in Waiting : RowOfEdit(v) = RowOfEdit(w)
    BY <1>2, <1>3
  <1> QED BY <1>1, <1>4, <1>5, <1>6, <1>7, Decides

-----------------------------------------------------------------------------
(* Agreement: the server changes                                           *)

LEMMA UnstampedStays ==
    ASSUME Typed, Typed', Stamps(server, server'), NEW r \in Rows, NEW since \in Nat,
           since <= server.seq, server'.stamp[r] <= since
    PROVE  server'.stamp[r] = server.stamp[r] /\ Current(server', r) = Current(server, r)
  <1>1. server.seq \in Nat /\ server'.stamp[r] \in Nat
    BY ServerTypes DEF Typed, ServerTyped
  <1>2. ~(server'.stamp[r] > server.seq)
    BY <1>1
  <1>3. server'.stamp[r] = server.stamp[r] /\ server'.row[r] = server.row[r]
    BY <1>2 DEF Stamps
  <1> QED BY <1>3 DEF Current

LEMMA ServerFollowed ==
    ASSUME ClientInv, ClientInv', Following, Stamps(server, server'),
           UNCHANGED <<local, outbox, conflicts, cursor, resolving, forgone>>
    PROVE  HasCursor' /\ Homes' /\ GivenUp' /\ NotReceived' /\ Followed'
  <1>1. InHand' = InHand /\ Waiting' = Waiting /\ Protecting' = Protecting
    BY SameCarriers
  <1>2. HasCursor' /\ GivenUp'
    BY DEF Following, HasCursor, GivenUp
  <1>3. Homes'
    BY <1>1 DEF Following, Homes
  <1>4. cursor \in Nat /\ cursor <= server.seq /\ server.seq \in Nat
    BY ServerTypes DEF ClientInv, Typed, RoomTyped, ServerTyped
  <1>5. NotReceived'
    <2> SUFFICES ASSUME NEW o \in outbox, NEW m \in server'.log, o.status # "conflict", m.id = Id(o),
                        NEW r \in Reached(o)
                 PROVE  server'.stamp[r] > cursor
      BY DEF NotReceived, Reached, Id, RowOfEdit
    <2>1. m.row = RowOfEdit(o) /\ RowOfEdit(o) \in Rows
      BY <1>1, WaitingRows DEF ClientInv, LogRows, Waiting, Id, RowOfEdit
    <2>2. r \in Rows /\ \A q \in Reached(o) : q = RowOfEdit(o) \/ q = HomeOf(RowOfEdit(o))
      BY <2>1, ReachedRows DEF Reached
    <2>3. /\ server'.stamp[r] \in Nat /\ server.stamp[r] \in Nat /\ server'.stamp[m.row] \in Nat
          /\ server'.stamp[m.row] <= server'.stamp[HomeOf(m.row)]
          /\ server'.stamp[HomeOf(m.row)] \in Nat
      BY <2>1, <2>2, ServerTypes DEF ClientInv, Typed, ServerTyped, Stamps, Stamped
    <2>4. CASE m \in server.log
      <3>1. server.stamp[r] > cursor
        BY <2>4 DEF Following, NotReceived
      <3>2. server'.stamp[r] = server.stamp[r] \/ server'.stamp[r] > server.seq
        BY <2>2 DEF Stamps
      <3> QED BY <1>4, <2>3, <3>1, <3>2
    <2>5. CASE m \notin server.log
      <3>1. server'.stamp[m.row] > server.seq
        BY <2>5 DEF Stamps
      <3>2. r = m.row \/ r = HomeOf(m.row)
        BY <2>1, <2>2
      <3> QED BY <1>4, <2>3, <3>1, <3>2
    <2> QED BY <2>4, <2>5
  <1>6. Followed'
    <2> SUFFICES ASSUME NEW r \in Rows \ (forgone \cup Protecting), server'.stamp[r] <= cursor
                 PROVE  local[r] = Current(server', r)
      BY <1>1 DEF Followed
    <2>1. server'.stamp[r] = server.stamp[r] /\ Current(server', r) = Current(server, r)
      BY <1>4, UnstampedStays DEF ClientInv
    <2> QED BY <2>1 DEF Following, Followed
  <1> QED BY <1>2, <1>3, <1>5, <1>6

LEMMA RemoteStamps ==
    ASSUME ClientInv, Stamped(server), Remote
    PROVE  Stamps(server, server') /\ server'.seq > server.seq /\ server'.log = server.log
  <1>1. PICK m : \E r \in Rows, content \in AnyContent, deletion \in {Unchanged, "delete"} :
          /\ m = [id |-> 0, op |-> IF server.row[r] = <<>> THEN "create" ELSE "patch",
                  row |-> r, expected |-> Current(server, r).version,
                  content |-> content, deletion |-> deletion]
          /\ ~Verdict(server, m).refused
          /\ server' = Write(server, m)
    BY DEF Remote
  <1>2. m.row \in Rows /\ m.content \in AnyContent \cup {Unchanged} /\ server \in ServerRecord
    BY <1>1 DEF ClientInv, Typed, ServerTyped
  <1>3. m.row = HomeOf(m.row) \/ server.row[HomeOf(m.row)] # <<>>
    BY <1>1, <1>2, AcceptedHome
  <1> QED BY <1>1, <1>2, <1>3, WriteStamps, WriteGrows

LEMMA AgreeRemote ==
    ASSUME ClientInv, Stamped(server), Following, Remote
    PROVE  Following'
  <1>1. UNCHANGED <<local, outbox, conflicts, cursor, resolving, forgone, sync>>
    BY DEF Remote, room
  <1>2. Stamps(server, server') /\ server'.seq > server.seq /\ server'.log = server.log
    BY RemoteStamps
  <1>3. ClientInv'
    BY InvRemote
  <1>4. HasCursor' /\ Homes' /\ GivenUp' /\ NotReceived' /\ Followed'
    BY <1>1, <1>2, <1>3, ServerFollowed
  <1>5. BeforeFirst'
    <2>1. server.seq \in Nat /\ server'.seq \in Nat
      BY <1>3, ServerTypes DEF ClientInv, Typed, ServerTyped
    <2>2. server'.seq # 0
      BY <1>2, <2>1
    <2> QED BY <2>2 DEF BeforeFirst
  <1>6. Unsent'
    BY <1>1, <1>2 DEF Following, Unsent, SentRow
  <1>7. AnswerFresh'
    <2>1. sync.answer.cursor \in Nat /\ sync.answer.cursor <= server.seq
      BY BatchRows DEF ClientInv, Typed, SyncTyped, AnswerRecord
    <2>2. ASSUME NEW r \in Rows, server'.stamp[r] <= sync.answer.cursor
          PROVE  server'.stamp[r] = server.stamp[r] /\ Current(server', r) = Current(server, r)
      BY <1>2, <1>3, <2>1, <2>2, UnstampedStays DEF ClientInv
    <2> QED BY <1>1, <2>2 DEF Following, AnswerFresh
  <1> QED BY <1>4, <1>5, <1>6, <1>7 DEF Following

LEMMA ServeStamps ==
    ASSUME ClientInv, Stamped(server), Serve
    PROVE  /\ Stamps(server, server')
           /\ sync.batch # <<>> /\ server.seq = 0 /\ ListMade(sync.batch[1]) => server'.seq > 0
           /\ \A l \in server'.log \ server.log :
                \E n \in DOMAIN sync.batch : l = sync.batch[n].mutation
  <1> DEFINE ms == [n \in DOMAIN sync.batch |-> sync.batch[n].mutation]
             size == Len(sync.batch)
  <1>1. server' = Answered(ms).server
    BY DEF Serve
  <1>2. /\ server \in ServerRecord /\ size \in Nat /\ DOMAIN sync.batch = 1..size
        /\ \A n \in 1..size : sync.batch[n] \in OutboxRow
        /\ sync.batch # <<>> => size > 0
    <2>1. sync.batch \in Seq(OutboxRow)
      BY BatchRows DEF ClientInv
    <2> QED BY <2>1, BatchRows DEF ClientInv, Typed, ServerTyped
  <1>3. /\ DOMAIN ms = 1..size
        /\ \A n \in 1..size : ms[n] = sync.batch[n].mutation /\ ms[n] \in Mutation
    BY <1>2 DEF OutboxRow
  <1> HIDE DEF ms, size
  <1>4. AnswersMany(server, ms, size, Answered(ms))
    BY <1>2, <1>3, AnsweredAll
  <1>5. /\ Stamps(server, server')
        /\ size > 0 /\ server.seq = 0 /\ ms[1].op = "create" /\ ms[1].row \in Lists => server'.seq > 0
    BY <1>1, <1>2, <1>3, AnsweredStamps
  <1>6. \A l \in server'.log \ server.log : \E n \in DOMAIN sync.batch : l = sync.batch[n].mutation
    BY <1>1, <1>2, <1>3, <1>4 DEF AnswersMany
  <1>7. sync.batch # <<>> => ms[1] = sync.batch[1].mutation
    BY <1>2, <1>3
  <1> QED BY <1>2, <1>5, <1>6, <1>7 DEF ListMade, RowOfEdit

LEMMA AgreeServe ==
    ASSUME ClientInv, Stamped(server), Following, Serve
    PROVE  Following'
  <1>1. UNCHANGED <<local, outbox, conflicts, cursor, resolving, forgone>> /\ Sent
    BY DEF Serve, room
  <1>2. /\ Stamps(server, server')
        /\ sync.batch # <<>> /\ server.seq = 0 /\ ListMade(sync.batch[1]) => server'.seq > 0
        /\ \A l \in server'.log \ server.log : \E n \in DOMAIN sync.batch : l = sync.batch[n].mutation
    BY ServeStamps
  <1>3. ClientInv'
    BY InvServe
  <1>4. HasCursor' /\ Homes' /\ GivenUp' /\ NotReceived' /\ Followed'
    BY <1>1, <1>2, <1>3, ServerFollowed
  <1>5. PICK rows, refusals : sync' = [sync EXCEPT !.phase = "answered", !.answer =
                    [full |-> cursor = 0, expired |-> FALSE, rows |-> rows,
                     refusals |-> refusals, cursor |-> server'.seq]]
                 /\ rows = RowsSince(server', cursor)
    BY DEF Serve
  <1>6. PICK answer : answer = [full |-> cursor = 0, expired |-> FALSE, rows |-> rows,
                                refusals |-> refusals, cursor |-> server'.seq]
    OBVIOUS
  <1>7. /\ sync'.phase = "answered" /\ sync'.batch = sync.batch /\ sync'.answer = answer
        /\ sync.phase = "marking"
    <2>1. sync' = [sync EXCEPT !.phase = "answered", !.answer = answer]
      BY <1>5, <1>6
    <2> QED BY <1>1, <2>1, BatchRows DEF ClientInv, Sent
  <1>8. /\ cursor \in Nat /\ cursor <= server.seq /\ server.seq \in Nat /\ server'.seq \in Nat
        /\ server.seq <= server'.seq /\ cursor <= server'.seq
    <2>1. /\ cursor \in Nat /\ cursor <= server.seq /\ server.seq \in Nat /\ server'.seq \in Nat
          /\ server.seq <= server'.seq
      BY <1>2, <1>3, ServerTypes DEF ClientInv, Typed, RoomTyped, ServerTyped, Stamps
    <2> QED BY <2>1
  <1>9. BeforeFirst'
    <2> SUFFICES ASSUME server'.seq = 0 PROVE BeforeFirst'
      BY DEF BeforeFirst
    <2>1. server.seq = 0
      BY <1>8
    <2> QED BY <1>1, <1>7, <2>1 DEF Following, BeforeFirst
  <1>10. /\ DOMAIN rows = {q \in Rows : server'.row[q] # <<>> /\ server'.stamp[q] > cursor}
         /\ \A r \in DOMAIN rows : rows[r] = Current(server', r)
    BY <1>5 DEF RowsSince
  <1>11. ASSUME NEW r \in Rows
         PROVE  /\ r \in DOMAIN rows <=> server'.stamp[r] > cursor
                /\ r \notin DOMAIN rows => server'.stamp[r] <= cursor
                /\ r \in DOMAIN rows => HomeOf(r) \in DOMAIN rows
    <2>1. \A q \in Rows : server'.stamp[q] \in Nat /\ HomeOf(q) \in Rows
      BY <1>3, ServerTypes DEF ClientInv, Typed, ServerTyped
    <2>2. \A q \in Rows : (server'.row[q] # <<>> <=> server'.stamp[q] > 0)
                          /\ server'.stamp[q] <= server'.stamp[HomeOf(q)]
      BY <1>2 DEF Stamps, Stamped
    <2>3. \A q \in Rows : q \in DOMAIN rows <=> server'.stamp[q] > cursor
      <3> SUFFICES ASSUME NEW q \in Rows PROVE q \in DOMAIN rows <=> server'.stamp[q] > cursor
        OBVIOUS
      <3>1. server'.stamp[q] > cursor => server'.stamp[q] > 0
        BY <1>8, <2>1
      <3> QED BY <1>10, <2>2, <3>1
    <2>4. server'.stamp[r] > cursor => server'.stamp[HomeOf(r)] > cursor
      BY <1>8, <2>1, <2>2
    <2>5. ~(server'.stamp[r] > cursor) => server'.stamp[r] <= cursor
      BY <1>8, <2>1
    <2> QED BY <2>1, <2>3, <2>4, <2>5
  <1>12. AnswerFresh'
    <2>1. /\ ~answer.expired /\ answer.cursor = server'.seq /\ answer.rows = rows
          /\ answer.refusals = refusals /\ (answer.full => cursor = 0)
      BY <1>6
    <2>2. sync.batch # <<>> => answer.cursor > 0
      <3>1. sync.batch # <<>> => server'.seq > 0
        BY <1>2, <1>8 DEF Following, BeforeFirst
      <3> QED BY <2>1, <3>1
    <2>3. ASSUME NEW n \in DOMAIN sync.batch
          PROVE  \/ \E c \in refusals : c.id = Id(sync.batch[n])
                 \/ Reached(sync.batch[n]) \subseteq DOMAIN rows
      <3>1. \/ sync.batch[n].mutation \in server'.log
            \/ \E c \in refusals : c.id = Id(sync.batch[n])
        BY <1>3, <1>7, <2>1 DEF ClientInv, AnswerTrue, Id
      <3>2. PICK o \in outbox : SameEdit(o, sync.batch[n]) /\ o.status # "conflict"
        BY DEF ClientInv, Batched
      <3>3. Reached(o) = Reached(sync.batch[n]) /\ Id(o) = Id(sync.batch[n])
        BY <3>2, SameReached
      <3>4. Reached(o) \subseteq Rows
        <4>1. RowOfEdit(o) \in Rows
          BY WaitingRows DEF ClientInv, Waiting
        <4> QED BY <4>1, ReachedRows
      <3>5. CASE sync.batch[n].mutation \in server'.log
        <4>1. sync.batch[n].mutation.id = Id(o)
          BY <3>3 DEF Id
        <4>2. \A r \in Reached(o) : server'.stamp[r] > cursor
          BY <1>1, <1>4, <3>2, <3>5, <4>1 DEF NotReceived, Id, Reached, RowOfEdit
        <4> QED BY <1>11, <3>3, <3>4, <4>2
      <3> QED BY <3>1, <3>5
    <2>4. DOMAIN rows \subseteq Rows
      BY <1>10
    <2> QED BY <1>1, <1>7, <1>8, <1>10, <1>11, <2>1, <2>2, <2>3, <2>4
          DEF AnswerFresh, Id, Reached, RowOfEdit
  <1>13. Unsent'
    <2> SUFFICES ASSUME NEW o \in outbox, o.status # "conflict", ~SentRow(o)', NEW m \in server'.log,
                        m.id = Id(o)
                 PROVE  FALSE
      BY <1>1 DEF Unsent, Id
    <2>1. ~SentRow(o)
      BY <1>7 DEF SentRow
    <2>2. CASE m \in server.log
      BY <1>7, <2>1, <2>2 DEF Following, Unsent
    <2>3. CASE m \notin server.log
      <3>1. PICK n \in DOMAIN sync.batch : m = sync.batch[n].mutation
        BY <1>2, <2>3
      <3> QED BY <2>1, <3>1 DEF SentRow, Id
    <2> QED BY <2>2, <2>3
  <1> QED BY <1>4, <1>9, <1>12, <1>13 DEF Following

-----------------------------------------------------------------------------
(* Agreement: an answer is received                                        *)

\* What becomes of the outbox when no cursor was refused.
LEMMA SettledFresh ==
    ASSUME ClientInv, AnswerFresh, sync.phase = "answered"
    PROVE  /\ \A q \in Settled : \E b \in outbox :
                /\ q \in OutboxRow /\ q.mutation = b.mutation /\ q.createdAt = b.createdAt
                /\ \/ q = b /\ ~SentRow(b)
                   \/ q.status = "conflict" /\ SentRow(b)
           /\ \A o \in outbox :
                \/ ~SentRow(o) /\ o \in Settled
                \/ SentRow(o) /\ \E q \in Settled : q.mutation = o.mutation
                \/ SentRow(o) /\ Reached(o) \subseteq DOMAIN sync.answer.rows
  <1>1. ~sync.answer.expired
    BY DEF AnswerFresh
  <1>2. ASSUME NEW q \in Settled
        PROVE  \E b \in outbox :
                /\ q \in OutboxRow /\ q.mutation = b.mutation /\ q.createdAt = b.createdAt
                /\ \/ q = b /\ ~SentRow(b)
                   \/ q.status = "conflict" /\ SentRow(b)
    <2>1. PICK b \in outbox : LeftOf(q, b)
      BY SettledRows
    <2> QED BY <1>1, <2>1 DEF LeftOf
  <1>3. ASSUME NEW o \in outbox, SentRow(o)
        PROVE  \/ \E q \in Settled : q.mutation = o.mutation
               \/ Reached(o) \subseteq DOMAIN sync.answer.rows
    <2>1. PICK n \in DOMAIN sync.batch : /\ Id(sync.batch[n]) = Id(o)
                                         /\ sync.batch[n].mutation = o.mutation
                                         /\ sync.batch[n] \in OutboxRow
      BY <1>3, SentFromBatch
    <2>2. CASE Reached(sync.batch[n]) \subseteq DOMAIN sync.answer.rows
      BY <2>1, <2>2 DEF Reached, RowOfEdit
    <2>3. CASE \E c \in sync.answer.refusals : c.id = Id(sync.batch[n])
      <3>1. PICK b : b = sync.batch[n]
        OBVIOUS
      <3>2. PICK q : q = [b EXCEPT !.status = "conflict"]
        OBVIOUS
      <3>3. PICK refused : refused = {p \in {sync.batch[k] : k \in DOMAIN sync.batch} :
                                        \E c \in sync.answer.refusals : c.id = p.mutation.id}
        OBVIOUS
      <3>4. b \in refused
        BY <2>1, <2>3, <3>1, <3>3 DEF Id
      <3>5. {[p EXCEPT !.status = "conflict"] : p \in refused} \subseteq Settled
        BY <1>1, <3>3 DEF Settled
      <3>6. q \in Settled
        BY <3>2, <3>4, <3>5
      <3>7. q.mutation = b.mutation
        BY <2>1, <3>1, <3>2 DEF OutboxRow
      <3> QED BY <2>1, <3>1, <3>6, <3>7
    <2> QED BY <2>2, <2>3 DEF AnswerFresh
  <1>4. \A o \in outbox : ~SentRow(o) => o \in Settled
    BY SettledRows
  <1> QED BY <1>2, <1>3, <1>4

Guarded == Protected(Settled)
InAnswer == DOMAIN sync.answer.rows

LEMMA GuardedRows ==
    ASSUME ClientInv, Following, sync.phase = "answered"
    PROVE  /\ \A r : r \in Guarded <=> \E q \in Settled : r \in Reached(q)
           /\ \A q \in Settled : RowOfEdit(q) \in Rows /\ \E b \in outbox : RowOfEdit(q) = RowOfEdit(b)
           /\ \A r \in Guarded : r \in Rows /\ HomeOf(r) \in Guarded /\ local[HomeOf(r)].version > 0
           /\ Guarded = {r \in Guarded : r \in Lines \/ local[r] # Missing}
  <1>1. \A r : r \in Guarded <=> \E q \in Settled : r \in Reached(q)
    BY DEF Guarded, Protected, Reached, RowOfEdit
  <1>2. ASSUME NEW q \in Settled
        PROVE  /\ RowOfEdit(q) \in Rows /\ local[HomeOf(RowOfEdit(q))].version > 0
               /\ \E b \in outbox : RowOfEdit(q) = RowOfEdit(b)
    <2>1. PICK b \in outbox : q.mutation = b.mutation
      BY SettledRows DEF LeftOf
    <2>2. RowOfEdit(q) = RowOfEdit(b) /\ b \in Waiting
      BY <2>1 DEF RowOfEdit, Waiting
    <2> QED BY <2>2, WaitingRows DEF ClientInv, Following, Homes
  <1>3. ASSUME NEW r \in Guarded
        PROVE  r \in Rows /\ HomeOf(r) \in Guarded /\ local[HomeOf(r)].version > 0
    <2>1. PICK q \in Settled : r \in Reached(q)
      BY <1>1
    <2>2. HomeOf(r) = HomeOf(RowOfEdit(q)) /\ HomeOf(r) \in Reached(q) /\ r \in Rows
      BY <1>2, <2>1, ReachedRows
    <2> QED BY <1>1, <1>2, <2>2
  <1>4. ASSUME NEW r \in Guarded, r \notin Lines PROVE local[r] # Missing
    <2>1. HomeOf(r) = r
      BY <1>3, <1>4 DEF HomeOf, Rows
    <2>2. ~(Missing.version > 0)
      BY RowContents
    <2> QED BY <1>3, <2>1, <2>2
  <1> HIDE DEF Guarded
  <1>5. Guarded = {r \in Guarded : r \in Lines \/ local[r] # Missing}
    BY <1>4
  <1> QED BY <1>1, <1>2, <1>3, <1>5

\* What an answer does to a row when the lists of all edits are there.
LEMMA ReceivedFresh ==
    ASSUME ClientInv, Following, Receive
    PROVE  \A r \in Rows :
             /\ r \in InAnswer \ Guarded => local'[r] = sync.answer.rows[r]
             /\ r \notin InAnswer \cup Guarded /\ sync.answer.full => local'[r] = Missing
             /\ r \in Guarded \/ (r \notin InAnswer /\ ~sync.answer.full) =>
                  local'[r] = local[r] /\ (r \in forgone => r \in forgone')
  <1>1. sync.phase = "answered" /\ outbox' = Settled
    BY ReceivedRows
  <1>2. PICK kept : kept = {r \in Protected(outbox') : r \in Lines \/ local[r] # Missing}
    OBVIOUS
  <1>3. PICK purged : purged = IF sync.answer.full THEN Rows \ (InAnswer \cup Protected(outbox')) ELSE {}
    OBVIOUS
  <1>4. PICK taken : taken = InAnswer \ kept
    OBVIOUS
  <1>5. kept = Guarded
    BY <1>1, <1>2, GuardedRows DEF Guarded
  <1>6. Protected(outbox') = Guarded
    BY <1>1 DEF Guarded
  <1>7. forgone' = (forgone \ (taken \cup purged)) \cup InHandRows
    BY <1>1, <1>2, <1>3, <1>4 DEF Receive, InAnswer
  <1>8. local' = [r \in Rows |-> IF r \in taken THEN sync.answer.rows[r]
                                 ELSE IF r \in purged THEN Missing ELSE local[r]]
    BY <1>1, <1>2, <1>3, <1>4 DEF Receive, InAnswer
  <1> QED BY <1>3, <1>4, <1>5, <1>6, <1>7, <1>8
LEMMA AgreeReceive ==
    ASSUME ClientInv, Stamped(server), Following, Receive
    PROVE  Following'
  <1>1. /\ UNCHANGED <<server, resolving>>
        /\ sync.phase = "answered" /\ sync' = NoSync /\ outbox' = Settled
        /\ cursor' = sync.answer.cursor
        /\ InHandRows \subseteq forgone'
        /\ \A c \in conflicts' : c \in conflicts \/ c \in sync.answer.refusals
    BY ReceivedRows
  <1>2. AnswerFresh
    BY DEF Following
  <1>3. /\ \A q \in outbox' : \E b \in outbox :
             /\ q.mutation = b.mutation
             /\ \/ q = b /\ ~SentRow(b)
                \/ q.status = "conflict" /\ SentRow(b)
        /\ \A o \in outbox :
             \/ ~SentRow(o) /\ o \in outbox'
             \/ \E q \in outbox' : q.mutation = o.mutation
             \/ SentRow(o) /\ Reached(o) \subseteq InAnswer
    BY <1>1, <1>2, SettledFresh DEF InAnswer
  <1>4. /\ \A r : r \in Guarded <=> \E q \in outbox' : r \in Reached(q)
        /\ \A q \in outbox' : RowOfEdit(q) \in Rows
        /\ \A r \in Guarded : r \in Rows /\ HomeOf(r) \in Guarded /\ local[HomeOf(r)].version > 0
    BY <1>1, GuardedRows
  <1>5. \A r \in Rows :
          /\ r \in InAnswer \ Guarded => local'[r] = sync.answer.rows[r]
          /\ r \notin InAnswer \cup Guarded /\ sync.answer.full => local'[r] = Missing
          /\ r \in Guarded \/ (r \notin InAnswer /\ ~sync.answer.full) =>
               local'[r] = local[r] /\ (r \in forgone => r \in forgone')
    BY ReceivedFresh
  <1>6. sync'.phase = "idle" /\ sync'.batch = <<>>
    BY <1>1, InitialSync
  <1>7. AnswerFresh' /\ Unsent'
    BY <1>6 DEF AnswerFresh, Unsent
  <1>8. InHand' = InHand /\ Waiting' = outbox' \cup InHand
    BY <1>1, SameHand DEF Waiting
  <1>9. /\ server.seq \in Nat /\ cursor \in Nat /\ sync.answer.cursor \in Nat
        /\ sync.answer.cursor <= server.seq /\ cursor <= sync.answer.cursor
        /\ \A r \in Rows : server.stamp[r] \in Nat /\ HomeOf(r) \in Rows /\ HomeOf(HomeOf(r)) = HomeOf(r)
    <2>1. server.seq \in Nat /\ cursor \in Nat
      BY ServerTypes DEF ClientInv, Typed, ServerTyped, RoomTyped
    <2>2. sync.answer.cursor \in Nat /\ sync.answer.cursor <= server.seq
      BY BatchRows DEF ClientInv, Typed, SyncTyped, AnswerRecord
    <2>3. cursor <= sync.answer.cursor
      BY <1>1, <1>2, <2>1, <2>2 DEF AnswerFresh
    <2>4. \A r \in Rows : server.stamp[r] \in Nat /\ HomeOf(r) \in Rows /\ HomeOf(HomeOf(r)) = HomeOf(r)
      BY ServerTypes DEF ClientInv, Typed, ServerTyped
    <2> QED BY <2>1, <2>2, <2>3, <2>4
  <1>10. \A r \in InAnswer : /\ r \in Rows /\ HomeOf(r) \in InAnswer
                             /\ sync.answer.rows[r].version > 0 /\ server.row[r] # <<>>
    <2>1. InAnswer \subseteq Rows
      <3>1. sync.answer.rows \in SentRows
        BY BatchRows DEF ClientInv, AnswerRecord
      <3>2. PICK some \in SUBSET Rows : sync.answer.rows \in [some -> Versioned]
        BY <3>1 DEF SentRows
      <3> QED BY <3>2 DEF InAnswer
    <2>2. ASSUME NEW r \in InAnswer PROVE sync.answer.rows[r].version > 0 /\ server.row[r] # <<>>
      <3>1. sync.answer.rows[r].version \in DOMAIN server.row[r]
        BY <1>1, <2>2 DEF ClientInv, AnswerTrue, InAnswer
      <3>2. DOMAIN server.row[r] = 1..Len(server.row[r]) /\ Len(server.row[r]) \in Nat
        BY <2>1, <2>2, ServerRows DEF ClientInv
      <3>3. Len(server.row[r]) > 0
        BY <3>1, <3>2
      <3>4. server.row[r] # <<>>
        BY <3>3
      <3> QED BY <3>1, <3>2, <3>4
    <2>3. \A r \in InAnswer : HomeOf(r) \in InAnswer
      BY <1>1, <1>2 DEF AnswerFresh, InAnswer
    <2> QED BY <2>1, <2>2, <2>3
  <1>11. BeforeFirst'
    <2> SUFFICES ASSUME server.seq = 0
                 PROVE  /\ \A o \in outbox' :
                             ListMade(o) \/ \E p \in outbox' : ListMade(p) /\ p.createdAt < o.createdAt
                        /\ \A r \in Rows : local'[r] # Missing => \E p \in outbox' : ListMade(p)
      BY <1>1, <1>6 DEF BeforeFirst
    <2>1. sync.batch = <<>>
      <3>1. ~(sync.answer.cursor > 0)
        BY <1>9
      <3> QED BY <1>1, <1>2, <3>1 DEF AnswerFresh
    <2>2. outbox' = outbox
      <3>1. \A o \in outbox : ~SentRow(o)
        BY <2>1 DEF SentRow
      <3>2. \A q \in outbox' : q \in outbox
        BY <1>3, <3>1
      <3>3. \A o \in outbox : o \in outbox'
        BY <1>1, <3>1, SettledRows
      <3> QED BY <3>2, <3>3
    <2>3. \A r \in Rows : r \notin InAnswer
      <3> SUFFICES ASSUME NEW r \in InAnswer PROVE FALSE
        OBVIOUS
      <3>1. r \in Rows /\ server.stamp[r] > 0 /\ server.stamp[r] <= server.seq
        BY <1>10 DEF Stamped
      <3> QED BY <1>9, <3>1
    <2>4. \A r \in Rows : local'[r] # Missing => local'[r] = local[r]
      BY <1>5, <2>3
    <2> QED BY <2>2, <2>4 DEF Following, BeforeFirst
  <1>12. HasCursor'
    <2> SUFFICES ASSUME conflicts' # {} \/ resolving # {} \/ (\E o \in outbox' : o.status = "conflict")
                 PROVE  sync.answer.cursor > 0
      BY <1>1 DEF HasCursor
    <2>1. CASE conflicts # {} \/ resolving # {} \/ (\E o \in outbox : o.status = "conflict")
      <3>1. cursor > 0
        BY <2>1 DEF Following, HasCursor
      <3> QED BY <1>9, <3>1
    <2>2. CASE sync.batch # <<>>
      BY <1>1, <1>2, <2>2 DEF AnswerFresh
    <2>3. ASSUME NEW c \in sync.answer.refusals PROVE sync.batch # <<>>
      <3>1. \E n \in DOMAIN sync.batch : c.id = Id(sync.batch[n])
        BY <1>1, <2>3 DEF ClientInv, AnswerTrue
      <3> QED BY <3>1
    <2>4. ASSUME NEW o \in outbox, SentRow(o) PROVE sync.batch # <<>>
      BY <2>4 DEF SentRow
    <2> QED BY <1>1, <1>3, <2>1, <2>2, <2>3, <2>4
  \* Rows that the outbox keeps, or that the answer has, are there with their lists.
  <1>13. Homes'
    <2>1. ASSUME NEW l \in Guarded \cup InAnswer, l = HomeOf(l) PROVE local'[l].version > 0
      <3>1. CASE l \in Guarded
        BY <1>4, <1>5, <2>1, <3>1
      <3>2. CASE l \in InAnswer \ Guarded
        BY <1>5, <1>10, <3>2
      <3> QED BY <3>1, <3>2
    <2>2. ASSUME NEW r \in Rows, local'[r] # Missing PROVE local'[HomeOf(r)].version > 0
      <3>1. CASE HomeOf(r) \in Guarded \cup InAnswer
        BY <1>9, <2>1, <3>1
      <3>2. CASE HomeOf(r) \notin Guarded \cup InAnswer
        <4>1. r \notin Guarded \cup InAnswer
          BY <1>4, <1>10, <3>2
        <4>2. ~sync.answer.full /\ local'[r] = local[r] /\ local'[HomeOf(r)] = local[HomeOf(r)]
          BY <1>5, <1>9, <2>2, <3>2, <4>1
        <4> QED BY <2>2, <4>2 DEF Following, Homes
      <3> QED BY <3>1, <3>2
    <2>3. ASSUME NEW o \in Waiting' PROVE local'[HomeOf(RowOfEdit(o))].version > 0
      <3>1. CASE o \in outbox'
        <4>1. HomeOf(RowOfEdit(o)) \in Guarded
          BY <1>4, <3>1 DEF Reached
        <4>2. RowOfEdit(o) \in Rows
          BY <1>4, <3>1
        <4> QED BY <1>9, <2>1, <4>1, <4>2
      <3>2. CASE o \in InHand
        <4>1. o \in Waiting /\ RowOfEdit(o) \in Rows
          BY <3>2, WaitingRows DEF ClientInv, Waiting
        <4>2. local[HomeOf(RowOfEdit(o))].version > 0
          BY <4>1 DEF Following, Homes
        <4>3. ~sync.answer.full
          <5>1. cursor > 0
            BY <3>2 DEF Following, HasCursor, InHand
          <5> QED BY <1>1, <1>2, <1>9, <5>1 DEF AnswerFresh
        <4>4. CASE HomeOf(RowOfEdit(o)) \in Guarded \cup InAnswer
          BY <1>9, <2>1, <4>1, <4>4
        <4>5. CASE HomeOf(RowOfEdit(o)) \notin Guarded \cup InAnswer
          BY <1>5, <1>9, <4>1, <4>2, <4>3, <4>5
        <4> QED BY <4>4, <4>5
      <3> QED BY <1>8, <3>1, <3>2
    <2> QED BY <2>2, <2>3 DEF Homes, RowOfEdit
  <1>14. ASSUME NEW q \in outbox', NEW h \in resolving, Id(q) = h.conflict
         PROVE  Reached(q) \subseteq forgone'
    <2>1. PICK b \in outbox : q.mutation = b.mutation /\ (q = b \/ SentRow(b))
      BY <1>3
    <2>2. Id(b) = h.conflict
      BY <1>14, <2>1 DEF Id
    <2>3. ~SentRow(b)
      BY <2>2 DEF SentRow, Id, ClientInv, Settling
    <2>4. Reached(q) \subseteq forgone
      BY <1>14, <2>1, <2>3 DEF Following, GivenUp
    <2>5. \A r \in Reached(q) : r \in Guarded /\ r \in Rows
      BY <1>4
    <2> QED BY <1>5, <2>4, <2>5
  <1>15. GivenUp'
    BY <1>1, <1>14 DEF GivenUp, Id, Reached, RowOfEdit
  <1>16. NotReceived'
    <2> SUFFICES ASSUME NEW o \in outbox', NEW m \in server.log, o.status # "conflict", m.id = Id(o)
                 PROVE  FALSE
      BY <1>1 DEF NotReceived, Id
    <2>1. o \in outbox /\ ~SentRow(o)
      BY <1>3
    <2> QED BY <1>1, <2>1 DEF Following, Unsent
  <1>17. Followed'
    <2> SUFFICES ASSUME NEW r \in Rows \ (forgone' \cup Protecting'),
                        server.stamp[r] <= sync.answer.cursor
                 PROVE  local'[r] = Current(server, r)
      BY <1>1 DEF Followed
    <2>1. \/ r \in InAnswer /\ sync.answer.rows[r] = Current(server, r)
          \/ r \notin InAnswer /\ server.stamp[r] <= cursor
      BY <1>1, <1>2 DEF AnswerFresh, InAnswer
    <2>2. r \notin Guarded
      <3> SUFFICES ASSUME r \in Guarded PROVE FALSE
        OBVIOUS
      <3>1. PICK q \in outbox' : r \in Reached(q)
        BY <1>4
      <3>2. q \notin Carriers'
        BY <3>1 DEF Protecting, Reached, RowOfEdit
      <3>3. PICK h \in resolving : Id(q) = h.conflict
        BY <1>1, <1>8, <3>2 DEF Carriers, Id
      <3> QED BY <1>14, <3>1, <3>3
    <2>3. CASE r \in InAnswer
      BY <1>5, <2>1, <2>2, <2>3
    <2>4. CASE r \notin InAnswer /\ sync.answer.full
      <3>1. ~(server.stamp[r] > 0)
        BY <1>1, <1>2, <1>9, <2>1, <2>4 DEF AnswerFresh
      <3>2. server.row[r] = <<>>
        BY <3>1 DEF Stamped
      <3> QED BY <1>5, <2>2, <2>4, <3>2 DEF Current
    <2>5. CASE r \notin InAnswer /\ ~sync.answer.full
      <3>1. local'[r] = local[r] /\ r \notin forgone
        BY <1>5, <2>5
      <3>2. ASSUME NEW o \in Carriers, r \in Reached(o) PROVE FALSE
        <4>1. o \notin InHand
          BY <1>1, <3>2 DEF InHandRows, Reached, RowOfEdit
        <4>2. o \in outbox
          BY <4>1 DEF Carriers, Waiting
        <4>3. \A q \in outbox' : q.mutation = o.mutation => r \in Guarded
          BY <1>4, <3>2 DEF Reached, RowOfEdit
        <4> QED BY <1>3, <2>2, <2>5, <3>2, <4>2, <4>3
      <3>3. r \notin Protecting
        BY <3>2 DEF Protecting
      <3> QED BY <2>1, <2>5, <3>1, <3>3 DEF Following, Followed
    <2> QED BY <2>3, <2>4, <2>5
  <1> QED BY <1>7, <1>11, <1>12, <1>13, <1>15, <1>16, <1>17 DEF Following

-----------------------------------------------------------------------------
(* Agreement: all steps                                                    *)

LEMMA AgreeInit ==
    ASSUME Init
    PROVE  AgreeInv
  <1>1. /\ outbox = {} /\ conflicts = {} /\ forgone = {} /\ resolving = {} /\ sync = NoSync
        /\ cursor = server.seq /\ left.expiries = MaxExpiries
        /\ local = [r \in Rows |-> Current(server, r)]
    BY DEF Init, Nothing
  <1>2. PICK there \in SUBSET Rows :
          server = Holding(there) /\ \A r \in there : HomeOf(r) \in there
    <2>1. PICK there \in {{}} \cup {{l} \cup some : l \in Lists, some \in SUBSET Lines} :
            server = Holding(there) /\ \A r \in there : HomeOf(r) \in there
      BY DEF Init
    <2>2. there \in SUBSET Rows
      BY <2>1 DEF Rows
    <2> QED BY <2>1, <2>2
  <1>3. /\ server.seq = (IF there = {} THEN 0 ELSE 1) /\ server.log = {}
        /\ \A r \in Rows : /\ server.row[r] = IF r \notin there THEN <<>> ELSE <<Live(FirstContent(r))>>
                           /\ server.stamp[r] = IF r \in there THEN 1 ELSE 0
    BY <1>2 DEF Holding
  <1>4. \A r \in Rows : /\ HomeOf(r) \in Rows /\ (r \in there => HomeOf(r) \in there)
                        /\ (r \notin there <=> server.row[r] = <<>>)
    <2>1. \A v : <<v>> # <<>>
      OBVIOUS
    <2> QED BY <1>2, <1>3, <2>1, RowContents
  <1>5. Stamped(server)
    <2>1. ASSUME NEW r \in Rows
          PROVE  /\ server.row[r] # <<>> <=> server.stamp[r] > 0
                 /\ server.stamp[r] <= server.stamp[HomeOf(r)]
                 /\ server.stamp[r] <= server.seq
      <3>1. CASE r \in there
        <4>1. server.stamp[r] = 1 /\ server.stamp[HomeOf(r)] = 1 /\ server.seq = 1
              /\ server.row[r] # <<>>
          BY <1>3, <1>4, <3>1
        <4> QED BY <4>1
      <3>2. CASE r \notin there
        <4>1. server.stamp[r] = 0 /\ server.stamp[HomeOf(r)] \in {0, 1} /\ server.seq \in {0, 1}
              /\ server.row[r] = <<>>
          BY <1>3, <1>4, <3>2
        <4> QED BY <4>1
      <3> QED BY <3>1, <3>2
    <2> QED BY <1>3, <2>1 DEF Stamped
  <1>6. ASSUME NEW r \in Rows, local[r] # Missing
        PROVE  r \in there /\ local[HomeOf(r)].version > 0
    <2>1. server \in ServerRecord
      BY InvInit DEF ClientInv, Typed, ServerTyped
    <2>2. r \in there /\ HomeOf(r) \in there /\ HomeOf(r) \in Rows
      BY <1>1, <1>4, <1>6 DEF Current
    <2>3. server.row[HomeOf(r)] # <<>>
      BY <1>4, <2>2
    <2>4. Len(server.row[HomeOf(r)]) \in 1..Len(server.row[HomeOf(r)])
          /\ Len(server.row[HomeOf(r)]) \in Nat
      BY <2>1, <2>2, <2>3, CurrentRow, InvInit, ServerRows DEF ClientInv
    <2>5. local[HomeOf(r)].version = Len(server.row[HomeOf(r)])
      BY <1>1, <2>1, <2>2, CurrentRow
    <2> QED BY <2>2, <2>4, <2>5
  <1>7. InHand = {} /\ Waiting = {}
    BY <1>1 DEF InHand, Waiting
  <1>8. sync.phase = "idle" /\ sync.batch = <<>>
    BY <1>1, InitialSync
  <1>9. BeforeFirst
    <2> SUFFICES ASSUME server.seq = 0, NEW r \in Rows, local[r] # Missing PROVE FALSE
      BY <1>1, <1>8 DEF BeforeFirst
    <2> QED BY <1>3, <1>6
  <1>10. HasCursor /\ Homes /\ GivenUp
    BY <1>1, <1>6, <1>7 DEF HasCursor, Homes, GivenUp
  <1>11. AnswerFresh /\ Unsent /\ NotReceived
    BY <1>1, <1>8 DEF AnswerFresh, Unsent, NotReceived
  <1>12. Followed
    BY <1>1 DEF Followed
  <1>13. left.expiries <= MaxExpiries
    BY <1>1, ClientAssumption
  <1> QED BY <1>5, <1>9, <1>10, <1>11, <1>12, <1>13 DEF AgreeInv, Following

LEMMA FollowingNext ==
    ASSUME ClientInv, Stamped(server), Following, [Next]_vars, ~RefuseCursor
    PROVE  Following'
  <1>1. ASSUME Remote PROVE Following'
    BY <1>1, AgreeRemote
  <1>2. ASSUME Edit PROVE Following'
    BY <1>2, AgreeEdit
  <1>3. ASSUME Resume \/ Enqueue \/ UNCHANGED vars PROVE Following'
    BY <1>3, AgreeAside
  <1>4. ASSUME KeepAgain PROVE Following'
    BY <1>4, AgreeKeepAgain
  <1>5. ASSUME Forget PROVE Following'
    BY <1>5, AgreeForget
  <1>6. ASSUME StartSync PROVE Following'
    BY <1>6, AgreeStartSync
  <1>7. ASSUME Mark \/ Unmark PROVE Following'
    BY <1>7, AgreeMark
  <1>8. ASSUME Serve PROVE Following'
    BY <1>8, AgreeServe
  <1>9. ASSUME Receive PROVE Following'
    BY <1>9, AgreeReceive
  <1>10. ASSUME Fail \/ Retry PROVE Following'
    BY <1>10, AgreeFail
  <1>11. ASSUME Die PROVE Following'
    BY <1>11, AgreeDie
  <1>12. ASSUME NEW c \in conflicts, KeepMine(c) PROVE Following'
    BY <1>12, AgreeKeepMine
  <1>13. ASSUME NEW c \in conflicts, TakeTheirs(c) PROVE Following'
    BY <1>13, AgreeTakeTheirs
  <1> QED
    BY <1>1, <1>2, <1>3, <1>4, <1>5, <1>6, <1>7, <1>8, <1>9, <1>10, <1>11, <1>12, <1>13 DEF Next, Step

\* Only other devices and requests change the server; refused cursors only get fewer.
LEMMA ServerOrNot ==
    ASSUME ClientInv, [Next]_vars
    PROVE  /\ Remote \/ Serve \/ server' = server
           /\ left'.expiries <= left.expiries /\ left'.expiries \in Nat
           /\ RefuseCursor => left'.expiries < left.expiries
  <1>1. left \in [remote : Nat, faults : Nat, expiries : Nat]
    BY DEF ClientInv, Typed, RestTyped
  <1>2. left = [remote |-> left.remote, faults |-> left.faults, expiries |-> left.expiries]
        /\ left.expiries \in Nat /\ left.remote \in Nat /\ left.faults \in Nat
    BY <1>1
  <1>3. CASE RefuseCursor
    <2>1. server' = server /\ left.expiries > 0 /\ left' = [left EXCEPT !.expiries = @ - 1]
      BY <1>3 DEF RefuseCursor
    <2>2. left'.expiries = left.expiries - 1
      BY <1>2, <2>1
    <2> QED BY <1>2, <2>1, <2>2
  <1>4. CASE ~RefuseCursor
    <2>1. Remote \/ Serve \/ server' = server
      BY <1>4 DEF Next, Step, Edit, Create, Patch, Resume, Enqueue, KeepAgain, Forget, StartSync, Mark,
                  Receive, Unmark, Retry, Fail, Die, KeepMine, TakeTheirs, vars
    <2>2. left' \in {left, [left EXCEPT !.remote = @ - 1], [left EXCEPT !.faults = @ - 1]}
      BY <1>4 DEF Next, Step, Edit, Create, Patch, Resume, Enqueue, KeepAgain, Forget, StartSync, Mark,
                  Receive, Unmark, Retry, Fail, Die, KeepMine, TakeTheirs, vars, Remote, Serve
    <2>3. left'.expiries = left.expiries
      BY <1>2, <2>2
    <2> QED BY <1>2, <1>4, <2>1, <2>3
  <1> QED BY <1>3, <1>4

LEMMA AgreeNext ==
    ASSUME ClientInv, AgreeInv, [Next]_vars
    PROVE  AgreeInv'
  <1>1. /\ Remote \/ Serve \/ server' = server
        /\ left'.expiries <= left.expiries /\ left'.expiries \in Nat
        /\ RefuseCursor => left'.expiries < left.expiries
    BY ServerOrNot
  <1>2. Stamped(server) /\ left.expiries <= MaxExpiries /\ left.expiries \in Nat /\ MaxExpiries \in Nat
    BY ClientAssumption DEF AgreeInv, ClientInv, Typed, RestTyped
  <1>3. Stamped(server')
    BY <1>1, <1>2, RemoteStamps, ServeStamps DEF Stamps
  <1>4. left'.expiries <= MaxExpiries
    BY <1>1, <1>2
  <1>5. ASSUME left'.expiries = MaxExpiries PROVE Following'
    <2>1. left.expiries = MaxExpiries /\ ~RefuseCursor
      BY <1>1, <1>2, <1>5
    <2> QED BY <1>2, <2>1, FollowingNext DEF AgreeInv
  <1> QED BY <1>3, <1>4, <1>5 DEF AgreeInv

LEMMA AgreesNow ==
    ASSUME ClientInv, AgreeInv
    PROVE  Agrees
  <1> SUFFICES ASSUME left.expiries = MaxExpiries, outbox = {}, resolving = {}, cursor = server.seq,
                      NEW r \in Rows \ forgone
               PROVE  local[r] = Current(server, r)
    BY DEF Agrees, Nothing
  <1>1. Protecting = {}
    BY DEF Protecting, Carriers, Waiting, InHand
  <1>2. server.stamp[r] <= cursor
    BY DEF AgreeInv, Stamped
  <1> QED BY <1>1, <1>2 DEF AgreeInv, Following, Followed

\* A device whose edits are all settled and that has been sent everything shows
\* what the server has (applyResponse, which skips rows that getProtecting names,
\* and the stamps of _delta, which find them again), whatever was edited, lost or
\* decided on the way, as long as no cursor was refused and outside the gaps that
\* forgone names.
THEOREM DeviceAgrees == Spec => []Agrees
  <1>1. Init => AgreeInv
    BY AgreeInit
  <1>2. ClientInv /\ AgreeInv /\ [Next]_vars => AgreeInv'
    BY AgreeNext
  <1>3. ClientInv /\ AgreeInv => Agrees
    BY AgreesNow
  <1> QED BY <1>1, <1>2, <1>3, ClientInvariant, PTL DEF Spec
=============================================================================
