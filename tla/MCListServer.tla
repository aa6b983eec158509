---------------------------- MODULE MCListServer ----------------------------
(***************************************************************************)
(* Instances of ListServer for TLC: the mutations that clients may send    *)
(* and the batches of a sync.                                              *)
(***************************************************************************)
EXTENDS ListServer, TLC

CONSTANTS l1, l2, i1, i2, i3, m1, m2, m3

Mutation(op, id, list, item, source, expected, change) ==
    [op |-> op, id |-> id, list |-> list, item |-> item, source |-> source,
     expected |-> expected, change |-> change]

CreateList == Mutation("list_create", m1, l1, NoItem, NoList, 0, "none")
ArchiveList == Mutation("list_patch", m3, l1, NoItem, NoList, 1, "archive")
DeleteList == Mutation("list_patch", m3, l1, NoItem, NoList, 1, "delete")
AddFirst == Mutation("item_create", m1, l1, i1, NoList, 0, "none")
AddSecond == Mutation("item_create", m2, l1, i2, NoList, 0, "none")
AddThird == Mutation("item_create", m3, l1, i3, NoList, 0, "none")
EditFirst == Mutation("item_patch", m1, l1, i1, NoList, 1, "edit")
DeleteFirst == Mutation("item_patch", m2, l1, i1, NoList, 1, "delete")
CopyList == Mutation("list_copy", m1, l2, NoItem, l1, 0, "none")
FromReceipt == Mutation("list_from_receipt", m1, l2, NoItem, NoList, 0, "none")

\* EditFirst with other content: reuse of a mutation ID.
EditFirstAgain == Mutation("item_patch", m1, l1, i1, NoList, 2, "edit")

\* One list and the line in it, edited, deleted and archived by several clients; a
\* second list made from the first or from a receipt.
SafetyRequests == {CreateList, ArchiveList, AddFirst, EditFirst, DeleteFirst, DeleteList,
                   CopyList, FromReceipt}
SafetyBatches == {<<>>, <<EditFirst, DeleteFirst>>}

\* The line of one list, edited by two clients.
LineRequests == {CreateList, AddFirst, EditFirst, EditFirstAgain, DeleteFirst}
LineBatches == {<<>>, <<CreateList, AddFirst>>, <<EditFirst, DeleteFirst>>,
                <<DeleteFirst, EditFirstAgain>>}

\* Three lines for a list with room for one; two batches in an order that deadlocks.
QueueRequests == {CreateList, AddFirst, AddSecond, AddThird, DeleteFirst}
QueueBatches == {<<>>, <<AddFirst, AddSecond>>, <<AddSecond, AddFirst>>}

Interchangeable == Permutations(Sessions)
=============================================================================
