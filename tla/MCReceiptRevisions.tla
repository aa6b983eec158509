------------------------- MODULE MCReceiptRevisions -------------------------
(***************************************************************************)
(* Instances of ReceiptRevisions for TLC: the requests that clients send.  *)
(***************************************************************************)
EXTENDS ReceiptRevisions, TLC

CONSTANTS r1, r2, a, b, m1, m2, m3

Content(lines, priced, store, sum) ==
    [lines |-> lines, priced |-> priced, store |-> store, sum |-> sum, valid |-> TRUE]
OneLine == Content({a}, {a}, TRUE, "balanced")
OtherLine == Content({b}, {b}, TRUE, "unverifiable")
TwoLines == Content({a, b}, {b}, TRUE, "gap")
NoStore == Content({a}, {a}, FALSE, "balanced")
Foreign == [OneLine EXCEPT !.valid = FALSE]

Send(op, r, id, expected, body, accept) ==
    [op |-> op, receipt |-> r, id |-> id, expected |-> expected, body |-> body,
     accept |-> accept]

\* One receipt: drafts, two confirmations that compete, a reused mutation ID, a
\* gap that is accepted and one that is not, corrections of what v1 confirmed
\* and of a revision.
OneReceipt == {
    Send("draft", r1, m2, 0, OtherLine, FALSE),
    Send("draft", r1, m3, 0, OneLine, FALSE),
    Send("confirm", r1, m1, 0, OneLine, FALSE),
    Send("confirm", r1, m2, 0, TwoLines, TRUE),
    Send("confirm", r1, m2, 0, TwoLines, FALSE),
    Send("confirm", r1, m3, 0, Foreign, FALSE),
    Send("revision", r1, m1, 0, OneLine, FALSE),
    Send("revision", r1, m2, 1, NoStore, FALSE),
    Send("revision", r1, m3, 1, OtherLine, FALSE)}

\* Another receipt of the same account.
TwoReceipts == OneReceipt \cup {
    Send("confirm", r2, m3, 0, OtherLine, FALSE),
    Send("revision", r2, m3, 1, OneLine, FALSE)}

Interchangeable == Permutations(Sessions)
=============================================================================
