--------------------------- MODULE MCPriceSummary ---------------------------
(***************************************************************************)
(* Instances of PriceSummary for TLC: what is on the list as it is edited. *)
(***************************************************************************)
EXTENDS PriceSummary, TLC

CONSTANTS r1, r2, a, b

\* A product is added, and another takes its place.
Edits == [c \in 0..MaxContent |-> IF c = 0 THEN {a} ELSE IF c = 1 THEN {a, b} ELSE {b}]

\* One receipt is corrected, with a price for another of its lines, and a second
\* one has a line without a price.
Corrected == {
    [receipt |-> r1, revision |-> 1, lines |-> {a, b}, priced |-> {a}],
    [receipt |-> r1, revision |-> 2, lines |-> {a, b}, priced |-> {b}],
    [receipt |-> r2, revision |-> 1, lines |-> {a, b}, priced |-> {b}]}
=============================================================================
