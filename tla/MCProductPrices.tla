-------------------------- MODULE MCProductPrices --------------------------
(***************************************************************************)
(* Instances of ProductPrices for TLC: what drafts and receipts may say.   *)
(***************************************************************************)
EXTENDS ProductPrices, TLC

CONSTANTS b1, b2

Item(type, quantity, unit, net, condition, identity) ==
    [type |-> type, quantity |-> quantity, unit |-> unit, net |-> net,
     condition |-> condition, identity |-> identity]

\* Finer is 10.  Amounts down to a tenth of an oere, and quantities that round to
\* nothing, at a tie, or not at all: 0.5 g, 3 g and 500.5 g, 0.5005 kg and 0.5 kg.
EveryLine ==
    [type : {"product", "deposit", Unknown},
     quantity : {Unknown, -10000, 0, 4000, 5000, 5005, 30000, 5005000},
     unit : Units, net : {Unknown, -99, 0, 1, 100},
     condition : {"none", "member", Unknown}, identity : {"confirmed", "inherited", Unknown}]

Bought(line, store, date, time) ==
    [line |-> line, store |-> store, date |-> date, time |-> time,
     precision |-> IF date = Unknown THEN Unknown
                   ELSE IF time = Unknown THEN "date" ELSE "datetime"]

Piece(net) == Item("product", 10000, "each", net, "none", "confirmed")
Kilo(net) == Item("product", 10000, "kg", net, "none", "confirmed")
Member == Item("product", 10000, "each", 80, "member", "confirmed")
Unclear == Item("product", 10000, "each", Unknown, "none", "confirmed")

SomePurchases == {
    Bought(Piece(100), b1, 1, Unknown), Bought(Piece(110), b1, 2, Unknown),
    Bought(Piece(100), b1, 2, 1), Bought(Piece(120), b1, 2, 2),
    Bought(Piece(100), b2, 1, Unknown), Bought(Kilo(90), b1, 2, 1),
    Bought(Member, b1, 1, Unknown), Bought(Unclear, b1, 2, 2),
    Bought(Piece(90), b1, Unknown, Unknown), Bought(Piece(90), Unknown, 1, Unknown)}

Anyone == Permutations(Receipts)
=============================================================================
