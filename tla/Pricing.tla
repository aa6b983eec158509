------------------------------ MODULE Pricing ------------------------------
(***************************************************************************)
(* What one receipt line costs and whether its price may be compared       *)
(* (domain/pricing.py, domain/units.py, domain/money.py).  A request may   *)
(* print amounts and quantities with any number of decimals                *)
(* (schemas/v2.py): money is counted in parts of an oere and quantities in *)
(* parts of a thousandth, Finer of them to each, prices in millionths of a *)
(* krone, to which the code rounds them.  Its divisions carry 28 digits,   *)
(* which is exact here.  The service passes NOK for every line and never a *)
(* package count, so both are left out.                                    *)
(***************************************************************************)
EXTENDS Integers

CONSTANTS
    Unknown, \* a value that nobody has read: None or "unknown" in the code
    Finer    \* parts of a thousandth, and of an oere, that may be printed

ASSUME NothingRead == Unknown \notin Int \cup
    {"kg", "g", "l", "ml", "each", "product", "confirmed", "none", "date", "datetime"}

ASSUME FinerPositive == Finer \in Nat \ {0}

Weights == {"kg", "g"}
Volumes == {"l", "ml"}
Units == Weights \cup Volumes \cup {"each", Unknown}
Conditions == {"none", "member", "multi_buy", "coupon", Unknown}
LineTypes == {"product", "deposit", "fee", "discount", "return", Unknown}
Identities == {"confirmed", "inherited", "unresolved", Unknown}
Bases == {"per_package", "per_kg", "per_litre", Unknown}
Reasons == {"non_product_line", "unresolved_identity", "conditional", "unknown_condition",
            "unknown_discount", "unknown_unit", "unknown_quantity", "non_positive_quantity",
            "unknown_date", "unknown_store"}

Abs(n) == IF n < 0 THEN -n ELSE n

\* n / d to the nearest integer, ties away from zero.
RoundHalfUp(n, d) ==
    LET whole == Abs(n) \div d
        nearest == IF 2 * (Abs(n) % d) >= d THEN whole + 1 ELSE whole
    IN  IF n < 0 THEN -nearest ELSE nearest

\* A plausible bug: only grams are normalised.
NormalizedWeight(quantity, unit) ==
    IF unit = "g" THEN RoundHalfUp(quantity, 1000 * Finer) * Finer ELSE quantity

\* Grams and millilitres become kg and litres, rounded to whole thousandths; the
\* other quantities stay as they were printed.
Normalized(quantity, unit) ==
    IF unit \in {"g", "ml"} THEN RoundHalfUp(quantity, 1000 * Finer) * Finer ELSE quantity

Basis(unit) ==
    CASE unit = "each" -> "per_package"
      [] unit \in Weights -> "per_kg"
      [] unit \in Volumes -> "per_litre"
      [] OTHER -> Unknown

QuantityReasons(line) ==
    CASE line.unit = Unknown -> {"unknown_unit"}
      [] line.unit # Unknown /\ line.quantity = Unknown -> {"unknown_quantity"}
      [] OTHER -> IF Normalized(line.quantity, line.unit) <= 0
                  THEN {"non_positive_quantity"} ELSE {}

QualificationReasons(line) ==
    {r \in Reasons :
        \/ r = "non_product_line" /\ line.type # "product"
        \/ r = "unresolved_identity" /\ line.identity # "confirmed"
        \/ r = "unknown_condition" /\ line.condition = Unknown
        \/ r = "conditional" /\ line.condition \notin {"none", Unknown}}

\* 10 ^ 7: parts of an oere per part of a thousandth to millionths of a krone per unit.
Micro == 10000000

Price(line) ==
    IF QuantityReasons(line) # {} \/ line.net = Unknown THEN Unknown
    ELSE RoundHalfUp(line.net * Micro, Normalized(line.quantity, line.unit))

\* evaluate_line without the date, which does not decide whether it is eligible.
LineReasons(line) ==
    QualificationReasons(line) \cup QuantityReasons(line)
        \cup (IF line.net = Unknown THEN {"unknown_discount"} ELSE {})
=============================================================================
