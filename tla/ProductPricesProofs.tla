------------------------ MODULE ProductPricesProofs ------------------------
(***************************************************************************)
(* Theorems about ProductPrices, for every value of its constants: what a  *)
(* unit price says, what the answers about a product's prices are made of, *)
(* and that a client turning the pages of its history reads each row once. *)
(***************************************************************************)
EXTENDS ProductPrices, FiniteFacts, SequenceTheorems

-----------------------------------------------------------------------------
(* Rounding                                                                *)

LEMMA Divided ==
    ASSUME NEW n \in Int, NEW d \in Int, n >= 0, d > 0
    PROVE  /\ n \div d \in Nat /\ n % d \in Nat /\ n % d < d
           /\ n = (n \div d) * d + (n % d)
  <1>1. n \div d \in Int /\ n % d \in Nat /\ n % d < d
    OBVIOUS
  <1>2. n = (n \div d) * d + (n % d)
    OBVIOUS
  <1>3. n \div d >= 0
    OBVIOUS
  <1> QED BY <1>1, <1>2, <1>3

LEMMA Absolute ==
    ASSUME NEW n \in Int
    PROVE  Abs(n) \in Nat /\ (n < 0 => Abs(n) = -n) /\ (n >= 0 => Abs(n) = n)
  BY DEF Abs

LEMMA Rounded ==
    ASSUME NEW n \in Int, NEW d \in Nat \ {0}
    PROVE  RoundHalfUp(n, d) \in Int /\ 2 * Abs(RoundHalfUp(n, d) * d - n) <= d
  <1> DEFINE a == Abs(n)
             whole == a \div d
             rest == a % d
             nearest == IF 2 * rest >= d THEN whole + 1 ELSE whole
  <1>0. a \in Int /\ a >= 0 /\ d \in Int /\ d > 0
    BY Absolute
  <1>1. a \in Nat /\ whole \in Nat /\ rest \in Nat /\ rest < d /\ a = whole * d + rest
    <2> HIDE DEF a
    <2> QED BY <1>0, Divided
  <1>2. RoundHalfUp(n, d) = IF n < 0 THEN -nearest ELSE nearest
    BY DEF RoundHalfUp
  <1> HIDE DEF a, whole, rest
  <1>3. nearest \in Int
    BY <1>1
  <1>4. (whole + 1) * d = whole * d + d /\ whole * d \in Nat
    BY <1>1
  <1>5. 2 * (nearest * d - a) <= d /\ 2 * (a - nearest * d) <= d /\ nearest * d \in Int
    <2>1. CASE 2 * rest >= d
      <3>1. nearest * d = whole * d + d
        BY <1>1, <1>4, <2>1
      <3> QED BY <1>1, <1>4, <2>1, <3>1
    <2>2. CASE ~(2 * rest >= d)
      <3>1. nearest * d = whole * d
        BY <1>1, <1>4, <2>2
      <3> QED BY <1>1, <1>4, <2>2, <3>1
    <2> QED BY <2>1, <2>2
  <1> HIDE DEF nearest
  <1>6. CASE n < 0
    <2>1. RoundHalfUp(n, d) = -nearest /\ a = -n
      BY <1>2, <1>6, Absolute DEF a
    <2>2. (-nearest) * d = -(nearest * d)
      BY <1>3
    <2>3. Abs(RoundHalfUp(n, d) * d - n) \in {nearest * d - a, a - nearest * d}
      BY <1>1, <1>5, <2>1, <2>2 DEF Abs
    <2> QED BY <1>3, <1>5, <2>1, <2>3
  <1>7. CASE ~(n < 0)
    <2>1. RoundHalfUp(n, d) = nearest /\ a = n
      BY <1>2, <1>7, Absolute DEF a
    <2>2. Abs(RoundHalfUp(n, d) * d - n) \in {nearest * d - a, a - nearest * d}
      BY <1>1, <1>5, <2>1 DEF Abs
    <2> QED BY <1>3, <1>5, <2>1, <2>2
  <1> QED BY <1>6, <1>7

\* A bound on a number is a bound on each multiple of it.
LEMMA ScaledBound ==
    ASSUME NEW p \in Int, NEW x \in Int, NEW m \in Nat, 2 * Abs(x) <= m
    PROVE  2 * Abs(p * x) <= Abs(p) * m
  <1>1. PICK a \in Nat : a = Abs(p)
    BY Absolute
  <1>2. PICK y \in Nat : y = Abs(x)
    BY Absolute
  <1>3. a * (m - 2 * y) \in Nat
    BY <1>2
  <1>4. a * (m - 2 * y) = a * m - 2 * (a * y)
    OBVIOUS
  <1>5. Abs(p * x) = a * y
    <2>1. p = a \/ p = -a
      BY <1>1, Absolute
    <2>2. x = y \/ x = -y
      BY <1>2, Absolute
    <2>3. a * y \in Nat
      OBVIOUS
    <2>4. p * x = a * y \/ p * x = -(a * y)
      BY <2>1, <2>2
    <2> QED BY <2>3, <2>4 DEF Abs
  <1>6. a * m \in Nat /\ a * y \in Nat
    OBVIOUS
  <1> QED BY <1>1, <1>3, <1>4, <1>5, <1>6

LEMMA AddedBounds ==
    ASSUME NEW x \in Int, NEW y \in Int, NEW m \in Int, NEW n \in Int,
           2 * Abs(x) <= m, 2 * Abs(y) <= n
    PROVE  2 * Abs(x + y) <= m + n /\ 2 * Abs(x - y) <= m + n
  BY DEF Abs

-----------------------------------------------------------------------------
(* One line                                                                *)

LEMMA NormalizedQuantity ==
    ASSUME NEW q \in Int, NEW u
    PROVE  Normalized(q, u) \in Int
  <1>1. RoundHalfUp(q, 1000 * Finer) * Finer \in Int
    BY Rounded, FinerPositive
  <1> QED BY <1>1 DEF Normalized

\* Grams are off by half a gram at most, and whole grams not at all.
LEMMA RoundedGrams ==
    ASSUME NEW q \in Int, NEW e \in Int, q = 1000 * e
    PROVE  LET rounded == RoundHalfUp(q, 1000 * Finer) * Finer
           IN  /\ rounded \in Int
               /\ 2 * Abs(e - rounded) <= Finer
               /\ q % (1000 * Finer) = 0 => rounded = e
  <1>1. q = 1000 * e
    OBVIOUS
  <1>2. PICK f \in Nat \ {0} : f = Finer
    BY FinerPositive
  <1>3. PICK n \in Int : n = RoundHalfUp(q, 1000 * f) /\ 2 * Abs(n * (1000 * f) - q) <= 1000 * f
    <2>1. PICK d \in Nat \ {0} : d = 1000 * f
      OBVIOUS
    <2>2. RoundHalfUp(q, d) \in Int /\ 2 * Abs(RoundHalfUp(q, d) * d - q) <= d
      BY Rounded
    <2> QED BY <2>1, <2>2
  <1>4. PICK r \in Int : r = n * f
    OBVIOUS
  <1>5. n * (1000 * f) = 1000 * r
    BY <1>4
  <1>6. 2 * Abs(1000 * r - 1000 * e) <= 1000 * f
    BY <1>1, <1>3, <1>5
  <1>7. 2 * Abs(e - r) <= f
    BY <1>6 DEF Abs
  <1>8. ASSUME q % (1000 * f) = 0 PROVE r = e
    <2>1. PICK d \in Nat \ {0} : d = 1000 * f
      OBVIOUS
    <2>2. PICK w \in Int : q = w * d
      <3>1. q % d = 0
        BY <1>8, <2>1
      <3>2. q = (q \div d) * d + (q % d) /\ q \div d \in Int
        OBVIOUS
      <3> QED BY <3>1, <3>2
    <2>3. 2 * Abs(n * d - w * d) <= d
      BY <1>3, <2>1, <2>2
    <2>4. n * d - w * d = (n - w) * d
      OBVIOUS
    <2>5. n = w
      <3>1. PICK k \in Int : k = n - w
        OBVIOUS
      <3>2. 2 * Abs(k * d) <= d
        BY <2>3, <2>4, <3>1
      <3>3. k = 0
        <4>1. CASE k >= 1
          <5>1. (k - 1) * d \in Nat /\ (k - 1) * d = k * d - d
            BY <4>1
          <5> QED BY <3>2, <5>1 DEF Abs
        <4>2. CASE k <= -1
          <5>1. (-1 - k) * d \in Nat /\ (-1 - k) * d = -(k * d) - d
            BY <4>2
          <5> QED BY <3>2, <5>1 DEF Abs
        <4> QED BY <4>1, <4>2
      <3> QED BY <3>1, <3>3
    <2>6. 1000 * r = 1000 * e
      BY <1>1, <1>5, <2>1, <2>2, <2>5
    <2> QED BY <2>6
  <1> QED BY <1>1, <1>2, <1>3, <1>4, <1>7, <1>8

LEMMA NormalizedGrams ==
    ASSUME NEW q \in Int, q % 1000 = 0
    PROVE  LET rounded == RoundHalfUp(q, 1000 * Finer) * Finer
           IN  /\ rounded \in Int /\ q \div 1000 \in Int
               /\ 2 * Abs(q \div 1000 - rounded) <= Finer
               /\ q % (1000 * Finer) = 0 => rounded = q \div 1000
  <1>1. PICK e \in Int : e = q \div 1000 /\ q = 1000 * e
    OBVIOUS
  <1> QED BY <1>1, RoundedGrams

\* A price is a number if the line says what was paid and for how much.
LEMMA PricedLine ==
    ASSUME NEW line \in Line
    PROVE  /\ Price(line) # Unknown <=> QuantityReasons(line) = {} /\ line.net # Unknown
           /\ Price(line) \in Int \cup {Unknown}
           /\ QuantityReasons(line) \subseteq Reasons
           /\ QuantityReasons(line) = {} =>
                /\ line.unit # Unknown /\ line.quantity # Unknown /\ line.quantity \in Int
                /\ Normalized(line.quantity, line.unit) \in Nat \ {0}
           /\ Price(line) # Unknown =>
                /\ line.net \in Int
                /\ Price(line) = RoundHalfUp(line.net * Micro, Normalized(line.quantity, line.unit))
  <1> DEFINE q == line.quantity  u == line.unit  divisor == Normalized(q, u)
  <1>1. q \in Int \cup {Unknown} /\ line.net \in Int \cup {Unknown}
    BY DEF Line
  <1>2. q \in Int => divisor \in Int
    BY NormalizedQuantity
  <1> HIDE DEF divisor
  <1>3. QuantityReasons(line) =
          CASE u = Unknown -> {"unknown_unit"}
            [] u # Unknown /\ q = Unknown -> {"unknown_quantity"}
            [] OTHER -> IF divisor <= 0 THEN {"non_positive_quantity"} ELSE {}
    BY DEF QuantityReasons, divisor
  <1>4. QuantityReasons(line) \subseteq Reasons
    BY <1>3 DEF Reasons
  <1>5. QuantityReasons(line) = {} => u # Unknown /\ q # Unknown /\ ~(divisor <= 0)
    BY <1>3
  <1>6. QuantityReasons(line) = {} => divisor \in Nat \ {0} /\ q \in Int
    BY <1>1, <1>2, <1>5
  <1>7. Price(line) = IF QuantityReasons(line) # {} \/ line.net = Unknown THEN Unknown
                      ELSE RoundHalfUp(line.net * Micro, divisor)
    BY DEF Price, divisor
  <1>8. ASSUME QuantityReasons(line) = {}, line.net # Unknown
        PROVE  RoundHalfUp(line.net * Micro, divisor) \in Int /\ Unknown \notin Int
    <2>1. line.net * Micro \in Int
      BY <1>1, <1>8 DEF Micro
    <2> QED BY <1>6, <1>8, <2>1, Rounded, NothingRead
  <1>9. /\ Price(line) # Unknown <=> QuantityReasons(line) = {} /\ line.net # Unknown
        /\ Price(line) \in Int \cup {Unknown}
    BY <1>7, <1>8
  <1> QED BY <1>1, <1>4, <1>5, <1>6, <1>7, <1>9 DEF divisor

LEMMA AmountRestored ==
    ASSUME NEW line \in Line, Price(line) # Unknown
    PROVE  LET divisor == Normalized(line.quantity, line.unit)
           IN  2 * Abs(Price(line) * divisor - line.net * Micro) <= divisor
  <1> DEFINE divisor == Normalized(line.quantity, line.unit)
             amount == line.net * Micro
  <1>1. /\ divisor \in Nat \ {0} /\ line.net \in Int /\ Price(line) = RoundHalfUp(amount, divisor)
    BY PricedLine
  <1>2. amount \in Int
    BY <1>1 DEF Micro
  <1> HIDE DEF divisor, amount
  <1>3. 2 * Abs(Price(line) * divisor - amount) <= divisor
    BY <1>1, <1>2, Rounded
  <1> QED BY <1>3 DEF divisor, amount

\* What a price is off by, of the quantity that was printed.
LEMMA PrintedRestored ==
    ASSUME NEW line \in Line, Price(line) # Unknown, Printable(line)
    PROVE  /\ Price(line) \in Int /\ Printed(line) \in Int
           /\ line.net * Micro \in Int /\ Slack(line, Price(line)) \in Int
           /\ 2 * Abs(Price(line) * Printed(line) - line.net * Micro) <= Slack(line, Price(line))
  <1>1. PICK divisor : divisor = Normalized(line.quantity, line.unit)
    OBVIOUS
  <1>2. PICK p : p = Price(line)
    OBVIOUS
  <1>3. PICK amount : amount = line.net * Micro
    OBVIOUS
  <1>4. PICK q : q = line.quantity
    OBVIOUS
  <1>5. /\ p \in Int /\ divisor \in Nat /\ amount \in Int /\ q \in Int
        /\ line.net \in Int
    BY <1>1, <1>2, <1>3, <1>4, PricedLine DEF Micro
  <1>6. 2 * Abs(p * divisor - amount) <= divisor
    BY <1>1, <1>2, <1>3, AmountRestored
  <1>7. CASE line.unit \in {"g", "ml"}
    <2>1. PICK e : e = q \div 1000
      OBVIOUS
    <2>2. divisor = RoundHalfUp(q, 1000 * Finer) * Finer /\ q % 1000 = 0
      BY <1>1, <1>4, <1>7 DEF Normalized, Printable
    <2>3. e \in Int /\ 2 * Abs(e - divisor) <= Finer
      BY <1>5, <2>1, <2>2, NormalizedGrams
    <2>4. 2 * Abs(p * (e - divisor)) <= Abs(p) * Finer
      BY <1>5, <2>3, ScaledBound, FinerPositive
    <2>5. PICK x \in Int : x = p * (e - divisor)
      BY <1>5, <2>3
    <2>6. PICK y \in Int : y = p * divisor - amount
      BY <1>5
    <2>7. p * e - amount = x + y
      BY <1>5, <2>3, <2>5, <2>6
    <2>8. PICK m \in Int : m = Abs(p) * Finer
      BY <1>5, Absolute, FinerPositive
    <2>9. 2 * Abs(x + y) <= m + divisor
      BY <1>5, <1>6, <2>4, <2>5, <2>6, <2>8, AddedBounds
    <2>10. Slack(line, p) = divisor + m /\ Printed(line) = e
      BY <1>1, <1>4, <1>7, <2>1, <2>8 DEF Slack, Printed
    <2>11. 2 * Abs(p * e - amount) <= divisor + m
      BY <1>5, <2>7, <2>9
    <2> QED BY <1>2, <1>3, <1>5, <2>3, <2>10, <2>11
  <1>8. CASE line.unit \notin {"g", "ml"}
    <2>1. divisor = q /\ Printed(line) = q
      BY <1>1, <1>4, <1>8 DEF Normalized, Printed
    <2>2. Slack(line, p) = divisor + 0
      BY <1>1, <1>8 DEF Slack
    <2> QED BY <1>2, <1>3, <1>5, <1>6, <2>1, <2>2
  <1> QED BY <1>7, <1>8

\* A quantity in grams or millilitres that can be printed in the larger unit.
LEMMA LargerUnit ==
    ASSUME NEW line \in Line, line.quantity # Unknown, line.quantity % 1000 = 0,
           NEW u \in {<<"g", "kg">>, <<"ml", "l">>}, line.unit = u[1],
           NEW same, same = InLarger(line, u[2])
    PROVE  /\ Basis(line.unit) = Basis(same.unit)
           /\ LineReasons(line) \ {"non_positive_quantity"}
                = LineReasons(same) \ {"non_positive_quantity"}
           /\ line.quantity % (1000 * Finer) = 0 =>
                Price(line) = Price(same) /\ LineReasons(line) = LineReasons(same)
           /\ Price(line) # Unknown /\ Price(same) # Unknown =>
                2 * Abs(Price(line) - Price(same)) * same.quantity
                  <= Slack(line, Price(line)) + same.quantity
  <1>1. line.quantity \in Int /\ line.net \in Int \cup {Unknown}
    BY DEF Line
  <1>2. /\ same.type = line.type /\ same.net = line.net /\ same.condition = line.condition
        /\ same.identity = line.identity /\ same.unit = u[2]
        /\ same.quantity = line.quantity \div 1000
    BY DEF Line, InLarger
  <1>3. same.quantity \in Int
    BY <1>1, <1>2
  <1>4. /\ u[1] \in {"g", "ml"} /\ u[2] \in {"kg", "l"} /\ u[1] # Unknown /\ u[2] # Unknown
        /\ Unknown \notin Int
    BY NothingRead
  <1>5. /\ line.unit # Unknown /\ same.unit # Unknown
        /\ line.quantity # Unknown /\ same.quantity # Unknown
    BY <1>2, <1>3, <1>4
  <1>6. QualificationReasons(line) = QualificationReasons(same)
    BY <1>2 DEF QualificationReasons
  <1>7. LineReasons(line) \ {"non_positive_quantity"} = LineReasons(same) \ {"non_positive_quantity"}
    <2>1. /\ QuantityReasons(line) \subseteq {"non_positive_quantity"}
          /\ QuantityReasons(same) \subseteq {"non_positive_quantity"}
      BY <1>5 DEF QuantityReasons
    <2> QED BY <1>2, <1>6, <2>1 DEF LineReasons
  <1>8. ASSUME line.quantity % (1000 * Finer) = 0
        PROVE  Price(line) = Price(same) /\ LineReasons(line) = LineReasons(same)
    <2>1. Normalized(line.quantity, line.unit) = Normalized(same.quantity, same.unit)
      <3>1. Normalized(line.quantity, line.unit) = RoundHalfUp(line.quantity, 1000 * Finer) * Finer
        BY <1>4 DEF Normalized
      <3>2. Normalized(same.quantity, same.unit) = same.quantity
        BY <1>2, <1>4 DEF Normalized
      <3> QED BY <1>1, <1>2, <1>8, <3>1, <3>2, NormalizedGrams
    <2>2. QuantityReasons(line) = QuantityReasons(same)
      BY <1>5, <2>1 DEF QuantityReasons
    <2>3. LineReasons(line) = LineReasons(same)
      BY <1>2, <1>6, <2>2 DEF LineReasons
    <2>4. Price(line) = Price(same)
      BY <1>2, <2>1, <2>2 DEF Price
    <2> QED BY <2>3, <2>4
  <1>9. ASSUME Price(line) # Unknown, Price(same) # Unknown
        PROVE  2 * Abs(Price(line) - Price(same)) * same.quantity
                 <= Slack(line, Price(line)) + same.quantity
    <2>1. PICK e : e = same.quantity
      OBVIOUS
    <2>2. PICK p, k : p = Price(line) /\ k = Price(same)
      OBVIOUS
    <2>3. PICK amount : amount = line.net * Micro
      OBVIOUS
    <2>4. same \in Line
      <3>1. same = [type |-> line.type, quantity |-> e, unit |-> u[2], net |-> line.net,
                    condition |-> line.condition, identity |-> line.identity]
        <4>1. PICK c : c = [type |-> line.type, quantity |-> line.quantity, unit |-> line.unit,
                            net |-> line.net, condition |-> line.condition,
                            identity |-> line.identity]
          OBVIOUS
        <4>2. line = c
          BY <4>1 DEF Line
        <4>3. PICK d : d = [c EXCEPT !.unit = u[2]]
          OBVIOUS
        <4>4. d = [type |-> line.type, quantity |-> line.quantity, unit |-> u[2],
                   net |-> line.net, condition |-> line.condition, identity |-> line.identity]
          BY <4>1, <4>3
        <4>5. [d EXCEPT !.quantity = e] =
                [type |-> line.type, quantity |-> e, unit |-> u[2],
                 net |-> line.net, condition |-> line.condition, identity |-> line.identity]
          BY <4>4
        <4>6. same = [c EXCEPT !.unit = u[2], !.quantity = @ \div 1000]
          BY <4>2 DEF InLarger
        <4>7. e = c.quantity \div 1000
          BY <1>2, <2>1, <4>1
        <4>8. same = [d EXCEPT !.quantity = e]
          BY <4>3, <4>4, <4>6, <4>7
        <4> QED BY <4>5, <4>8
      <3>2. u[2] \in Units /\ e \in Int
        BY <1>3, <1>4, <2>1 DEF Units, Weights, Volumes
      <3> QED BY <3>1, <3>2 DEF Line
    <2>5. Printable(line) /\ Printable(same) /\ Printed(line) = e /\ Printed(same) = e
      BY <1>2, <1>4, <2>1 DEF Printable, Printed
    <2>6. PICK slack : slack = Slack(line, p)
      OBVIOUS
    <2>7. /\ p \in Int /\ e \in Int /\ amount \in Int /\ slack \in Int
          /\ 2 * Abs(p * e - amount) <= slack
      BY <1>9, <2>2, <2>3, <2>5, <2>6, PrintedRestored
    <2>8. Slack(same, k) = e
      <3>1. Normalized(same.quantity, same.unit) = e
        BY <1>2, <1>4, <2>1 DEF Normalized
      <3> QED BY <1>2, <1>3, <1>4, <2>1, <3>1 DEF Slack
    <2>9. k \in Int /\ 2 * Abs(k * e - amount) <= e
      BY <1>2, <1>9, <2>2, <2>3, <2>4, <2>5, <2>8, PrintedRestored
    <2>10. e \in Nat
      BY <1>2, <1>4, <1>9, <2>1, <2>4, PricedLine DEF Normalized
    <2>11. PICK x \in Int : x = p * e - amount
      BY <2>7
    <2>12. PICK y \in Int : y = k * e - amount
      BY <2>7, <2>9
    <2>13. 2 * Abs(x - y) <= slack + e
      BY <2>7, <2>9, <2>11, <2>12, AddedBounds
    <2>14. x - y = (p - k) * e
      BY <2>7, <2>9, <2>11, <2>12
    <2>15. Abs((p - k) * e) = Abs(p - k) * e
      <3>1. PICK z \in Int : z = p - k
        BY <2>7, <2>9
      <3>2. CASE z >= 0
        <4>1. z * e \in Nat
          BY <2>10, <3>2
        <4> QED BY <3>1, <3>2, <4>1 DEF Abs
      <3>3. CASE z < 0
        <4>1. (-z) * e \in Nat /\ (-z) * e = -(z * e)
          BY <2>10, <3>3
        <4>2. Abs(z) = -z /\ Abs(z * e) = -(z * e)
          BY <2>10, <3>3, <4>1 DEF Abs
        <4> QED BY <3>1, <4>1, <4>2
      <3> QED BY <3>1, <3>2, <3>3
    <2>16. PICK a \in Nat : a = Abs(p - k)
      BY <2>7, <2>9, Absolute
    <2>17. 2 * (a * e) = 2 * a * e
      BY <2>10
    <2>18. 2 * a * e <= slack + e
      BY <2>13, <2>14, <2>15, <2>16, <2>17
    <2> QED BY <2>1, <2>2, <2>6, <2>16, <2>18
  <1>10. Basis(line.unit) = Basis(same.unit)
    BY <1>2 DEF Basis, Weights, Volumes
  <1> QED BY <1>7, <1>8, <1>9, <1>10

LEMMA DraftPricedRight ==
    ASSUME draft \in Drafts \cup {Unknown}
    PROVE  PricedRight
  <1>1. draft # Unknown => draft \in Line
    BY ProductPricesAssumption
  <1>2. PriceRestoresAmount
    BY <1>1, PrintedRestored DEF PriceRestoresAmount
  <1>3. UnitsAgree
    <2> SUFFICES ASSUME NEW u \in {<<"g", "kg">>, <<"ml", "l">>}, draft # Unknown,
                        draft.quantity # Unknown, draft.unit = u[1], draft.quantity % 1000 = 0,
                        NEW same, same = InLarger(draft, u[2])
                 PROVE  /\ Basis(draft.unit) = Basis(same.unit)
                        /\ LineReasons(draft) \ {"non_positive_quantity"}
                             = LineReasons(same) \ {"non_positive_quantity"}
                        /\ draft.quantity % (1000 * Finer) = 0 =>
                             Price(draft) = Price(same) /\ LineReasons(draft) = LineReasons(same)
                        /\ Price(draft) # Unknown /\ Price(same) # Unknown =>
                             2 * Abs(Price(draft) - Price(same)) * same.quantity
                               <= Slack(draft, Price(draft)) + same.quantity
      BY DEF UnitsAgree
    <2>1. draft \in Line
      BY <1>1
    <2> QED BY <2>1, LargerUnit
  <1> QED BY <1>2, <1>3 DEF PricedRight

-----------------------------------------------------------------------------
(* Rows                                                                    *)

\* What holds of a row of a confirmed line.
Genuine(row) ==
    /\ row \in Row
    /\ row.price = Price(row.line)
    /\ LineReasons(row.line) \subseteq row.own
    /\ row.published <=> row.own \subseteq {"unknown_date"}
    /\ row.store = Unknown => "unknown_store" \in row.own

LEMMA ReasonsOfLine ==
    ASSUME NEW line \in Line
    PROVE  /\ LineReasons(line) \subseteq Reasons
           /\ QuantityReasons(line) \subseteq LineReasons(line)
           /\ QualificationReasons(line) \subseteq LineReasons(line)
           /\ line.net = Unknown => "unknown_discount" \in LineReasons(line)
           /\ "unknown_date" \notin QuantityReasons(line) /\ "conditional" \notin QuantityReasons(line)
  <1>1. QualificationReasons(line) \subseteq Reasons
    BY DEF QualificationReasons
  <1>2. QuantityReasons(line) \subseteq Reasons
    BY PricedLine
  <1>3. "unknown_discount" \in Reasons
    BY DEF Reasons
  <1>4. "unknown_date" \notin QuantityReasons(line) /\ "conditional" \notin QuantityReasons(line)
    BY DEF QuantityReasons
  <1> QED BY <1>1, <1>2, <1>3, <1>4 DEF LineReasons

LEMMA BasisTyped == \A unit : Basis(unit) \in Bases
  BY DEF Basis, Bases

LEMMA QualifiedRow ==
    ASSUME NEW r \in Receipts, NEW p \in Purchases, NEW id \in RowIds,
           NEW row, row = Qualified(r, p, id)
    PROVE  /\ Genuine(row) /\ row.id = id /\ row.receipt = r
           /\ row.basis = Basis(row.line.unit)
  <1>1. /\ p.line \in Line /\ p.store \in Branches \cup {"chain", Unknown}
        /\ p.date \in Nat \cup {Unknown} /\ p.precision \in {"date", "datetime", Unknown}
        /\ p.time \in Nat \cup {Unknown}
    BY ProductPricesAssumption DEF Purchase
  <1>2. PICK reasons : reasons = LineReasons(p.line)
                         \cup (IF p.precision = Unknown THEN {"unknown_date"} ELSE {})
                         \cup (IF p.store = Unknown THEN {"unknown_store"} ELSE {})
    OBVIOUS
  <1>3. row = [id |-> id, receipt |-> r, line |-> p.line, price |-> Price(p.line),
               basis |-> Basis(p.line.unit), store |-> p.store, date |-> p.date,
               precision |-> p.precision, time |-> p.time, own |-> reasons,
               published |-> reasons \subseteq {"unknown_date"}]
    BY <1>2 DEF Qualified
  <1>4. /\ row.id = id /\ row.receipt = r /\ row.line = p.line /\ row.price = Price(p.line)
        /\ row.basis = Basis(p.line.unit) /\ row.store = p.store /\ row.own = reasons
        /\ row.published = (reasons \subseteq {"unknown_date"})
    BY <1>3
  <1>5. reasons \subseteq Reasons
    <2>1. LineReasons(p.line) \subseteq Reasons
      BY <1>1, ReasonsOfLine
    <2>2. "unknown_date" \in Reasons /\ "unknown_store" \in Reasons
      BY DEF Reasons
    <2> QED BY <1>2, <2>1, <2>2
  <1>6. Price(p.line) \in Int \cup {Unknown} /\ Basis(p.line.unit) \in Bases
    BY <1>1, PricedLine, BasisTyped
  <1>7. (reasons \subseteq {"unknown_date"}) \in BOOLEAN
    OBVIOUS
  <1>8. row \in Row
    BY <1>1, <1>3, <1>5, <1>6, <1>7 DEF Row
  <1>9. LineReasons(p.line) \subseteq reasons /\ (p.store = Unknown => "unknown_store" \in reasons)
    BY <1>2
  <1> QED BY <1>4, <1>8, <1>9 DEF Genuine

LEMMA PublishedRow ==
    ASSUME NEW row, Genuine(row), row.published
    PROVE  row.price # Unknown /\ row.store # Unknown
  <1>1. row.line \in Line /\ row.own \subseteq {"unknown_date"}
    BY DEF Genuine, Row
  <1>2. QuantityReasons(row.line) = {} /\ row.line.net # Unknown
    BY <1>1, ReasonsOfLine DEF Genuine
  <1>3. row.price # Unknown
    BY <1>1, <1>2, PricedLine DEF Genuine
  <1> QED BY <1>1, <1>3 DEF Genuine

\* Nothing of a row that may be ranked is unknown.
LEMMA RankedRow ==
    ASSUME NEW row, Genuine(row), NEW include \in BOOLEAN, RankingReasons(row, include) = {}
    PROVE  /\ \A f \in DOMAIN row.line : row.line[f] # Unknown
           /\ row.line.type = "product" /\ row.line.identity = "confirmed"
           /\ row.line.condition = "none" \/ include
           /\ row.store \in Branches
           /\ row.date # Unknown /\ row.date \in Nat /\ row.precision # Unknown
           /\ row.price # Unknown /\ row.price \in Int
           /\ row.id \in Nat
  <1>1. /\ row.line \in Line /\ row.own \subseteq Reasons /\ row.published \in BOOLEAN
        /\ row.date \in Nat \cup {Unknown} /\ row.price \in Int \cup {Unknown} /\ row.id \in Nat
    BY ProductPricesAssumption DEF Genuine, Row
  <1>2. row.date # Unknown /\ row.precision # Unknown /\ row.store \in Branches
    BY DEF RankingReasons
  <1>3. /\ row.own \subseteq {"unknown_date", "conditional"}
        /\ "conditional" \in row.own => include
    <2>1. CASE row.published
      BY <2>1 DEF Genuine
    <2>2. CASE ~row.published /\ include /\ row.price # Unknown
      BY <2>2 DEF RankingReasons
    <2>3. CASE ~row.published /\ ~(include /\ row.price # Unknown)
      BY <2>3 DEF RankingReasons
    <2> QED BY <1>1, <2>1, <2>2, <2>3
  <1>4. QualificationReasons(row.line) \subseteq {"unknown_date", "conditional"}
    BY <1>1, <1>3, ReasonsOfLine DEF Genuine
  <1>5. /\ row.line.type = "product" /\ row.line.identity = "confirmed"
        /\ row.line.condition # Unknown
        /\ row.line.condition = "none" \/ "conditional" \in QualificationReasons(row.line)
    BY <1>4 DEF QualificationReasons, Reasons
  <1>6. row.line.condition = "none" \/ include
    BY <1>1, <1>3, <1>5, ReasonsOfLine DEF Genuine
  <1>7. QuantityReasons(row.line) = {} /\ row.line.net # Unknown
    BY <1>1, <1>3, ReasonsOfLine DEF Genuine
  <1>8. row.line.unit # Unknown /\ row.line.quantity # Unknown /\ row.price # Unknown
    BY <1>1, <1>7, PricedLine DEF Genuine
  <1>9. "product" # Unknown /\ "confirmed" # Unknown
    BY NothingRead
  <1>10. DOMAIN row.line = {"type", "quantity", "unit", "net", "condition", "identity"}
    BY <1>1 DEF Line
  <1>11. \A f \in DOMAIN row.line : row.line[f] # Unknown
    BY <1>5, <1>7, <1>8, <1>9, <1>10
  <1> QED BY <1>1, <1>2, <1>5, <1>6, <1>8, <1>11

-----------------------------------------------------------------------------
(* The lowest price                                                        *)

RowsTyped ==
    /\ IsFiniteSet(rows)
    /\ \A row \in rows : Genuine(row)
    /\ \A a, b \in rows : a.id = b.id => a = b

\* Rows on known days are totally ordered by day and ID.
LEMMA EarliestRow ==
    ASSUME RowsTyped, NEW some \in SUBSET rows, some # {}, \A row \in some : row.date \in Nat
    PROVE  First(some) \in some /\ \A other \in some \ {First(some)} : Earlier(First(some), other)
  <1> DEFINE R == {p \in some \X some : Earlier(p[2], p[1])}
  <1>1. \A a, b \in some : <<a, b>> \in R <=> b.date < a.date \/ (b.date = a.date /\ b.id < a.id)
    BY DEF Earlier
  <1>2. \A a \in some : a.date \in Nat /\ a.id \in Nat
    BY ProductPricesAssumption DEF RowsTyped, Genuine, Row
  <1>3. \A a, b \in some : a.id = b.id => a = b
    BY DEF RowsTyped
  <1> HIDE DEF R
  <1>4. TotalOrder(R, some)
    <2>1. \A a \in some : <<a, a>> \notin R
      BY <1>1, <1>2
    <2>2. \A a, b \in some : a # b => <<a, b>> \in R \/ <<b, a>> \in R
      BY <1>1, <1>2, <1>3
    <2>3. \A a, b, c \in some : <<a, b>> \in R /\ <<b, c>> \in R => <<a, c>> \in R
      BY <1>1, <1>2
    <2> QED BY <2>1, <2>2, <2>3 DEF TotalOrder
  <1>5. IsFiniteSet(some)
    BY FS_Subset DEF RowsTyped
  <1>6. PICK g \in some : \A a \in some \ {g} : <<a, g>> \in R
    BY <1>4, <1>5, GreatestExists
  <1>7. \A a \in some \ {g} : Earlier(g, a)
    BY <1>1, <1>6 DEF Earlier
  <1> QED BY <1>7 DEF First

LEMMA CheapestRow ==
    ASSUME RowsTyped, NEW some \in SUBSET rows, some # {}, \A row \in some : row.price \in Int
    PROVE  \E row \in some : \A other \in some : other.price >= row.price
  <1> DEFINE R == {p \in some \X some : p[2].price < p[1].price
                                        \/ (p[2].price = p[1].price /\ p[2].id < p[1].id)}
  <1>1. \A a, b \in some : <<a, b>> \in R <=> b.price < a.price \/ (b.price = a.price /\ b.id < a.id)
    OBVIOUS
  <1>2. \A a \in some : a.price \in Int /\ a.id \in Nat
    BY ProductPricesAssumption DEF RowsTyped, Genuine, Row
  <1>3. \A a, b \in some : a.id = b.id => a = b
    BY DEF RowsTyped
  <1> HIDE DEF R
  <1>4. TotalOrder(R, some)
    <2>1. \A a \in some : <<a, a>> \notin R
      BY <1>1, <1>2
    <2>2. \A a, b \in some : a # b => <<a, b>> \in R \/ <<b, a>> \in R
      BY <1>1, <1>2, <1>3
    <2>3. \A a, b, c \in some : <<a, b>> \in R /\ <<b, c>> \in R => <<a, c>> \in R
      BY <1>1, <1>2
    <2> QED BY <2>1, <2>2, <2>3 DEF TotalOrder
  <1>5. IsFiniteSet(some)
    BY FS_Subset DEF RowsTyped
  <1>6. PICK g \in some : \A a \in some \ {g} : <<a, g>> \in R
    BY <1>4, <1>5, GreatestExists
  <1>7. ASSUME NEW a \in some PROVE a.price >= g.price
    <2>1. a.price \in Int /\ g.price \in Int
      BY <1>2
    <2>2. a # g => g.price < a.price \/ g.price = a.price
      BY <1>1, <1>6
    <2> QED BY <2>1, <2>2
  <1> QED BY <1>7

\* What is compared is ranked, and is all that is ranked in one basis.
LEMMA ComparedRows ==
    ASSUME RowsTyped, NEW include \in BOOLEAN
    PROVE  /\ Comparable(include) \subseteq Rankable(include)
           /\ \A row \in Comparable(include) :
                /\ row \in rows /\ Genuine(row) /\ RankingReasons(row, include) = {}
                /\ row.date \in Nat /\ row.price \in Int /\ row.store \in Branches
           /\ \E basis : Comparable(include) \in {{}, Of(basis, Rankable(include))}
  <1> DEFINE ranked == Rankable(include)
  <1>1. \E basis : Comparable(include) \in {{}, Of(basis, ranked)}
    BY DEF Comparable, InBasis
  <1>2. Comparable(include) \subseteq ranked
    BY <1>1 DEF Of
  <1>3. \A row \in ranked : row \in rows /\ Genuine(row) /\ RankingReasons(row, include) = {}
    BY DEF Rankable, RowsTyped
  <1> QED BY <1>1, <1>2, <1>3, RankedRow

LEMMA GuessedNothing ==
    ASSUME RowsTyped
    PROVE  NothingGuessed
  <1> SUFFICES ASSUME NEW include \in BOOLEAN, NEW row \in Comparable(include)
               PROVE  /\ \A f \in DOMAIN row.line : row.line[f] # Unknown
                      /\ row.line.type = "product" /\ row.line.identity = "confirmed"
                      /\ row.line.condition = "none" \/ include
                      /\ row.store \in Branches /\ row.date # Unknown /\ row.price # Unknown
    BY DEF NothingGuessed
  <1>1. Genuine(row) /\ RankingReasons(row, include) = {}
    BY ComparedRows
  <1> QED BY <1>1, RankedRow

LEMMA LowestRows ==
    ASSUME RowsTyped, NEW include \in BOOLEAN, NEW ranked, ranked = Comparable(include),
           ranked # {}, NEW low, low = Lowest(ranked)
    PROVE  /\ low.primary \in ranked /\ low.price = low.primary.price /\ low.price \in Int
           /\ \A row \in ranked :
                row.price > low.price
                  \/ (row.price = low.price /\ (row = low.primary \/ Earlier(low.primary, row)))
           /\ \A a, b \in low.tied : a.store = b.store => a = b
           /\ PricesOf(low.tied) = {low.price}
  <1>1. \A row \in ranked : row \in rows /\ row.date \in Nat /\ row.price \in Int
    BY ComparedRows
  <1>2. PICK least : least = {row \in ranked : \A other \in ranked : other.price >= row.price}
    OBVIOUS
  <1>3. least # {}
    <2>1. ranked \in SUBSET rows
      BY <1>1
    <2>2. \E row \in ranked : \A other \in ranked : other.price >= row.price
      BY <1>1, <2>1, CheapestRow
    <2> QED BY <1>2, <2>2
  <1>4. First(least) \in least /\ \A other \in least \ {First(least)} : Earlier(First(least), other)
    BY <1>1, <1>2, <1>3, EarliestRow
  <1> DEFINE first(store) == First({row \in least : row.store = store})
  <1>5. /\ low.primary = First(least) /\ low.price = First(least).price
        /\ low.tied = {first(row.store) : row \in least}
    BY <1>2 DEF Lowest
  <1>6. \A row \in least : first(row.store) \in least /\ first(row.store).store = row.store
    <2> SUFFICES ASSUME NEW row \in least
                 PROVE  first(row.store) \in least /\ first(row.store).store = row.store
      OBVIOUS
    <2>1. PICK some : some = {q \in least : q.store = row.store}
      OBVIOUS
    <2>2. some \in SUBSET rows /\ some # {} /\ \A q \in some : q.date \in Nat
      BY <1>1, <1>2, <2>1
    <2>3. First(some) \in some
      BY <2>2, EarliestRow
    <2> QED BY <2>1, <2>3
  <1> HIDE DEF first
  <1>7. ASSUME NEW row \in ranked
        PROVE  row.price > low.price
                 \/ (row.price = low.price /\ (row = low.primary \/ Earlier(low.primary, row)))
    <2>1. row.price \in Int /\ low.price \in Int /\ row.price >= low.price
      BY <1>1, <1>2, <1>4, <1>5
    <2>2. CASE row.price = low.price
      <3>1. row \in least
        BY <1>1, <1>2, <1>4, <1>5, <2>2
      <3> QED BY <1>4, <1>5, <2>2, <3>1
    <2> QED BY <2>1, <2>2
  <1>8. \A row \in least : row.price = low.price
    BY <1>1, <1>2, <1>4, <1>5
  <1>9. \A a, b \in low.tied : a.store = b.store => a = b
    <2> SUFFICES ASSUME NEW a \in low.tied, NEW b \in low.tied, a.store = b.store PROVE a = b
      OBVIOUS
    <2>1. PICK p \in least : a = first(p.store)
      BY <1>5
    <2>2. PICK q \in least : b = first(q.store)
      BY <1>5
    <2>3. p.store = q.store
      BY <1>6, <2>1, <2>2
    <2> QED BY <2>1, <2>2, <2>3
  <1>10. PricesOf(low.tied) = {low.price}
    <2>1. low.tied \subseteq least /\ low.tied # {}
      BY <1>3, <1>5, <1>6
    <2> QED BY <1>8, <2>1 DEF PricesOf
  <1>11. low.primary \in ranked /\ low.price = low.primary.price /\ low.price \in Int
    BY <1>1, <1>2, <1>4, <1>5
  <1> QED BY <1>7, <1>9, <1>10, <1>11

LEMMA FirstIsLowest ==
    ASSUME RowsTyped
    PROVE  LowestIsFirst
  <1> SUFFICES ASSUME NEW include \in BOOLEAN, Comparable(include) # {}
               PROVE  LET ranked == Comparable(include)
                          low == Lowest(ranked)
                      IN  /\ \A row \in rows : row.basis = low.primary.basis /\ row \in Rankable(include)
                               => row.price > low.price
                                  \/ (row.price = low.price
                                        /\ (row = low.primary \/ Earlier(low.primary, row)))
                          /\ \A row \in ranked : row.basis = low.primary.basis
                          /\ \A a, b \in low.tied : a.store = b.store => a = b
                          /\ PricesOf(low.tied) = {low.price}
    BY DEF LowestIsFirst
  <1>1. PICK ranked : ranked = Comparable(include)
    OBVIOUS
  <1>2. PICK low : low = Lowest(ranked)
    OBVIOUS
  <1>3. /\ low.primary \in ranked
        /\ \A row \in ranked :
                row.price > low.price
                  \/ (row.price = low.price /\ (row = low.primary \/ Earlier(low.primary, row)))
        /\ \A a, b \in low.tied : a.store = b.store => a = b
        /\ PricesOf(low.tied) = {low.price}
    BY <1>1, <1>2, LowestRows
  <1>4. PICK basis : ranked = Of(basis, Rankable(include))
    BY <1>1, ComparedRows
  <1>5. \A row \in ranked : row.basis = low.primary.basis
    BY <1>3, <1>4 DEF Of
  <1>6. \A row \in Rankable(include) : row.basis = low.primary.basis => row \in ranked
    BY <1>3, <1>4 DEF Of
  <1>7. \A row \in rows : row.basis = low.primary.basis /\ row \in Rankable(include)
                   => row.price > low.price
                      \/ (row.price = low.price /\ (row = low.primary \/ Earlier(low.primary, row)))
    BY <1>3, <1>6
  <1> QED BY <1>1, <1>2, <1>3, <1>5, <1>7

\* Who asks for conditional prices too is shown a row more, never one fewer.
LEMMA RankedFurther == Rankable(FALSE) \subseteq Rankable(TRUE)
  <1>1. \A row : RankingReasons(row, TRUE) \subseteq RankingReasons(row, FALSE)
    BY DEF RankingReasons
  <1> QED BY <1>1 DEF Rankable

LEMMA AgreedAnswers ==
    ASSUME RowsTyped
    PROVE  AnswersAgree
  <1> SUFFICES ASSUME NEW include \in BOOLEAN
               PROVE  LET ranked == Comparable(include)
                          plain == Comparable(FALSE)
                      IN  /\ \A row \in ranked : \A price \in Latest(AtStore(row.store, ranked)) :
                               price >= Lowest(ranked).price
                          /\ plain # {} /\ {row.basis : row \in plain} = {row.basis : row \in ranked}
                               => Lowest(ranked).price <= Lowest(plain).price
    BY DEF AnswersAgree
  <1>1. PICK ranked : ranked = Comparable(include)
    OBVIOUS
  <1>2. PICK plain : plain = Comparable(FALSE)
    OBVIOUS
  <1>3. ranked # {} => /\ Lowest(ranked).price \in Int
                       /\ \A row \in ranked : row.price \in Int /\ row.price >= Lowest(ranked).price
    <2> HAVE ranked # {}
    <2>1. \A row \in ranked : row.price \in Int
      BY <1>1, ComparedRows
    <2>2. PICK low : low = Lowest(ranked)
      OBVIOUS
    <2>3. /\ low.price \in Int
          /\ \A row \in ranked : row.price > low.price \/ row.price = low.price
      BY <1>1, <2>2, LowestRows
    <2> QED BY <2>1, <2>2, <2>3
  <1>4. ASSUME NEW row \in ranked, NEW price \in Latest(AtStore(row.store, ranked))
        PROVE  price >= Lowest(ranked).price
    <2>1. Latest(AtStore(row.store, ranked)) \subseteq PricesOf(ranked)
      BY DEF Latest, PricesOf, SameDay, AtStore
    <2>2. PICK other \in ranked : price = other.price
      BY <1>4, <2>1 DEF PricesOf
    <2> QED BY <1>3, <2>2
  <1>5. ASSUME plain # {}, {row.basis : row \in plain} = {row.basis : row \in ranked}
        PROVE  Lowest(ranked).price <= Lowest(plain).price
    <2>1. PICK low : low = Lowest(plain)
      OBVIOUS
    <2>2. low.primary \in plain /\ low.price = low.primary.price
      BY <1>2, <1>5, <2>1, LowestRows
    <2>3. PICK basis : plain = Of(basis, Rankable(FALSE))
      BY <1>2, <1>5, ComparedRows
    <2>4. ranked # {}
      BY <1>5
    <2>5. PICK other : ranked = Of(other, Rankable(include))
      BY <1>1, <2>4, ComparedRows
    <2>6. basis = other
      <3>1. PICK row \in ranked : row.basis = low.primary.basis
        BY <1>5, <2>2
      <3> QED BY <2>2, <2>3, <2>5, <3>1 DEF Of
    <2>7. low.primary \in ranked
      BY <2>2, <2>3, <2>5, <2>6, RankedFurther DEF Of
    <2> QED BY <1>3, <2>1, <2>2, <2>7
  <1> QED BY <1>1, <1>2, <1>4, <1>5

-----------------------------------------------------------------------------
(* The latest price                                                        *)

TimeKnown(row) == row.precision = "datetime" /\ row.time # Unknown

MayBeLast(row, some) ==
    /\ row \in some
    /\ \A other \in some :
         /\ other.date <= row.date
         /\ (other.date = row.date /\ TimeKnown(other) /\ TimeKnown(row)) => other.time <= row.time

Bought(some) ==
    /\ IsFiniteSet(some) /\ some # {}
    /\ \A row \in some : row.date \in Nat /\ row.id \in Nat /\ row.time \in Nat \cup {Unknown}
    /\ \A a, b \in some : a.id = b.id => a = b

LEMMA LastOfOrder ==
    ASSUME NEW some, Bought(some), NEW s \in Orders(some), NEW n, n = Cardinality(some)
    PROVE  MayBeLast(s[n], some)
  <1>1. n \in Nat /\ n # 0 /\ n \in 1..n
    BY FS_EmptySet, FS_CardinalityType DEF Bought
  <1>2. /\ s \in [1..n -> some]
        /\ \A i, j \in 1..n : i # j => s[i] # s[j]
        /\ \A i, j \in 1..n : i < j =>
             /\ s[i].date <= s[j].date
             /\ (s[i].date = s[j].date /\ TimeKnown(s[i]) /\ TimeKnown(s[j])) => s[i].time <= s[j].time
    BY DEF Orders, TimeKnown
  <1>3. \A row \in some : \E i \in 1..n : s[i] = row
    <2>1. IsFiniteSet(1..n) /\ Cardinality(1..n) = n
      BY <1>1, FS_Interval
    <2>2. s \in Injection(1..n, some)
      BY <1>2 DEF Injection, IsInjective
    <2>3. s \in Surjection(1..n, some)
      BY <2>1, <2>2, FS_Injection DEF Bought
    <2> QED BY <2>3 DEF Surjection
  <1>4. ASSUME NEW other \in some
        PROVE  /\ other.date <= s[n].date
               /\ (other.date = s[n].date /\ TimeKnown(other) /\ TimeKnown(s[n])) => other.time <= s[n].time
    <2>1. PICK i \in 1..n : s[i] = other
      BY <1>3
    <2>2. CASE i < n
      BY <1>1, <1>2, <2>1, <2>2
    <2>3. CASE ~(i < n)
      <3>1. i = n /\ other = s[n]
        BY <1>1, <2>1, <2>3
      <3>2. other.date \in Nat /\ (TimeKnown(other) => other.time \in Nat)
        BY DEF Bought, TimeKnown
      <3> QED BY <3>1, <3>2
    <2> QED BY <2>2, <2>3
  <1> QED BY <1>1, <1>2, <1>4 DEF MayBeLast

\* A row before another in the order that ends with last.
Sooner(a, b, last) ==
    \/ a.date < b.date
    \/ /\ a.date = b.date
       /\ \/ a.time < b.time
          \/ /\ a.time = b.time
             /\ \/ a # last /\ b = last
                \/ a # last /\ b # last /\ a.id < b.id

LEMMA SoonerOrders ==
    ASSUME NEW some, Bought(some), \A row \in some : TimeKnown(row), NEW last, NEW R,
           \A a, b \in some : <<a, b>> \in R <=> Sooner(a, b, last)
    PROVE  TotalOrder(R, some)
  <1>1. \A a \in some : a.date \in Nat /\ a.id \in Nat /\ a.time \in Nat
    BY DEF Bought, TimeKnown
  <1>2. \A a \in some : ~Sooner(a, a, last)
    BY <1>1 DEF Sooner
  <1>3. \A a, b \in some : a # b => Sooner(a, b, last) \/ Sooner(b, a, last)
    <2> SUFFICES ASSUME NEW a \in some, NEW b \in some, a # b
                 PROVE  Sooner(a, b, last) \/ Sooner(b, a, last)
      OBVIOUS
    <2>1. a.id < b.id \/ b.id < a.id
      BY <1>1 DEF Bought
    <2>2. CASE a.date = b.date /\ a.time = b.time
      BY <2>1, <2>2 DEF Sooner
    <2>3. CASE a.date = b.date /\ a.time # b.time
      BY <1>1, <2>3 DEF Sooner
    <2>4. CASE a.date # b.date
      BY <1>1, <2>4 DEF Sooner
    <2> QED BY <2>2, <2>3, <2>4
  <1>4. ASSUME NEW a \in some, NEW b \in some, NEW c \in some, Sooner(a, b, last), Sooner(b, c, last)
        PROVE  Sooner(a, c, last)
    BY <1>1, <1>4 DEF Sooner
  <1> QED BY <1>2, <1>3, <1>4 DEF TotalOrder

\* With a time on each purchase, any that may have been the last ends an order.
LEMMA OrderWithLast ==
    ASSUME NEW some, Bought(some), \A row \in some : TimeKnown(row),
           NEW last, MayBeLast(last, some), NEW n, n = Cardinality(some)
    PROVE  \E s \in Orders(some) : s[n] = last
  <1> DEFINE R == {p \in some \X some : Sooner(p[1], p[2], last)}
  <1>1. \A a, b \in some : <<a, b>> \in R <=> Sooner(a, b, last)
    OBVIOUS
  <1> HIDE DEF R
  <1>2. TotalOrder(R, some)
    BY <1>1, SoonerOrders
  <1>3. n \in Nat /\ n \in 1..n
    BY FS_EmptySet, FS_CardinalityType DEF Bought
  <1>4. PICK s \in [1..n -> some] : Sorted(s, n, R) /\ Enumerates(s, n, some)
    <2>1. IsFiniteSet(some)
      BY DEF Bought
    <2> QED BY <1>2, <2>1, SortedListing
  <1>5. /\ \A i, j \in 1..n : s[i] = s[j] => i = j
        /\ \A a \in some : \E i \in 1..n : s[i] = a
    BY <1>4 DEF Enumerates
  <1>6. \A a \in some : a.date \in Nat /\ a.id \in Nat /\ a.time \in Nat
    BY DEF Bought, TimeKnown
  <1>7. ASSUME NEW i \in 1..n, NEW j \in 1..n, i < j
        PROVE  s[i].date <= s[j].date /\ (s[i].date = s[j].date => s[i].time <= s[j].time)
    <2>1. Sooner(s[i], s[j], last)
      BY <1>1, <1>4, <1>7 DEF Sorted
    <2> QED BY <1>6, <2>1 DEF Sooner
  <1>8. s \in Orders(some)
    BY <1>4, <1>5, <1>7 DEF Orders
  <1>9. s[n] = last
    <2>1. PICK i \in 1..n : s[i] = last
      BY <1>5 DEF MayBeLast
    <2> SUFFICES ASSUME i < n PROVE FALSE
      BY <1>3, <2>1
    <2>2. Sooner(last, s[n], last)
      BY <1>1, <1>3, <1>4, <2>1 DEF Sorted
    <2>3. /\ s[n].date <= last.date
          /\ s[n].date = last.date => s[n].time <= last.time
      BY <1>3 DEF MayBeLast
    <2>4. last \in some
      BY DEF MayBeLast
    <2> QED BY <1>3, <1>6, <2>2, <2>3, <2>4 DEF Sooner
  <1> QED BY <1>8, <1>9

LEMMA LatestOfOrders ==
    ASSUME NEW bought, Bought(bought), NEW possible,
           possible = {s[Cardinality(bought)].price : s \in Orders(bought)}
    PROVE  /\ possible \subseteq Latest(bought)
           /\ (\A row \in bought : TimeKnown(row)) /\ Cardinality(possible) = 1
                => Latest(bought) = possible
  <1>2. PICK n : n = Cardinality(bought)
    OBVIOUS
  <1>3. possible = {s[n].price : s \in Orders(bought)}
    BY <1>2
  <1>5. PICK day : day = SameDay(bought)
    OBVIOUS
  <1>6. PICK newest : newest = {row \in day : \A other \in day : other.time <= row.time}
    OBVIOUS
  <1>7. Latest(bought) = IF {row \in day : TimeKnown(row)} = day /\ Cardinality(PricesOf(newest)) = 1
                         THEN PricesOf(newest) ELSE PricesOf(day)
    BY <1>5, <1>6 DEF Latest, TimeKnown
  <1>8. ASSUME NEW s \in Orders(bought)
        PROVE  s[n] \in day /\ ({row \in day : TimeKnown(row)} = day => s[n] \in newest)
    <2>1. MayBeLast(s[n], bought)
      BY <1>2, LastOfOrder
    <2>2. s[n] \in day
      BY <1>5, <2>1 DEF SameDay, MayBeLast
    <2>3. \A other \in day : other \in bought /\ other.date = s[n].date
      <3>1. \A row \in bought : row.date \in Nat
        BY DEF Bought
      <3> QED BY <1>5, <2>1, <2>2, <3>1 DEF SameDay, MayBeLast
    <2>4. ASSUME {row \in day : TimeKnown(row)} = day PROVE s[n] \in newest
      <3>1. \A other \in day : TimeKnown(other)
        BY <2>4
      <3> QED BY <1>6, <2>1, <2>2, <2>3, <3>1 DEF MayBeLast
    <2> QED BY <2>2, <2>4
  <1>9. possible \subseteq Latest(bought)
    BY <1>3, <1>7, <1>8 DEF PricesOf
  <1>10. ASSUME \A row \in bought : TimeKnown(row), Cardinality(possible) = 1
         PROVE  Latest(bought) = possible
    <2>1. {row \in day : TimeKnown(row)} = day
      BY <1>5, <1>10 DEF SameDay
    <2>2. ASSUME NEW row \in newest PROVE row.price \in possible
      <3>1. MayBeLast(row, bought)
        <4>1. \A other \in bought : other.date \in Nat /\ (other.date = row.date => other \in day)
          BY <1>5, <1>6 DEF Bought, SameDay
        <4> QED BY <1>5, <1>6, <4>1 DEF MayBeLast, SameDay
      <3>2. PICK s \in Orders(bought) : s[n] = row
        BY <1>2, <1>10, <3>1, OrderWithLast
      <3> QED BY <1>3, <3>2
    <2>3. PricesOf(newest) = possible
      BY <1>3, <1>8, <2>1, <2>2 DEF PricesOf
    <2> QED BY <1>7, <1>10, <2>1, <2>3
  <1> QED BY <1>9, <1>10

LEMMA LatestGuessesNever ==
    ASSUME RowsTyped
    PROVE  LatestNeverGuesses
  <1>1. ASSUME NEW include \in BOOLEAN, NEW store \in Branches, NEW bought,
               bought = AtStore(store, Comparable(include)), bought # {}
        PROVE  Bought(bought)
    <2>1. \A row \in bought : row \in rows /\ Genuine(row) /\ row.date \in Nat
      BY <1>1, ComparedRows DEF AtStore
    <2>2. \A row \in bought : row.id \in Nat /\ row.time \in Nat \cup {Unknown}
      BY <2>1, ProductPricesAssumption DEF Genuine, Row
    <2>3. IsFiniteSet(bought)
      BY <2>1, FS_Subset DEF RowsTyped
    <2> QED BY <1>1, <2>1, <2>2, <2>3 DEF Bought, RowsTyped
  <1>2. ASSUME NEW include \in BOOLEAN, NEW store \in Branches,
               AtStore(store, Comparable(include)) # {}
        PROVE  LET bought == AtStore(store, Comparable(include))
                   possible == {s[Cardinality(bought)].price : s \in Orders(bought)}
               IN  /\ possible \subseteq Latest(bought)
                   /\ (\A row \in bought : row.precision = "datetime" /\ row.time # Unknown)
                        /\ Cardinality(possible) = 1 => Latest(bought) = possible
    BY <1>1, <1>2, LatestOfOrders DEF TimeKnown
  <1> QED BY <1>2 DEF LatestNeverGuesses

LEMMA RightAnswers ==
    ASSUME RowsTyped
    PROVE  AnswersRight
  BY GuessedNothing, FirstIsLowest, AgreedAnswers, LatestGuessesNever DEF AnswersRight, LowestIsRight

-----------------------------------------------------------------------------
(* The pages of the history                                                *)

LEMMA TwoNumbers ==
    ASSUME NEW a \in Int, NEW b \in Int
    PROVE  /\ Min({a, b}) = IF a <= b THEN a ELSE b
           /\ Max({a, b}) = IF a <= b THEN b ELSE a
  <1>1. \E x \in {a, b} : \A y \in {a, b} : x <= y
    OBVIOUS
  <1>2. \E x \in {a, b} : \A y \in {a, b} : x >= y
    OBVIOUS
  <1>3. Min({a, b}) \in {a, b} /\ \A y \in {a, b} : Min({a, b}) <= y
    BY <1>1 DEF Min
  <1>4. Max({a, b}) \in {a, b} /\ \A y \in {a, b} : Max({a, b}) >= y
    BY <1>2 DEF Max
  <1> HIDE DEF Min, Max
  <1> QED BY <1>3, <1>4

LEMMA PageSizes ==
    ASSUME NEW limit \in Limits
    PROVE  PageSize(limit) \in Nat \ {0}
  <1>1. CASE limit = Unknown
    BY <1>1, ProductPricesAssumption DEF PageSize
  <1>2. CASE limit # Unknown
    <2>1. limit \in Int /\ MaxPageSize \in Int
      BY <1>2, ProductPricesAssumption
    <2>2. PICK n \in Int : n = Min({limit, MaxPageSize})
      BY <2>1, TwoNumbers
    <2>3. PageSize(limit) = Max({1, n})
      BY <1>2, <2>2 DEF PageSize
    <2>4. Max({1, n}) = IF 1 <= n THEN n ELSE 1
      BY TwoNumbers
    <2> QED BY <2>3, <2>4
  <1> QED BY <1>1, <1>2

LEMMA Keys ==
    ASSUME RowsTyped
    PROVE  /\ \A row \in rows : SortKey(row) \in Nat \X Nat
           /\ \A a, b \in rows : a # b => Precedes(SortKey(a), SortKey(b)) \/ Precedes(SortKey(b), SortKey(a))
  <1>1. \A row \in rows : row.id \in Nat /\ row.date \in Nat \cup {Unknown}
    BY ProductPricesAssumption DEF RowsTyped, Genuine, Row
  <1>2. \A row \in rows : /\ SortKey(row) \in Nat \X Nat
                          /\ SortKey(row)[2] = row.id
    BY <1>1 DEF SortKey
  <1>3. \A a, b \in rows : a.id = b.id => a = b
    BY DEF RowsTyped
  <1>4. ASSUME NEW a \in rows, NEW b \in rows, a # b
        PROVE  Precedes(SortKey(a), SortKey(b)) \/ Precedes(SortKey(b), SortKey(a))
    <2> DEFINE k == SortKey(a)  l == SortKey(b)
    <2>1. /\ k[1] \in Nat /\ k[2] \in Nat /\ l[1] \in Nat /\ l[2] \in Nat /\ k[2] # l[2]
      BY <1>2, <1>3, <1>4
    <2> HIDE DEF k, l
    <2>2. Precedes(k, l) \/ Precedes(l, k)
      BY <2>1 DEF Precedes
    <2> QED BY <2>2 DEF k, l
  <1> QED BY <1>2, <1>4

LEMMA KeysOrdered ==
    /\ \A k \in Nat \X Nat : ~Precedes(k, k)
    /\ \A k, l, m \in Nat \X Nat : Precedes(k, l) /\ Precedes(l, m) => Precedes(k, m)
  BY DEF Precedes

\* The rows of a history in the order of its pages.
InPages(s, n, some) ==
    /\ n \in Nat /\ s \in [1..n -> some]
    /\ \A i, j \in 1..n : i < j => Precedes(SortKey(s[i]), SortKey(s[j]))
    /\ \A i, j \in 1..n : s[i] = s[j] => i = j
    /\ \A row \in some : \E i \in 1..n : s[i] = row

LEMMA OrderedRows ==
    ASSUME RowsTyped, NEW some \in SUBSET rows
    PROVE  InPages(Ordered(some), Cardinality(some), some)
  <1> DEFINE R == {p \in some \X some : Precedes(SortKey(p[1]), SortKey(p[2]))}
             n == Cardinality(some)
             Good(s) == \A i, j \in DOMAIN s : i < j => Precedes(SortKey(s[i]), SortKey(s[j]))
  <1>1. \A a, b \in some : <<a, b>> \in R <=> Precedes(SortKey(a), SortKey(b))
    OBVIOUS
  <1> HIDE DEF R
  <1>2. TotalOrder(R, some)
    <2>1. \A a \in some : SortKey(a) \in Nat \X Nat
      BY Keys
    <2>2. \A a \in some : <<a, a>> \notin R
      BY <1>1, <2>1, KeysOrdered
    <2>3. \A a, b, c \in some : <<a, b>> \in R /\ <<b, c>> \in R => <<a, c>> \in R
      BY <1>1, <2>1, KeysOrdered
    <2>4. \A a, b \in some : a # b => <<a, b>> \in R \/ <<b, a>> \in R
      BY <1>1, Keys
    <2> QED BY <2>2, <2>3, <2>4 DEF TotalOrder
  <1>3. IsFiniteSet(some) /\ n \in Nat
    BY FS_Subset, FS_CardinalityType DEF RowsTyped
  <1> HIDE DEF n
  <1>4. \A s \in [1..n -> some] : Good(s) <=> Sorted(s, n, R)
    BY <1>1 DEF Sorted
  <1>5. \E s \in [1..n -> some] : Good(s)
    BY <1>2, <1>3, <1>4, SortedExists DEF n
  <1>6. Ordered(some) = CHOOSE s \in [1..n -> some] : Good(s)
    BY DEF Ordered, n
  <1> DEFINE t == Ordered(some)
  <1>7. t \in [1..n -> some] /\ Good(t)
    BY <1>5, <1>6
  <1> HIDE DEF t
  <1>8. \A i, j \in 1..n : i < j => <<t[i], t[j]>> \in R
    BY <1>4, <1>7 DEF Sorted
  <1>9. ASSUME NEW i \in 1..n, NEW j \in 1..n, t[i] = t[j] PROVE i = j
    <2>1. t[i] \in some /\ t[j] \in some
      BY <1>7
    <2>2. ~(i < j) /\ ~(j < i)
      BY <1>2, <1>8, <1>9, <2>1 DEF TotalOrder
    <2> QED BY <1>3, <2>2
  <1>10. t \in Surjection(1..n, some)
    <2>1. t \in Injection(1..n, some)
      BY <1>7, <1>9 DEF Injection, IsInjective
    <2>2. IsFiniteSet(1..n) /\ Cardinality(1..n) = n
      BY <1>3, FS_Interval
    <2> QED BY <1>3, <2>1, <2>2, FS_Injection DEF n
  <1>11. \A row \in some : \E i \in 1..n : t[i] = row
    BY <1>10 DEF Surjection
  <1>12. \A i, j \in 1..n : i < j => Precedes(SortKey(t[i]), SortKey(t[j]))
    BY <1>7
  <1>13. InPages(t, n, some)
    BY <1>3, <1>7, <1>9, <1>11, <1>12 DEF InPages
  <1> QED BY <1>13 DEF n, t

-----------------------------------------------------------------------------
(* A client turns the pages                                                *)

SeenIds == {walk.seen[i] : i \in DOMAIN walk.seen}

Walks == [cursor : {<<>>} \cup (Nat \X Nat), seen : Seq(RowIds), steady : SUBSET RowIds,
          ended : BOOLEAN]

IdsDrawn ==
    /\ usedIds \subseteq RowIds
    /\ \A row \in rows : row.id \in usedIds

SeenOnce == \A i, j \in DOMAIN walk.seen : walk.seen[i] = walk.seen[j] => i = j

\* The cursor divides the rows: the client has none of those after it, and before
\* it all that were there since it began.
CursorDivides ==
    /\ walk.ended => walk.steady \subseteq SeenIds
    /\ ~walk.ended =>
         /\ \A row \in After(walk.cursor) : row.id \notin SeenIds
         /\ \A i \in walk.steady : i \in SeenIds \/ \E row \in After(walk.cursor) : row.id = i

PagesInv ==
    /\ walk \in Walks
    /\ SeenIds \subseteq usedIds
    /\ SeenOnce
    /\ CursorDivides

\* What a page adds to the walk: the first k of the n rows that come after the
\* cursor, all of them if it is the last page.
PageOf(rest, n, some, size, k, ids) ==
    /\ some = After(walk.cursor)
    /\ some \subseteq rows
    /\ InPages(rest, n, some)
    /\ size \in Nat \ {0} /\ k \in Nat /\ k <= n
    /\ n <= size => k = n
    /\ n > size => k = size
    /\ ids \in Seq(RowIds) /\ Len(ids) = k
    /\ \A i \in 1..k : rest[i] \in some /\ ids[i] = rest[i].id
    /\ walk' = [cursor |-> IF n <= size THEN <<>> ELSE SortKey(rest[size]),
                seen |-> walk.seen \o ids,
                steady |-> IF walk.cursor = <<>> THEN {row.id : row \in rows} ELSE walk.steady,
                ended |-> n <= size]

LEMMA PageRead ==
    ASSUME RowsTyped, NEW limit \in Limits, ReadPage(limit)
    PROVE  \E rest, n, some, size, k, ids : PageOf(rest, n, some, size, k, ids)
  <1>1. PICK some : some = After(walk.cursor)
    OBVIOUS
  <1>2. some \in SUBSET rows
    BY <1>1 DEF After
  <1>3. PICK rest : rest = Ordered(some)
    OBVIOUS
  <1>4. PICK n : n = Cardinality(some)
    OBVIOUS
  <1>5. InPages(rest, n, some)
    BY <1>2, <1>3, <1>4, OrderedRows
  <1>6. PICK size \in Nat \ {0} : size = PageSize(limit)
    BY PageSizes
  <1>7. n \in Nat /\ rest \in Seq(some) /\ Len(rest) = n
    BY <1>5 DEF InPages
  <1>8. PICK k : k = Min({size, n})
    OBVIOUS
  <1>9. k \in Nat /\ k <= n /\ (n <= size => k = n) /\ (n > size => k = size)
    <2>1. k = IF size <= n THEN size ELSE n
      BY <1>6, <1>7, <1>8, TwoNumbers
    <2> QED BY <1>6, <1>7, <2>1
  <1>10. PICK page : page = SubSeq(rest, 1, k)
    OBVIOUS
  <1>11. /\ page \in Seq(some) /\ Len(page) = k /\ DOMAIN page = 1..k
         /\ \A i \in 1..k : page[i] = rest[i]
    <2>1. 1 \in Int /\ k \in Int /\ \A i \in 1..k : rest[i] \in some
      BY <1>5, <1>7, <1>9 DEF InPages
    <2>2. /\ page \in Seq(some) /\ Len(page) = IF 1 <= k THEN k - 1 + 1 ELSE 0
          /\ \A i \in 1 .. k - 1 + 1 : page[i] = rest[1 + i - 1]
      BY <1>10, <2>1, SubSeqProperties
    <2>3. Len(page) = k /\ \A i \in 1..k : page[i] = rest[i]
      BY <1>9, <2>2
    <2> QED BY <2>2, <2>3
  <1>12. PICK ids : ids = [i \in DOMAIN page |-> page[i].id]
    OBVIOUS
  <1>13. \A i \in 1..k : rest[i] \in some /\ page[i] \in some /\ page[i].id \in RowIds
    <2>1. \A row \in some : row.id \in RowIds
      BY <1>2 DEF RowsTyped, Genuine, Row
    <2>2. \A i \in 1..k : i \in 1..n
      BY <1>7, <1>9
    <2>3. \A i \in 1..n : rest[i] \in some
      BY <1>5 DEF InPages
    <2> QED BY <1>11, <2>1, <2>2, <2>3
  <1>14. ids \in Seq(RowIds) /\ Len(ids) = k /\ \A i \in 1..k : ids[i] = rest[i].id
    <2>1. ids = [i \in 1..k |-> page[i].id]
      BY <1>11, <1>12
    <2>2. ids \in [1..k -> RowIds]
      BY <1>13, <2>1
    <2>3. ids \in Seq(RowIds) /\ Len(ids) = k
      BY <1>9, <2>2, SeqDef
    <2> QED BY <1>11, <2>1, <2>3
  <1>15. walk' = [cursor |-> IF Len(rest) <= size THEN <<>> ELSE SortKey(page[size]),
                  seen |-> walk.seen \o ids,
                  steady |-> IF walk.cursor = <<>> THEN {row.id : row \in rows}
                             ELSE walk.steady,
                  ended |-> Len(rest) <= size]
    BY <1>1, <1>3, <1>6, <1>7, <1>8, <1>10, <1>12 DEF ReadPage
  <1>16. ~(n <= size) => page[size] = rest[size]
    <2>1. ~(n <= size) => k = size /\ size \in 1..k
      BY <1>6, <1>7, <1>9
    <2> QED BY <1>11, <2>1
  <1>17. walk' = [cursor |-> IF n <= size THEN <<>> ELSE SortKey(rest[size]),
                  seen |-> walk.seen \o ids,
                  steady |-> IF walk.cursor = <<>> THEN {row.id : row \in rows} ELSE walk.steady,
                  ended |-> n <= size]
    BY <1>7, <1>15, <1>16
  <1>18. PageOf(rest, n, some, size, k, ids)
    BY <1>1, <1>2, <1>5, <1>6, <1>9, <1>13, <1>14, <1>17 DEF PageOf
  <1> QED BY <1>18

\* The rows of a page are new to the client.
LEMMA PageSeen ==
    ASSUME RowsTyped, IdsDrawn, PagesInv, ~walk.ended,
           NEW rest, NEW n, NEW some, NEW size, NEW k, NEW ids,
           PageOf(rest, n, some, size, k, ids)
    PROVE  /\ walk'.seen \in Seq(RowIds)
           /\ SeenIds' = SeenIds \cup {rest[i].id : i \in 1..k}
           /\ SeenIds' \subseteq usedIds
           /\ SeenOnce'
  <1>1. /\ walk.seen \in Seq(RowIds) /\ SeenIds \subseteq usedIds
        /\ \A i, j \in DOMAIN walk.seen : walk.seen[i] = walk.seen[j] => i = j
        /\ \A row \in some : row.id \notin SeenIds
    BY DEF PagesInv, Walks, SeenOnce, CursorDivides, PageOf
  <1>2. /\ walk'.seen = walk.seen \o ids /\ ids \in Seq(RowIds) /\ Len(ids) = k /\ k \in Nat
        /\ \A i \in 1..k : rest[i] \in some /\ rest[i] \in rows /\ ids[i] = rest[i].id
    BY DEF PageOf
  <1>3. PICK before, after : before = walk.seen /\ after = walk'.seen
    OBVIOUS
  <1>4. PICK m \in Nat : m = Len(before)
    BY <1>1, <1>3
  <1>5. /\ after \in Seq(RowIds) /\ DOMAIN after = 1 .. m + k /\ DOMAIN before = 1..m
        /\ \A i \in 1..m : after[i] = before[i]
        /\ \A i \in 1..k : after[m + i] = ids[i]
    <2>1. before \in Seq(RowIds) /\ after = before \o ids /\ ids \in Seq(RowIds)
      BY <1>1, <1>2, <1>3
    <2>2. /\ after \in Seq(RowIds) /\ Len(after) = m + k
          /\ \A i \in 1 .. m + k : after[i] = IF i <= m THEN before[i] ELSE ids[i - m]
      BY <1>2, <1>4, <2>1, ConcatProperties
    <2>3. ASSUME NEW i \in 1..k PROVE after[m + i] = ids[i]
      <3>1. m + i \in 1 .. m + k /\ ~(m + i <= m) /\ (m + i) - m = i
        BY <1>2, <1>4
      <3> QED BY <2>2, <3>1
    <2> QED BY <1>2, <1>4, <2>1, <2>2, <2>3
  <1>6. SeenIds = {before[i] : i \in 1..m} /\ SeenIds' = {after[i] : i \in 1 .. m + k}
    BY <1>3, <1>5 DEF SeenIds
  <1>7. ASSUME NEW i \in 1 .. m + k
        PROVE  \/ i \in 1..m /\ after[i] = before[i] /\ after[i] \in SeenIds
               \/ \E j \in 1..k : i = m + j /\ after[i] = rest[j].id
    <2>1. CASE i <= m
      BY <1>4, <1>5, <1>6, <2>1
    <2>2. CASE ~(i <= m)
      <3>1. i - m \in 1..k /\ i = m + (i - m)
        BY <1>2, <1>4, <2>2
      <3>2. after[m + (i - m)] = rest[i - m].id
        BY <1>2, <1>5, <3>1
      <3> QED BY <3>1, <3>2
    <2> QED BY <2>1, <2>2
  <1>8. SeenIds' = SeenIds \cup {rest[i].id : i \in 1..k}
    <2>1. \A i \in 1..m : i \in 1 .. m + k
      BY <1>2, <1>4
    <2>2. \A i \in 1..k : m + i \in 1 .. m + k /\ after[m + i] = rest[i].id
      BY <1>2, <1>4, <1>5
    <2>3. SeenIds \subseteq SeenIds'
      BY <1>5, <1>6, <2>1
    <2>4. \A i \in 1..k : rest[i].id \in SeenIds'
      BY <1>6, <2>2
    <2>5. \A x \in SeenIds' : x \in SeenIds \/ \E j \in 1..k : x = rest[j].id
      BY <1>6, <1>7
    <2> QED BY <2>3, <2>4, <2>5
  <1>9. SeenIds' \subseteq usedIds
    BY <1>1, <1>2, <1>8 DEF IdsDrawn
  <1>10. \A i, j \in 1..k : rest[i].id = rest[j].id => i = j
    <2>1. \A i \in 1..k : i \in 1..n
      BY DEF PageOf, InPages
    <2>2. \A i, j \in 1..n : rest[i] = rest[j] => i = j
      BY DEF PageOf, InPages
    <2> QED BY <1>2, <2>1, <2>2 DEF RowsTyped
  <1>11. ASSUME NEW i \in 1 .. m + k, NEW j \in 1 .. m + k, after[i] = after[j]
         PROVE  i = j
    <2>1. CASE i \in 1..m /\ after[i] = before[i] /\ after[i] \in SeenIds
      <3>1. j \in 1..m /\ after[j] = before[j]
        BY <1>1, <1>2, <1>7, <1>11, <2>1
      <3> QED BY <1>1, <1>3, <1>5, <1>11, <2>1, <3>1
    <2>2. CASE \E a \in 1..k : i = m + a /\ after[i] = rest[a].id
      <3>1. PICK a \in 1..k : i = m + a /\ after[i] = rest[a].id
        BY <2>2
      <3>2. after[j] \notin SeenIds
        BY <1>1, <1>2, <1>11, <3>1
      <3>3. PICK b \in 1..k : j = m + b /\ after[j] = rest[b].id
        BY <1>7, <3>2
      <3>4. a = b
        BY <1>10, <1>11, <3>1, <3>3
      <3> QED BY <3>1, <3>3, <3>4
    <2> QED BY <1>7, <2>1, <2>2
  <1>12. SeenOnce'
    BY <1>3, <1>5, <1>11 DEF SeenOnce
  <1> QED BY <1>3, <1>5, <1>8, <1>9, <1>12

\* After a page the client has what comes before the cursor of the next one.
LEMMA PageDivides ==
    ASSUME RowsTyped, PagesInv, ~walk.ended, UNCHANGED rows,
           NEW rest, NEW n, NEW some, NEW size, NEW k, NEW ids,
           PageOf(rest, n, some, size, k, ids),
           SeenIds' = SeenIds \cup {rest[i].id : i \in 1..k},
           walk'.seen \in Seq(RowIds)
    PROVE  walk' \in Walks /\ CursorDivides'
  <1>1. /\ some = After(walk.cursor) /\ some \subseteq rows
        /\ size \in Nat \ {0} /\ k \in Nat /\ n \in Nat
        /\ n <= size => k = n
        /\ n > size => k = size
        /\ rest \in [1..n -> some]
        /\ \A row \in some : \E i \in 1..n : rest[i] = row
    BY DEF PageOf, InPages
  <1>2. PICK cursor : cursor = walk.cursor
    OBVIOUS
  <1>3. PICK steady : steady = IF cursor = <<>> THEN {row.id : row \in rows} ELSE walk.steady
    OBVIOUS
  <1>4. PICK next : next = IF n <= size THEN <<>> ELSE SortKey(rest[size])
    OBVIOUS
  <1>5. walk' = [cursor |-> next, seen |-> walk'.seen, steady |-> steady, ended |-> n <= size]
    <2>1. walk' = [cursor |-> next, seen |-> walk.seen \o ids, steady |-> steady,
                   ended |-> n <= size]
      BY <1>2, <1>3, <1>4 DEF PageOf
    <2> QED BY <2>1
  <1>6. walk'.cursor = next /\ walk'.steady = steady /\ walk'.ended = (n <= size)
    BY <1>5
  <1>7. cursor \in {<<>>} \cup (Nat \X Nat) /\ walk.steady \in SUBSET RowIds
    BY <1>2 DEF PagesInv, Walks
  <1>8. \A row \in rows : row.id \in RowIds /\ SortKey(row) \in Nat \X Nat
    BY Keys DEF RowsTyped, Genuine, Row
  <1>9. \A row \in rows : row \in some <=> (cursor = <<>> \/ Precedes(cursor, SortKey(row)))
    BY <1>1, <1>2 DEF After
  <1>10. \A row \in some : row.id \notin SeenIds
    BY <1>1 DEF PagesInv, CursorDivides
  <1>11. \A i \in steady : i \in SeenIds \/ \E row \in some : row.id = i
    <2>1. CASE cursor = <<>>
      <3>1. \A row \in rows : row \in some
        BY <1>9, <2>1
      <3> QED BY <1>3, <2>1, <3>1
    <2>2. CASE cursor # <<>>
      BY <1>1, <1>3, <2>2 DEF PagesInv, CursorDivides
    <2> QED BY <2>1, <2>2
  <1>12. steady \in SUBSET RowIds
    BY <1>3, <1>7, <1>8
  <1>13. next \in {<<>>} \cup (Nat \X Nat)
    <2>1. ~(n <= size) => size \in 1..n
      BY <1>1
    <2>2. ~(n <= size) => rest[size] \in rows
      BY <1>1, <2>1
    <2> QED BY <1>4, <1>8, <2>2
  <1>14. walk' \in Walks
    <2>1. PICK seen \in Seq(RowIds) : seen = walk'.seen
      OBVIOUS
    <2>2. PICK ended : ended = (n <= size)
      OBVIOUS
    <2>3. (n <= size) \in BOOLEAN
      OBVIOUS
    <2>4. ended \in BOOLEAN
      BY <2>2, <2>3
    <2>5. walk' = [cursor |-> next, seen |-> seen, steady |-> steady, ended |-> ended]
      BY <1>5, <2>1, <2>2
    <2> QED BY <1>12, <1>13, <2>1, <2>4, <2>5 DEF Walks
  <1>15. CASE n <= size
    <2>1. \A row \in some : row.id \in SeenIds'
      BY <1>1, <1>15
    <2>2. steady \subseteq SeenIds'
      BY <1>11, <2>1
    <2>3. CursorDivides'
      BY <1>6, <1>15, <2>2 DEF CursorDivides
    <2> QED BY <1>14, <2>3
  <1>16. CASE ~(n <= size)
    <2>1. k = size /\ size \in 1..n
      BY <1>1, <1>16
    <2>2. next = SortKey(rest[size]) /\ rest[size] \in some /\ rest[size] \in rows
      BY <1>1, <1>4, <1>16, <2>1
    <2>3. next \in Nat \X Nat /\ next # <<>>
      BY <1>8, <2>2
    <2>4. \A i, j \in 1..n : i < j => Precedes(SortKey(rest[i]), SortKey(rest[j]))
      BY DEF PageOf, InPages
    <2>5. \A row \in rows : row \in After(next)' <=> Precedes(next, SortKey(row))
      BY <2>3 DEF After, SortKey
    <2>6. After(next)' \subseteq rows
      BY DEF After
    <2>7. ASSUME NEW row \in After(next)' PROVE row.id \notin SeenIds'
      <3>1. row \in rows /\ Precedes(next, SortKey(row)) /\ SortKey(row) \in Nat \X Nat
        BY <1>8, <2>5, <2>6
      <3>2. row.id \notin SeenIds
        <4>1. CASE cursor = <<>>
          BY <1>9, <1>10, <3>1, <4>1
        <4>2. CASE cursor # <<>>
          <5>1. Precedes(cursor, next) /\ cursor \in Nat \X Nat
            BY <1>7, <1>9, <2>2, <4>2
          <5>2. Precedes(cursor, SortKey(row))
            BY <2>3, <3>1, <5>1, KeysOrdered
          <5> QED BY <1>9, <1>10, <3>1, <5>2
        <4> QED BY <4>1, <4>2
      <3>3. ASSUME NEW i \in 1..k PROVE row.id # rest[i].id
        <4>1. i \in 1..n /\ (i = size \/ i < size) /\ rest[i] \in rows
          BY <1>1, <2>1
        <4>2. row # rest[i]
          <5>1. ASSUME row = rest[i] PROVE FALSE
            <6>1. i = size \/ Precedes(SortKey(row), next)
              BY <2>1, <2>2, <2>4, <4>1, <5>1
            <6>2. Precedes(next, next)
              <7>1. CASE i = size
                BY <2>2, <3>1, <5>1, <7>1
              <7>2. CASE Precedes(SortKey(row), next)
                BY <2>3, <3>1, <7>2, KeysOrdered
              <7> QED BY <6>1, <7>1, <7>2
            <6> QED BY <2>3, <6>2, KeysOrdered
          <5> QED BY <5>1
        <4> QED BY <3>1, <4>1, <4>2 DEF RowsTyped
      <3> QED BY <3>2, <3>3
    <2>8. ASSUME NEW i \in steady PROVE i \in SeenIds' \/ \E row \in After(next)' : row.id = i
      <3>1. CASE i \in SeenIds
        BY <3>1
      <3>2. CASE \E row \in some : row.id = i
        <4>1. PICK row \in some : row.id = i
          BY <3>2
        <4>2. PICK j \in 1..n : rest[j] = row
          BY <1>1, <4>1
        <4>3. CASE j \in 1..k
          BY <4>1, <4>2, <4>3
        <4>4. CASE j \notin 1..k
          <5>1. size < j
            BY <1>1, <2>1, <4>4
          <5>2. row \in After(next)'
            BY <1>1, <2>1, <2>2, <2>4, <2>5, <4>2, <5>1
          <5> QED BY <4>1, <5>2
        <4> QED BY <4>3, <4>4
      <3> QED BY <1>11, <3>1, <3>2
    <2>9. After(walk.cursor)' = After(next)'
      BY <1>6 DEF After
    <2>10. CursorDivides'
      BY <1>6, <1>16, <2>7, <2>8, <2>9 DEF CursorDivides
    <2> QED BY <1>14, <2>10
  <1> QED BY <1>14, <1>15, <1>16

-----------------------------------------------------------------------------
(* The inductive invariant                                                 *)

PricesInv ==
    /\ draft \in Drafts \cup {Unknown}
    /\ RowsTyped
    /\ IdsDrawn
    /\ PagesInv

LEMMA Started == Init => PricesInv
  <1> SUFFICES ASSUME Init PROVE PricesInv
    OBVIOUS
  <1>1. RowsTyped /\ IdsDrawn
    BY FS_EmptySet DEF Init, RowsTyped, IdsDrawn
  <1>2. walk.cursor = <<>> /\ walk.seen = <<>> /\ walk.steady = {} /\ walk.ended = FALSE
    BY DEF Init, NoWalk
  <1>3. <<>> \in Seq(RowIds)
    BY EmptySeq
  <1>4. walk \in Walks
    BY <1>3 DEF Init, NoWalk, Walks
  <1>5. SeenIds = {} /\ SeenOnce
    BY <1>2 DEF SeenIds, SeenOnce
  <1>6. CursorDivides
    BY <1>2, <1>5 DEF CursorDivides
  <1> QED BY <1>1, <1>4, <1>5, <1>6 DEF Init, PricesInv, PagesInv

LEMMA PageStep ==
    ASSUME PricesInv, NEW limit \in Limits, ReadPage(limit)
    PROVE  PricesInv'
  <1>1. RowsTyped /\ IdsDrawn /\ PagesInv /\ ~walk.ended /\ UNCHANGED <<draft, rows, usedIds>>
    BY DEF PricesInv, ReadPage
  <1>2. PICK rest, n, some, size, k, ids : PageOf(rest, n, some, size, k, ids)
    BY <1>1, PageRead
  <1>3. /\ walk'.seen \in Seq(RowIds)
        /\ SeenIds' = SeenIds \cup {rest[i].id : i \in 1..k}
        /\ SeenIds' \subseteq usedIds
        /\ SeenOnce'
    BY <1>1, <1>2, PageSeen
  <1>4. walk' \in Walks /\ CursorDivides'
    BY <1>1, <1>2, <1>3, PageDivides
  <1>5. PagesInv'
    BY <1>1, <1>3, <1>4 DEF PagesInv, Walks
  <1>6. RowsTyped' /\ IdsDrawn'
    BY <1>1 DEF RowsTyped, IdsDrawn
  <1> QED BY <1>1, <1>5, <1>6 DEF PricesInv

LEMMA ConfirmStep ==
    ASSUME PricesInv, NEW r \in Receipts, NEW p \in Purchases, Confirm(r, p)
    PROVE  PricesInv'
  <1>1. PICK id \in RowIds \ usedIds :
          /\ rows' = {row \in rows : row.receipt # r} \cup {Qualified(r, p, id)}
          /\ usedIds' = usedIds \cup {id}
          /\ walk' = [walk EXCEPT !.steady = {i \in @ : \E row \in rows :
                                                row.id = i /\ row.receipt # r}]
          /\ draft' = Unknown
    BY DEF Confirm
  <1>2. PICK kept, new : kept = {row \in rows : row.receipt # r} /\ new = Qualified(r, p, id)
    OBVIOUS
  <1>3. rows' = kept \cup {new}
    BY <1>1, <1>2
  <1>4. Genuine(new) /\ new.id = id
    BY <1>2, QualifiedRow
  <1>5. RowsTyped /\ IdsDrawn /\ PagesInv
    BY DEF PricesInv
  <1>6. RowsTyped'
    <2>1. IsFiniteSet(kept) /\ kept \subseteq rows
      BY <1>2, <1>5, FS_Subset DEF RowsTyped
    <2>2. IsFiniteSet(kept \cup {new})
      BY <2>1, FS_AddElement
    <2>3. \A row \in kept \cup {new} : Genuine(row)
      BY <1>4, <1>5, <2>1 DEF RowsTyped
    <2>4. \A row \in kept : row.id # new.id
      BY <1>4, <1>5, <2>1 DEF IdsDrawn
    <2>5. \A a, b \in kept \cup {new} : a.id = b.id => a = b
      BY <1>5, <2>1, <2>4 DEF RowsTyped
    <2> QED BY <1>3, <2>2, <2>3, <2>5 DEF RowsTyped
  <1>7. IdsDrawn'
    BY <1>1, <1>2, <1>3, <1>4, <1>5 DEF IdsDrawn
  <1>8. PICK steady : steady = {i \in walk.steady : \E row \in kept : row.id = i}
    OBVIOUS
  <1>9. walk' = [walk EXCEPT !.steady = steady]
    <2>1. {i \in walk.steady : \E row \in rows : row.id = i /\ row.receipt # r} = steady
      BY <1>2, <1>8
    <2> QED BY <1>1, <2>1
  <1>10. walk \in Walks
    BY <1>5 DEF PagesInv
  <1>11. /\ walk' \in Walks /\ walk'.cursor = walk.cursor /\ walk'.seen = walk.seen
         /\ walk'.ended = walk.ended /\ walk'.steady = steady
    BY <1>8, <1>9, <1>10 DEF Walks
  <1>12. SeenIds' = SeenIds /\ SeenOnce'
    BY <1>5, <1>11 DEF SeenIds, SeenOnce, PagesInv
  <1>13. SeenIds \subseteq usedIds
    BY <1>5 DEF PagesInv
  <1>14. CursorDivides'
    <2>1. CASE walk.ended
      BY <1>5, <1>8, <1>11, <1>12, <2>1 DEF PagesInv, CursorDivides
    <2>2. CASE ~walk.ended
      <3>1. PICK cursor : cursor = walk.cursor
        OBVIOUS
      <3>2. \A row \in kept : row \in After(walk.cursor) <=> row \in After(walk.cursor)'
        BY <1>2, <1>3, <1>11 DEF After
      <3>3. After(walk.cursor)' \subseteq kept \cup {new}
        BY <1>3 DEF After
      <3>4. new.id \notin SeenIds
        BY <1>4, <1>13
      <3>5. /\ \A row \in After(walk.cursor) : row.id \notin SeenIds
            /\ \A i \in walk.steady : i \in SeenIds \/ \E row \in After(walk.cursor) : row.id = i
        BY <1>5, <2>2 DEF PagesInv, CursorDivides
      <3>6. \A row \in After(walk.cursor)' : row.id \notin SeenIds
        BY <3>2, <3>3, <3>4, <3>5
      <3>7. ASSUME NEW i \in steady, i \notin SeenIds
            PROVE  \E row \in After(walk.cursor)' : row.id = i
        <4>1. PICK row \in After(walk.cursor) : row.id = i
          BY <1>8, <3>5, <3>7
        <4>2. PICK other \in kept : other.id = i
          BY <1>8, <3>7
        <4>3. row = other
          BY <1>2, <1>5, <4>1, <4>2 DEF RowsTyped, After
        <4> QED BY <3>2, <4>1, <4>2, <4>3
      <3> QED BY <1>11, <1>12, <2>2, <3>6, <3>7 DEF CursorDivides
    <2> QED BY <2>1, <2>2
  <1>15. PagesInv'
    BY <1>1, <1>11, <1>12, <1>13, <1>14 DEF PagesInv, Walks
  <1> QED BY <1>1, <1>6, <1>7, <1>15 DEF PricesInv

LEMMA OtherSteps ==
    ASSUME PricesInv, SaveDraft \/ StartOver \/ UNCHANGED vars
    PROVE  PricesInv'
  <1>1. CASE SaveDraft
    <2>1. draft' \in Drafts /\ UNCHANGED <<rows, usedIds, walk>>
      BY <1>1 DEF SaveDraft
    <2> QED BY <2>1 DEF PricesInv, RowsTyped, IdsDrawn, PagesInv, SeenIds, SeenOnce,
                        CursorDivides, After
  <1>2. CASE StartOver
    <2>1. UNCHANGED <<draft, rows, usedIds>> /\ walk' = NoWalk
      BY <1>2 DEF StartOver
    <2>2. walk'.cursor = <<>> /\ walk'.seen = <<>> /\ walk'.steady = {} /\ walk'.ended = FALSE
      BY <2>1 DEF NoWalk
    <2>3. walk' \in Walks
      <3>1. <<>> \in Seq(RowIds)
        BY EmptySeq
      <3> QED BY <2>1, <3>1 DEF NoWalk, Walks
    <2>4. SeenIds' = {} /\ SeenOnce'
      BY <2>2 DEF SeenIds, SeenOnce
    <2>5. CursorDivides'
      BY <2>2, <2>4 DEF CursorDivides
    <2>6. RowsTyped' /\ IdsDrawn'
      BY <2>1 DEF PricesInv, RowsTyped, IdsDrawn
    <2> QED BY <2>1, <2>3, <2>4, <2>5, <2>6 DEF PricesInv, PagesInv, Walks
  <1>3. CASE UNCHANGED vars
    BY <1>3 DEF vars, PricesInv, RowsTyped, IdsDrawn, PagesInv, SeenIds, SeenOnce,
                CursorDivides, After
  <1> QED BY <1>1, <1>2, <1>3

\* Every behaviour keeps the rows genuine and the cursor between what a client
\* has read and what it has not (_qualify, _publish_prices, _page).
THEOREM PricesInvariant == Spec => []PricesInv
  <1>1. PricesInv /\ [Next]_vars => PricesInv'
    BY PageStep, ConfirmStep, OtherSteps DEF Next
  <1> QED BY Started, <1>1, PTL DEF Spec

-----------------------------------------------------------------------------
(* What follows for the answers                                            *)

LEMMA TypesFollow ==
    ASSUME PricesInv
    PROVE  TypeOK
  <1>1. rows \subseteq Row
    BY DEF PricesInv, RowsTyped, Genuine
  <1>2. \A row \in rows : row.published => row.price # Unknown /\ row.store # Unknown
    BY PublishedRow DEF PricesInv, RowsTyped
  <1> QED BY <1>1, <1>2 DEF PricesInv, IdsDrawn, PagesInv, SeenIds, TypeOK

\* A published observation has a price and a store, and a client is given no row
\* that was not stored.
THEOREM TypeCorrect == Spec => []TypeOK
  <1>1. PricesInv => TypeOK
    BY TypesFollow
  <1> QED BY PricesInvariant, <1>1, PTL

\* Whatever a receipt says, the unit price times the quantity gives the amount back
\* to half a millionth per unit, and grams and kilos agree (pricing.py).
THEOREM LinesPricedRight == Spec => []PricedRight
  <1>1. PricesInv => PricedRight
    BY DraftPricedRight DEF PricesInv
  <1> QED BY PricesInvariant, <1>1, PTL

\* Of any number of purchases, in any stores and on any days: the lowest price is
\* that of the first cheapest of one basis, nothing unknown was guessed for it, and
\* a store's latest price is certain only if every order of its purchases ends with
\* it (historical_lowest, latest_per_store).
THEOREM AnswersAreRight == Spec => []AnswersRight
  <1>1. PricesInv => AnswersRight
    BY RightAnswers DEF PricesInv
  <1> QED BY PricesInvariant, <1>1, PTL

\* A client that turns the pages while receipts are confirmed and corrected gets
\* no row twice and misses none that was there all the time, for any number of
\* rows, whatever limits it asks for (_page).
THEOREM PagesReadOnce == Spec => []PagesReadEachOnce
  <1>1. PricesInv => PagesReadEachOnce
    BY DEF PricesInv, PagesInv, SeenOnce, CursorDivides, SeenIds, PagesReadEachOnce
  <1> QED BY PricesInvariant, <1>1, PTL
=============================================================================
