--------------------------- MODULE ProductPrices ---------------------------
(***************************************************************************)
(* The prices of one product: the lines that receipts buy it on are        *)
(* drafted, qualified, published and corrected                             *)
(* (receipt_revision_service.py, _qualify and _publish_prices), and a      *)
(* client reads lowest price, latest prices and the history page by page   *)
(* meanwhile (product_price_v2_service.py, domain/price_history.py). A     *)
(* page is one snapshot here; PriceSummary interleaves its statements.     *)
(* Every sort of the code ends in the row ID, so its lists are sets here.  *)
(***************************************************************************)
EXTENDS Pricing, Sequences, FiniteSets, FiniteSetsExt

CONSTANTS
    Receipts,   \* receipts of the account, each with one line of the product
    Drafts,     \* lines that a draft may hold
    Purchases,  \* lines, with store and date, that a receipt may be confirmed with
    Branches,   \* stores whose identity is a branch; others are a chain at most
    RowIds,     \* row IDs in their order, drawn at random (a bound)
    Limits,     \* values of the limit parameter, Unknown when absent
    DefaultPageSize, MaxPageSize

Line == [type : LineTypes, quantity : Int \cup {Unknown}, unit : Units,
         net : Int \cup {Unknown}, condition : Conditions, identity : Identities]
Purchase == [line : Line, store : Branches \cup {"chain", Unknown},
             date : Nat \cup {Unknown}, precision : {"date", "datetime", Unknown},
             time : Nat \cup {Unknown}]

ASSUME ProductPricesAssumption ==
    /\ Drafts \subseteq Line /\ Purchases \subseteq Purchase
    /\ RowIds \subseteq Nat
    /\ Limits \subseteq Int \cup {Unknown}
    /\ DefaultPageSize \in Nat \ {0} /\ MaxPageSize \in Nat \ {0}

VARIABLES
    draft,    \* the line of the draft under review, or Unknown
    rows,     \* observations and unpublished lines of the current revisions
    usedIds,  \* row IDs drawn so far
    walk      \* the client that turns the pages of the history

vars == <<draft, rows, usedIds, walk>>

\* What a confirmed line leaves behind for the readers: a published
\* observation, or the line itself with its reasons.
Row == [id : RowIds, receipt : Receipts, line : Line, price : Int \cup {Unknown},
        basis : Bases, store : Branches \cup {"chain", Unknown}, date : Nat \cup {Unknown},
        precision : {"date", "datetime", Unknown}, time : Nat \cup {Unknown},
        own : SUBSET Reasons, published : BOOLEAN]

NoWalk == [cursor |-> <<>>, seen |-> <<>>, steady |-> {}, ended |-> FALSE]

Init ==
    /\ draft = Unknown /\ rows = {} /\ usedIds = {}
    /\ walk = NoWalk

\* A plausible bug: a line without a store is published.
QualifiedAnywhere(r, p, id) ==
    [id |-> id, receipt |-> r, line |-> p.line, price |-> Price(p.line),
     basis |-> Basis(p.line.unit), store |-> p.store, date |-> p.date,
     precision |-> p.precision, time |-> p.time, own |-> LineReasons(p.line),
     published |-> LineReasons(p.line) = {}]

\* A line of the purchase p with its reasons; published if it is eligible.
Qualified(r, p, id) ==
    LET reasons == LineReasons(p.line)
                     \cup (IF p.precision = Unknown THEN {"unknown_date"} ELSE {})
                     \cup (IF p.store = Unknown THEN {"unknown_store"} ELSE {})
    IN  [id |-> id, receipt |-> r, line |-> p.line, price |-> Price(p.line),
         basis |-> Basis(p.line.unit), store |-> p.store, date |-> p.date,
         precision |-> p.precision, time |-> p.time, own |-> reasons,
         published |-> reasons \subseteq {"unknown_date"}]

\* One field of the draft is filled in or corrected. A draft is evaluated and
\* stored, and read by nobody else: it is edited while no receipt is confirmed
\* only (a bound).
SaveDraft ==
    /\ rows = {} /\ walk = NoWalk
    /\ \E line \in Drafts :
         /\ draft # Unknown =>
              \E f \in DOMAIN line : line = [draft EXCEPT ![f] = line[f]]
         /\ draft' = line
    /\ UNCHANGED <<rows, usedIds, walk>>

\* A receipt is confirmed, or corrected by a new revision: its row is replaced.
Confirm(r, p) ==
    \E id \in RowIds \ usedIds :
        /\ rows' = {row \in rows : row.receipt # r} \cup {Qualified(r, p, id)}
        /\ usedIds' = usedIds \cup {id}
        /\ walk' = [walk EXCEPT !.steady = {i \in @ : \E row \in rows :
                                              row.id = i /\ row.receipt # r}]
        /\ draft' = Unknown

-----------------------------------------------------------------------------
(* What a reader makes of the rows                                         *)

RankingReasons(row, include) ==
    LET own == IF row.published THEN {}
               ELSE IF include /\ row.price # Unknown THEN row.own \ {"conditional"}
               ELSE row.own
    IN  (own \ {"unknown_date"})
          \cup (IF row.date = Unknown \/ row.precision = Unknown THEN {"unknown_date"} ELSE {})
          \cup (IF row.store \in Branches THEN {} ELSE {"store_not_branch"})

Rankable(include) == {row \in rows : RankingReasons(row, include) = {}}

Of(basis, ranked) == {row \in ranked : row.basis = basis}

Earlier(a, b) == a.date < b.date \/ (a.date = b.date /\ a.id < b.id)
First(some) == CHOOSE row \in some : \A other \in some \ {row} : Earlier(row, other)
Last(some) == CHOOSE row \in some : \A other \in some \ {row} : Earlier(other, row)

\* A plausible bug: every basis is compared with every other.
EveryBasis(ranked) == ranked

\* The rows in the basis most of them have, the newest purchase's if tied.
InBasis(ranked) ==
    LET most == Max({Cardinality(Of(b, ranked)) : b \in Bases})
        leaders == {b \in Bases : Cardinality(Of(b, ranked)) = most}
    IN  IF ranked = {} THEN {}
        ELSE Of(Last({row \in ranked : row.basis \in leaders}).basis, ranked)

Comparable(include) == InBasis(Rankable(include))

\* The lowest price and who had it first: one row per store.
Lowest(ranked) ==
    LET least == {row \in ranked : \A other \in ranked : other.price >= row.price}
        first(store) == First({row \in least : row.store = store})
    IN  [price |-> First(least).price, primary |-> First(least),
         tied |-> {first(row.store) : row \in least}]

AtStore(store, ranked) == {row \in ranked : row.store = store}
SameDay(some) == {row \in some : \A other \in some : other.date <= row.date}
PricesOf(some) == {row.price : row \in some}

\* A plausible bug: purchases without a time are taken to be earlier ones.
LatestTimedFirst(some) ==
    LET day == SameDay(some)
        timed == {row \in day : row.precision = "datetime" /\ row.time # Unknown}
        newest == {row \in timed : \A other \in timed : other.time <= row.time}
    IN  IF timed = {} THEN PricesOf(day) ELSE PricesOf(newest)

\* The prices that the last purchase may have had: one of them when it is
\* certain which purchase was last, or what it cost.
Latest(some) ==
    LET day == SameDay(some)
        timed == {row \in day : row.precision = "datetime" /\ row.time # Unknown}
        newest == {row \in day : \A other \in day : other.time <= row.time}
    IN  IF timed = day /\ Cardinality(PricesOf(newest)) = 1
        THEN PricesOf(newest) ELSE PricesOf(day)

-----------------------------------------------------------------------------
(* The pages of the history                                                *)

PageSize(limit) ==
    IF limit = Unknown THEN DefaultPageSize ELSE Max({1, Min({limit, MaxPageSize})})

\* Newest first, undated last, then by row ID.
SortKey(row) == <<IF row.date = Unknown THEN 0 ELSE row.date + 1, row.id>>
Precedes(k, l) == k[1] > l[1] \/ (k[1] = l[1] /\ k[2] < l[2])

\* A plausible bug: only the date decides what comes after the cursor.
AfterDate(cursor) == {row \in rows : cursor = <<>> \/ SortKey(row)[1] < cursor[1]}

After(cursor) == {row \in rows : cursor = <<>> \/ Precedes(cursor, SortKey(row))}

Ordered(some) ==
    CHOOSE s \in [1..Cardinality(some) -> some] :
        \A i, j \in DOMAIN s : i < j => Precedes(SortKey(s[i]), SortKey(s[j]))

ReadPage(limit) ==
    LET rest == Ordered(After(walk.cursor))
        size == PageSize(limit)
        page == SubSeq(rest, 1, Min({size, Len(rest)}))
    IN  /\ ~walk.ended
        /\ rows # {}
        /\ walk' = [cursor |-> IF Len(rest) <= size THEN <<>> ELSE SortKey(page[size]),
                    seen |-> walk.seen \o [i \in DOMAIN page |-> page[i].id],
                    steady |-> IF walk.cursor = <<>> THEN {row.id : row \in rows}
                               ELSE walk.steady,
                    ended |-> Len(rest) <= size]
        /\ UNCHANGED <<draft, rows, usedIds>>

\* The client starts from the first page again.
StartOver ==
    /\ walk.ended
    /\ walk' = NoWalk
    /\ UNCHANGED <<draft, rows, usedIds>>

Next ==
    \/ SaveDraft
    \/ \E r \in Receipts, p \in Purchases : Confirm(r, p)
    \/ \E limit \in Limits : ReadPage(limit)
    \/ StartOver

Spec == Init /\ [][Next]_vars

-----------------------------------------------------------------------------
(* Properties of one line                                                  *)

Known(line) == {f \in DOMAIN line : line[f] # Unknown}

TypeOK ==
    /\ draft \in Drafts \cup {Unknown}
    /\ rows \subseteq Row
    /\ \A row \in rows : row.published => row.price # Unknown /\ row.store # Unknown
    /\ usedIds \subseteq RowIds
    /\ {walk.seen[i] : i \in DOMAIN walk.seen} \subseteq usedIds

\* The quantity as printed, in kg or litres if it was weighed or measured; some
\* gram or millilitre quantities have more decimals there than can be printed.
Printable(line) == line.unit \in {"g", "ml"} => line.quantity % 1000 = 0
Printed(line) == IF line.unit \in {"g", "ml"} THEN line.quantity \div 1000 ELSE line.quantity

\* What a price p may be off by, in half parts: half a millionth of a krone for each
\* unit it is divided by, and for grams and millilitres the price of half a gram.
Slack(line, p) ==
    Normalized(line.quantity, line.unit)
        + (IF line.unit \in {"g", "ml"} THEN Abs(p) * Finer ELSE 0)

\* Multiplied by the quantity that was printed, the price gives the amount back.
PriceRestoresAmount ==
    draft # Unknown /\ Price(draft) # Unknown /\ Printable(draft) =>
        2 * Abs(Price(draft) * Printed(draft) - draft.net * Micro) <= Slack(draft, Price(draft))

\* The line printed with a thousand times larger unit.
InLarger(line, unit) == [line EXCEPT !.unit = unit, !.quantity = @ \div 1000]

\* The same purchase printed in grams and in kilos, or millilitres and litres, has
\* the same basis, and in whole grams the same price and reasons.  Else only the
\* gram line is rounded: its price differs by what it may be off by, and a quantity
\* that rounds to nothing has none (normalize_quantity).
UnitsAgree ==
    draft # Unknown /\ draft.quantity # Unknown =>
        \A u \in {<<"g", "kg">>, <<"ml", "l">>} :
            draft.unit = u[1] /\ draft.quantity % 1000 = 0 =>
                LET same == InLarger(draft, u[2])
                    whole == draft.quantity % (1000 * Finer) = 0
                IN  /\ Basis(draft.unit) = Basis(same.unit)
                    /\ LineReasons(draft) \ {"non_positive_quantity"}
                         = LineReasons(same) \ {"non_positive_quantity"}
                    /\ whole => /\ Price(draft) = Price(same)
                                /\ LineReasons(draft) = LineReasons(same)
                    /\ Price(draft) # Unknown /\ Price(same) # Unknown =>
                         2 * Abs(Price(draft) - Price(same)) * same.quantity
                           <= Slack(draft, Price(draft)) + same.quantity

\* A unit price says what was paid: times the quantity on the receipt, however many
\* decimals it has, it gives the amount back as nearly as the two roundings allow,
\* and so it is in whatever unit of one basis the line was written.
PricedRight ==
    /\ PriceRestoresAmount
    /\ UnitsAgree

-----------------------------------------------------------------------------
(* Properties of the history                                               *)

\* The orders in which the purchases some may have been made, as far as dates
\* and certain times tell.
Orders(some) ==
    {s \in [1..Cardinality(some) -> some] :
        /\ \A i, j \in DOMAIN s : i # j => s[i] # s[j]
        /\ \A i, j \in DOMAIN s : i < j =>
             /\ s[i].date <= s[j].date
             /\ (s[i].date = s[j].date /\ s[i].precision = "datetime"
                   /\ s[j].precision = "datetime"
                   /\ s[i].time # Unknown /\ s[j].time # Unknown)
                  => s[i].time <= s[j].time}

\* A store's latest price is certain only if every order that dates and times
\* allow ends with it, a span holds every price that may have been the last, and
\* with a time on each purchase there is no span without need
\* (latest_per_store; price_history.py:8).
LatestNeverGuesses ==
    \A include \in BOOLEAN : \A store \in Branches :
        LET bought == AtStore(store, Comparable(include))
            possible == {s[Cardinality(bought)].price : s \in Orders(bought)}
        IN  bought # {} =>
              /\ possible \subseteq Latest(bought)
              /\ (\A row \in bought : row.precision = "datetime" /\ row.time # Unknown)
                   /\ Cardinality(possible) = 1 => Latest(bought) = possible

\* Whatever is compared was bought in a branch on a known day, as a product of a
\* confirmed identity in a known amount, without a condition unless one was asked
\* for: nothing unknown is guessed (pricing.py:3, price_history.py:96).
NothingGuessed ==
    \A include \in BOOLEAN : \A row \in Comparable(include) :
        /\ \A f \in DOMAIN row.line : row.line[f] # Unknown
        /\ row.line.type = "product" /\ row.line.identity = "confirmed"
        /\ row.line.condition = "none" \/ include
        /\ row.store \in Branches /\ row.date # Unknown /\ row.price # Unknown

\* No purchase in the unit that the lowest price is compared in is cheaper or had
\* that price earlier, and each store that had it is named once (historical_lowest).
LowestIsFirst ==
    \A include \in BOOLEAN :
        LET ranked == Comparable(include)
            low == Lowest(ranked)
        IN  ranked # {} =>
              /\ \A row \in rows : row.basis = low.primary.basis /\ row \in Rankable(include)
                    => row.price > low.price
                       \/ (row.price = low.price /\ (row = low.primary \/ Earlier(low.primary, row)))
              /\ \A row \in ranked : row.basis = low.primary.basis
              /\ \A a, b \in low.tied : a.store = b.store => a = b
              /\ PricesOf(low.tied) = {low.price}

\* The answers of one page agree: no store's latest price is below the lowest one,
\* and asking for conditional prices too never raises the lowest price, unless they
\* decide the basis (get_product_prices).
AnswersAgree ==
    \A include \in BOOLEAN :
        LET ranked == Comparable(include)
            plain == Comparable(FALSE)
        IN  /\ \A row \in ranked : \A price \in Latest(AtStore(row.store, ranked)) :
                 price >= Lowest(ranked).price
            /\ plain # {} /\ {row.basis : row \in plain} = {row.basis : row \in ranked}
                 => Lowest(ranked).price <= Lowest(plain).price

\* The lowest price is right: of qualified lines of one basis only, no line of
\* its kind is cheaper, and the answers that show it agree.
LowestIsRight ==
    /\ NothingGuessed
    /\ LowestIsFirst
    /\ AnswersAgree

\* The answers of a product's page are right: the lowest price and the latest ones.
AnswersRight == LowestIsRight /\ LatestNeverGuesses

\* A client that turns the pages while receipts are confirmed and corrected
\* gets no row twice, and by the last page every row that was there all the time
\* (_page; pagination.py:3).
PagesReadEachOnce ==
    /\ \A i, j \in DOMAIN walk.seen : walk.seen[i] = walk.seen[j] => i = j
    /\ walk.ended => walk.steady \subseteq {walk.seen[i] : i \in DOMAIN walk.seen}
=============================================================================
