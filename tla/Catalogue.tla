----------------------------- MODULE Catalogue -----------------------------
(***************************************************************************)
(* The private catalogue that migration 005 builds from the confirmed      *)
(* lines of each owner (services/private_catalog_backfill.py): products,   *)
(* with the global one they come from or the text they are known by, and   *)
(* the aliases under which later lines find them.                          *)
(***************************************************************************)
EXTENDS Naturals, FiniteSetsExt, SequencesExt

CONSTANTS
    Users, Texts, Stores, Globals, \* owners, normalised texts, stores, products of v1
    Nothing                        \* no store, no date, no product

\* A confirmed line of v1 with the fields of its receipt.
Line == [id : Nat, receipt : Nat, user : Users, text : Texts, store : Stores \cup {Nothing},
         date : Nat \cup {Nothing}, product : Globals \cup {Nothing}]

EmptyCatalogue == [products |-> {}, aliases |-> {}]

\* Lines of one owner are one product by their global product, else by their text.
ProductKey(line) ==
    IF line.product # Nothing THEN <<line.user, "legacy", line.product>>
    ELSE <<line.user, "text", line.text>>

AliasKey(line) == <<line.user, line.text, line.store>>

LinesOf(key, lines) == {line \in lines : ProductKey(line) = key}
FirstOf(some) == CHOOSE line \in some : \A other \in some : line.id <= other.id
Dated(some) == {line \in some : line.date # Nothing}
Newest(some) == {line \in Dated(some) : \A other \in Dated(some) : other.date <= line.date}

\* A plausible bug: the first line of a product is not counted.
ProductAfterFirst(key, copy, some) ==
    [id |-> <<key, copy>>, name |-> FirstOf(IF Dated(some) = {} THEN some ELSE Newest(some)).text,
     last |-> IF Dated(some) = {} THEN Nothing ELSE FirstOf(Newest(some)).date,
     count |-> Cardinality(some) - 1]

\* _ProductDraft: the name of the newest line, an undated one is never newer.
Product(key, copy, some) ==
    [id |-> <<key, copy>>, name |-> FirstOf(IF Dated(some) = {} THEN some ELSE Newest(some)).text,
     last |-> IF Dated(some) = {} THEN Nothing ELSE FirstOf(Newest(some)).date,
     count |-> Cardinality(some)]

\* The drafts in the order of their first lines.
Drafts(lines) ==
    LET firsts == {FirstOf(LinesOf(ProductKey(line), lines)) : line \in lines}
        sooner(line) == {other \in firsts : other.id < line.id}
    IN  [i \in 1..Cardinality(firsts) |->
            ProductKey(CHOOSE line \in firsts : Cardinality(sooner(line)) = i - 1)]

KeysOf(pairs) == {pair[1] : pair \in pairs}

\* The product that a draft belongs to already, if any: by its global product, or
\* by the first of its texts that is an alias.
Resolve(key, some, aliases, stored) ==
    IF key[2] = "legacy" THEN {p.id : p \in {q \in stored : q.id[1] = key}}
    ELSE LET known == {line \in some : AliasKey(line) \in KeysOf(aliases)}
         IN  {alias[2] : alias \in {a \in aliases : known # {} /\ a[1] = AliasKey(FirstOf(known))}}

\* One draft: a product to insert at the end, or an update of the one it belongs
\* to, which reaches stored rows only; then the aliases that nobody has.
AddDraft(lines, tables, key) ==
    LET some == LinesOf(key, lines)
        copy == Cardinality({p \in tables.stored : p.id[1] = key})
        found == Resolve(key, some, tables.aliases, tables.stored)
        draft == Product(key, copy, some)
        target == IF found = {} THEN {draft.id} ELSE found
        free == {AliasKey(line) : line \in some} \ KeysOf(tables.aliases)
    IN  [stored |-> {IF p.id \in found THEN [p EXCEPT !.last = draft.last, !.count = draft.count]
                     ELSE p : p \in tables.stored},
         new |-> tables.new \cup (IF found = {} THEN {draft} ELSE {}),
         aliases |-> tables.aliases \cup (free \X target)]

\* _backfill_products over the lines it reads and what the tables hold.
Backfill(lines, catalogue) ==
    LET tables == FoldLeft(LAMBDA t, key : AddDraft(lines, t, key),
                           [stored |-> catalogue.products, new |-> {}, aliases |-> catalogue.aliases],
                           Drafts(lines))
    IN  [products |-> tables.stored \cup tables.new, aliases |-> tables.aliases]

\* Some line without a global product has the text and store of a line with one.
Mixed(lines) ==
    \E a, b \in lines : a.product = Nothing /\ b.product # Nothing /\ AliasKey(a) = AliasKey(b)
=============================================================================
