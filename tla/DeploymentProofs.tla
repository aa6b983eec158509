-------------------------- MODULE DeploymentProofs --------------------------
(***************************************************************************)
(* Theorems about Deployment, for any containers, lines, databases and     *)
(* number of crashes: nothing is created twice and no step is skipped, no  *)
(* receipt slips between a backfill and the commit, and the catalogue that *)
(* the upgrade leaves is closed and settled.                               *)
(*                                                                         *)
(* First what a schema says of its revision, then what the fold over the   *)
(* drafts makes of any lines, then the invariant of the containers.        *)
(***************************************************************************)
EXTENDS Deployment, FiniteFacts

-----------------------------------------------------------------------------
(* Schemas and revisions                                                   *)

LEMMA TwelveMigrations == HeadRevision = 12 /\ Revisions = 1..12 /\ Migrations[4] = {}
  BY DEF HeadRevision, Revisions, Migrations

\* The script declares what the migrations create.
LEMMA DeclaredRight ==
    /\ Declared = {1, 2, 3} \cup 5..12
    /\ \A k \in Declared : SchemaRevisions[k] = Migrations[k]
  <1>1. Declared = {1, 2, 3} \cup 5..12
    BY DEF Declared, SchemaRevisions
  <1>2. /\ Migrations[1] = CreateUsers /\ Migrations[2] = CreateReceipts
        /\ Migrations[3] = CreateProducts /\ Migrations[5] = PrivateCatalog
        /\ Migrations[6] = LineUnits /\ Migrations[7] = ReceiptRevisions
        /\ Migrations[8] = ShoppingLists /\ Migrations[9] = AuthSessions
        /\ Migrations[10] = JobOutbox /\ Migrations[11] = PayloadHash
        /\ Migrations[12] = OcrExtraction
    BY DEF Migrations
  <1>3. Declared = {1, 2, 3, 5, 6, 7, 8, 9, 10, 11, 12}
    BY <1>1
  <1>4. SchemaRevisions[1] = CreateUsers
    BY DEF SchemaRevisions, CreateUsers
  <1>5. SchemaRevisions[2] = CreateReceipts
    BY DEF SchemaRevisions, CreateReceipts
  <1>6. SchemaRevisions[3] = CreateProducts
    BY DEF SchemaRevisions, CreateProducts
  <1>7. SchemaRevisions[5] = PrivateCatalog
    BY DEF SchemaRevisions, PrivateCatalog
  <1>8. SchemaRevisions[6] = LineUnits
    BY DEF SchemaRevisions, LineUnits
  <1>9. SchemaRevisions[7] = ReceiptRevisions
    BY DEF SchemaRevisions, ReceiptRevisions
  <1>10. SchemaRevisions[8] = ShoppingLists
    BY DEF SchemaRevisions, ShoppingLists
  <1>11. SchemaRevisions[9] = AuthSessions
    BY DEF SchemaRevisions, AuthSessions
  <1>12. SchemaRevisions[10] = JobOutbox
    BY DEF SchemaRevisions, JobOutbox
  <1>13. SchemaRevisions[11] = PayloadHash
    BY DEF SchemaRevisions, PayloadHash
  <1>14. SchemaRevisions[12] = OcrExtraction
    BY DEF SchemaRevisions, OcrExtraction
  <1> QED BY <1>1, <1>2, <1>3, <1>4, <1>5, <1>6, <1>7, <1>8, <1>9, <1>10, <1>11, <1>12, <1>13, <1>14

LEMMA CreatedUpto ==
    /\ Upto(0) = {}
    /\ \A k \in Nat : Upto(k + 1) = Upto(k) \cup Creates(k + 1)
    /\ \A j, k \in Nat : j <= k => Upto(j) \subseteq Upto(k)
    /\ \A k \in Nat : \A o \in Upto(k) : \E j \in 1..k : o \in Creates(j)
    /\ \A k \in Nat : \A j \in 1..k : Creates(j) \subseteq Upto(k)
    /\ \A j, k \in Nat : \A o \in Creates(j) : o \in Creates(k) => j = k
  <1>1. Upto(0) = {}
    BY DEF Upto
  <1>2. ASSUME NEW k \in Nat PROVE Upto(k + 1) = Upto(k) \cup Creates(k + 1)
    <2>1. 1 .. k + 1 = (1..k) \cup {k + 1}
      OBVIOUS
    <2> QED BY <2>1 DEF Upto
  <1>3. ASSUME NEW j \in Nat, NEW k \in Nat, j <= k PROVE Upto(j) \subseteq Upto(k)
    <2>1. 1..j \subseteq 1..k
      BY <1>3
    <2> QED BY <2>1 DEF Upto
  <1>4. \A j, k \in Nat : \A o \in Creates(j) : o \in Creates(k) => j = k
    BY DEF Creates
  <1> QED BY <1>1, <1>2, <1>3, <1>4 DEF Upto

\* A schema that is not refused is the one of the revision found in it, whole.
LEMMA DetectedRight ==
    ASSUME NEW d, d.objects \subseteq Upto(HeadRevision), d.torn \subseteq d.objects,
           ~Detect(d).refused
    PROVE  /\ Detect(d).revision \in 0..HeadRevision
           /\ d.objects = Upto(Detect(d).revision) /\ d.torn = {}
  <1> DEFINE V == Verified(d)
  <1>1. PICK r : r = Detect(d).revision
    OBVIOUS
  <1>2. r = Max(V \cup {0}) /\ ~ \E k \in Declared \ V : ~Missing(k, d)
    BY <1>1 DEF Detect, NewestOf
  <1>3. V \subseteq Declared /\ Declared \subseteq 1..12
    BY DeclaredRight DEF Verified
  <1>4. \A k \in Declared : ObjectsOf(k) = Creates(k)
    BY DeclaredRight DEF ObjectsOf, Creates
  <1>5. \A k \in V : Complete(k, d)
    BY <1>3 DEF Verified
  <1>6. ASSUME NEW k \in V, NEW j \in Declared, j <= k PROVE j \in V
    BY <1>3, <1>6 DEF Verified
  <1> HIDE DEF V
  <1>7. r \in V \cup {0} /\ \A k \in V \cup {0} : k <= r
    <2>1. V \cup {0} \in SUBSET (0..12) /\ V \cup {0} # {}
      BY <1>3
    <2> QED BY <1>2, <2>1, MaxNatural
  <1>8. r \in 0..12
    BY <1>3, <1>7
  <1>9. \A k \in Declared : k \in V <=> k <= r
    BY <1>3, <1>6, <1>7
  <1>10. \A k \in 1..12 : k = 4 \/ k \in Declared
    BY DeclaredRight
  <1>11. Creates(4) = {}
    BY TwelveMigrations DEF Creates
  <1>12. ASSUME NEW o \in d.objects PROVE o \in Upto(r)
    <2>1. PICK k \in 1..12 : o \in Creates(k)
      BY CreatedUpto, TwelveMigrations
    <2>2. k \in Declared /\ o \in ObjectsOf(k)
      BY <1>4, <1>10, <1>11, <2>1
    <2>3. k \in V
      BY <1>2, <2>2 DEF Missing
    <2>4. k \in 1..r
      BY <1>8, <1>9, <2>2, <2>3
    <2> QED BY <1>8, <2>1, <2>4, CreatedUpto
  <1>13. ASSUME NEW o \in Upto(r) PROVE o \in d.objects \ d.torn
    <2>1. PICK k \in 1..r : o \in Creates(k)
      BY <1>8, CreatedUpto
    <2>2. k \in Declared /\ k <= r
      BY <1>8, <1>10, <1>11, <2>1
    <2> QED BY <1>4, <1>5, <1>9, <2>1, <2>2 DEF Complete
  <1> QED BY <1>1, <1>8, <1>12, <1>13, TwelveMigrations

-----------------------------------------------------------------------------
(* The drafts that lines make                                              *)

LEMMA FirstLine ==
    ASSUME NEW some \in SUBSET Line, some # {}
    PROVE  FirstOf(some) \in some /\ \A other \in some : FirstOf(some).id <= other.id
  <1> DEFINE ids == {line.id : line \in some}
  <1>1. ids \in SUBSET Nat /\ ids # {}
    BY DEF Line
  <1>2. PICK n \in ids : \A m \in ids : n <= m
    BY <1>1, LeastNatural
  <1>3. PICK line \in some : line.id = n
    OBVIOUS
  <1>4. \A other \in some : line.id <= other.id
    BY <1>2, <1>3
  <1> QED BY <1>3, <1>4 DEF FirstOf

LEMMA NewestLine ==
    ASSUME NEW some \in SUBSET Lines, Dated(some) # {}
    PROVE  Newest(some) # {} /\ Newest(some) \subseteq some
  <1> DEFINE R == {p \in Lines \X Lines :
                     p[1].date < p[2].date \/ (p[1].date = p[2].date /\ p[1].id < p[2].id)}
  <1>1. /\ IsFiniteSet(Dated(some)) /\ Dated(some) \in SUBSET Lines
        /\ \A a \in Dated(some) : a.date \in Nat /\ a.id \in Nat
        /\ \A a, b \in Dated(some) : a.id = b.id => a = b
    BY LinesTyped, FS_Subset DEF Dated, Line
  <1>2. \A a, b \in Lines : <<a, b>> \in R <=> a.date < b.date \/ (a.date = b.date /\ a.id < b.id)
    OBVIOUS
  <1> HIDE DEF R
  <1>3. TotalOrder(R, Dated(some))
    <2>1. \A a \in Dated(some) : <<a, a>> \notin R
      BY <1>1, <1>2
    <2>2. \A a, b, c \in Dated(some) : <<a, b>> \in R /\ <<b, c>> \in R => <<a, c>> \in R
      BY <1>1, <1>2
    <2>3. \A a, b \in Dated(some) : a # b => <<a, b>> \in R \/ <<b, a>> \in R
      BY <1>1, <1>2
    <2> QED BY <2>1, <2>2, <2>3 DEF TotalOrder
  <1>4. PICK g \in Dated(some) : \A a \in Dated(some) \ {g} : <<a, g>> \in R
    BY <1>1, <1>3, GreatestExists
  <1>5. ASSUME NEW a \in Dated(some) PROVE a.date <= g.date
    <2>1. a = g \/ a.date < g.date \/ (a.date = g.date /\ a.id < g.id)
      BY <1>1, <1>2, <1>4
    <2> QED BY <1>1, <2>1
  <1> QED BY <1>5 DEF Newest, Dated

\* A product of lines has at least one of them, and the date of one.
LEMMA ProductMade ==
    ASSUME NEW some \in SUBSET Lines, some # {}, NEW key, NEW copy
    PROVE  /\ Product(key, copy, some).id = <<key, copy>>
           /\ Product(key, copy, some).count \in Nat \ {0}
           /\ Product(key, copy, some).last \in {line.date : line \in some}
           /\ Product(key, copy, some).name \in Texts
  <1>1. some \in SUBSET Line /\ Cardinality(some) \in Nat \ {0}
    BY LinesTyped, FS_Subset, FS_CardinalityType, FS_EmptySet
  <1>2. CASE Dated(some) = {}
    <2>1. \A line \in some : line.date = Nothing
      BY <1>2 DEF Dated
    <2>2. FirstOf(some) \in some
      BY <1>1, FirstLine
    <2> QED BY <1>1, <1>2, <2>1, <2>2 DEF Product, Line
  <1>3. CASE Dated(some) # {}
    <2>1. Newest(some) # {} /\ Newest(some) \subseteq some
      BY <1>3, NewestLine
    <2>2. FirstOf(Newest(some)) \in some
      BY <1>1, <2>1, FirstLine
    <2> QED BY <1>1, <1>3, <2>2 DEF Product, Line
  <1> QED BY <1>2, <1>3

LEMMA DraftOfLine ==
    ASSUME NEW lines \in SUBSET Lines, NEW line \in lines
    PROVE  /\ LinesOf(ProductKey(line), lines) \in SUBSET Lines
           /\ LinesOf(ProductKey(line), lines) # {}
           /\ FirstOf(LinesOf(ProductKey(line), lines)) \in LinesOf(ProductKey(line), lines)
  <1>1. LinesOf(ProductKey(line), lines) \in SUBSET Lines /\ line \in LinesOf(ProductKey(line), lines)
    BY DEF LinesOf
  <1>2. Lines \subseteq Line
    BY LinesTyped
  <1> QED BY <1>1, <1>2, FirstLine

Firsts(lines) == {FirstOf(LinesOf(ProductKey(line), lines)) : line \in lines}

LEMMA FirstsOfDrafts ==
    ASSUME NEW lines \in SUBSET Lines
    PROVE  /\ Firsts(lines) \subseteq lines /\ IsFiniteSet(Firsts(lines))
           /\ \A a, b \in Firsts(lines) : ProductKey(a) = ProductKey(b) => a = b
  <1>1. \A line \in lines : /\ FirstOf(LinesOf(ProductKey(line), lines)) \in lines
                            /\ ProductKey(FirstOf(LinesOf(ProductKey(line), lines))) = ProductKey(line)
    BY DraftOfLine DEF LinesOf
  <1>2. Firsts(lines) \subseteq lines
    BY <1>1 DEF Firsts
  <1>3. IsFiniteSet(Firsts(lines))
    BY <1>2, FS_Subset, LinesTyped
  <1>4. ASSUME NEW a \in Firsts(lines), NEW b \in Firsts(lines), ProductKey(a) = ProductKey(b)
        PROVE  a = b
    <2>1. PICK k \in lines : a = FirstOf(LinesOf(ProductKey(k), lines))
      BY DEF Firsts
    <2>2. PICK l \in lines : b = FirstOf(LinesOf(ProductKey(l), lines))
      BY DEF Firsts
    <2>3. ProductKey(k) = ProductKey(l)
      BY <1>1, <1>4, <2>1, <2>2
    <2> QED BY <2>1, <2>2, <2>3
  <1> QED BY <1>2, <1>3, <1>4

Nth(i, firsts) ==
    CHOOSE line \in firsts : Cardinality({other \in firsts : other.id < line.id}) = i - 1

\* Of n lines there is one with i - 1 before it.
LEMMA NthExists ==
    ASSUME NEW firsts \in SUBSET Lines, IsFiniteSet(firsts), NEW i \in 1..Cardinality(firsts)
    PROVE  /\ Nth(i, firsts) \in firsts
           /\ Cardinality({other \in firsts : other.id < Nth(i, firsts).id}) = i - 1
  <1> DEFINE n == Cardinality(firsts)
             R == {p \in firsts \X firsts : p[1].id < p[2].id}
  <1>0. n \in Nat
    BY FS_CardinalityType
  <1> HIDE DEF n
  <1>1. /\ \A a \in firsts : a.id \in Nat
        /\ \A a, b \in firsts : a.id = b.id => a = b
    BY LinesTyped DEF Line
  <1>2. \A a, b \in firsts : <<a, b>> \in R <=> a.id < b.id
    OBVIOUS
  <1> HIDE DEF R
  <1>3. TotalOrder(R, firsts)
    BY <1>1, <1>2 DEF TotalOrder
  <1>4. PICK s \in [1..n -> firsts] : Sorted(s, n, R) /\ Enumerates(s, n, firsts)
    BY <1>3, SortedListing DEF n
  <1>5. i \in 1..n /\ i \in Nat
    BY <1>0 DEF n
  <1>6. \A j, k \in 1..n : j < k => s[j].id < s[k].id
    BY <1>2, <1>4 DEF Sorted
  <1>7. {other \in firsts : other.id < s[i].id} = {s[j] : j \in 1 .. i - 1}
    <2>1. ASSUME NEW j \in 1 .. i - 1 PROVE s[j] \in firsts /\ s[j].id < s[i].id
      <3>1. j \in 1..n /\ j < i
        BY <1>0, <1>5
      <3> QED BY <1>4, <1>5, <1>6, <3>1
    <2>2. ASSUME NEW other \in firsts, other.id < s[i].id
          PROVE  \E j \in 1 .. i - 1 : other = s[j]
      <3>1. PICK j \in 1..n : s[j] = other
        BY <1>4 DEF Enumerates
      <3>2. ~(i < j) /\ i # j
        <4>1. s[i].id \in Nat /\ s[j].id \in Nat
          BY <1>1, <1>4, <1>5
        <4> QED BY <1>5, <1>6, <2>2, <3>1, <4>1
      <3>3. j \in 1 .. i - 1
        BY <1>0, <1>5, <3>2
      <3> QED BY <3>1, <3>3
    <2> QED BY <2>1, <2>2
  <1>8. Cardinality({s[j] : j \in 1 .. i - 1}) = i - 1
    <2> DEFINE T == {s[j] : j \in 1 .. i - 1}
               f == [j \in 1 .. i - 1 |-> s[j]]
    <2>1. f \in Bijection(1 .. i - 1, T)
      <3>1. f \in [1 .. i - 1 -> T]
        OBVIOUS
      <3>2. \A a, b \in 1 .. i - 1 : f[a] = f[b] => a = b
        <4>1. \A a \in 1 .. i - 1 : a \in 1..n /\ f[a] = s[a]
          BY <1>0, <1>5
        <4> QED BY <1>4, <4>1 DEF Enumerates
      <3>3. \A t \in T : \E a \in 1 .. i - 1 : f[a] = t
        OBVIOUS
      <3> HIDE DEF f, T
      <3> QED BY <3>1, <3>2, <3>3 DEF Bijection, Injection, Surjection, IsInjective
    <2>2. IsFiniteSet(1 .. i - 1) /\ Cardinality(1 .. i - 1) = i - 1
      <3>1. i - 1 \in Nat
        BY <1>5
      <3>2. IsFiniteSet(1 .. i - 1) /\ Cardinality(1 .. i - 1) = IF 1 > i - 1 THEN 0 ELSE (i - 1) - 1 + 1
        BY <3>1, FS_Interval
      <3> QED BY <3>1, <3>2
    <2> HIDE DEF f, T
    <2>3. Cardinality(T) = i - 1
      BY <2>1, <2>2, FS_Bijection DEF ExistsBijection
    <2> QED BY <2>3 DEF T
  <1>9. s[i] \in firsts /\ Cardinality({other \in firsts : other.id < s[i].id}) = i - 1
    BY <1>4, <1>5, <1>7, <1>8
  <1> QED BY <1>9 DEF Nth

Keys(lines) == {ProductKey(line) : line \in lines}

\* Each product of the lines has one draft.
LEMMA DraftsListed ==
    ASSUME NEW lines \in SUBSET Lines
    PROVE  /\ DOMAIN Drafts(lines) = 1..Len(Drafts(lines)) /\ Len(Drafts(lines)) \in Nat
           /\ \A i \in DOMAIN Drafts(lines) : Drafts(lines)[i] \in Keys(lines)
           /\ \A i, j \in DOMAIN Drafts(lines) : Drafts(lines)[i] = Drafts(lines)[j] => i = j
  <1> DEFINE firsts == Firsts(lines)
             n == Cardinality(firsts)
  <1>1. Drafts(lines) = [i \in 1..n |-> ProductKey(Nth(i, firsts))]
    BY DEF Drafts, Firsts, Nth
  <1>2. firsts \in SUBSET Lines /\ firsts \subseteq lines /\ IsFiniteSet(firsts)
    BY FirstsOfDrafts
  <1>3. n \in Nat
    BY <1>2, FS_CardinalityType
  <1>4. \A i \in 1..n : /\ Nth(i, firsts) \in firsts
                        /\ Cardinality({other \in firsts : other.id < Nth(i, firsts).id}) = i - 1
    BY <1>2, NthExists
  <1> HIDE DEF firsts, n
  <1>5. \A i \in 1..n : ProductKey(Nth(i, firsts)) \in Keys(lines)
    BY <1>2, <1>4 DEF Keys
  <1>6. ASSUME NEW i \in 1..n, NEW j \in 1..n, ProductKey(Nth(i, firsts)) = ProductKey(Nth(j, firsts))
        PROVE  i = j
    <2>1. Nth(i, firsts) = Nth(j, firsts)
      BY <1>4, <1>6, FirstsOfDrafts DEF firsts
    <2>2. i - 1 = j - 1
      BY <1>4, <2>1
    <2> QED BY <2>2
  <1> QED BY <1>1, <1>3, <1>5, <1>6

MadeOf(key, lines) == Product(key, 0, LinesOf(key, lines))
AliasKeys(lines) == {AliasKey(line) : line \in lines}

\* What the tables of a first run may hold.
FirstTables(lines) ==
    [stored : {{}}, new : SUBSET {MadeOf(key, lines) : key \in Keys(lines)},
     aliases : SUBSET (AliasKeys(lines) \X (Keys(lines) \X {0}))]

LEMMA LinesOfKey ==
    ASSUME NEW lines \in SUBSET Lines, NEW key \in Keys(lines)
    PROVE  /\ LinesOf(key, lines) \in SUBSET Lines /\ LinesOf(key, lines) # {}
           /\ LinesOf(key, lines) \subseteq lines
           /\ \A line \in LinesOf(key, lines) :
                /\ ProductKey(line) = key
                /\ AliasKey(line)[1] = key[1] /\ line.user = key[1]
                /\ key[2] # "legacy" => line.product = Nothing
  <1>1. LinesOf(key, lines) \in SUBSET Lines /\ LinesOf(key, lines) # {}
    BY DraftOfLine DEF Keys
  <1>2. ASSUME NEW line \in LinesOf(key, lines)
        PROVE  /\ ProductKey(line) = key /\ key[1] = line.user
               /\ line.product # Nothing => key[2] = "legacy"
    <2>1. ProductKey(line) = key
      BY DEF LinesOf
    <2> QED BY <2>1 DEF ProductKey
  <1> QED BY <1>1, <1>2 DEF LinesOf, AliasKey

\* A draft of a first run: its product, unless one of its texts is an alias already,
\* and the aliases that nobody has.
AddsDraft(t, key, lines, found, r) ==
    /\ found \subseteq {alias[2] : alias \in {a \in t.aliases : a[1][1] = key[1]}}
    /\ found # {} => /\ key[2] # "legacy"
                     /\ \E line \in LinesOf(key, lines) : AliasKey(line) \in KeysOf(t.aliases)
    /\ r \in FirstTables(lines)
    /\ r.new = t.new \cup (IF found = {} THEN {MadeOf(key, lines)} ELSE {})
    /\ r.aliases = t.aliases \cup
         (({AliasKey(line) : line \in LinesOf(key, lines)} \ KeysOf(t.aliases))
            \X (IF found = {} THEN {<<key, 0>>} ELSE found))

LEMMA DraftAdded ==
    ASSUME NEW lines \in SUBSET Lines, NEW key \in Keys(lines), NEW t \in FirstTables(lines)
    PROVE  \E found : AddsDraft(t, key, lines, found, AddDraft(lines, t, key))
  <1>1. PICK some : some = LinesOf(key, lines)
    OBVIOUS
  <1>2. /\ some \in SUBSET Lines /\ some \subseteq lines /\ some \in SUBSET Line
        /\ \A line \in some : /\ AliasKey(line)[1] = key[1]
    BY <1>1, LinesOfKey, LinesTyped
  <1>3. PICK found : found = Resolve(key, some, t.aliases, {})
    OBVIOUS
  <1>4. /\ t.stored = {} /\ t.new \subseteq {MadeOf(k, lines) : k \in Keys(lines)}
        /\ t.aliases \subseteq AliasKeys(lines) \X (Keys(lines) \X {0})
    BY DEF FirstTables
  <1>5. PICK free : free = {AliasKey(line) : line \in some} \ KeysOf(t.aliases)
    OBVIOUS
  <1>6. PICK target : target = IF found = {} THEN {<<key, 0>>} ELSE found
    OBVIOUS
  <1>7. MadeOf(key, lines).id = <<key, 0>>
    BY DEF MadeOf, Product
  <1>8. Cardinality({}) = 0
    BY FS_EmptySet
  <1>9. AddDraft(lines, t, key) =
          [stored |-> {}, new |-> t.new \cup (IF found = {} THEN {MadeOf(key, lines)} ELSE {}),
           aliases |-> t.aliases \cup (free \X target)]
    <2>1. {p \in t.stored : p.id[1] = key} = {}
      BY <1>4
    <2>2. Product(key, Cardinality({p \in t.stored : p.id[1] = key}), LinesOf(key, lines))
            = MadeOf(key, lines)
      BY <1>8, <2>1 DEF MadeOf
    <2>3. Resolve(key, LinesOf(key, lines), t.aliases, t.stored) = found
      BY <1>1, <1>3, <1>4
    <2> QED BY <1>1, <1>4, <1>5, <1>6, <1>7, <2>2, <2>3 DEF AddDraft
  <1>10. /\ found \subseteq {alias[2] : alias \in {a \in t.aliases : a[1][1] = key[1]}}
         /\ found # {} => key[2] # "legacy" /\ \E line \in some : AliasKey(line) \in KeysOf(t.aliases)
    <2>1. CASE key[2] = "legacy"
      <3>1. found = {}
        BY <1>3, <2>1 DEF Resolve
      <3> QED BY <3>1
    <2>2. CASE key[2] # "legacy"
      <3>1. PICK known : known = {line \in some : AliasKey(line) \in KeysOf(t.aliases)}
        OBVIOUS
      <3>2. found = {alias[2] : alias \in {a \in t.aliases : known # {} /\ a[1] = AliasKey(FirstOf(known))}}
        BY <1>3, <2>2, <3>1 DEF Resolve
      <3>3. CASE known = {}
        BY <3>2, <3>3
      <3>4. CASE known # {}
        <4>1. FirstOf(known) \in some /\ FirstOf(known) \in known
          BY <1>2, <3>1, <3>4, FirstLine
        <4>2. AliasKey(FirstOf(known))[1] = key[1] /\ AliasKey(FirstOf(known)) \in KeysOf(t.aliases)
          BY <1>2, <3>1, <4>1
        <4> QED BY <2>2, <3>2, <4>1, <4>2
      <3> QED BY <3>3, <3>4
    <2> QED BY <2>1, <2>2
  <1>11. target \subseteq Keys(lines) \X {0}
    <2>1. \A alias \in t.aliases : alias[2] \in Keys(lines) \X {0}
      BY <1>4
    <2>2. found \subseteq Keys(lines) \X {0}
      BY <1>10, <2>1
    <2> QED BY <1>6, <2>2
  <1>12. free \subseteq AliasKeys(lines)
    BY <1>2, <1>5 DEF AliasKeys
  <1>13. PICK r : r = AddDraft(lines, t, key)
    OBVIOUS
  <1>14. r \in FirstTables(lines)
    <2>1. t.new \cup (IF found = {} THEN {MadeOf(key, lines)} ELSE {})
            \subseteq {MadeOf(k, lines) : k \in Keys(lines)}
      BY <1>4
    <2>2. t.aliases \cup (free \X target) \subseteq AliasKeys(lines) \X (Keys(lines) \X {0})
      BY <1>4, <1>11, <1>12
    <2> HIDE DEF MadeOf
    <2> QED BY <1>9, <1>13, <2>1, <2>2 DEF FirstTables
  <1>15. AddsDraft(t, key, lines, found, r)
    BY <1>1, <1>5, <1>6, <1>9, <1>10, <1>13, <1>14 DEF AddsDraft
  <1> QED BY <1>13, <1>15

-----------------------------------------------------------------------------
(* The catalogue that a first run makes                                    *)

\* Every alias leads to a product of its owner.
Closed(products, aliases) ==
    \A alias \in aliases : \E p \in products : p.id = alias[2] /\ p.id[1][1] = alias[1][1]

\* The tables after the first m drafts of D.
Made(t, m, D, lines) ==
    /\ t \in FirstTables(lines)
    /\ Closed(t.new, t.aliases)
    /\ \A i \in 1..m : \A line \in LinesOf(D[i], lines) : AliasKey(line) \in KeysOf(t.aliases)
    /\ \A alias \in t.aliases :
          \E i \in 1..m : \E line \in LinesOf(D[i], lines) : alias[1] = AliasKey(line)
    /\ \A i \in 1..m : D[i][2] = "legacy" => MadeOf(D[i], lines) \in t.new

\* Without mixed texts every draft becomes a product, with the aliases of its lines.
MadeApart(t, m, D, lines) ==
    /\ \A i \in 1..m : MadeOf(D[i], lines) \in t.new
    /\ \A alias \in t.aliases :
          \E i \in 1..m : \E line \in LinesOf(D[i], lines) : alias = <<AliasKey(line), <<D[i], 0>>>>

LEMMA MadeFurther ==
    ASSUME NEW lines \in SUBSET Lines, NEW n \in Nat, NEW D,
           \A i \in 1..n : D[i] \in Keys(lines),
           NEW m \in Nat, m + 1 \in 1..n,
           NEW t, Made(t, m, D, lines), NEW r, r = AddDraft(lines, t, D[m + 1])
    PROVE  Made(r, m + 1, D, lines)
  <1>1. PICK key \in Keys(lines) : key = D[m + 1]
    OBVIOUS
  <1>2. PICK found : AddsDraft(t, key, lines, found, r)
    BY <1>1, DraftAdded DEF Made
  <1>3. PICK free : free = {AliasKey(line) : line \in LinesOf(key, lines)} \ KeysOf(t.aliases)
    OBVIOUS
  <1>4. PICK target : target = IF found = {} THEN {<<key, 0>>} ELSE found
    OBVIOUS
  <1>5. /\ r \in FirstTables(lines) /\ r.aliases = t.aliases \cup (free \X target)
        /\ r.new = t.new \cup (IF found = {} THEN {MadeOf(key, lines)} ELSE {})
        /\ found \subseteq {alias[2] : alias \in {a \in t.aliases : a[1][1] = key[1]}}
    BY <1>2, <1>3, <1>4 DEF AddsDraft
  <1>6. /\ LinesOf(key, lines) # {}
        /\ \A line \in LinesOf(key, lines) : AliasKey(line)[1] = key[1]
    BY LinesOfKey
  <1>7. ASSUME NEW x \in target PROVE \E p \in r.new : p.id = x /\ p.id[1][1] = key[1]
    <2>1. CASE found = {}
      <3>1. MadeOf(key, lines).id = <<key, 0>> /\ MadeOf(key, lines) \in r.new
        BY <1>5, <2>1 DEF MadeOf, Product
      <3>2. x = <<key, 0>>
        BY <1>4, <2>1
      <3> QED BY <3>1, <3>2
    <2>2. CASE found # {}
      <3>1. PICK alias \in t.aliases : alias[1][1] = key[1] /\ x = alias[2]
        BY <1>4, <1>5, <2>2
      <3>2. PICK p \in t.new : p.id = alias[2] /\ p.id[1][1] = alias[1][1]
        BY <3>1 DEF Made, Closed
      <3> QED BY <1>5, <3>1, <3>2
    <2> QED BY <2>1, <2>2
  <1>8. Closed(r.new, r.aliases)
    <2>1. ASSUME NEW alias \in t.aliases
          PROVE  \E p \in r.new : p.id = alias[2] /\ p.id[1][1] = alias[1][1]
      BY <1>5 DEF Made, Closed
    <2>2. ASSUME NEW alias \in free \X target
          PROVE  \E p \in r.new : p.id = alias[2] /\ p.id[1][1] = alias[1][1]
      <3>1. alias[1] \in free /\ alias[2] \in target
        OBVIOUS
      <3>2. alias[1][1] = key[1]
        BY <1>3, <1>6, <3>1
      <3> QED BY <1>7, <3>1, <3>2
    <2> QED BY <1>5, <2>1, <2>2 DEF Closed
  <1>9. target # {}
    BY <1>4
  <1>10. ASSUME NEW line \in LinesOf(key, lines) PROVE AliasKey(line) \in KeysOf(r.aliases)
    <2>1. CASE AliasKey(line) \in KeysOf(t.aliases)
      BY <1>5, <2>1 DEF KeysOf
    <2>2. CASE AliasKey(line) \notin KeysOf(t.aliases)
      <3>1. PICK x \in target : TRUE
        BY <1>9
      <3>2. AliasKey(line) \in free
        BY <1>3, <2>2
      <3>3. <<AliasKey(line), x>> \in r.aliases
        BY <1>5, <3>2
      <3> HIDE DEF AliasKey
      <3>4. <<AliasKey(line), x>>[1] = AliasKey(line)
        OBVIOUS
      <3> QED BY <3>3, <3>4 DEF KeysOf
    <2> QED BY <2>1, <2>2
  <1>11. \A i \in 1 .. m + 1 : i \in 1..m \/ i = m + 1
    OBVIOUS
  <1>12. \A x \in KeysOf(t.aliases) : x \in KeysOf(r.aliases)
    BY <1>5 DEF KeysOf
  <1>13. ASSUME NEW i \in 1 .. m + 1, NEW line \in LinesOf(D[i], lines)
         PROVE  AliasKey(line) \in KeysOf(r.aliases)
    BY <1>1, <1>10, <1>11, <1>12 DEF Made
  <1>14. ASSUME NEW alias \in r.aliases
         PROVE  \E i \in 1 .. m + 1 : \E line \in LinesOf(D[i], lines) : alias[1] = AliasKey(line)
    <2>1. CASE alias \in t.aliases
      <3>1. PICK i \in 1..m : \E line \in LinesOf(D[i], lines) : alias[1] = AliasKey(line)
        BY <2>1 DEF Made
      <3>2. i \in 1 .. m + 1
        OBVIOUS
      <3> QED BY <3>1, <3>2
    <2>2. CASE alias \in free \X target
      <3>1. alias[1] \in free
        BY <2>2
      <3>2. PICK line \in LinesOf(key, lines) : alias[1] = AliasKey(line)
        BY <1>3, <3>1
      <3>3. m + 1 \in 1 .. m + 1
        OBVIOUS
      <3> QED BY <1>1, <3>2, <3>3
    <2> QED BY <1>5, <2>1, <2>2
  <1>15. ASSUME NEW i \in 1 .. m + 1, D[i][2] = "legacy"
         PROVE  MadeOf(D[i], lines) \in r.new
    <2>1. CASE i \in 1..m
      BY <1>5, <1>15, <2>1 DEF Made
    <2>2. CASE i = m + 1
      <3>1. found = {}
        BY <1>1, <1>2, <1>15, <2>2 DEF AddsDraft
      <3> QED BY <1>1, <1>5, <2>2, <3>1
    <2> QED BY <1>11, <2>1, <2>2
  <1> QED BY <1>5, <1>8, <1>13, <1>14, <1>15 DEF Made

\* A text without a global product is nobody's alias yet, unless texts are mixed.
LEMMA MadeFurtherApart ==
    ASSUME NEW lines \in SUBSET Lines, ~Mixed(lines), NEW n \in Nat, NEW D,
           \A i \in 1..n : D[i] \in Keys(lines),
           \A i, j \in 1..n : D[i] = D[j] => i = j,
           NEW m \in Nat, m + 1 \in 1..n,
           NEW t, Made(t, m, D, lines), MadeApart(t, m, D, lines),
           NEW r, r = AddDraft(lines, t, D[m + 1])
    PROVE  MadeApart(r, m + 1, D, lines)
  <1>1. PICK key \in Keys(lines) : key = D[m + 1]
    OBVIOUS
  <1>2. PICK found : AddsDraft(t, key, lines, found, r)
    BY <1>1, DraftAdded DEF Made
  <1>3. \A i \in 1 .. m + 1 : i \in 1..n /\ (i \in 1..m \/ i = m + 1)
    OBVIOUS
  <1>4. \A i \in 1..m : i \in 1 .. m + 1 /\ i # m + 1
    OBVIOUS
  <1>5. found = {}
    <2> SUFFICES ASSUME found # {} PROVE FALSE
      OBVIOUS
    <2>1. PICK line \in LinesOf(key, lines) : AliasKey(line) \in KeysOf(t.aliases)
      BY <1>2 DEF AddsDraft
    <2>2. key[2] # "legacy"
      BY <1>2 DEF AddsDraft
    <2>3. line \in lines /\ line.product = Nothing /\ ProductKey(line) = key
      BY <2>2, LinesOfKey
    <2>4. PICK alias \in t.aliases : alias[1] = AliasKey(line)
      BY <2>1 DEF KeysOf
    <2>5. PICK i \in 1..m : \E other \in LinesOf(D[i], lines) : alias[1] = AliasKey(other)
      BY <2>4 DEF Made
    <2>6. PICK other \in LinesOf(D[i], lines) : AliasKey(other) = AliasKey(line)
      BY <2>4, <2>5
    <2>7. D[i] \in Keys(lines)
      BY <1>3, <1>4
    <2>8. other \in lines /\ ProductKey(other) = D[i]
      BY <2>6, <2>7, LinesOfKey
    <2>9. other.product = Nothing
      BY <2>3, <2>6, <2>8 DEF Mixed
    <2>10. other.user = line.user /\ other.text = line.text
      BY <2>6 DEF AliasKey
    <2>11. ProductKey(other) = ProductKey(line)
      BY <2>3, <2>9, <2>10 DEF ProductKey
    <2> QED BY <1>1, <1>3, <1>4, <2>3, <2>8, <2>11
  <1>6. /\ r.new = t.new \cup {MadeOf(key, lines)}
        /\ r.aliases = t.aliases \cup
             (({AliasKey(line) : line \in LinesOf(key, lines)} \ KeysOf(t.aliases)) \X {<<key, 0>>})
    BY <1>2, <1>5 DEF AddsDraft
  <1>7. \A i \in 1 .. m + 1 : MadeOf(D[i], lines) \in r.new
    BY <1>1, <1>3, <1>6 DEF MadeApart
  <1>8. ASSUME NEW alias \in r.aliases
        PROVE  \E i \in 1 .. m + 1 : \E line \in LinesOf(D[i], lines) :
                  alias = <<AliasKey(line), <<D[i], 0>>>>
    <2>1. CASE alias \in t.aliases
      BY <1>4, <2>1 DEF MadeApart
    <2>2. CASE alias \notin t.aliases
      <3>1. PICK line \in LinesOf(key, lines) : alias = <<AliasKey(line), <<key, 0>>>>
        BY <1>6, <2>2
      <3>2. m + 1 \in 1 .. m + 1
        OBVIOUS
      <3> QED BY <1>1, <3>1, <3>2
    <2> QED BY <2>1, <2>2
  <1> QED BY <1>7, <1>8 DEF MadeApart

\* A run of the backfill takes the drafts one after the other.
RunsThrough(it, lines, base, n) ==
    /\ n = Len(Drafts(lines)) /\ n \in Nat
    /\ it[0] = base
    /\ \A k \in 1..n : it[k] = AddDraft(lines, it[k - 1], Drafts(lines)[k])

LEMMA BackfillRuns ==
    ASSUME NEW lines \in SUBSET Lines, NEW catalogue, NEW base, NEW V, base \in V,
           base = [stored |-> catalogue.products, new |-> {}, aliases |-> catalogue.aliases],
           \A t \in V, i \in DOMAIN Drafts(lines) : AddDraft(lines, t, Drafts(lines)[i]) \in V
    PROVE  \E it, n : /\ RunsThrough(it, lines, base, n)
                      /\ Backfill(lines, catalogue) =
                           [products |-> it[n].stored \cup it[n].new, aliases |-> it[n].aliases]
  <1> DEFINE D == Drafts(lines)
             n == Len(D)
             g == [p \in V \X (1..n) |-> AddDraft(lines, p[1], D[p[2]])]
             Unfolds(f) == f = [s \in SUBSET (1..n) |->
                 IF s = {} THEN base ELSE AddDraft(lines, f[s \ {Max(s)}], D[Max(s)])]
             fold == CHOOSE f : Unfolds(f)
             it == [k \in 0..n |-> fold[1..k]]
  <1>1. n \in Nat /\ DOMAIN D = 1..n /\ \A t \in V, k \in 1..n : AddDraft(lines, t, D[k]) \in V
    BY DraftsListed
  <1> HIDE DEF D, n
  <1>2. /\ g \in [V \X (1..n) -> V]
        /\ \A t \in V, k \in 1..n : g[<<t, k>>] = AddDraft(lines, t, D[k])
    BY <1>1
  <1> HIDE DEF g
  <1>3. PICK h \in [SUBSET (1..n) -> V] : FoldOf(h, g, base, n)
    BY <1>1, <1>2, FoldExists
  <1>4. Unfolds(h)
    <2>1. ASSUME NEW s \in SUBSET (1..n), s # {}
          PROVE  g[<<h[s \ {Max(s)}], Max(s)>>] = AddDraft(lines, h[s \ {Max(s)}], D[Max(s)])
      <3>1. s \in SUBSET (0..n)
        OBVIOUS
      <3>2. Max(s) \in s
        BY <1>1, <2>1, <3>1, MaxNatural
      <3>3. h[s \ {Max(s)}] \in V
        OBVIOUS
      <3> QED BY <1>2, <3>2, <3>3
    <2>2. h = [s \in SUBSET (1..n) |->
                 IF s = {} THEN base ELSE g[<<h[s \ {Max(s)}], Max(s)>>]]
      BY <1>3 DEF FoldOf
    <2> QED BY <2>1, <2>2
  <1>5. Unfolds(fold)
    <2> HIDE DEF Unfolds
    <2> QED BY <1>4
  <1>6. FoldLeft(LAMBDA t, key : AddDraft(lines, t, key), base, D) = fold[1..n]
    BY <1>1 DEF FoldLeft, MapThenFoldSet
  <1> HIDE DEF fold
  <1>7. Backfill(lines, catalogue) =
          [products |-> fold[1..n].stored \cup fold[1..n].new, aliases |-> fold[1..n].aliases]
    BY <1>6 DEF Backfill, D
  <1>8. fold[{}] = base
    BY <1>5
  <1>9. ASSUME NEW k \in 1..n PROVE fold[1..k] = AddDraft(lines, fold[1..(k - 1)], D[k])
    <2>1. 1..k # {} /\ Max(1..k) = k /\ (1..k) \ {k} = 1..(k - 1) /\ 1..k \in SUBSET (1..n)
      BY <1>1, FoldPrefixes
    <2>2. \A s \in SUBSET (1..n) : s # {} =>
            fold[s] = AddDraft(lines, fold[s \ {Max(s)}], D[Max(s)])
      BY <1>5
    <2>3. fold[1..k] = AddDraft(lines, fold[(1..k) \ {Max(1..k)}], D[Max(1..k)])
      BY <2>1, <2>2
    <2> QED BY <2>1, <2>3
  <1> HIDE DEF Unfolds
  <1>10. /\ \A k \in 0..n : it[k] = fold[1..k]
         /\ n \in 0..n /\ 0 \in 0..n /\ 1..0 = {}
         /\ \A k \in 1..n : k \in 0..n /\ k - 1 \in 0..n
    BY <1>1
  <1> HIDE DEF it
  <1>11. RunsThrough(it, lines, base, n)
    <2>1. it[0] = base
      BY <1>8, <1>10
    <2>2. \A k \in 1..n : it[k] = AddDraft(lines, it[k - 1], D[k])
      BY <1>9, <1>10
    <2>3. n = Len(Drafts(lines))
      BY DEF n, D
    <2> QED BY <1>1, <2>1, <2>2, <2>3 DEF RunsThrough, D
  <1>12. it[n] = fold[1..n]
    BY <1>10
  <1> QED BY <1>7, <1>11, <1>12

\* What the backfill makes of lines when there is no catalogue yet.
FirstRun(lines, catalogue) ==
    \E t : /\ Made(t, Len(Drafts(lines)), Drafts(lines), lines)
           /\ ~Mixed(lines) => MadeApart(t, Len(Drafts(lines)), Drafts(lines), lines)
           /\ catalogue = [products |-> t.new, aliases |-> t.aliases]

LEMMA FirstRuns ==
    ASSUME NEW lines \in SUBSET Lines
    PROVE  FirstRun(lines, Backfill(lines, EmptyCatalogue))
  <1> DEFINE D == Drafts(lines)
             n == Len(D)
  <1>1. PICK base : base = [stored |-> {}, new |-> {}, aliases |-> {}]
    OBVIOUS
  <1>2. base \in FirstTables(lines)
    BY <1>1 DEF FirstTables
  <1>3. \A t \in FirstTables(lines), i \in DOMAIN Drafts(lines) :
          AddDraft(lines, t, Drafts(lines)[i]) \in FirstTables(lines)
    BY DraftAdded, DraftsListed DEF AddsDraft
  <1>4. base = [stored |-> EmptyCatalogue.products, new |-> {}, aliases |-> EmptyCatalogue.aliases]
    BY <1>1 DEF EmptyCatalogue
  <1>5. PICK it, m : /\ RunsThrough(it, lines, base, m)
                     /\ Backfill(lines, EmptyCatalogue) =
                          [products |-> it[m].stored \cup it[m].new, aliases |-> it[m].aliases]
    BY <1>2, <1>3, <1>4, BackfillRuns
  <1>6. /\ m = n /\ n \in Nat /\ it[0] = base
        /\ \A k \in 1..n : it[k] = AddDraft(lines, it[k - 1], D[k])
    BY <1>5 DEF RunsThrough
  <1>7. /\ \A i \in 1..n : D[i] \in Keys(lines)
        /\ \A i, j \in 1..n : D[i] = D[j] => i = j
    BY DraftsListed
  <1> HIDE DEF D, n
  <1> DEFINE N == {k \in Nat : k <= n => /\ Made(it[k], k, D, lines)
                                         /\ ~Mixed(lines) => MadeApart(it[k], k, D, lines)}
  <1>8. 0 \in N
    <2>1. Made(base, 0, D, lines) /\ MadeApart(base, 0, D, lines)
      BY <1>1, <1>2 DEF Made, MadeApart, Closed
    <2> QED BY <1>6, <2>1
  <1>9. ASSUME NEW k \in Nat, k \in N PROVE k + 1 \in N
    <2> SUFFICES ASSUME k + 1 <= n
                 PROVE  /\ Made(it[k + 1], k + 1, D, lines)
                        /\ ~Mixed(lines) => MadeApart(it[k + 1], k + 1, D, lines)
      OBVIOUS
    <2>1. k + 1 \in 1..n /\ (k + 1) - 1 = k /\ k <= n
      BY <1>6
    <2>2. Made(it[k], k, D, lines) /\ (~Mixed(lines) => MadeApart(it[k], k, D, lines))
      BY <1>9, <2>1
    <2>3. it[k + 1] = AddDraft(lines, it[k], D[k + 1])
      BY <1>6, <2>1
    <2>4. Made(it[k + 1], k + 1, D, lines)
      BY <1>6, <1>7, <2>1, <2>2, <2>3, MadeFurther
    <2>5. ~Mixed(lines) => MadeApart(it[k + 1], k + 1, D, lines)
      BY <1>6, <1>7, <2>1, <2>2, <2>3, MadeFurtherApart
    <2> QED BY <2>4, <2>5
  <1>10. n \in N
    <2> HIDE DEF N
    <2> QED BY <1>6, <1>8, <1>9, NaturalInduction
  <1>11. it[n].stored = {}
    BY <1>6, <1>10 DEF Made, FirstTables
  <1>12. Made(it[n], n, D, lines) /\ (~Mixed(lines) => MadeApart(it[n], n, D, lines))
    BY <1>6, <1>10
  <1>13. Backfill(lines, EmptyCatalogue) = [products |-> it[n].new, aliases |-> it[n].aliases]
    BY <1>5, <1>6, <1>11
  <1> QED BY <1>12, <1>13 DEF FirstRun, D, n

UsersOf(lines) == {line.user : line \in lines}

LEMMA CatalogueMade ==
    ASSUME NEW lines \in SUBSET Lines, NEW c, c = Backfill(lines, EmptyCatalogue)
    PROVE  /\ Closed(c.products, c.aliases)
           /\ \A p \in c.products : /\ p.count \in Nat \ {0}
                                    /\ p.last \in {line.date : line \in lines}
                                    /\ p.id[1][1] \in UsersOf(lines)
           /\ lines = {} => c = EmptyCatalogue
  <1>1. PICK t : /\ Made(t, Len(Drafts(lines)), Drafts(lines), lines)
                 /\ c = [products |-> t.new, aliases |-> t.aliases]
    BY FirstRuns DEF FirstRun
  <1>2. /\ t.new \subseteq {MadeOf(key, lines) : key \in Keys(lines)}
        /\ t.aliases \subseteq AliasKeys(lines) \X (Keys(lines) \X {0})
        /\ Closed(t.new, t.aliases)
    BY <1>1 DEF Made, FirstTables
  <1>3. ASSUME NEW key \in Keys(lines)
        PROVE  /\ MadeOf(key, lines).count \in Nat \ {0}
               /\ MadeOf(key, lines).last \in {line.date : line \in lines}
               /\ MadeOf(key, lines).id[1][1] \in UsersOf(lines)
    <2>1. PICK some : some = LinesOf(key, lines)
      OBVIOUS
    <2>2. /\ some \in SUBSET Lines /\ some # {} /\ some \subseteq lines
          /\ \A line \in some : line.user = key[1]
      BY <2>1, LinesOfKey
    <2>3. /\ Product(key, 0, some).id = <<key, 0>>
          /\ Product(key, 0, some).count \in Nat \ {0}
          /\ Product(key, 0, some).last \in {line.date : line \in some}
      BY <2>2, ProductMade
    <2>4. key[1] \in UsersOf(lines)
      BY <2>2 DEF UsersOf
    <2> QED BY <2>1, <2>2, <2>3, <2>4 DEF MadeOf
  <1>4. \A p \in c.products : /\ p.count \in Nat \ {0}
                              /\ p.last \in {line.date : line \in lines}
                              /\ p.id[1][1] \in UsersOf(lines)
    BY <1>1, <1>2, <1>3
  <1>5. lines = {} => c = EmptyCatalogue
    BY <1>1, <1>2 DEF Keys, AliasKeys, EmptyCatalogue
  <1> QED BY <1>1, <1>2, <1>4, <1>5

\* A draft that has its product and its aliases changes nothing.
LEMMA DraftSettled ==
    ASSUME NEW lines \in SUBSET Lines, ~Mixed(lines), NEW n \in Nat, NEW D,
           \A i \in 1..n : D[i] \in Keys(lines),
           NEW t, Made(t, n, D, lines), MadeApart(t, n, D, lines),
           NEW base, base = [stored |-> t.new, new |-> {}, aliases |-> t.aliases],
           NEW i \in 1..n
    PROVE  AddDraft(lines, base, D[i]) = base
  <1>1. PICK key \in Keys(lines) : key = D[i]
    OBVIOUS
  <1>2. PICK some : some = LinesOf(key, lines)
    OBVIOUS
  <1>3. /\ some \in SUBSET Lines /\ some # {} /\ some \subseteq lines /\ some \in SUBSET Line
        /\ \A line \in some : /\ ProductKey(line) = key
                              /\ key[2] # "legacy" => line.product = Nothing
    BY <1>2, LinesOfKey, LinesTyped
  <1>4. \A p \in t.new : \E k \in Keys(lines) : p = MadeOf(k, lines)
    BY DEF Made, FirstTables
  <1>5. \A k \in Keys(lines) : MadeOf(k, lines).id = <<k, 0>>
    BY DEF MadeOf, Product
  <1>6. MadeOf(key, lines) \in t.new
    BY <1>1 DEF MadeApart
  <1>7. \A p \in t.new : p.id[1] = key => p = MadeOf(key, lines) /\ p.id = <<key, 0>>
    BY <1>4, <1>5
  <1>8. \A line \in some : AliasKey(line) \in KeysOf(t.aliases)
    BY <1>1, <1>2 DEF Made
  <1>9. PICK found : found = Resolve(key, some, t.aliases, t.new)
    OBVIOUS
  <1>10. found = {<<key, 0>>}
    <2>1. CASE key[2] = "legacy"
      <3>1. found = {p.id : p \in {q \in t.new : q.id[1] = key}}
        BY <1>9, <2>1 DEF Resolve
      <3>2. {q \in t.new : q.id[1] = key} = {MadeOf(key, lines)}
        BY <1>5, <1>6, <1>7
      <3> HIDE DEF MadeOf
      <3> QED BY <1>5, <3>1, <3>2
    <2>2. CASE key[2] # "legacy"
      <3>1. {line \in some : AliasKey(line) \in KeysOf(t.aliases)} = some
        BY <1>8
      <3>2. PICK first : first = FirstOf(some)
        OBVIOUS
      <3>3. first \in some
        BY <1>3, <3>2, FirstLine
      <3>4. found = {alias[2] : alias \in {a \in t.aliases : some # {} /\ a[1] = AliasKey(first)}}
        BY <1>9, <2>2, <3>1, <3>2 DEF Resolve
      <3>5. PICK alias \in t.aliases : alias[1] = AliasKey(first)
        BY <1>8, <3>3 DEF KeysOf
      <3>6. ASSUME NEW a \in t.aliases, a[1] = AliasKey(first)
            PROVE  a[2] = <<key, 0>>
        <4>1. PICK j \in 1..n : \E line \in LinesOf(D[j], lines) : a = <<AliasKey(line), <<D[j], 0>>>>
          BY DEF MadeApart
        <4>2. PICK line \in LinesOf(D[j], lines) : a = <<AliasKey(line), <<D[j], 0>>>>
          BY <4>1
        <4>3. line \in lines /\ ProductKey(line) = D[j]
          <5>1. D[j] \in Keys(lines)
            OBVIOUS
          <5> QED BY <5>1, LinesOfKey
        <4>4. AliasKey(line) = AliasKey(first) /\ a[2] = <<D[j], 0>>
          BY <3>6, <4>2
        <4>5. first \in lines /\ first.product = Nothing /\ ProductKey(first) = key
          BY <1>3, <2>2, <3>3
        <4>6. line.product = Nothing
          BY <4>3, <4>4, <4>5 DEF Mixed
        <4>7. line.user = first.user /\ line.text = first.text
          BY <4>4 DEF AliasKey
        <4>8. ProductKey(line) = ProductKey(first)
          BY <4>5, <4>6, <4>7 DEF ProductKey
        <4> QED BY <4>3, <4>4, <4>5, <4>8
      <3> QED BY <1>3, <3>4, <3>5, <3>6
    <2> QED BY <2>1, <2>2
  <1>11. PICK draft : draft = Product(key, Cardinality({p \in t.new : p.id[1] = key}), some)
    OBVIOUS
  <1>12. draft.last = MadeOf(key, lines).last /\ draft.count = MadeOf(key, lines).count
    BY <1>2, <1>11 DEF MadeOf, Product
  <1>13. ASSUME NEW p \in t.new
         PROVE  (IF p.id \in found THEN [p EXCEPT !.last = draft.last, !.count = draft.count] ELSE p) = p
    <2>1. CASE p.id \in found
      <3>1. p = MadeOf(key, lines)
        BY <1>5, <1>7, <1>10, <2>1
      <3>2. draft.last = p.last /\ draft.count = p.count
        BY <1>12, <3>1
      <3>3. p = [id |-> p.id, name |-> p.name, last |-> p.last, count |-> p.count]
        BY <3>1 DEF MadeOf, Product
      <3>4. [p EXCEPT !.last = draft.last, !.count = draft.count] = p
        BY <3>2, <3>3
      <3> QED BY <2>1, <3>4
    <2>2. CASE p.id \notin found
      BY <2>2
    <2> QED BY <2>1, <2>2
  <1>14. {AliasKey(line) : line \in some} \ KeysOf(t.aliases) = {}
    BY <1>8
  <1>15. base.stored = t.new /\ base.new = {} /\ base.aliases = t.aliases
    OBVIOUS
  <1>16. AddDraft(lines, base, key) =
           [stored |-> {IF p.id \in found THEN [p EXCEPT !.last = draft.last, !.count = draft.count]
                        ELSE p : p \in t.new},
            new |-> {} \cup (IF found = {} THEN {draft} ELSE {}),
            aliases |-> t.aliases \cup
                ({} \X (IF found = {} THEN {draft.id} ELSE found))]
    BY <1>2, <1>9, <1>11, <1>14, <1>15 DEF AddDraft
  <1>17. {IF p.id \in found THEN [p EXCEPT !.last = draft.last, !.count = draft.count]
          ELSE p : p \in t.new} = t.new
    BY <1>13
  <1> QED BY <1>1, <1>10, <1>16, <1>17

\* The backfill may run again over the same lines.
LEMMA BackfillSettled ==
    ASSUME NEW lines \in SUBSET Lines, ~Mixed(lines), NEW c, c = Backfill(lines, EmptyCatalogue)
    PROVE  Backfill(lines, c) = c
  <1> DEFINE D == Drafts(lines)
             n == Len(D)
  <1>1. PICK t : /\ Made(t, n, D, lines) /\ MadeApart(t, n, D, lines)
                 /\ c = [products |-> t.new, aliases |-> t.aliases]
    BY FirstRuns DEF FirstRun
  <1>2. n \in Nat /\ \A i \in 1..n : D[i] \in Keys(lines)
    BY DraftsListed
  <1>3. PICK base : base = [stored |-> t.new, new |-> {}, aliases |-> t.aliases]
    OBVIOUS
  <1>4. ASSUME NEW i \in 1..n PROVE AddDraft(lines, base, D[i]) = base
    BY <1>1, <1>2, <1>3, DraftSettled
  <1>5. base = [stored |-> c.products, new |-> {}, aliases |-> c.aliases]
    BY <1>1, <1>3
  <1>6. DOMAIN D = 1..n
    BY DraftsListed
  <1>7. \A t2 \in {base}, i \in DOMAIN Drafts(lines) : AddDraft(lines, t2, Drafts(lines)[i]) \in {base}
    BY <1>4, <1>6
  <1>8. PICK it, m : /\ RunsThrough(it, lines, base, m)
                     /\ Backfill(lines, c) =
                          [products |-> it[m].stored \cup it[m].new, aliases |-> it[m].aliases]
    <2>1. PICK V : V = {base}
      OBVIOUS
    <2>2. base \in V
      BY <2>1
    <2>3. \A t2 \in V, i \in DOMAIN Drafts(lines) : AddDraft(lines, t2, Drafts(lines)[i]) \in V
      BY <1>7, <2>1
    <2> HIDE DEF D
    <2> QED BY <1>5, <2>2, <2>3, BackfillRuns
  <1>9. /\ m = n /\ it[0] = base
        /\ \A k \in 1..n : it[k] = AddDraft(lines, it[k - 1], D[k])
    BY <1>8 DEF RunsThrough
  <1> HIDE DEF D, n
  <1> DEFINE N == {k \in Nat : k <= n => it[k] = base}
  <1>10. 0 \in N
    BY <1>9
  <1>11. ASSUME NEW k \in Nat, k \in N PROVE k + 1 \in N
    <2> SUFFICES ASSUME k + 1 <= n PROVE it[k + 1] = base
      OBVIOUS
    <2>1. k + 1 \in 1..n /\ (k + 1) - 1 = k /\ k <= n
      BY <1>2
    <2>2. it[k + 1] = AddDraft(lines, it[k], D[k + 1])
      BY <1>9, <2>1
    <2> QED BY <1>4, <1>11, <2>1, <2>2
  <1>12. n \in N
    <2> HIDE DEF N
    <2> QED BY <1>2, <1>10, <1>11, NaturalInduction
  <1>13. it[n] = base
    BY <1>2, <1>12
  <1> QED BY <1>1, <1>3, <1>8, <1>9, <1>13

\* The tables with other counts and dates, those of some draft, for their products.
Candidates(products, lines) ==
    {[id |-> p.id, name |-> p.name, last |-> MadeOf(k, lines).last, count |-> MadeOf(k, lines).count] :
        p \in products, k \in Keys(lines)}
Recounted(t, lines) ==
    {[stored |-> some, new |-> {}, aliases |-> t.aliases] :
        some \in {s \in SUBSET Candidates(t.new, lines) : Named(s) = Named(t.new)}}

\* A draft of a further run finds its product, mixed texts or not.
LEMMA DraftRecounts ==
    ASSUME NEW lines \in SUBSET Lines, NEW n \in Nat, NEW D,
           \A i \in 1..n : D[i] \in Keys(lines),
           NEW t, Made(t, n, D, lines), NEW now \in Recounted(t, lines), NEW i \in 1..n
    PROVE  AddDraft(lines, now, D[i]) \in Recounted(t, lines)
  <1>1. PICK key \in Keys(lines) : key = D[i]
    OBVIOUS
  <1>2. PICK some : some = LinesOf(key, lines)
    OBVIOUS
  <1>3. some \in SUBSET Line /\ some \in SUBSET Lines /\ some # {}
    BY <1>2, LinesOfKey, LinesTyped
  <1>4. PICK stored \in SUBSET Candidates(t.new, lines) :
          Named(stored) = Named(t.new) /\ now = [stored |-> stored, new |-> {}, aliases |-> t.aliases]
    BY DEF Recounted
  <1>5. \A line \in some : AliasKey(line) \in KeysOf(t.aliases)
    BY <1>1, <1>2 DEF Made
  <1>6. PICK found : found = Resolve(key, some, t.aliases, stored)
    OBVIOUS
  <1>7. found # {}
    <2>1. CASE key[2] = "legacy"
      <3>1. PICK made \in t.new : made = MadeOf(key, lines)
        BY <1>1, <2>1 DEF Made
      <3>2. made.id = <<key, 0>>
        BY <3>1 DEF MadeOf, Product
      <3>3. [id |-> made.id, name |-> made.name] \in Named(stored)
        BY <1>4 DEF Named
      <3>4. PICK q \in stored : [id |-> made.id, name |-> made.name] = [id |-> q.id, name |-> q.name]
        BY <3>3 DEF Named
      <3>5. q.id = <<key, 0>>
        BY <3>2, <3>4
      <3>6. q \in {x \in stored : x.id[1] = key}
        BY <3>5
      <3>7. found = {x.id : x \in {y \in stored : y.id[1] = key}}
        BY <1>6, <2>1 DEF Resolve
      <3> QED BY <3>6, <3>7
    <2>2. CASE key[2] # "legacy"
      <3>1. {line \in some : AliasKey(line) \in KeysOf(t.aliases)} = some
        BY <1>5
      <3>2. PICK first : first = FirstOf(some)
        OBVIOUS
      <3>3. first \in some
        BY <1>3, <3>2, FirstLine
      <3>4. found = {alias[2] : alias \in {a \in t.aliases : some # {} /\ a[1] = AliasKey(first)}}
        BY <1>6, <2>2, <3>1, <3>2 DEF Resolve
      <3>5. PICK alias \in t.aliases : alias[1] = AliasKey(first)
        BY <1>5, <3>3 DEF KeysOf
      <3> QED BY <1>3, <3>4, <3>5
    <2> QED BY <2>1, <2>2
  <1>8. PICK draft : draft = Product(key, Cardinality({p \in stored : p.id[1] = key}), some)
    OBVIOUS
  <1>9. draft.last = MadeOf(key, lines).last /\ draft.count = MadeOf(key, lines).count
    BY <1>2, <1>8 DEF MadeOf, Product
  <1> DEFINE counted(p) == IF p.id \in found THEN [p EXCEPT !.last = draft.last, !.count = draft.count]
                           ELSE p
  <1>10. ASSUME NEW p \in stored
         PROVE  /\ counted(p) \in Candidates(t.new, lines)
                /\ counted(p).id = p.id /\ counted(p).name = p.name
    <2>1. PICK p0 \in t.new, k \in Keys(lines) :
            p = [id |-> p0.id, name |-> p0.name, last |-> MadeOf(k, lines).last,
                 count |-> MadeOf(k, lines).count]
      BY DEF Candidates
    <2>2. CASE p.id \in found
      <3>1. PICK last, count : last = draft.last /\ count = draft.count
        OBVIOUS
      <3>2. PICK q : q = [p EXCEPT !.last = last]
        OBVIOUS
      <3>3. q = [id |-> p0.id, name |-> p0.name, last |-> last, count |-> MadeOf(k, lines).count]
        BY <2>1, <3>2
      <3>4. [q EXCEPT !.count = count] = [id |-> p0.id, name |-> p0.name, last |-> last, count |-> count]
        BY <3>3
      <3>5. counted(p) = [q EXCEPT !.count = count]
        BY <2>2, <3>1, <3>2
      <3>6. counted(p) = [id |-> p0.id, name |-> p0.name, last |-> MadeOf(key, lines).last,
                          count |-> MadeOf(key, lines).count]
        BY <1>9, <3>1, <3>4, <3>5
      <3> HIDE DEF counted, MadeOf
      <3>7. counted(p) \in Candidates(t.new, lines)
        BY <3>6 DEF Candidates
      <3> QED BY <2>1, <3>6, <3>7
    <2>3. CASE p.id \notin found
      BY <2>3
    <2> QED BY <2>2, <2>3
  <1>11. PICK after : after = {counted(p) : p \in stored}
    OBVIOUS
  <1> HIDE DEF counted
  <1>12. after \in SUBSET Candidates(t.new, lines)
    BY <1>10, <1>11
  <1>13. Named(after) = Named(stored)
    <2>1. ASSUME NEW p \in stored
          PROVE  [id |-> counted(p).id, name |-> counted(p).name] = [id |-> p.id, name |-> p.name]
      BY <1>10
    <2>2. Named(after) = {[id |-> counted(p).id, name |-> counted(p).name] : p \in stored}
      BY <1>11 DEF Named
    <2> QED BY <2>1, <2>2 DEF Named
  <1>14. {AliasKey(line) : line \in some} \ KeysOf(t.aliases) = {}
    BY <1>5
  <1>15. now.stored = stored /\ now.new = {} /\ now.aliases = t.aliases
    BY <1>4
  <1>16. AddDraft(lines, now, key) =
           [stored |-> {counted(p) : p \in stored},
            new |-> {} \cup (IF found = {} THEN {draft} ELSE {}),
            aliases |-> t.aliases \cup
                ({} \X (IF found = {} THEN {draft.id} ELSE found))]
    BY <1>2, <1>6, <1>8, <1>14, <1>15 DEF AddDraft, counted
  <1>17. AddDraft(lines, now, key) = [stored |-> after, new |-> {}, aliases |-> t.aliases]
    BY <1>7, <1>11, <1>16
  <1> QED BY <1>1, <1>4, <1>12, <1>13, <1>17 DEF Recounted

\* A further run over the same lines makes no product and no alias, and moves none.
LEMMA BackfillNamed ==
    ASSUME NEW lines \in SUBSET Lines, NEW c, c = Backfill(lines, EmptyCatalogue)
    PROVE  /\ Named(Backfill(lines, c).products) = Named(c.products)
           /\ Backfill(lines, c).aliases = c.aliases
  <1> DEFINE D == Drafts(lines)
             n == Len(D)
  <1>1. PICK t : Made(t, n, D, lines) /\ c = [products |-> t.new, aliases |-> t.aliases]
    BY FirstRuns DEF FirstRun
  <1>2. n \in Nat /\ DOMAIN D = 1..n /\ \A i \in 1..n : D[i] \in Keys(lines)
    BY DraftsListed
  <1>3. PICK base : base = [stored |-> t.new, new |-> {}, aliases |-> t.aliases]
    OBVIOUS
  <1>4. PICK V : V = Recounted(t, lines)
    OBVIOUS
  <1>5. base \in V
    <2>1. ASSUME NEW p \in t.new PROVE p \in Candidates(t.new, lines)
      <3>1. PICK k \in Keys(lines) : p = MadeOf(k, lines)
        BY <1>1 DEF Made, FirstTables
      <3>2. p = [id |-> p.id, name |-> p.name, last |-> p.last, count |-> p.count]
        BY <3>1 DEF MadeOf, Product
      <3>3. p = [id |-> p.id, name |-> p.name, last |-> MadeOf(k, lines).last,
                 count |-> MadeOf(k, lines).count]
        BY <3>1, <3>2
      <3> HIDE DEF MadeOf
      <3> QED BY <3>3 DEF Candidates
    <2>2. t.new \in SUBSET Candidates(t.new, lines)
      BY <2>1
    <2> QED BY <1>3, <1>4, <2>2 DEF Recounted
  <1>6. \A s \in V, i \in DOMAIN Drafts(lines) : AddDraft(lines, s, Drafts(lines)[i]) \in V
    BY <1>1, <1>2, <1>4, DraftRecounts
  <1>7. base = [stored |-> c.products, new |-> {}, aliases |-> c.aliases]
    BY <1>1, <1>3
  <1>8. PICK it, m : /\ RunsThrough(it, lines, base, m)
                     /\ Backfill(lines, c) =
                          [products |-> it[m].stored \cup it[m].new, aliases |-> it[m].aliases]
    <2> HIDE DEF D
    <2> QED BY <1>5, <1>6, <1>7, BackfillRuns
  <1>9. /\ m = n /\ it[0] = base
        /\ \A k \in 1..n : it[k] = AddDraft(lines, it[k - 1], D[k])
    BY <1>8 DEF RunsThrough
  <1>10. \A s \in V, k \in 1..n : AddDraft(lines, s, D[k]) \in V
    BY <1>2, <1>6
  <1> HIDE DEF D, n
  <1> DEFINE N == {k \in Nat : k <= n => it[k] \in V}
  <1>11. 0 \in N
    BY <1>5, <1>9
  <1>12. ASSUME NEW k \in Nat, k \in N PROVE k + 1 \in N
    <2> SUFFICES ASSUME k + 1 <= n PROVE it[k + 1] \in V
      OBVIOUS
    <2>1. k + 1 \in 1..n /\ (k + 1) - 1 = k /\ k <= n
      BY <1>2
    <2>2. it[k + 1] = AddDraft(lines, it[k], D[k + 1])
      BY <1>9, <2>1
    <2> QED BY <1>10, <1>12, <2>1, <2>2
  <1>13. n \in N
    <2> HIDE DEF N
    <2> QED BY <1>2, <1>11, <1>12, NaturalInduction
  <1>14. it[n] \in V
    BY <1>2, <1>13
  <1>15. PICK stored : Named(stored) = Named(t.new) /\
                       it[n] = [stored |-> stored, new |-> {}, aliases |-> t.aliases]
    BY <1>4, <1>14 DEF Recounted
  <1>16. it[m].stored \cup it[m].new = stored /\ it[m].aliases = t.aliases
    BY <1>9, <1>15
  <1> QED BY <1>1, <1>8, <1>15, <1>16

-----------------------------------------------------------------------------
(* Databases on the way                                                    *)

LEMMA RevisionDetected ==
    ASSUME NEW d
    PROVE  Detect(d).revision \in 0..HeadRevision
  <1>1. Verified(d) \cup {0} \in SUBSET (0..12) /\ Verified(d) \cup {0} # {}
    BY DeclaredRight DEF Verified
  <1>2. Max(Verified(d) \cup {0}) \in Verified(d) \cup {0}
    BY <1>1, MaxNatural
  <1>3. Detect(d).revision = Max(Verified(d) \cup {0})
    BY DEF Detect, NewestOf
  <1> QED BY <1>1, <1>2, <1>3, TwelveMigrations

\* A receipt confirmed meanwhile is nothing to a schema.
LEMMA DetectedAlike ==
    ASSUME NEW d, NEW e, d.objects = e.objects, d.torn = e.torn
    PROVE  Detect(d) = Detect(e)
  BY DEF Detect, Verified, Complete, Missing

LEMMA LinesOfReceipts ==
    /\ \A lines \in SUBSET Lines : ReceiptsOf(lines) \subseteq ReceiptsOf(Lines)
    /\ \A receipts \in SUBSET ReceiptsOf(Lines) :
          /\ LinesIn(receipts) \in SUBSET Lines
          /\ LinesIn(ReceiptsOf(LinesIn(receipts))) = LinesIn(receipts)
          /\ FirstCatalogue(LinesIn(receipts)) = Backfill(LinesIn(receipts), EmptyCatalogue)
  <1>1. \A lines \in SUBSET Lines : ReceiptsOf(lines) \subseteq ReceiptsOf(Lines)
    BY DEF ReceiptsOf
  <1>2. ASSUME NEW receipts \in SUBSET ReceiptsOf(Lines)
        PROVE  /\ LinesIn(receipts) \in SUBSET Lines
               /\ LinesIn(ReceiptsOf(LinesIn(receipts))) = LinesIn(receipts)
    BY DEF LinesIn, ReceiptsOf
  <1>3. ASSUME NEW receipts \in SUBSET ReceiptsOf(Lines)
        PROVE  FirstCatalogue(LinesIn(receipts)) = Backfill(LinesIn(receipts), EmptyCatalogue)
    <2>1. PICK lines : lines = LinesIn(receipts)
      OBVIOUS
    <2>2. \A b \in Backfilled : b.lines = lines => b.tables = Backfill(lines, EmptyCatalogue)
      BY DEF Backfilled
    <2>3. \E b \in Backfilled : b.lines = lines
      <3>1. PICK b : b = [lines |-> LinesIn(receipts),
                          tables |-> Backfill(LinesIn(receipts), EmptyCatalogue)]
        OBVIOUS
      <3>2. b \in Backfilled
        BY <3>1 DEF Backfilled
      <3> QED BY <2>1, <3>1, <3>2
    <2>4. PICK b : b = CHOOSE x \in Backfilled : x.lines = lines
      OBVIOUS
    <2>5. b \in Backfilled /\ b.lines = lines
      BY <2>3, <2>4
    <2> QED BY <2>1, <2>2, <2>4, <2>5 DEF FirstCatalogue
  <1> QED BY <1>1, <1>2, <1>3

OfLines(lines) == Backfill(lines, EmptyCatalogue)

\* The fields of a database; its catalogue is the one of the lines that it covers,
\* all of which were confirmed ever.
IsDatabase(d, ever) ==
    /\ d = [objects |-> d.objects, torn |-> d.torn, version |-> d.version, lines |-> d.lines,
            perUnit |-> d.perUnit, catalogue |-> d.catalogue, covered |-> d.covered,
            stores |-> d.stores, ledgers |-> d.ledgers, netted |-> d.netted, revised |-> d.revised]
    /\ d.version \in 0..12
    /\ d.perUnit \subseteq Lines
    /\ d.covered \subseteq ever
    /\ d.catalogue = OfLines(d.covered)

\* Its owners have ledgers, and those of the lines that are left their stores.
Owned(d, lines) ==
    StoresOf(d.covered \cap lines) \subseteq d.stores /\ UsersOf(d.covered) \subseteq d.ledgers

\* A committed database: alembic's version, if any, is the revision of its schema.
Committed(d, ever) ==
    /\ IsDatabase(d, ever) /\ Owned(d, d.lines)
    /\ ever \subseteq Lines /\ d.lines \subseteq ever /\ LinesIn(ReceiptsOf(d.lines)) = d.lines
    /\ d.objects \subseteq Upto(HeadRevision) /\ d.torn \subseteq d.objects
    /\ d.version # 0 => d.objects = Upto(d.version) /\ d.torn = {}

\* A database at w that was found at a revision has migrated the lines left since.
Has(w, left, revision) ==
    /\ w.version >= 4 /\ revision < 4 => left \subseteq w.perUnit
    /\ w.version >= 5 /\ revision < 5 => left \subseteq w.covered
    /\ w.version >= 6 /\ revision < 6 => ReceiptsOf(left) \subseteq w.netted
    /\ w.version >= 7 /\ revision < 7 => ReceiptsOf(left) \subseteq w.revised

\* Until the upgrade is committed the database is at the revision it was found at.
FromOrigin(d, o, ever) ==
    /\ o.revision \in 0..12 /\ o.lines \subseteq ever
    /\ d.version = 0 => o.revision = Detect(d).revision
    /\ \/ d.version \in {0, o.revision}
       \/ d.version = 12 /\ Has(d, o.lines \cap d.lines, o.revision)

\* The work w of a transaction goes on from d and has the data of its migrations.
Ahead(w, d, o) ==
    /\ d.objects = Upto(d.version) /\ d.torn = {}
    /\ w.objects = Upto(w.version) /\ w.torn = {} /\ w.version >= d.version
    /\ Has(w, o.lines \cap d.lines, o.revision)
    /\ d.version < 6 /\ w.version >= 6 => ReceiptsOf(d.lines) \subseteq w.netted
    /\ d.version < 7 /\ w.version >= 7 => ReceiptsOf(d.lines) \subseteq w.revised

\* A container whose work is w, in a phase, that found a revision.
Starting(w, phase, found, d, o, ever) ==
    /\ IsDatabase(w, ever)
    /\ phase # "owners" => Owned(w, d.lines)
    /\ phase = "unversioned" => d.version = 0
    /\ phase = "detected" =>
        d.version = 0 /\ ~Detect(d).refused /\ found = Detect(d).revision /\ found # 0
    /\ phase \in {"upgrading", "owners"} => Ahead(w, d, o)
    /\ phase = "owners" => w.version = 5

LEMMA NothingCovered ==
    /\ OfLines({}) = EmptyCatalogue
    /\ \A lines : IsDatabase(Nowhere, lines)
    /\ \A lines : Owned(Nowhere, lines)
  <1>1. OfLines({}) = EmptyCatalogue
    BY CatalogueMade DEF OfLines
  <1>2. StoresOf({}) = {} /\ UsersOf({}) = {}
    BY DEF StoresOf, UsersOf
  <1> QED BY <1>1, <1>2 DEF IsDatabase, Owned, Nowhere

LEMMA StoresShrink ==
    ASSUME NEW d, NEW some, NEW lines, Owned(d, lines), d.covered \cap some \subseteq lines
    PROVE  Owned(d, some)
  BY DEF Owned, StoresOf

LEMMA HasShrinks ==
    ASSUME NEW w, NEW left, NEW some, NEW revision, Has(w, left, revision), some \subseteq left
    PROVE  Has(w, some, revision)
  BY DEF Has, ReceiptsOf

LEMMA FoundCommitted ==
    ASSUME NEW base \in Databases, NEW receipts \in Origins, NEW d, d = Found(base, receipts)
    PROVE  Committed(d, d.lines)
  <1>1. /\ base = [Nowhere EXCEPT !.objects = base.objects, !.torn = base.torn,
                                  !.version = base.version]
        /\ base.objects \subseteq Upto(HeadRevision) /\ base.torn \subseteq base.objects
        /\ base.version \in 0..12
        /\ base.version # 0 => base.objects = Upto(base.version) /\ base.torn = {}
    BY DatabasesFound, TwelveMigrations
  <1>2. PICK lines : lines = IF <<"receipts", 2>> \in base.objects THEN LinesIn(receipts) ELSE {}
    OBVIOUS
  <1>3. PICK catalogue : catalogue = IF base.version >= 5 THEN FirstCatalogue(lines) ELSE EmptyCatalogue
    OBVIOUS
  <1>4. PICK covered : covered = IF base.version >= 5 THEN lines ELSE {}
    OBVIOUS
  <1>5. receipts \in SUBSET ReceiptsOf(Lines) /\ LinesIn({}) = {} /\ ReceiptsOf({}) = {}
    BY LinesTyped DEF LinesIn, ReceiptsOf
  <1>6. /\ lines \subseteq Lines /\ LinesIn(ReceiptsOf(lines)) = lines
        /\ FirstCatalogue(lines) = OfLines(lines)
    <2>1. CASE lines = LinesIn(receipts)
      BY <1>5, <2>1, LinesOfReceipts DEF OfLines
    <2>2. CASE lines = {}
      BY <1>5, <2>2, LinesOfReceipts DEF OfLines
    <2> QED BY <1>2, <2>1, <2>2
  <1>7. catalogue = OfLines(covered) /\ covered \subseteq lines
    BY <1>3, <1>4, <1>6, NothingCovered
  <1>8. d = [objects |-> base.objects, torn |-> base.torn, version |-> base.version, lines |-> lines,
             perUnit |-> IF base.version >= 4 THEN lines ELSE {}, catalogue |-> catalogue,
             covered |-> covered, stores |-> IF base.version >= 5 THEN StoresOf(lines) ELSE {},
             ledgers |-> IF base.version >= 5 THEN {l.user : l \in lines} ELSE {},
             netted |-> IF base.version >= 6 THEN ReceiptsOf(lines) ELSE {},
             revised |-> IF base.version >= 7 THEN ReceiptsOf(lines) ELSE {}]
    BY <1>1, <1>2, <1>3, <1>4 DEF Found, Nowhere
  <1>9. IsDatabase(d, d.lines)
    BY <1>1, <1>6, <1>7, <1>8 DEF IsDatabase
  <1>10. Owned(d, d.lines)
    <2>1. StoresOf({}) = {} /\ UsersOf({}) = {}
      BY DEF StoresOf, UsersOf
    <2>2. UsersOf(lines) = {l.user : l \in lines}
      BY DEF UsersOf
    <2>3. covered \cap lines = covered
      BY <1>7
    <2>4. /\ d.lines = lines /\ d.covered = covered
          /\ d.stores = IF base.version >= 5 THEN StoresOf(lines) ELSE {}
          /\ d.ledgers = IF base.version >= 5 THEN {l.user : l \in lines} ELSE {}
      BY <1>8
    <2>5. StoresOf(covered) \subseteq d.stores /\ UsersOf(covered) \subseteq d.ledgers
      BY <1>4, <2>1, <2>2, <2>4
    <2> QED BY <2>3, <2>4, <2>5 DEF Owned
  <1> QED BY <1>1, <1>6, <1>8, <1>9, <1>10 DEF Committed

-----------------------------------------------------------------------------
(* What the steps do to them                                               *)

WithLines(d, lines) == [d EXCEPT !.lines = lines]

\* A database with other lines, all of which were confirmed at some time.
LEMMA OtherLines ==
    ASSUME NEW d, NEW ever, Committed(d, ever), NEW lines, NEW after,
           ever \subseteq after, after \subseteq Lines, lines \subseteq after,
           LinesIn(ReceiptsOf(lines)) = lines, lines \cap ever \subseteq d.lines,
           NEW e, e = WithLines(d, lines)
    PROVE  /\ Committed(e, after) /\ Detect(e) = Detect(d) /\ e.lines = lines
           /\ e.version = d.version /\ e.objects = d.objects /\ e.torn = d.torn
           /\ e.perUnit = d.perUnit /\ e.covered = d.covered /\ e.netted = d.netted
           /\ e.revised = d.revised
  <1>1. IsDatabase(d, ever) /\ Owned(d, d.lines) /\ d.covered \subseteq ever
    BY DEF Committed, IsDatabase
  <1>2. e = [objects |-> d.objects, torn |-> d.torn, version |-> d.version, lines |-> lines,
             perUnit |-> d.perUnit, catalogue |-> d.catalogue, covered |-> d.covered,
             stores |-> d.stores, ledgers |-> d.ledgers, netted |-> d.netted, revised |-> d.revised]
    BY <1>1 DEF IsDatabase, WithLines
  <1>3. /\ e.objects = d.objects /\ e.torn = d.torn /\ e.version = d.version /\ e.lines = lines
        /\ e.perUnit = d.perUnit /\ e.catalogue = d.catalogue /\ e.covered = d.covered
        /\ e.stores = d.stores /\ e.ledgers = d.ledgers /\ e.netted = d.netted
        /\ e.revised = d.revised
    BY <1>2
  <1>4. Detect(e) = Detect(d)
    BY <1>3, DetectedAlike
  <1>5. IsDatabase(e, after)
    <2>1. e = [objects |-> e.objects, torn |-> e.torn, version |-> e.version, lines |-> e.lines,
             perUnit |-> e.perUnit, catalogue |-> e.catalogue, covered |-> e.covered,
             stores |-> e.stores, ledgers |-> e.ledgers, netted |-> e.netted, revised |-> e.revised]
      BY <1>2
    <2>2. /\ e.version \in 0..12 /\ e.perUnit \subseteq Lines /\ e.covered \subseteq after
          /\ e.catalogue = OfLines(e.covered)
      BY <1>1, <1>3 DEF IsDatabase
    <2> QED BY <2>1, <2>2 DEF IsDatabase
  <1>6. Owned(e, e.lines)
    <2>1. d.covered \cap lines \subseteq d.lines
      BY <1>1
    <2>2. Owned(d, lines)
      BY <1>1, <2>1, StoresShrink
    <2> QED BY <1>3, <2>2 DEF Owned
  <1>7. /\ e.objects \subseteq Upto(HeadRevision) /\ e.torn \subseteq e.objects
        /\ e.version # 0 => e.objects = Upto(e.version) /\ e.torn = {}
    BY <1>3 DEF Committed
  <1> QED BY <1>3, <1>4, <1>5, <1>6, <1>7 DEF Committed

\* The lines of a receipt come or go together.
LEMMA WholeReceipts ==
    ASSUME NEW lines \in SUBSET Lines, LinesIn(ReceiptsOf(lines)) = lines, NEW receipt
    PROVE  /\ LinesIn(ReceiptsOf(lines \cup LinesIn({receipt}))) = lines \cup LinesIn({receipt})
           /\ LinesIn(ReceiptsOf(lines \ LinesIn({receipt}))) = lines \ LinesIn({receipt})
           /\ LinesIn({receipt}) \subseteq Lines
  BY DEF LinesIn, ReceiptsOf

\* A receipt that comes or goes is not among the lines left of those found.
LEMMA FoundStays ==
    ASSUME NEW d, NEW e, NEW o, NEW ever, NEW after, FromOrigin(d, o, ever), ever \subseteq after,
           Detect(e) = Detect(d), e.version = d.version,
           e.perUnit = d.perUnit, e.covered = d.covered, e.netted = d.netted, e.revised = d.revised,
           e.lines \cap ever \subseteq d.lines
    PROVE  FromOrigin(e, o, after)
  <1>1. o.lines \cap e.lines \subseteq o.lines \cap d.lines
    BY DEF FromOrigin
  <1>2. Has(d, o.lines \cap d.lines, o.revision) => Has(e, o.lines \cap e.lines, o.revision)
    <2>1. Has(d, o.lines \cap d.lines, o.revision) => Has(d, o.lines \cap e.lines, o.revision)
      BY <1>1, HasShrinks
    <2> QED BY <2>1 DEF Has
  <1> QED BY <1>2 DEF FromOrigin

\* No container that holds receipts back has its work undone by a confirmation or a
\* deletion.
LEMMA ReceiptPasses ==
    ASSUME NEW d, NEW e, NEW o, NEW w, NEW phase, NEW found, NEW ever, NEW after,
           d.version \in 0..12,
           Starting(w, phase, found, d, o, ever), o.lines \subseteq ever,
           ~(phase \in Holding /\ \E k \in d.version + 1 .. w.version : BlocksReceipts(k)),
           Detect(e) = Detect(d), e.version = d.version, e.objects = d.objects, e.torn = d.torn,
           ever \subseteq after, e.lines \cap ever \subseteq d.lines
    PROVE  Starting(w, phase, found, e, o, after)
  <1>1. BlocksReceipts(6) /\ BlocksReceipts(7)
    BY DEF BlocksReceipts, Migrations, LineUnits, ReceiptRevisions
  <1>2. IsDatabase(w, ever) /\ w.version \in 0..12 /\ w.covered \subseteq ever
    BY DEF Starting, IsDatabase
  <1>3. IsDatabase(w, after)
    BY <1>2 DEF IsDatabase
  <1>4. ASSUME phase \in {"upgrading", "owners"} PROVE Ahead(w, e, o)
    <2>1. Ahead(w, d, o) /\ phase \in Holding
      BY <1>4 DEF Starting, Holding
    <2>2. ~(d.version < 6 /\ w.version >= 6) /\ ~(d.version < 7 /\ w.version >= 7)
      BY <1>1, <1>2, <2>1
    <2>3. Has(w, o.lines \cap e.lines, o.revision)
      <3>1. o.lines \cap e.lines \subseteq o.lines \cap d.lines
        OBVIOUS
      <3> QED BY <2>1, <3>1, HasShrinks DEF Ahead
    <2> QED BY <2>1, <2>2, <2>3 DEF Ahead
  <1>5. ASSUME phase # "owners" PROVE Owned(w, e.lines)
    <2>1. Owned(w, d.lines) /\ w.covered \cap e.lines \subseteq d.lines
      BY <1>2, <1>5 DEF Starting
    <2> QED BY <2>1, StoresShrink
  <1> QED BY <1>3, <1>4, <1>5 DEF Starting

\* A container that does not hold the lock has nothing to do with the schema.
LEMMA OthersWait ==
    ASSUME NEW d, NEW e, NEW o, NEW ever, NEW w, NEW phase, NEW found,
           Starting(w, phase, found, d, o, ever), phase \notin Holding, e.lines = d.lines
    PROVE  Starting(w, phase, found, e, o, ever)
  BY DEF Starting, Holding, IsDatabase

\* What is committed is where the transaction begins.
LEMMA BeginsAhead ==
    ASSUME NEW d, NEW o, NEW ever, Committed(d, ever), FromOrigin(d, o, ever),
           d.objects = Upto(d.version), d.torn = {}
    PROVE  Ahead(d, d, o)
  <1>1. d.version \in 0..12 /\ o.revision \in 0..12
    BY DEF Committed, IsDatabase, FromOrigin
  <1>2. Has(d, o.lines \cap d.lines, o.revision)
    BY <1>1 DEF FromOrigin, Has
  <1> QED BY <1>1, <1>2 DEF Ahead

LEMMA ReadsVersion ==
    ASSUME NEW d, NEW o, NEW ever, Committed(d, ever), FromOrigin(d, o, ever), NEW found
    PROVE  Starting(d, IF d.version # 0 THEN "upgrading" ELSE "unversioned", found, d, o, ever)
  <1>1. d.version # 0 => Ahead(d, d, o)
    BY BeginsAhead DEF Committed
  <1> QED BY <1>1 DEF Starting, Committed

LEMMA DetectsRevision ==
    ASSUME NEW d, NEW o, NEW ever, Committed(d, ever), FromOrigin(d, o, ever), d.version = 0
    PROVE  Starting(d, IF Detect(d).refused THEN "refused"
                       ELSE IF Detect(d).revision = 0 THEN "upgrading" ELSE "detected",
                    Detect(d).revision, d, o, ever)
  <1>1. ASSUME ~Detect(d).refused, Detect(d).revision = 0 PROVE Ahead(d, d, o)
    <2>1. d.objects = Upto(0) /\ d.torn = {}
      BY <1>1, DetectedRight DEF Committed
    <2> QED BY <2>1, BeginsAhead
  <1> QED BY <1>1 DEF Starting, Committed

LEMMA Stamps ==
    ASSUME NEW d, NEW o, NEW ever, Committed(d, ever), FromOrigin(d, o, ever), NEW w, NEW found,
           Starting(w, "detected", found, d, o, ever),
           NEW e, e = [d EXCEPT !.version = found]
    PROVE  /\ Committed(e, ever) /\ FromOrigin(e, o, ever) /\ e.lines = d.lines
           /\ e.objects = d.objects
           /\ Starting(e, "upgrading", found, e, o, ever)
  <1>1. d.version = 0 /\ ~Detect(d).refused /\ found = Detect(d).revision /\ found # 0
    BY DEF Starting
  <1>2. found \in 0..12 /\ d.objects = Upto(found) /\ d.torn = {}
    BY <1>1, DetectedRight, TwelveMigrations DEF Committed
  <1>3. e = [objects |-> d.objects, torn |-> d.torn, version |-> found, lines |-> d.lines,
             perUnit |-> d.perUnit, catalogue |-> d.catalogue, covered |-> d.covered,
             stores |-> d.stores, ledgers |-> d.ledgers, netted |-> d.netted, revised |-> d.revised]
    BY DEF Committed, IsDatabase
  <1>4. Committed(e, ever)
    BY <1>2, <1>3 DEF Committed, IsDatabase, Owned
  <1>5. FromOrigin(e, o, ever)
    BY <1>1, <1>3 DEF FromOrigin
  <1>6. Ahead(e, e, o)
    BY <1>2, <1>3, <1>4, <1>5, BeginsAhead
  <1>7. Starting(e, "upgrading", found, e, o, ever)
    BY <1>4, <1>6 DEF Starting, Committed
  <1> QED BY <1>3, <1>4, <1>5, <1>7

LEMMA Migrates ==
    ASSUME NEW o, NEW ever, Committed(db, ever), FromOrigin(db, o, ever), NEW w, NEW found,
           Starting(w, "upgrading", found, db, o, ever), w.version + 1 \in 1..12,
           NEW next, next = Migrated(w.version + 1, w)
    PROVE  Starting(next, IF w.version + 1 = 5 THEN "owners" ELSE "upgrading", found, db, o, ever)
  <1>1. PICK k : k = w.version + 1
    OBVIOUS
  <1>2. /\ IsDatabase(w, ever) /\ Owned(w, db.lines) /\ Ahead(w, db, o)
        /\ k \in 1..12 /\ w.version = k - 1 /\ w.version \in 0..12
    BY <1>1 DEF Starting, IsDatabase
  <1>3. PICK objects : objects = w.objects \cup Creates(k)
    OBVIOUS
  <1>4. PICK made : made = [objects |-> objects, torn |-> w.torn, version |-> k, lines |-> w.lines,
             perUnit |-> w.perUnit, catalogue |-> w.catalogue, covered |-> w.covered,
             stores |-> w.stores, ledgers |-> w.ledgers, netted |-> w.netted, revised |-> w.revised]
    OBVIOUS
  <1>5. made = [w EXCEPT !.objects = @ \cup Creates(k), !.version = k]
    <2>1. PICK v : v = [objects |-> w.objects, torn |-> w.torn, version |-> w.version,
             lines |-> w.lines, perUnit |-> w.perUnit, catalogue |-> w.catalogue,
             covered |-> w.covered, stores |-> w.stores, ledgers |-> w.ledgers,
             netted |-> w.netted, revised |-> w.revised]
      OBVIOUS
    <2>2. [v EXCEPT !.objects = @ \cup Creates(k), !.version = k] =
            [objects |-> w.objects \cup Creates(k), torn |-> w.torn, version |-> k,
             lines |-> w.lines, perUnit |-> w.perUnit, catalogue |-> w.catalogue,
             covered |-> w.covered, stores |-> w.stores, ledgers |-> w.ledgers,
             netted |-> w.netted, revised |-> w.revised]
      <3>1. v.objects = w.objects
        BY <2>1
      <3>2. PICK o2 : o2 = w.objects \cup Creates(k)
        OBVIOUS
      <3>3. PICK u : u = [v EXCEPT !.objects = o2]
        OBVIOUS
      <3>4. u = [objects |-> o2, torn |-> w.torn, version |-> w.version,
             lines |-> w.lines, perUnit |-> w.perUnit, catalogue |-> w.catalogue,
             covered |-> w.covered, stores |-> w.stores, ledgers |-> w.ledgers,
             netted |-> w.netted, revised |-> w.revised]
        BY <2>1, <3>3
      <3>5. [u EXCEPT !.version = k] = [objects |-> o2, torn |-> w.torn, version |-> k,
             lines |-> w.lines, perUnit |-> w.perUnit, catalogue |-> w.catalogue,
             covered |-> w.covered, stores |-> w.stores, ledgers |-> w.ledgers,
             netted |-> w.netted, revised |-> w.revised]
        BY <3>4
      <3>6. [v EXCEPT !.objects = @ \cup Creates(k), !.version = k] = [u EXCEPT !.version = k]
        BY <3>1, <3>2, <3>3
      <3> QED BY <3>2, <3>5, <3>6
    <2>3. w = v
      BY <1>2, <2>1 DEF IsDatabase
    <2> QED BY <1>3, <1>4, <2>2, <2>3
  <1>6. next = CASE k = 4 -> UnitPrices(made)
                 [] k = 5 -> FillCatalogue(made)
                 [] k = 6 -> CopyTotals(made)
                 [] k = 7 -> FillRevisions(made)
                 [] OTHER -> made
    BY <1>1, <1>5 DEF Migrated
  <1>7. objects = Upto(k)
    <2>1. w.version \in Nat /\ k = w.version + 1 /\ w.objects = Upto(w.version)
      BY <1>1, <1>2 DEF Ahead
    <2> QED BY <1>3, <2>1, CreatedUpto
  <1>8. /\ db.lines \subseteq Lines /\ FirstCatalogue(db.lines) = OfLines(db.lines)
        /\ db.lines \subseteq ever /\ o.revision \in 0..12 /\ db.version \in 0..12
    <2>1. db.lines \subseteq Lines /\ db.lines \subseteq ever /\ LinesIn(ReceiptsOf(db.lines)) = db.lines
      BY DEF Committed
    <2>2. ReceiptsOf(db.lines) \in SUBSET ReceiptsOf(Lines)
      BY <2>1, LinesOfReceipts
    <2>3. FirstCatalogue(db.lines) = OfLines(db.lines)
      BY <2>1, <2>2, LinesOfReceipts DEF OfLines
    <2> QED BY <2>1, <2>3 DEF FromOrigin, Committed, IsDatabase
  <1>9. PICK final : final = [objects |-> objects, torn |-> w.torn, version |-> k, lines |-> w.lines,
             perUnit |-> IF k = 4 THEN db.lines ELSE w.perUnit,
             catalogue |-> IF k = 5 THEN FirstCatalogue(db.lines) ELSE w.catalogue,
             covered |-> IF k = 5 THEN db.lines ELSE w.covered,
             stores |-> w.stores, ledgers |-> w.ledgers,
             netted |-> IF k = 6 THEN ReceiptsOf(db.lines) ELSE w.netted,
             revised |-> IF k = 7 THEN w.revised \cup ReceiptsOf(db.lines) ELSE w.revised]
    OBVIOUS
  <1>10. next = final
    <2>1. CASE k = 4
      <3>1. next = [made EXCEPT !.perUnit = db.lines]
        BY <1>6, <2>1 DEF UnitPrices
      <3> QED BY <1>4, <1>9, <2>1, <3>1
    <2>2. CASE k = 5
      <3>1. next = [made EXCEPT !.catalogue = FirstCatalogue(db.lines), !.covered = db.lines]
        BY <1>6, <2>2 DEF FillCatalogue
      <3>2. PICK u : u = [made EXCEPT !.catalogue = FirstCatalogue(db.lines)]
        OBVIOUS
      <3>3. u = [objects |-> objects, torn |-> w.torn, version |-> k, lines |-> w.lines,
             perUnit |-> w.perUnit, catalogue |-> FirstCatalogue(db.lines), covered |-> w.covered,
             stores |-> w.stores, ledgers |-> w.ledgers, netted |-> w.netted, revised |-> w.revised]
        BY <1>4, <3>2
      <3>4. [u EXCEPT !.covered = db.lines] =
            [objects |-> objects, torn |-> w.torn, version |-> k, lines |-> w.lines,
             perUnit |-> w.perUnit, catalogue |-> FirstCatalogue(db.lines), covered |-> db.lines,
             stores |-> w.stores, ledgers |-> w.ledgers, netted |-> w.netted, revised |-> w.revised]
        BY <3>3
      <3>5. next = [u EXCEPT !.covered = db.lines]
        BY <3>1, <3>2
      <3> QED BY <1>9, <2>2, <3>4, <3>5
    <2>3. CASE k = 6
      <3>1. next = [made EXCEPT !.netted = ReceiptsOf(db.lines)]
        BY <1>6, <2>3 DEF CopyTotals
      <3> QED BY <1>4, <1>9, <2>3, <3>1
    <2>4. CASE k = 7
      <3>1. next = [made EXCEPT !.revised = @ \cup ReceiptsOf(db.lines)]
        BY <1>6, <2>4 DEF FillRevisions
      <3>2. PICK all : all = w.revised \cup ReceiptsOf(db.lines)
        OBVIOUS
      <3>3. made.revised = w.revised
        BY <1>4
      <3>4. next = [made EXCEPT !.revised = all]
        BY <3>1, <3>2, <3>3
      <3>5. final = [objects |-> objects, torn |-> w.torn, version |-> k, lines |-> w.lines,
             perUnit |-> w.perUnit, catalogue |-> w.catalogue, covered |-> w.covered,
             stores |-> w.stores, ledgers |-> w.ledgers, netted |-> w.netted, revised |-> all]
        BY <1>9, <2>4, <3>2
      <3> QED BY <1>4, <3>4, <3>5
    <2>5. CASE k \notin {4, 5, 6, 7}
      <3>1. next = made
        BY <1>6, <2>5
      <3>2. k # 4 /\ k # 5 /\ k # 6 /\ k # 7
        BY <2>5
      <3>3. final = [objects |-> objects, torn |-> w.torn, version |-> k, lines |-> w.lines,
             perUnit |-> w.perUnit, catalogue |-> w.catalogue, covered |-> w.covered,
             stores |-> w.stores, ledgers |-> w.ledgers, netted |-> w.netted, revised |-> w.revised]
        BY <1>9, <3>2
      <3> QED BY <1>4, <3>1, <3>3
    <2> QED BY <2>1, <2>2, <2>3, <2>4, <2>5
  <1>11. /\ final.objects = objects /\ final.torn = w.torn /\ final.version = k
         /\ final.perUnit = IF k = 4 THEN db.lines ELSE w.perUnit
         /\ final.catalogue = IF k = 5 THEN FirstCatalogue(db.lines) ELSE w.catalogue
         /\ final.covered = IF k = 5 THEN db.lines ELSE w.covered
         /\ final.stores = w.stores /\ final.ledgers = w.ledgers
         /\ final.netted = IF k = 6 THEN ReceiptsOf(db.lines) ELSE w.netted
         /\ final.revised = IF k = 7 THEN w.revised \cup ReceiptsOf(db.lines) ELSE w.revised
    BY <1>9
  <1>12. IsDatabase(final, ever)
    BY <1>2, <1>8, <1>9, <1>11 DEF IsDatabase
  <1>13. k # 5 => Owned(final, db.lines)
    BY <1>2, <1>11 DEF Owned
  <1>14. Ahead(final, db, o)
    <2>1. db.objects = Upto(db.version) /\ db.torn = {} /\ w.torn = {} /\ w.version >= db.version
      BY <1>2 DEF Ahead
    <2>2. Has(final, o.lines \cap db.lines, o.revision)
      <3>1. PICK left : left = o.lines \cap db.lines
        OBVIOUS
      <3>2. left \subseteq db.lines /\ ReceiptsOf(left) \subseteq ReceiptsOf(db.lines)
        BY <3>1 DEF ReceiptsOf
      <3>3. Has(w, left, o.revision)
        BY <1>2, <3>1 DEF Ahead
      <3>4. Has(final, left, o.revision)
        BY <1>2, <1>8, <1>11, <3>2, <3>3 DEF Has
      <3> QED BY <3>1, <3>4
    <2>3. db.version < 6 /\ k >= 6 => ReceiptsOf(db.lines) \subseteq final.netted
      BY <1>2, <1>8, <1>11 DEF Ahead
    <2>4. db.version < 7 /\ k >= 7 => ReceiptsOf(db.lines) \subseteq final.revised
      BY <1>2, <1>8, <1>11 DEF Ahead
    <2>5. final.objects = Upto(final.version) /\ final.torn = {} /\ final.version >= db.version
      BY <1>2, <1>7, <1>8, <1>11, <2>1
    <2>6. final.version = k
      BY <1>11
    <2> QED BY <2>1, <2>2, <2>3, <2>4, <2>5, <2>6 DEF Ahead
  <1>15. final.version = k
    BY <1>11
  <1>16. CASE k = 5
    BY <1>1, <1>10, <1>12, <1>14, <1>15, <1>16 DEF Starting
  <1>17. CASE k # 5
    BY <1>1, <1>10, <1>12, <1>13, <1>14, <1>17 DEF Starting
  <1> QED BY <1>16, <1>17

LEMMA FillsOwners ==
    ASSUME NEW o, NEW ever, Committed(db, ever), FromOrigin(db, o, ever), NEW w, NEW found,
           Starting(w, "owners", found, db, o, ever), NEW next, next = FillOwners(w)
    PROVE  Starting(next, "upgrading", found, db, o, ever)
  <1>1. IsDatabase(w, ever) /\ Ahead(w, db, o) /\ w.covered \subseteq ever
    BY DEF Starting, IsDatabase
  <1>2. PICK stores : stores = w.stores \cup StoresOf(db.lines)
    OBVIOUS
  <1>3. PICK ledgers : ledgers = w.ledgers \cup {line.user : line \in w.covered \cup db.lines}
    OBVIOUS
  <1>4. next = [objects |-> w.objects, torn |-> w.torn, version |-> w.version, lines |-> w.lines,
             perUnit |-> w.perUnit, catalogue |-> w.catalogue, covered |-> w.covered,
             stores |-> stores, ledgers |-> ledgers, netted |-> w.netted, revised |-> w.revised]
    BY <1>1, <1>2, <1>3 DEF IsDatabase, FillOwners
  <1>5. StoresOf(w.covered \cap db.lines) \subseteq stores /\ UsersOf(w.covered) \subseteq ledgers
    BY <1>1, <1>2, <1>3 DEF StoresOf, UsersOf
  <1>6. /\ next.objects = w.objects /\ next.torn = w.torn /\ next.version = w.version
        /\ next.perUnit = w.perUnit /\ next.catalogue = w.catalogue /\ next.covered = w.covered
        /\ next.stores = stores /\ next.ledgers = ledgers
        /\ next.netted = w.netted /\ next.revised = w.revised
    BY <1>4
  <1>7. IsDatabase(next, ever) /\ Owned(next, db.lines)
    BY <1>1, <1>4, <1>5, <1>6 DEF IsDatabase, Owned
  <1>8. PICK left : left = o.lines \cap db.lines
    OBVIOUS
  <1>9. Has(w, left, o.revision) => Has(next, left, o.revision)
    BY <1>6 DEF Has
  <1>10. Ahead(next, db, o)
    BY <1>1, <1>6, <1>8, <1>9 DEF Ahead
  <1> QED BY <1>7, <1>10 DEF Starting

LEMMA Commits ==
    ASSUME NEW d, NEW o, NEW ever, Committed(d, ever), FromOrigin(d, o, ever), NEW w, NEW found,
           Starting(w, "upgrading", found, d, o, ever), w.version = 12,
           NEW e, e = [w EXCEPT !.lines = d.lines]
    PROVE  /\ Committed(e, ever) /\ FromOrigin(e, o, ever) /\ e.lines = d.lines
           /\ d.version < 7 => ReceiptsOf(d.lines) \subseteq e.revised
           /\ d.version < 6 => ReceiptsOf(d.lines) \subseteq e.netted
  <1>1. IsDatabase(w, ever) /\ Owned(w, d.lines) /\ Ahead(w, d, o)
    BY DEF Starting
  <1>2. e = [objects |-> w.objects, torn |-> w.torn, version |-> w.version, lines |-> d.lines,
             perUnit |-> w.perUnit, catalogue |-> w.catalogue, covered |-> w.covered,
             stores |-> w.stores, ledgers |-> w.ledgers, netted |-> w.netted, revised |-> w.revised]
    BY <1>1 DEF IsDatabase
  <1>3. IsDatabase(e, ever) /\ Owned(e, d.lines)
    BY <1>1, <1>2 DEF IsDatabase, Owned
  <1>4. /\ w.objects = Upto(12) /\ w.torn = {}
        /\ Has(w, o.lines \cap d.lines, o.revision)
        /\ d.version < 7 => ReceiptsOf(d.lines) \subseteq w.revised
        /\ d.version < 6 => ReceiptsOf(d.lines) \subseteq w.netted
    BY <1>1 DEF Ahead
  <1>5. Committed(e, ever)
    BY <1>2, <1>3, <1>4, TwelveMigrations DEF Committed
  <1>6. FromOrigin(e, o, ever)
    <2>1. Has(e, o.lines \cap e.lines, o.revision)
      BY <1>2, <1>4 DEF Has
    <2> QED BY <1>2, <2>1 DEF FromOrigin
  <1> QED BY <1>2, <1>4, <1>5, <1>6

-----------------------------------------------------------------------------
(* The invariant of the containers                                         *)

\* The advisory lock has one holder.
OneHolds == \A b, c \in Containers : pc[b] \in Holding /\ pc[c] \in Holding => b = c

\* The lines that were confirmed at some time.
Ever == db.lines \cup LinesIn(deleted)

Typed ==
    /\ work = [c \in Containers |-> work[c]]
    /\ deleted \subseteq ReceiptsOf(Lines \ db.lines)
    /\ pc \in [Containers -> Phases]
    /\ detected \in [Containers -> 0..12]
    /\ crashes \in 0..MaxCrashes

DeploymentInv ==
    /\ Typed
    /\ Committed(db, Ever) /\ FromOrigin(db, origin, Ever)
    /\ OneHolds
    /\ \A c \in Containers : Starting(work[c], pc[c], detected[c], db, origin, Ever)

LEMMA InitDeployment == Init => DeploymentInv
  <1> SUFFICES ASSUME Init PROVE DeploymentInv
    OBVIOUS
  <1>1. PICK base \in Databases, receipts \in Origins : db = Found(base, receipts)
    BY DEF Init
  <1>2. Committed(db, Ever) /\ Ever = db.lines /\ deleted = {}
    <2>1. deleted = {}
      BY DEF Init
    <2>2. Ever = db.lines
      BY <2>1 DEF Ever, LinesIn
    <2> QED BY <1>1, <2>1, <2>2, FoundCommitted
  <1>3. FromOrigin(db, origin, Ever)
    <2>1. origin.lines = db.lines
      BY DEF Init
    <2>2. origin.revision = IF db.version # 0 THEN db.version ELSE Detect(db).revision
      BY DEF Init
    <2>3. db.version \in 0..12 /\ Detect(db).revision \in 0..12
      BY <1>2, RevisionDetected, TwelveMigrations DEF Committed, IsDatabase
    <2> QED BY <1>2, <2>1, <2>2, <2>3 DEF FromOrigin
  <1>4. ASSUME NEW c \in Containers PROVE Starting(work[c], pc[c], detected[c], db, origin, Ever)
    <2>1. work[c] = Nowhere /\ pc[c] = "waiting"
      BY DEF Init
    <2> QED BY <2>1, NothingCovered DEF Starting
  <1>5. Typed
    BY <1>2, LinesTyped DEF Init, Typed, Phases
  <1>6. OneHolds
    BY DEF Init, OneHolds, Holding
  <1> QED BY <1>2, <1>3, <1>4, <1>5, <1>6 DEF DeploymentInv

\* A step of container c in its start, which leaves the others as they are.
Steps(c, phase, w, found) ==
    /\ pc' = [pc EXCEPT ![c] = phase]
    /\ work' = [b \in Containers |-> IF b = c THEN w ELSE work[b]]
    /\ detected' = [b \in Containers |-> IF b = c THEN found ELSE detected[b]]
    /\ origin' = origin /\ deleted' = deleted

\* Only the holder of the lock changes the schema, and takes it when it is free.
LEMMA StepKeeps ==
    ASSUME DeploymentInv, NEW c \in Containers, NEW phase \in Phases, NEW w, NEW found \in 0..12,
           Steps(c, phase, w, found), crashes' \in 0..MaxCrashes,
           pc[c] \in Holding \/ (db' = db /\ (\A b \in Containers : pc[b] \notin Holding)),
           Committed(db', Ever), FromOrigin(db', origin, Ever), db'.lines = db.lines,
           Starting(w, phase, found, db', origin, Ever)
    PROVE  DeploymentInv'
  <1>1. /\ pc' \in [Containers -> Phases] /\ pc'[c] = phase
        /\ \A b \in Containers \ {c} : pc'[b] = pc[b]
    BY DEF DeploymentInv, Typed, Steps
  <1>2. /\ detected' \in [Containers -> 0..12] /\ detected'[c] = found
        /\ \A b \in Containers \ {c} : detected'[b] = detected[b]
    BY DEF DeploymentInv, Typed, Steps
  <1>3. /\ work' = [b \in Containers |-> work'[b]] /\ work'[c] = w
        /\ \A b \in Containers \ {c} : work'[b] = work[b]
    BY DEF Steps
  <1>4. origin' = origin /\ deleted' = deleted /\ Ever' = Ever
    BY DEF Steps, Ever
  <1>5. OneHolds'
    BY <1>1 DEF DeploymentInv, OneHolds
  <1>6. \A b \in Containers \ {c} : pc[b] \notin Holding
    BY DEF DeploymentInv, OneHolds
  <1>7. ASSUME NEW b \in Containers PROVE Starting(work'[b], pc'[b], detected'[b], db', origin', Ever')
    <2>1. CASE b = c
      BY <1>1, <1>2, <1>3, <1>4, <2>1
    <2>2. CASE b # c
      <3>1. Starting(work[b], pc[b], detected[b], db, origin, Ever) /\ pc[b] \notin Holding
        BY <1>6, <2>2 DEF DeploymentInv
      <3>2. Starting(work[b], pc[b], detected[b], db', origin, Ever)
        BY <3>1, OthersWait
      <3> QED BY <1>1, <1>2, <1>3, <1>4, <2>2, <3>2
    <2> QED BY <2>1, <2>2
  <1>8. Typed'
    BY <1>1, <1>2, <1>3, <1>4 DEF DeploymentInv, Typed
  <1> QED BY <1>4, <1>5, <1>7, <1>8 DEF DeploymentInv

\* What a container holds back while its transaction is open, said of its work.
LEMMA ReceiptsFree ==
    ASSUME NEW c \in Containers, ~LocksReceipts(c), NEW d, d = db,
           NEW w, w = work[c], NEW phase, phase = pc[c]
    PROVE  ~(phase \in Holding /\ \E k \in d.version + 1 .. w.version : BlocksReceipts(k))
  BY DEF LocksReceipts

LEMMA ConfirmStep == DeploymentInv /\ Confirm => DeploymentInv'
  <1> SUFFICES ASSUME DeploymentInv, Confirm PROVE DeploymentInv'
    OBVIOUS
  <1>1. PICK receipt \in ReceiptsOf(Lines) \ (ReceiptsOf(db.lines) \cup deleted) :
          /\ \A c \in Containers : ~LocksReceipts(c)
          /\ db' = [db EXCEPT !.lines = @ \cup LinesIn({receipt})]
          /\ UNCHANGED <<work, pc, detected, origin, deleted, crashes>>
    BY DEF Confirm
  <1>2. PICK d : d = db
    OBVIOUS
  <1>3. PICK e : e = WithLines(d, d.lines \cup LinesIn({receipt}))
    OBVIOUS
  <1>4. PICK ever : ever = Ever
    OBVIOUS
  <1>5. PICK after : after = ever \cup LinesIn({receipt})
    OBVIOUS
  <1>6. db' = e
    BY <1>1, <1>2, <1>3 DEF WithLines
  <1>7. /\ Committed(d, ever) /\ FromOrigin(d, origin, ever) /\ d.version \in 0..12
        /\ origin.lines \subseteq ever
    BY <1>2, <1>4 DEF DeploymentInv, Committed, IsDatabase, FromOrigin
  <1>8. LinesIn({receipt}) \cap ever = {}
    BY <1>1, <1>4 DEF Ever, LinesIn, ReceiptsOf
  <1>9. /\ ever \subseteq Lines /\ d.lines \subseteq ever
        /\ LinesIn(ReceiptsOf(d.lines)) = d.lines
    BY <1>7 DEF Committed
  <1>10. /\ Committed(e, after) /\ Detect(e) = Detect(d) /\ e.lines = d.lines \cup LinesIn({receipt})
         /\ e.version = d.version /\ e.objects = d.objects /\ e.torn = d.torn
         /\ e.perUnit = d.perUnit /\ e.covered = d.covered /\ e.netted = d.netted
         /\ e.revised = d.revised
    <2>1. PICK lines : lines = d.lines \cup LinesIn({receipt})
      OBVIOUS
    <2>2. LinesIn(ReceiptsOf(lines)) = lines /\ LinesIn({receipt}) \subseteq Lines
      BY <1>9, <2>1, WholeReceipts
    <2>3. /\ ever \subseteq after /\ after \subseteq Lines /\ lines \subseteq after
          /\ lines \cap ever \subseteq d.lines
      BY <1>5, <1>8, <1>9, <2>1, <2>2
    <2>4. e = WithLines(d, lines)
      BY <1>3, <2>1
    <2>5. /\ Committed(e, after) /\ Detect(e) = Detect(d) /\ e.lines = lines
          /\ e.version = d.version /\ e.objects = d.objects /\ e.torn = d.torn
          /\ e.perUnit = d.perUnit /\ e.covered = d.covered /\ e.netted = d.netted
          /\ e.revised = d.revised
      BY <1>7, <2>2, <2>3, <2>4, OtherLines
    <2> QED BY <2>1, <2>5
  <1>11. Ever' = after
    <2>1. Ever' = db'.lines \cup LinesIn(deleted)
      BY <1>1 DEF Ever
    <2>2. ever = d.lines \cup LinesIn(deleted)
      BY <1>2, <1>4 DEF Ever
    <2> QED BY <1>5, <1>6, <1>10, <2>1, <2>2
  <1>12. FromOrigin(e, origin, after)
    <2>1. ever \subseteq after /\ e.lines \cap ever \subseteq d.lines
      BY <1>5, <1>8, <1>10
    <2> QED BY <1>7, <1>10, <2>1, FoundStays
  <1>13. ASSUME NEW c \in Containers
         PROVE  Starting(work[c], pc[c], detected[c], e, origin, after)
    <2>1. PICK w, phase, found : w = work[c] /\ phase = pc[c] /\ found = detected[c]
      OBVIOUS
    <2>2. Starting(w, phase, found, d, origin, ever)
      BY <1>2, <1>4, <2>1 DEF DeploymentInv
    <2>3. ~(phase \in Holding /\ \E k \in d.version + 1 .. w.version : BlocksReceipts(k))
      BY <1>1, <1>2, <2>1, ReceiptsFree
    <2>4. ever \subseteq after /\ e.lines \cap ever \subseteq d.lines
      BY <1>5, <1>8, <1>10
    <2>5. Starting(w, phase, found, e, origin, after)
      BY <1>7, <1>10, <2>2, <2>3, <2>4, ReceiptPasses
    <2> QED BY <2>1, <2>5
  <1>14. Typed'
    <2>1. deleted \subseteq ReceiptsOf(Lines \ e.lines)
      <3>1. deleted \subseteq ReceiptsOf(Lines \ d.lines)
        BY <1>2 DEF DeploymentInv, Typed
      <3> QED BY <1>1, <1>10, <3>1 DEF LinesIn, ReceiptsOf
    <2> QED BY <1>1, <1>6, <2>1 DEF DeploymentInv, Typed
  <1> QED BY <1>1, <1>6, <1>10, <1>11, <1>12, <1>13, <1>14 DEF DeploymentInv, OneHolds

LEMMA DeleteStep == DeploymentInv /\ Delete => DeploymentInv'
  <1> SUFFICES ASSUME DeploymentInv, Delete PROVE DeploymentInv'
    OBVIOUS
  <1>1. PICK receipt \in ReceiptsOf(db.lines) \ db.revised :
          /\ \A c \in Containers : ~LocksReceipts(c)
          /\ db' = [db EXCEPT !.lines = @ \ LinesIn({receipt})]
          /\ deleted' = deleted \cup {receipt}
          /\ UNCHANGED <<work, pc, detected, origin, crashes>>
    BY DEF Delete
  <1>2. PICK d : d = db
    OBVIOUS
  <1>3. PICK e : e = WithLines(d, d.lines \ LinesIn({receipt}))
    OBVIOUS
  <1>4. PICK ever : ever = Ever
    OBVIOUS
  <1>5. db' = e
    BY <1>1, <1>2, <1>3 DEF WithLines
  <1>6. /\ Committed(d, ever) /\ FromOrigin(d, origin, ever) /\ d.version \in 0..12
        /\ origin.lines \subseteq ever
        /\ d.lines \subseteq Lines /\ LinesIn(ReceiptsOf(d.lines)) = d.lines
    BY <1>2, <1>4 DEF DeploymentInv, Committed, IsDatabase, FromOrigin
  <1>7. ever \subseteq Lines /\ d.lines \subseteq ever
    BY <1>6 DEF Committed
  <1>8. /\ Committed(e, ever) /\ Detect(e) = Detect(d) /\ e.lines = d.lines \ LinesIn({receipt})
        /\ e.version = d.version /\ e.objects = d.objects /\ e.torn = d.torn
        /\ e.perUnit = d.perUnit /\ e.covered = d.covered /\ e.netted = d.netted
        /\ e.revised = d.revised
    <2>1. PICK lines : lines = d.lines \ LinesIn({receipt})
      OBVIOUS
    <2>2. LinesIn(ReceiptsOf(lines)) = lines
      BY <1>6, <2>1, WholeReceipts
    <2>3. /\ ever \subseteq ever /\ lines \subseteq ever /\ lines \cap ever \subseteq d.lines
      BY <1>7, <2>1
    <2>4. e = WithLines(d, lines)
      BY <1>3, <2>1
    <2>5. /\ Committed(e, ever) /\ Detect(e) = Detect(d) /\ e.lines = lines
          /\ e.version = d.version /\ e.objects = d.objects /\ e.torn = d.torn
          /\ e.perUnit = d.perUnit /\ e.covered = d.covered /\ e.netted = d.netted
          /\ e.revised = d.revised
      BY <1>6, <1>7, <2>2, <2>3, <2>4, OtherLines
    <2> QED BY <2>1, <2>5
  <1>9. Ever' = ever
    <2>1. Ever' = e.lines \cup LinesIn(deleted \cup {receipt})
      BY <1>1, <1>5 DEF Ever
    <2>2. ever = d.lines \cup LinesIn(deleted)
      BY <1>2, <1>4 DEF Ever
    <2>3. LinesIn(deleted \cup {receipt}) = LinesIn(deleted) \cup LinesIn({receipt})
      BY DEF LinesIn
    <2>4. LinesIn({receipt}) \subseteq d.lines
      BY <1>1, <1>2, <1>6 DEF LinesIn, ReceiptsOf
    <2> QED BY <1>8, <2>1, <2>2, <2>3, <2>4
  <1>10. ever \subseteq ever /\ e.lines \cap ever \subseteq d.lines
    BY <1>8
  <1>11. FromOrigin(e, origin, ever)
    BY <1>6, <1>8, <1>10, FoundStays
  <1>12. ASSUME NEW c \in Containers
         PROVE  Starting(work[c], pc[c], detected[c], e, origin, ever)
    <2>1. PICK w, phase, found : w = work[c] /\ phase = pc[c] /\ found = detected[c]
      OBVIOUS
    <2>2. Starting(w, phase, found, d, origin, ever)
      BY <1>2, <1>4, <2>1 DEF DeploymentInv
    <2>3. ~(phase \in Holding /\ \E k \in d.version + 1 .. w.version : BlocksReceipts(k))
      BY <1>1, <1>2, <2>1, ReceiptsFree
    <2>4. Starting(w, phase, found, e, origin, ever)
      BY <1>6, <1>8, <1>10, <2>2, <2>3, ReceiptPasses
    <2> QED BY <2>1, <2>4
  <1>13. Typed'
    <2>1. deleted \cup {receipt} \subseteq ReceiptsOf(Lines \ e.lines)
      <3>1. deleted \subseteq ReceiptsOf(Lines \ d.lines)
        BY <1>2 DEF DeploymentInv, Typed
      <3>2. PICK line \in d.lines : line.receipt = receipt
        BY <1>1, <1>2 DEF ReceiptsOf
      <3>3. line \in LinesIn({receipt})
        BY <1>6, <3>2 DEF LinesIn
      <3>4. line \in Lines \ e.lines
        BY <1>6, <1>8, <3>3
      <3>5. receipt \in ReceiptsOf(Lines \ e.lines)
        BY <3>2, <3>4 DEF ReceiptsOf
      <3>6. ReceiptsOf(Lines \ d.lines) \subseteq ReceiptsOf(Lines \ e.lines)
        BY <1>8 DEF ReceiptsOf
      <3> QED BY <3>1, <3>5, <3>6
    <2> QED BY <1>1, <1>5, <2>1 DEF DeploymentInv, Typed
  <1> QED BY <1>1, <1>5, <1>8, <1>9, <1>11, <1>12, <1>13 DEF DeploymentInv, OneHolds

LEMMA StartSteps ==
    ASSUME DeploymentInv, NEW c \in Containers, Start(c) \/ Crash(c)
    PROVE  DeploymentInv'
  <1> DEFINE w == work[c]
             found == detected[c]
  <1>1. /\ Typed /\ Committed(db, Ever) /\ FromOrigin(db, origin, Ever) /\ crashes \in 0..MaxCrashes
        /\ Starting(w, pc[c], found, db, origin, Ever)
        /\ db.version \in 0..12 /\ found \in 0..12
    BY DEF DeploymentInv, Typed, Committed, IsDatabase
  <1>2. Detect(db).revision \in 0..12
    BY RevisionDetected, TwelveMigrations
  <1>3. {"waiting", "locked", "unversioned", "detected", "upgrading", "owners",
         "serving", "refused"} \subseteq Phases
    BY DEF Phases
  <1>4. CASE TakeLock(c)
    <2>1. /\ pc[c] = "waiting" /\ (\A b \in Containers : pc[b] \notin Holding)
          /\ Steps(c, "locked", w, found) /\ db' = db /\ crashes' = crashes
      BY <1>1, <1>4 DEF TakeLock, GoesTo, Steps, Typed
    <2>2. Starting(w, "locked", found, db, origin, Ever)
      BY <1>1, <2>1 DEF Starting
    <2> HIDE DEF w, found
    <2> QED BY <1>1, <1>3, <2>1, <2>2, StepKeeps
  <1>5. CASE ReadVersion(c)
    <2>1. PICK phase : phase = IF db.version # 0 THEN "upgrading" ELSE "unversioned"
      OBVIOUS
    <2>2. pc[c] \in Holding /\ Steps(c, phase, db, found) /\ db' = db /\ crashes' = crashes
      BY <1>1, <1>5, <2>1 DEF ReadVersion, GoesTo, Steps, Typed, Holding
    <2>3. Starting(db, phase, found, db, origin, Ever)
      BY <1>1, <2>1, ReadsVersion
    <2>4. phase \in Phases
      BY <1>3, <2>1
    <2> HIDE DEF w, found
    <2> QED BY <1>1, <2>2, <2>3, <2>4, StepKeeps
  <1>6. CASE DetectRevision(c)
    <2>1. PICK phase : phase = IF Detect(db).refused THEN "refused"
                               ELSE IF Detect(db).revision = 0 THEN "upgrading" ELSE "detected"
      OBVIOUS
    <2>2. /\ pc[c] = "unversioned" /\ pc[c] \in Holding
          /\ Steps(c, phase, db, Detect(db).revision) /\ db' = db /\ crashes' = crashes
      BY <1>1, <1>6, <2>1 DEF DetectRevision, GoesTo, Steps, Typed, Holding
    <2>3. Starting(db, phase, Detect(db).revision, db, origin, Ever)
      <3>1. db.version = 0
        BY <1>1, <2>2 DEF Starting
      <3> QED BY <1>1, <2>1, <3>1, DetectsRevision
    <2>4. phase \in Phases
      BY <1>3, <2>1
    <2> QED BY <1>1, <1>2, <2>2, <2>3, <2>4, StepKeeps
  <1>7. CASE Stamp(c)
    <2>1. PICK e : e = [db EXCEPT !.version = found]
      OBVIOUS
    <2>2. /\ pc[c] = "detected" /\ pc[c] \in Holding
          /\ Steps(c, "upgrading", e, found) /\ db' = e /\ crashes' = crashes
      BY <1>1, <1>7, <2>1 DEF Stamp, GoesTo, Steps, Typed, Holding
    <2>3. Starting(w, "detected", found, db, origin, Ever)
      BY <1>1, <2>2
    <2>4. /\ Committed(e, Ever) /\ FromOrigin(e, origin, Ever) /\ e.lines = db.lines
          /\ Starting(e, "upgrading", found, e, origin, Ever)
      <3> HIDE DEF w, found
      <3> QED BY <1>1, <2>1, <2>3, Stamps
    <2> HIDE DEF w, found
    <2> QED BY <1>1, <1>3, <2>2, <2>4, StepKeeps
  <1>8. CASE Migrate(c)
    <2>1. PICK next : next = Migrated(w.version + 1, w)
      OBVIOUS
    <2>2. PICK phase : phase = IF w.version + 1 = 5 THEN "owners" ELSE "upgrading"
      OBVIOUS
    <2>3. /\ pc[c] = "upgrading" /\ pc[c] \in Holding /\ w.version + 1 \in 1..12
          /\ Steps(c, phase, next, found) /\ db' = db /\ crashes' = crashes
      BY <1>1, <1>8, <2>1, <2>2, TwelveMigrations DEF Migrate, GoesTo, Steps, Typed, Holding
    <2>4. Starting(w, "upgrading", found, db, origin, Ever)
      BY <1>1, <2>3
    <2> HIDE DEF w, found
    <2>5. Starting(next, phase, found, db, origin, Ever)
      BY <1>1, <2>1, <2>2, <2>3, <2>4, Migrates
    <2>6. phase \in Phases
      BY <1>3, <2>2
    <2> QED BY <1>1, <2>3, <2>5, <2>6, StepKeeps
  <1>9. CASE MigrateOwners(c)
    <2>1. PICK next : next = FillOwners(w)
      OBVIOUS
    <2>2. /\ pc[c] = "owners" /\ pc[c] \in Holding
          /\ Steps(c, "upgrading", next, found) /\ db' = db /\ crashes' = crashes
      BY <1>1, <1>9, <2>1 DEF MigrateOwners, GoesTo, Steps, Typed, Holding
    <2>3. Starting(w, "owners", found, db, origin, Ever)
      BY <1>1, <2>2
    <2> HIDE DEF w, found
    <2>4. Starting(next, "upgrading", found, db, origin, Ever)
      BY <1>1, <2>1, <2>3, FillsOwners
    <2> QED BY <1>1, <1>3, <2>2, <2>4, StepKeeps
  <1>10. CASE Commit(c)
    <2>1. PICK e : e = [w EXCEPT !.lines = db.lines]
      OBVIOUS
    <2>2. /\ pc[c] = "upgrading" /\ pc[c] \in Holding /\ w.version = 12
          /\ Steps(c, "serving", Nowhere, found) /\ db' = e /\ crashes' = crashes
      BY <1>1, <1>10, <2>1, TwelveMigrations DEF Commit, GoesTo, Steps, Typed, Holding
    <2>3. Starting(w, "upgrading", found, db, origin, Ever)
      BY <1>1, <2>2
    <2> HIDE DEF w, found
    <2>4. Committed(e, Ever) /\ FromOrigin(e, origin, Ever) /\ e.lines = db.lines
      BY <1>1, <2>1, <2>2, <2>3, Commits
    <2>5. Starting(Nowhere, "serving", found, e, origin, Ever)
      BY NothingCovered DEF Starting
    <2> QED BY <1>1, <1>3, <2>2, <2>4, <2>5, StepKeeps
  <1>11. CASE Crash(c)
    <2>1. /\ pc[c] \in Holding /\ Steps(c, "waiting", Nowhere, found)
          /\ db' = db /\ crashes < MaxCrashes /\ crashes' = crashes + 1
      BY <1>1, <1>11 DEF Crash, GoesTo, Steps, Typed
    <2>2. Starting(Nowhere, "waiting", found, db, origin, Ever)
      BY NothingCovered DEF Starting
    <2>3. crashes' \in 0..MaxCrashes
      BY <1>1, <2>1, LinesTyped
    <2> HIDE DEF w, found
    <2> QED BY <1>1, <1>3, <2>1, <2>2, <2>3, StepKeeps
  <1> QED BY <1>4, <1>5, <1>6, <1>7, <1>8, <1>9, <1>10, <1>11 DEF Start

\* Whoever starts, crashes, confirms or deletes meanwhile, the invariant of the deployment
\* holds (migration_lock, the transaction of env.py).
THEOREM DeploymentInvariant == Spec => []DeploymentInv
  <1>1. Init => DeploymentInv
    BY InitDeployment
  <1>2. DeploymentInv /\ [Next]_vars => DeploymentInv'
    <2> SUFFICES ASSUME DeploymentInv, [Next]_vars PROVE DeploymentInv'
      OBVIOUS
    <2>1. CASE Confirm
      BY <2>1, ConfirmStep
    <2>4. CASE Delete
      BY <2>4, DeleteStep
    <2>2. ASSUME NEW c \in Containers, Start(c) \/ Crash(c) PROVE DeploymentInv'
      BY <2>2, StartSteps
    <2>3. CASE UNCHANGED vars
      <3>1. Ever' = Ever
        BY <2>3 DEF vars, Ever
      <3> QED BY <2>3, <3>1 DEF vars, DeploymentInv, Typed, OneHolds
    <2> QED BY <2>1, <2>2, <2>3, <2>4 DEF Next
  <1> QED BY <1>1, <1>2, PTL DEF Spec

-----------------------------------------------------------------------------
(* The properties                                                          *)

\* Versions stay between nothing and the head, and each catalogued product was
\* bought, at the date of a line that the catalogue covers.
THEOREM TypeCorrect == Spec => []TypeOK
  <1>1. ASSUME NEW d, NEW ever \in SUBSET Lines, IsDatabase(d, ever)
        PROVE  /\ d.version \in 0..HeadRevision
               /\ d.perUnit \cup d.covered \subseteq Lines
               /\ \A p \in d.catalogue.products :
                    /\ p.count \in Nat \ {0}
                    /\ p.last \in {line.date : line \in d.covered}
    <2>1. /\ d.version \in 0..12 /\ d.perUnit \subseteq Lines /\ d.covered \subseteq ever
          /\ d.catalogue = Backfill(d.covered, EmptyCatalogue)
      BY <1>1 DEF IsDatabase, OfLines
    <2>2. d.covered \in SUBSET Lines
      BY <2>1
    <2> QED BY <2>1, <2>2, CatalogueMade, TwelveMigrations
  <1>2. DeploymentInv => TypeOK
    <2> SUFFICES ASSUME DeploymentInv PROVE TypeOK
      OBVIOUS
    <2>1. Ever \in SUBSET Lines
      BY DEF DeploymentInv, Committed
    <2>2. ASSUME NEW d \in {db} \cup {work[c] : c \in Containers} PROVE IsDatabase(d, Ever)
      BY DEF DeploymentInv, Committed, Starting
    <2>3. deleted \subseteq ReceiptsOf(Lines \ db.lines) /\ pc \in [Containers -> Phases] /\ detected \in [Containers -> 0..HeadRevision]
          /\ crashes \in 0..MaxCrashes
      BY TwelveMigrations DEF DeploymentInv, Typed
    <2> QED BY <1>1, <2>1, <2>2, <2>3 DEF TypeOK
  <1> QED BY <1>2, DeploymentInvariant, PTL

\* The recorded version is the revision of the schema, nobody creates what is there,
\* and no data migration after the revision found is skipped, whatever the containers
\* interleave and wherever they die (migration_lock, detect_schema_revision,
\* _stamp_revision); nothing is said of those up to a revision found without alembic.
THEOREM UpgradesOnce == Spec => []UpgradedOnce
  <1>1. DeploymentInv => VersionIsTrue
    BY DEF DeploymentInv, Committed, VersionIsTrue
  <1>2. DeploymentInv => NeverTwice
    <2> SUFFICES ASSUME DeploymentInv, NEW c \in Containers, pc[c] = "upgrading"
                 PROVE  /\ db.objects \cap (Upto(HeadRevision) \ Upto(db.version)) = {}
                        /\ work[c].version >= db.version
      BY DEF NeverTwice
    <2>1. Ahead(work[c], db, origin)
      BY DEF DeploymentInv, Starting
    <2> QED BY <2>1 DEF Ahead
  <1>3. DeploymentInv => DataMigrated
    <2> SUFFICES ASSUME DeploymentInv, db.version = HeadRevision PROVE DataMigrated
      BY DEF DataMigrated
    <2>1. FromOrigin(db, origin, Ever) /\ db.version = 12 /\ origin.revision \in 0..12
      BY TwelveMigrations DEF DeploymentInv, FromOrigin
    <2>2. Has(db, origin.lines \cap db.lines, origin.revision)
      BY <2>1 DEF FromOrigin, Has
    <2> QED BY <2>1, <2>2 DEF DataMigrated, Has
  <1> QED BY <1>1, <1>2, <1>3, DeploymentInvariant, PTL DEF UpgradedOnce

\* Every alias leads to a product of its owner, who has a ledger, and the stores of the
\* lines left are among their owners', whichever receipts come and go between the reads
\* of 005 (private_catalog_backfill.py); its backfill run again over the lines covered
\* makes and moves nothing, and changes no count or date unless texts are mixed.
THEOREM CatalogueIsSound == Spec => []CatalogueSound
  <1>1. ASSUME NEW d, NEW ever \in SUBSET Lines, NEW lines,
               IsDatabase(d, ever), Owned(d, lines)
        PROVE  /\ \A alias \in d.catalogue.aliases : \E p \in d.catalogue.products :
                    p.id = alias[2] /\ p.id[1][1] = alias[1][1]
               /\ {p.id[1][1] : p \in d.catalogue.products} \subseteq d.ledgers
               /\ StoresOf(d.covered \cap lines) \subseteq d.stores
    <2>1. d.covered \in SUBSET Lines /\ d.catalogue = Backfill(d.covered, EmptyCatalogue)
      BY <1>1 DEF IsDatabase, OfLines
    <2>2. Closed(d.catalogue.products, d.catalogue.aliases)
      BY <2>1, CatalogueMade
    <2>3. \A p \in d.catalogue.products : p.id[1][1] \in UsersOf(d.covered)
      BY <2>1, CatalogueMade
    <2> QED BY <1>1, <2>2, <2>3 DEF Closed, Owned
  <1>2. DeploymentInv => AliasesLeadHome
    <2> SUFFICES ASSUME DeploymentInv PROVE AliasesLeadHome
      OBVIOUS
    <2>1. Ever \in SUBSET Lines
      BY DEF DeploymentInv, Committed
    <2>2. ASSUME NEW d \in {db} \cup {work[c] : c \in {b \in Containers : pc[b] # "owners"}}
          PROVE  IsDatabase(d, Ever) /\ Owned(d, db.lines)
      BY DEF DeploymentInv, Committed, Starting
    <2> QED BY <1>1, <2>1, <2>2 DEF AliasesLeadHome
  <1>3. DeploymentInv => RerunChangesNothing
    <2> SUFFICES ASSUME DeploymentInv PROVE RerunChangesNothing
      OBVIOUS
    <2>1. db.covered \in SUBSET Lines /\ db.catalogue = Backfill(db.covered, EmptyCatalogue)
      BY DEF DeploymentInv, Committed, IsDatabase, OfLines
    <2>2. ~Mixed(db.covered) => Backfill(db.covered, db.catalogue) = db.catalogue
      BY <2>1, BackfillSettled
    <2>3. /\ Named(Backfill(db.covered, db.catalogue).products) = Named(db.catalogue.products)
          /\ Backfill(db.covered, db.catalogue).aliases = db.catalogue.aliases
      BY <2>1, BackfillNamed
    <2> QED BY <2>2, <2>3 DEF RerunChangesNothing
  <1> QED BY <1>2, <1>3, DeploymentInvariant, PTL DEF CatalogueSound

\* No receipt slips in between a backfill and the commit that makes it visible.
THEOREM NoReceiptSlipsIn == Spec => RevisedAtUpgrade
  <1> DEFINE Kept == db'.objects # db.objects =>
                       /\ db.version < 7 => ReceiptsOf(db.lines) \subseteq db'.revised
                       /\ db.version < 6 => ReceiptsOf(db.lines) \subseteq db'.netted
  <1>1. DeploymentInv /\ [Next]_vars => Kept
    <2> SUFFICES ASSUME DeploymentInv, [Next]_vars, db'.objects # db.objects PROVE Kept
      OBVIOUS
    <2>1. PICK d : d = db
      OBVIOUS
    <2>2. /\ Committed(db, Ever) /\ FromOrigin(db, origin, Ever)
          /\ d = [objects |-> d.objects, torn |-> d.torn, version |-> d.version,
                  lines |-> d.lines, perUnit |-> d.perUnit, catalogue |-> d.catalogue,
                  covered |-> d.covered, stores |-> d.stores, ledgers |-> d.ledgers,
                  netted |-> d.netted, revised |-> d.revised]
      BY <2>1 DEF DeploymentInv, Committed, IsDatabase
    <2>3. \A x : [d EXCEPT !.version = x].objects = d.objects
      BY <2>2
    <2>4. \A x : [d EXCEPT !.lines = x].objects = d.objects
      BY <2>2
    <2>5. ~Confirm
      <3> SUFFICES ASSUME Confirm PROVE FALSE
        OBVIOUS
      <3>1. PICK x : db' = [db EXCEPT !.lines = x]
        BY DEF Confirm
      <3> QED BY <2>1, <2>4, <3>1
    <2>13. ~Delete
      <3> SUFFICES ASSUME Delete PROVE FALSE
        OBVIOUS
      <3>1. PICK x : db' = [db EXCEPT !.lines = x]
        BY DEF Delete
      <3> QED BY <2>1, <2>4, <3>1
    <2>6. ASSUME NEW c \in Containers, Start(c) \/ Crash(c) PROVE Commit(c)
      <3>1. ~Stamp(c)
        <4> SUFFICES ASSUME Stamp(c) PROVE FALSE
          OBVIOUS
        <4>1. db' = [db EXCEPT !.version = detected[c]]
          BY DEF Stamp
        <4> QED BY <2>1, <2>3, <4>1
      <3>2. db' # db
        OBVIOUS
      <3>3. ~TakeLock(c) /\ ~ReadVersion(c) /\ ~DetectRevision(c) /\ ~Migrate(c)
            /\ ~MigrateOwners(c) /\ ~Crash(c)
        BY <3>2 DEF TakeLock, ReadVersion, DetectRevision, Migrate, MigrateOwners, Crash
      <3> QED BY <2>6, <3>1, <3>3 DEF Start
    <2>7. PICK c \in Containers : Commit(c)
      BY <2>5, <2>6, <2>13 DEF Next, vars
    <2>8. PICK w : w = work[c]
      OBVIOUS
    <2>9. Starting(w, "upgrading", detected[c], db, origin, Ever) /\ w.version = 12
      BY <2>7, <2>8, TwelveMigrations DEF Commit, DeploymentInv
    <2>10. db' = [w EXCEPT !.lines = db.lines]
      BY <2>7, <2>8 DEF Commit
    <2>11. PICK e : e = [w EXCEPT !.lines = db.lines]
      OBVIOUS
    <2>12. /\ db.version < 7 => ReceiptsOf(db.lines) \subseteq e.revised
           /\ db.version < 6 => ReceiptsOf(db.lines) \subseteq e.netted
      BY <2>2, <2>9, <2>11, Commits
    <2> QED BY <2>10, <2>11, <2>12
  <1>2. DeploymentInv /\ [Next]_vars => [Kept]_vars
    BY <1>1
  <1> QED BY <1>2, DeploymentInvariant, PTL DEF Spec, RevisedAtUpgrade
=============================================================================
