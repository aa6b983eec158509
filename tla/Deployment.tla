----------------------------- MODULE Deployment -----------------------------
(***************************************************************************)
(* Containers of a release start against one PostgreSQL database           *)
(* (scripts/run_migrations.py): each takes the advisory lock, finds out    *)
(* which revision the schema has, stamps it when alembic never did, and    *)
(* runs the remaining migrations of alembic/versions in one transaction.   *)
(* The release before keeps confirming and deleting receipts meanwhile,    *)
(* and containers crash at any point.  An object of the schema is          *)
(* <<table, revision>>: the table itself at the revision that creates it,  *)
(* else its new columns.                                                   *)
(***************************************************************************)
EXTENDS Catalogue

CONSTANTS
    Containers,
    Lines,     \* lines of the receipts that are confirmed at some time
    Databases, \* databases that a release may find, without their receipts
    Origins,   \* sets of receipts that may be confirmed before the release
    MaxDeleted, \* bound on deleted receipts
    MaxCrashes  \* bound on crashes

VARIABLES
    db,       \* what is committed
    work,     \* of a container: the database as its transaction leaves it
    pc,       \* of a container: how far its start is
    detected, \* of a container: the revision it found in the schema
    origin,   \* the lines and the revision found at the start of the release
    deleted,  \* receipts that were deleted, whose IDs never come back
    crashes   \* how many there were

vars == <<db, work, pc, detected, origin, deleted, crashes>>

\* What each migration creates or adds columns to.
CreateUsers == {"users"}
CreateReceipts == {"stores", "receipts", "receipt_items"}
CreateProducts == {"products", "product_aliases", "price_observations"}
PrivateCatalog == {"user_products", "user_product_aliases", "user_stores", "account_ledgers"}
LineUnits == {"receipts", "receipt_items"}
ReceiptRevisions == {"receipts", "receipt_revisions", "receipt_revision_lines",
                     "price_observations_v2", "receipt_mutations"}
ShoppingLists == {"shopping_lists", "shopping_list_items", "shopping_list_mutations",
                  "shopping_list_sync_state"}
AuthSessions == {"refresh_sessions", "password_reset_tokens"}
JobOutbox == {"users", "job_outbox"}
PayloadHash == {"receipts"}
OcrExtraction == {"receipts"}

Migrations == <<CreateUsers, CreateReceipts, CreateProducts, {}, PrivateCatalog, LineUnits,
                ReceiptRevisions, ShoppingLists, AuthSessions, JobOutbox, PayloadHash,
                OcrExtraction>>
Revisions == 1..Len(Migrations)
HeadRevision == Len(Migrations)
Creates(k) == Migrations[k] \X {k}
Upto(k) == UNION {Creates(j) : j \in 1..k}

\* What the script declares of each of them, to verify a schema by.
SchemaRevisions ==
    [k \in {1, 2, 3} \cup 5..12 |->
        CASE k = 1 -> {"users"}
          [] k = 2 -> {"stores", "receipts", "receipt_items"}
          [] k = 3 -> {"products", "product_aliases", "price_observations"}
          [] k = 5 -> {"user_products", "user_product_aliases", "user_stores", "account_ledgers"}
          [] k = 6 -> {"receipts", "receipt_items"}
          [] k = 7 -> {"receipts", "receipt_revisions", "receipt_revision_lines",
                       "price_observations_v2", "receipt_mutations"}
          [] k = 8 -> {"shopping_lists", "shopping_list_items", "shopping_list_mutations",
                       "shopping_list_sync_state"}
          [] k = 9 -> {"refresh_sessions", "password_reset_tokens"}
          [] k = 10 -> {"job_outbox", "users"}
          [] k \in {11, 12} -> {"receipts"}]
DataOnlyRevisions == {4}

Declared == DOMAIN SchemaRevisions

ReceiptsOf(lines) == {line.receipt : line \in lines}

ASSUME LinesTyped ==
    /\ Lines \subseteq Line /\ IsFiniteSet(Lines)
    /\ \A a, b \in Lines : a.id = b.id => a = b
    /\ Origins \subseteq SUBSET ReceiptsOf(Lines)
    /\ MaxDeleted \in Nat /\ MaxCrashes \in Nat

\* _assert_revisions_declared: no container of this source is stopped by it.
ASSUME EveryRevisionDeclared == Declared \cup DataOnlyRevisions = Revisions

\* A torn object lacks some of its columns.
Nowhere == [objects |-> {}, torn |-> {}, version |-> 0, lines |-> {}, perUnit |-> {},
            catalogue |-> EmptyCatalogue, covered |-> {}, stores |-> {}, ledgers |-> {},
            netted |-> {}, revised |-> {}]

\* A migration and its version are one transaction, so the schema that alembic left
\* is the one of its version; create_all and older releases may have left any other.
ASSUME DatabasesFound ==
    \A d \in Databases :
        /\ d = [Nowhere EXCEPT !.objects = d.objects, !.torn = d.torn, !.version = d.version]
        /\ d.objects \subseteq Upto(HeadRevision) /\ d.torn \subseteq d.objects
        /\ d.version \in 0..HeadRevision
        /\ d.version # 0 => d.objects = Upto(d.version) /\ d.torn = {}

Phases == {"waiting", "locked", "unversioned", "detected", "upgrading", "owners",
           "serving", "refused"}

ObjectsOf(k) == SchemaRevisions[k] \X {k}
Complete(k, d) == ObjectsOf(k) \subseteq d.objects \ d.torn
Missing(k, d) == ObjectsOf(k) \cap d.objects = {}
Verified(d) == {k \in Declared : \A j \in Declared : j <= k => Complete(j, d)}
NewestOf(revisions) == Max(revisions \cup {0})

\* detect_schema_revision: refused when a revision after the verified ones is
\* there, wholly or in part.
Detect(d) ==
    [refused |-> \E k \in Declared \ Verified(d) : ~Missing(k, d),
     revision |-> NewestOf(Verified(d))]

StoresOf(lines) == {<<line.user, line.store>> : line \in {l \in lines : l.store # Nothing}}

LinesIn(receipts) == {line \in Lines : line.receipt \in receipts}

\* What the backfill of 005 makes of the lines of any receipts, once for all.
Backfilled == {[lines |-> LinesIn(receipts), tables |-> Backfill(LinesIn(receipts), EmptyCatalogue)] :
                receipts \in SUBSET ReceiptsOf(Lines)}
FirstCatalogue(lines) == (CHOOSE b \in Backfilled : b.lines = lines).tables

\* A database on which alembic is at a revision has the data of its migrations.
Found(base, receipts) ==
    LET lines == IF <<"receipts", 2>> \in base.objects
                 THEN LinesIn(receipts) ELSE {}
        since(k) == base.version >= k
    IN  [base EXCEPT
            !.lines = lines,
            !.perUnit = IF since(4) THEN lines ELSE {},
            !.catalogue = IF since(5) THEN FirstCatalogue(lines) ELSE EmptyCatalogue,
            !.covered = IF since(5) THEN lines ELSE {},
            !.stores = IF since(5) THEN StoresOf(lines) ELSE {},
            !.ledgers = IF since(5) THEN {l.user : l \in lines} ELSE {},
            !.netted = IF since(6) THEN ReceiptsOf(lines) ELSE {},
            !.revised = IF since(7) THEN ReceiptsOf(lines) ELSE {}]

Init ==
    /\ \E base \in Databases, receipts \in Origins : db = Found(base, receipts)
    /\ origin = [lines |-> db.lines,
                 revision |-> IF db.version # 0 THEN db.version ELSE Detect(db).revision]
    /\ work = [c \in Containers |-> Nowhere]
    /\ pc = [c \in Containers |-> "waiting"]
    /\ detected = [c \in Containers |-> 0]
    /\ deleted = {}
    /\ crashes = 0

Holding == {"locked", "unversioned", "detected", "upgrading", "owners"}

GoesTo(c, phase) == pc' = [pc EXCEPT ![c] = phase]

\* A plausible bug: nobody waits for the lock.
TakeLockAnyway(c) ==
    /\ pc[c] = "waiting"
    /\ GoesTo(c, "locked")
    /\ UNCHANGED <<db, work, detected, origin, deleted, crashes>>

\* migration_lock: pg_advisory_lock waits for the session that holds it.
TakeLock(c) ==
    /\ pc[c] = "waiting"
    /\ \A other \in Containers : pc[other] \notin Holding
    /\ GoesTo(c, "locked")
    /\ UNCHANGED <<db, work, detected, origin, deleted, crashes>>

\* A plausible bug: a database with a version needs no upgrade.
ReadVersionDone(c) ==
    /\ pc[c] = "locked"
    /\ GoesTo(c, IF db.version # 0 THEN "serving" ELSE "unversioned")
    /\ work' = [work EXCEPT ![c] = db]
    /\ UNCHANGED <<db, detected, origin, deleted, crashes>>

\* _alembic_revision: a database that alembic knows goes on from its version.
ReadVersion(c) ==
    /\ pc[c] = "locked"
    /\ GoesTo(c, IF db.version # 0 THEN "upgrading" ELSE "unversioned")
    /\ work' = [work EXCEPT ![c] = db]
    /\ UNCHANGED <<db, detected, origin, deleted, crashes>>

\* Refusing ends the container and gives the lock back; an empty schema is not stamped.
DetectRevision(c) ==
    /\ pc[c] = "unversioned"
    /\ GoesTo(c, IF Detect(db).refused THEN "refused"
                 ELSE IF Detect(db).revision = 0 THEN "upgrading" ELSE "detected")
    /\ detected' = [detected EXCEPT ![c] = Detect(db).revision]
    /\ work' = [work EXCEPT ![c] = db]
    /\ UNCHANGED <<db, origin, deleted, crashes>>

\* A plausible bug: a data migration that follows counts as done.
StampNext(c) ==
    /\ pc[c] = "detected"
    /\ db' = [db EXCEPT !.version = IF detected[c] + 1 \in DataOnlyRevisions
                                    THEN detected[c] + 1 ELSE detected[c]]
    /\ work' = [work EXCEPT ![c] = db']
    /\ GoesTo(c, "upgrading")
    /\ UNCHANGED <<detected, origin, deleted, crashes>>

\* _stamp_revision, in a transaction of its own.
Stamp(c) ==
    /\ pc[c] = "detected"
    /\ db' = [db EXCEPT !.version = detected[c]]
    /\ work' = [work EXCEPT ![c] = db']
    /\ GoesTo(c, "upgrading")
    /\ UNCHANGED <<detected, origin, deleted, crashes>>

\* 004 rewrites every observation from the line it was read from.
UnitPrices(d) == [d EXCEPT !.perUnit = db.lines]

\* 005 fills the tables that it has just created from the lines committed by now.
FillCatalogue(d) ==
    [d EXCEPT !.catalogue = FirstCatalogue(db.lines), !.covered = db.lines]

\* A plausible bug: the owners are those of the receipts that are there by now.
FillOwnersOfReceipts(d) ==
    [d EXCEPT !.stores = @ \cup StoresOf(db.lines),
              !.ledgers = @ \cup {line.user : line \in db.lines}]

\* Later statements of 005 read the receipts once more: the stores from them only,
\* the owners also from the lines that it read before.
FillOwners(d) ==
    [d EXCEPT !.stores = @ \cup StoresOf(db.lines),
              !.ledgers = @ \cup {line.user : line \in d.covered \cup db.lines}]

\* 006 copies the totals of the lines of confirmed receipts.
CopyTotals(d) == [d EXCEPT !.netted = ReceiptsOf(db.lines)]

\* 007 gives every confirmed receipt without a revision its first one.
FillRevisions(d) == [d EXCEPT !.revised = @ \cup ReceiptsOf(db.lines)]

Migrated(k, d) ==
    LET made == [d EXCEPT !.objects = @ \cup Creates(k), !.version = k]
    IN  CASE k = 4 -> UnitPrices(made)
          [] k = 5 -> FillCatalogue(made)
          [] k = 6 -> CopyTotals(made)
          [] k = 7 -> FillRevisions(made)
          [] OTHER -> made

\* One migration after the other, all in the transaction of env.py.
Migrate(c) ==
    LET k == work[c].version + 1
    IN  /\ pc[c] = "upgrading"
        /\ k \in Revisions
        /\ work' = [work EXCEPT ![c] = Migrated(k, @)]
        /\ GoesTo(c, IF k = 5 THEN "owners" ELSE "upgrading")
        /\ UNCHANGED <<db, detected, origin, deleted, crashes>>

MigrateOwners(c) ==
    /\ pc[c] = "owners"
    /\ work' = [work EXCEPT ![c] = FillOwners(@)]
    /\ GoesTo(c, "upgrading")
    /\ UNCHANGED <<db, detected, origin, deleted, crashes>>

\* The transaction ends, the lock is given back and the API starts.
Commit(c) ==
    /\ pc[c] = "upgrading"
    /\ work[c].version = HeadRevision
    /\ db' = [work[c] EXCEPT !.lines = db.lines]
    /\ work' = [work EXCEPT ![c] = Nowhere]
    /\ GoesTo(c, "serving")
    /\ UNCHANGED <<detected, origin, deleted, crashes>>

\* The sessions end: lock and transaction with them; the platform restarts it.
Crash(c) ==
    /\ pc[c] \in Holding
    /\ crashes < MaxCrashes
    /\ crashes' = crashes + 1
    /\ work' = [work EXCEPT ![c] = Nowhere]
    /\ GoesTo(c, "waiting")
    /\ UNCHANGED <<db, detected, origin, deleted>>

\* A plausible bug: each migration gives its locks back before the next.
BlocksReceiptsBriefly(k) == k \in {11, 12}

\* ALTER TABLE on users or receipts, which a confirmation reads or writes.
BlocksReceipts(k) == {"users", "receipts"} \cap Migrations[k] # {}

\* The open transaction of a container keeps receipts from being changed.
LocksReceipts(c) ==
    pc[c] \in Holding /\ \E k \in db.version + 1..work[c].version : BlocksReceipts(k)

\* confirm_receipt of the release before, with a store and products that exist.
Confirm ==
    \E receipt \in ReceiptsOf(Lines) \ (ReceiptsOf(db.lines) \cup deleted) :
        /\ <<"receipts", 2>> \in db.objects
        /\ \A c \in Containers : ~LocksReceipts(c)
        /\ db' = [db EXCEPT !.lines = @ \cup LinesIn({receipt})]
        /\ UNCHANGED <<work, pc, detected, origin, deleted, crashes>>

\* 004 holds the observations of the receipt, one for each line with a store.
LocksObservations(c, receipt) ==
    /\ pc[c] \in Holding
    /\ db.version < 4 /\ work[c].version >= 4
    /\ \E line \in work[c].perUnit : line.receipt = receipt /\ line.store # Nothing

\* delete_receipt of the release before: the observations, then the receipt with its
\* lines, unless a revision refers to it.
Delete ==
    \E receipt \in ReceiptsOf(db.lines) \ db.revised :
        /\ Cardinality(deleted) < MaxDeleted
        /\ \A c \in Containers : ~LocksReceipts(c) /\ ~LocksObservations(c, receipt)
        /\ db' = [db EXCEPT !.lines = @ \ LinesIn({receipt})]
        /\ deleted' = deleted \cup {receipt}
        /\ UNCHANGED <<work, pc, detected, origin, crashes>>

Start(c) ==
    \/ TakeLock(c)
    \/ ReadVersion(c)
    \/ DetectRevision(c)
    \/ Stamp(c)
    \/ Migrate(c)
    \/ MigrateOwners(c)
    \/ Commit(c)

Next == Confirm \/ Delete \/ \E c \in Containers : Start(c) \/ Crash(c)

\* A container that runs goes on, and waits for the lock without giving up.
Spec == Init /\ [][Next]_vars /\ \A c \in Containers : WF_vars(Start(c))

-----------------------------------------------------------------------------

\* Types; a catalogued product was bought, at the date of one of its lines.
TypeOK ==
    /\ \A d \in {db} \cup {work[c] : c \in Containers} :
        /\ d.version \in 0..HeadRevision
        /\ d.perUnit \cup d.covered \subseteq Lines
        /\ \A p \in d.catalogue.products :
            /\ p.count \in Nat \ {0}
            /\ p.last \in {line.date : line \in d.covered}
    /\ pc \in [Containers -> Phases]
    /\ detected \in [Containers -> 0..HeadRevision]
    /\ deleted \subseteq ReceiptsOf(Lines \ db.lines)
    /\ crashes \in 0..MaxCrashes

\* The version that alembic goes on from is the revision of the schema: all that
\* it and those before create is there, whole, and nothing of a later one, although
\* containers crash between looking, stamping and upgrading.
VersionIsTrue == db.version # 0 => db.objects = Upto(db.version) /\ db.torn = {}

\* Nobody creates what is there: what the open transaction of a container has
\* created, or has yet to, is not in the committed schema.
NeverTwice ==
    \A c \in Containers : pc[c] = "upgrading" =>
        /\ db.objects \cap (Upto(HeadRevision) \ Upto(db.version)) = {}
        /\ work[c].version >= db.version

\* What is left of the receipts that the release found has the data of every
\* migration after the revision at which it found the schema.  (A schema that
\* create_all made is found, and stamped, at the newest revision whose tables it
\* has: the data of the migrations up to there is never filled in, that of 004
\* neither, although run_migrations.py:352 has data migrations run again.)
DataMigrated ==
    LET left == origin.lines \cap db.lines
    IN  db.version = HeadRevision =>
            /\ origin.revision < 4 => left \subseteq db.perUnit
            /\ origin.revision < 5 => left \subseteq db.covered
            /\ origin.revision < 6 => ReceiptsOf(left) \subseteq db.netted
            /\ origin.revision < 7 => ReceiptsOf(left) \subseteq db.revised

\* Every schema object is made once, whatever the containers interleave and
\* wherever they die, the recorded version is the schema's, and no data
\* migration after the revision found is skipped.
UpgradedOnce ==
    /\ VersionIsTrue
    /\ NeverTwice
    /\ DataMigrated

\* No receipt slips in between a backfill and the commit: at the moment the upgrade
\* is visible every confirmed receipt has a first revision, and copied totals.
RevisedAtUpgrade ==
    [][db'.objects # db.objects =>
        /\ db.version < 7 => ReceiptsOf(db.lines) \subseteq db'.revised
        /\ db.version < 6 => ReceiptsOf(db.lines) \subseteq db'.netted]_vars

\* An alias leads to a catalogued product of its own owner, who has a ledger, and a
\* store of a catalogued line is among the stores of its owner, although receipts are
\* confirmed and deleted between the statement that reads the lines and those that
\* read the owners and the stores.  (A receipt deleted there leaves its products and
\* its owner's ledger, not its store.)
AliasesLeadHome ==
    \A d \in {db} \cup {work[c] : c \in {b \in Containers : pc[b] # "owners"}} :
        /\ \A alias \in d.catalogue.aliases : \E p \in d.catalogue.products :
            p.id = alias[2] /\ p.id[1][1] = alias[1][1]
        /\ {p.id[1][1] : p \in d.catalogue.products} \subseteq d.ledgers
        /\ StoresOf(d.covered \cap db.lines) \subseteq d.stores

Named(products) == {[id |-> p.id, name |-> p.name] : p \in products}

\* The backfill run again over the lines it covered makes no product and no alias, and
\* moves none.  It changes no count or date either, unless a text is known in one store
\* both with a global product and without: there it is not idempotent, against
\* private_catalog_backfill.py:3, for the draft of the text then overwrites the count
\* and the date of the product that took its alias.
RerunChangesNothing ==
    LET again == Backfill(db.covered, db.catalogue)
    IN  /\ Named(again.products) = Named(db.catalogue.products)
        /\ again.aliases = db.catalogue.aliases
        /\ ~Mixed(db.covered) => again = db.catalogue

\* The private catalogue that an upgrade leaves is closed and settled: every alias has
\* its product and its owner a ledger, and a second backfill makes nothing new.
CatalogueSound ==
    /\ AliasesLeadHome
    /\ RerunChangesNothing

\* A database that can be upgraded is, and every container comes to serve, although
\* they queue for one lock and crash with it.
EveryoneServes ==
    db.version # 0 \/ ~Detect(db).refused =>
        <>[](db.version = HeadRevision /\ \A c \in Containers : pc[c] = "serving")
=============================================================================
