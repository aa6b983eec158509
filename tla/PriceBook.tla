----------------------------- MODULE PriceBook -----------------------------
(***************************************************************************)
(* What the confirmation of receipts promises the readers of prices: each  *)
(* receipt has one current revision, only that revision has prices, a new  *)
(* revision replaces the prices of the one before it in the same step that *)
(* moves the account's price_data_version, and nothing else touches them.  *)
(* ReceiptRevisions implements this specification, statement by statement. *)
(***************************************************************************)
EXTENDS Naturals

CONSTANTS
    Receipts,   \* the confirmed or confirmable receipts of one account
    Lines,      \* line IDs, stable and chosen by the client
    MaxVersion  \* revisions a receipt can get (a bound)

VARIABLES
    version,  \* receipts.version: the number of the current revision
    prices,   \* current observations, each with the revision it comes from
    ledger    \* account_ledgers.price_data_version as readers see it

bookVars == <<version, prices, ledger>>

\* Prices from before the first revision carry revision 0 (v1 observations).
BookInit ==
    /\ version \in [Receipts -> 0..1]
    /\ prices \in [Receipts -> SUBSET ({0} \X Lines)]
    /\ ledger = 1

Publish(r, priced) ==
    /\ version[r] < MaxVersion
    /\ version' = [version EXCEPT ![r] = @ + 1]
    /\ prices' = [prices EXCEPT ![r] = {version[r] + 1} \X priced]
    /\ ledger' = ledger + 1

BookNext == \E r \in Receipts, priced \in SUBSET Lines : Publish(r, priced)

BookSpec == BookInit /\ [][BookNext]_bookVars
=============================================================================
