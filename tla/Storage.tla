------------------------------ MODULE Storage -------------------------------
(***************************************************************************)
(* The state of one tokenvm chain (tokenvm/storage/storage.go): balances,  *)
(* assets, orders and loans, each a map from a key to a record or to       *)
(* Missing, and the functions every action handler reads and writes it     *)
(* with.                                                                   *)
(*                                                                         *)
(* A handler is a sequence of these functions that stops at the first      *)
(* error.  It is modelled as a "run": [ok, db, keys], where ok is FALSE    *)
(* once an error was returned, db is the state with the writes done so     *)
(* far, and keys are the state keys touched so far.  Every operation is    *)
(* the identity on a run that has failed, so the composition of            *)
(* operations keeps the order, the early returns and the partial writes    *)
(* of the code.                                                            *)
(***************************************************************************)
EXTENDS Naturals, FiniteSets

CONSTANTS
  Accounts,     \* public keys somebody can sign with
  EmptyKey,     \* crypto.EmptyPublicKey: nobody signs with it
  Native,       \* ids.Empty, the id of the native asset
  TxIDs,        \* transaction ids; a created asset or order has its tx's id
  Chains,       \* blockchain ids
  Metadata,     \* metadata of the assets created on a chain
  MaxUint64,    \* the largest amount
  Missing       \* database.ErrNotFound

PublicKeys == Accounts \cup {EmptyKey}
Amount     == 0 .. MaxUint64

\* An asset lives under ids.Empty, under the id of the transaction that
\* created it, or, when it was imported, under the hash of the pair (its id
\* on its own chain, that chain), which is also its metadata.
LocalIDs    == {Native} \cup TxIDs
ImportedIDs == LocalIDs \X Chains
AssetIDs    == LocalIDs \cup ImportedIDs

\* Mutant: the two halves of the metadata are swapped.
MetadataSwapped(asset, chain) == <<chain, asset>>

ImportedAssetID(asset, chain)       == <<asset, chain>>
ImportedAssetMetadata(asset, chain) == <<asset, chain>>

\* Ids are hashes: no transaction id is the id of an imported asset.
ASSUME StorageAssumption ==
  /\ MaxUint64 \in Nat \ {0}
  /\ EmptyKey \notin Accounts
  /\ Native \notin TxIDs
  /\ LocalIDs \cap ImportedIDs = {}
  /\ IsFiniteSet(Accounts) /\ IsFiniteSet(TxIDs) /\ IsFiniteSet(Chains)

Asset == [metadata : Metadata \cup ImportedIDs, supply : Amount,
          owner : PublicKeys, warp : BOOLEAN]

Order == [in : AssetIDs, inTick : Amount, out : AssetIDs, outTick : Amount,
          remaining : Amount, owner : PublicKeys]

ASSUME MissingAssumption ==
  /\ Missing \notin Amount
  /\ Missing \notin Asset
  /\ Missing \notin Order

DB == [bal    : [PublicKeys \X AssetIDs -> Amount \cup {Missing}],
       assets : [AssetIDs -> Asset \cup {Missing}],
       orders : [TxIDs -> Order \cup {Missing}],
       loans  : [AssetIDs \X Chains -> Amount \cup {Missing}]]

-----------------------------------------------------------------------------
\* State keys: a prefix byte and the fields the code concatenates to it.

BalanceKey(pk, asset) == <<"balance", pk, asset>>
AssetKey(asset)       == <<"asset", asset>>
OrderKey(id)          == <<"order", id>>
LoanKey(asset, dest)  == <<"loan", asset, dest>>

StateKey ==
  {BalanceKey(pk, a) : pk \in PublicKeys, a \in AssetIDs}
    \cup {AssetKey(a) : a \in AssetIDs}
    \cup {OrderKey(id) : id \in TxIDs}
    \cup {LoanKey(a, d) : a \in AssetIDs, d \in Chains}

-----------------------------------------------------------------------------
\* Runs.

Run == [ok : BOOLEAN, db : DB, keys : SUBSET StateKey]

Begin(d) == [ok |-> TRUE, db |-> d, keys |-> {}]

\* An early return of a handler: the run goes on only when cond holds.
Require(s, cond) == [s EXCEPT !.ok = s.ok /\ cond]

Touch(s, key) == IF s.ok THEN [s EXCEPT !.keys = s.keys \cup {key}] ELSE s

-----------------------------------------------------------------------------
\* Balances.

ValueOf(record) == IF record = Missing THEN 0 ELSE record

GetBalance(d, pk, asset) == ValueOf(d.bal[<<pk, asset>>])

AddBalance(s, pk, asset, amount) ==
  LET nbal    == GetBalance(s.db, pk, asset) + amount
      checked == Require(Touch(s, BalanceKey(pk, asset)), nbal <= MaxUint64)
  IN  IF checked.ok
      THEN [checked EXCEPT !.db.bal[<<pk, asset>>] = nbal]
      ELSE checked

\* Mutant: a balance of 0 stays on record.
SubBalanceKeepingZero(s, pk, asset, amount) ==
  LET bal     == GetBalance(s.db, pk, asset)
      checked == Require(Touch(s, BalanceKey(pk, asset)), amount <= bal)
  IN  IF checked.ok
      THEN [checked EXCEPT !.db.bal[<<pk, asset>>] = bal - amount]
      ELSE checked

\* A record that reaches 0 is removed.
SubBalance(s, pk, asset, amount) ==
  LET bal     == GetBalance(s.db, pk, asset)
      checked == Require(Touch(s, BalanceKey(pk, asset)), amount <= bal)
  IN  IF checked.ok
      THEN [checked EXCEPT !.db.bal[<<pk, asset>>] =
                             IF bal = amount THEN Missing ELSE bal - amount]
      ELSE checked

-----------------------------------------------------------------------------
\* Assets and orders.  Setting a record to Missing deletes it.

SetAsset(s, asset, record) ==
  IF s.ok THEN [Touch(s, AssetKey(asset)) EXCEPT !.db.assets[asset] = record]
          ELSE s

SetOrder(s, id, record) ==
  IF s.ok THEN [Touch(s, OrderKey(id)) EXCEPT !.db.orders[id] = record]
          ELSE s

-----------------------------------------------------------------------------
\* Loans: what was exported of an asset to another chain.

GetLoan(d, asset, dest) == ValueOf(d.loans[<<asset, dest>>])

AddLoan(s, asset, dest, amount) ==
  LET nloan   == GetLoan(s.db, asset, dest) + amount
      checked == Require(Touch(s, LoanKey(asset, dest)), nloan <= MaxUint64)
  IN  IF checked.ok
      THEN [checked EXCEPT !.db.loans[<<asset, dest>>] = nloan]
      ELSE checked

SubLoan(s, asset, dest, amount) ==
  LET loan    == GetLoan(s.db, asset, dest)
      checked == Require(Touch(s, LoanKey(asset, dest)), amount <= loan)
  IN  IF checked.ok
      THEN [checked EXCEPT !.db.loans[<<asset, dest>>] =
                             IF loan = amount THEN Missing ELSE loan - amount]
      ELSE checked
=============================================================================
