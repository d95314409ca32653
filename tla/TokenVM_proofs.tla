--------------------------- MODULE TokenVM_proofs ---------------------------
(***************************************************************************)
(* Safety of TokenVM for every number of accounts, transactions, chains    *)
(* and assets and for every bound on the amounts.                          *)
(*                                                                         *)
(* First what the operations of Storage do to a run: which part of the     *)
(* state they change and how, that they keep the state well typed, that a  *)
(* run that has failed stays failed, and how they move the totals of a     *)
(* chain: a credit takes from what is gone, a debit adds to it, and a      *)
(* handler conserves an asset when its moves cancel out.                   *)
(*                                                                         *)
(* Then what each Execute method preserves of the state of its chain, and  *)
(* that it stays within the keys it declares.  A state is sound when it is *)
(* well typed, its open orders are well formed, its warp assets are        *)
(* identified and none of its records is empty.  No handler preserves one  *)
(* of these on its own: a fill credits the buyer something only because    *)
(* the order holds something, an export names an asset of another chain    *)
(* only because warp assets are identified.                                *)
(*                                                                         *)
(* Then what each of them does to that state when it succeeds, told from   *)
(* outside: the records it writes and the entries it makes in the balances *)
(* and in the loans, whatever the steps it takes.                          *)
(*                                                                         *)
(* At last the chains together.                                            *)
(***************************************************************************)
EXTENDS TokenVM, Totals_proofs, SequenceTheorems

\* Touching a key changes nothing but the keys.
LEMMA TouchRun ==
  ASSUME NEW s \in Run, NEW key \in StateKey
  PROVE  /\ Touch(s, key) \in Run
         /\ Touch(s, key).ok = s.ok
         /\ Touch(s, key).db = s.db
         /\ Touch(s, key).keys \subseteq s.keys \cup {key}
BY DEF Touch, Run

\* The key of a balance is a state key.
LEMMA BalanceKeyType ==
  ASSUME NEW pk \in PublicKeys, NEW asset \in AssetIDs
  PROVE  BalanceKey(pk, asset) \in StateKey
BY DEF StateKey, BalanceKey

\* The key of an asset is a state key.
LEMMA AssetKeyType ==
  ASSUME NEW asset \in AssetIDs
  PROVE  AssetKey(asset) \in StateKey
BY DEF StateKey, AssetKey

\* The key of an order is a state key.
LEMMA OrderKeyType ==
  ASSUME NEW id \in TxIDs
  PROVE  OrderKey(id) \in StateKey
BY DEF StateKey, OrderKey

\* The key of a loan is a state key.
LEMMA LoanKeyType ==
  ASSUME NEW asset \in AssetIDs, NEW dest \in Chains
  PROVE  LoanKey(asset, dest) \in StateKey
BY DEF StateKey, LoanKey

\* A record that does not exist counts as 0.
LEMMA ValueOfType ==
  ASSUME NEW v \in Amount \cup {Missing}
  PROVE  ValueOf(v) \in Amount
BY StorageAssumption DEF ValueOf, Amount

\* A balance is an amount.
LEMMA GetBalanceType ==
  ASSUME NEW d \in DB, NEW pk \in PublicKeys, NEW asset \in AssetIDs
  PROVE  GetBalance(d, pk, asset) \in Amount
BY ValueOfType DEF GetBalance, DB

\* A loan is an amount.
LEMMA GetLoanType ==
  ASSUME NEW d \in DB, NEW asset \in AssetIDs, NEW dest \in Chains
  PROVE  GetLoan(d, asset, dest) \in Amount
BY ValueOfType DEF GetLoan, DB

-----------------------------------------------------------------------------
\* What an operation on one record does to the state.
SetBal(d, k, v)  == [d EXCEPT !.bal = [d.bal EXCEPT ![k] = v]]
SetLoan(d, k, v) == [d EXCEPT !.loans = [d.loans EXCEPT ![k] = v]]

\* Writing a balance changes no asset, order or loan.
LEMMA SetBalType ==
  ASSUME NEW d \in DB, NEW k \in PublicKeys \X AssetIDs,
         NEW v \in Amount \cup {Missing}
  PROVE  /\ SetBal(d, k, v) \in DB
         /\ SetBal(d, k, v).bal = [d.bal EXCEPT ![k] = v]
         /\ SetBal(d, k, v).assets = d.assets
         /\ SetBal(d, k, v).orders = d.orders
         /\ SetBal(d, k, v).loans = d.loans
BY DEF SetBal, DB

\* Writing a loan changes no asset, order or balance.
LEMMA SetLoanType ==
  ASSUME NEW d \in DB, NEW k \in AssetIDs \X Chains,
         NEW v \in Amount \cup {Missing}
  PROVE  /\ SetLoan(d, k, v) \in DB
         /\ SetLoan(d, k, v).loans = [d.loans EXCEPT ![k] = v]
         /\ SetLoan(d, k, v).assets = d.assets
         /\ SetLoan(d, k, v).orders = d.orders
         /\ SetLoan(d, k, v).bal = d.bal
BY DEF SetLoan, DB

-----------------------------------------------------------------------------
\* A credit that succeeds raises one balance, and does not overflow.
LEMMA AddBalanceRun ==
  ASSUME NEW s \in Run, NEW pk \in PublicKeys, NEW asset \in AssetIDs, NEW amount,
         s.ok => amount \in Nat,
         NEW r, r = AddBalance(s, pk, asset, amount),
         NEW new, new = GetBalance(s.db, pk, asset) + amount
  PROVE  /\ r \in Run
         /\ r.ok => s.ok /\ new \in Amount
         /\ s.ok /\ new <= MaxUint64 => r.ok
         /\ r.db = IF r.ok THEN SetBal(s.db, <<pk, asset>>, new) ELSE s.db
         /\ r.keys \subseteq s.keys \cup {BalanceKey(pk, asset)}
<1> DEFINE t == Touch(s, BalanceKey(pk, asset))
           c == Require(t, new <= MaxUint64)
<1>1. /\ t \in Run /\ t.ok = s.ok /\ t.db = s.db
      /\ t.keys \subseteq s.keys \cup {BalanceKey(pk, asset)}
  <2> HIDE DEF t
  <2>1. BalanceKey(pk, asset) \in StateKey
    BY BalanceKeyType
  <2> QED
    BY <2>1, TouchRun DEF t
<1>2. c \in Run /\ (c.ok <=> s.ok /\ new <= MaxUint64) /\ c.db = s.db /\ c.keys = t.keys
  <2> HIDE DEF t
  <2> QED
    BY <1>1 DEF Require, Run
<1>3. r = IF c.ok THEN [c EXCEPT !.db.bal[<<pk, asset>>] = new] ELSE c
  BY DEF AddBalance
<1>4. s.db \in DB
  BY DEF Run
<1>5. GetBalance(s.db, pk, asset) \in Amount
  BY <1>4, GetBalanceType
<1> HIDE DEF t, c
<1>6. c.ok => new \in Amount
  BY <1>2, <1>5, StorageAssumption DEF Amount
<1>7. CASE c.ok
  <2>1. r = [c EXCEPT !.db = SetBal(c.db, <<pk, asset>>, new)]
    BY <1>3, <1>7 DEF SetBal
  <2>2. SetBal(c.db, <<pk, asset>>, new) \in DB
    BY <1>2, <1>4, <1>6, <1>7, SetBalType
  <2>3. r \in Run /\ r.ok /\ r.db = SetBal(s.db, <<pk, asset>>, new) /\ r.keys = c.keys
    BY <1>2, <1>7, <2>1, <2>2 DEF Run
  <2> QED
    BY <1>1, <1>2, <1>6, <1>7, <2>3
<1>8. CASE ~c.ok
  BY <1>1, <1>2, <1>3, <1>8
<1> QED
  BY <1>7, <1>8

\* A debit that succeeds lowers one balance, which covers it, and removes it
\* at 0.
LEMMA SubBalanceRun ==
  ASSUME NEW s \in Run, NEW pk \in PublicKeys, NEW asset \in AssetIDs, NEW amount,
         s.ok => amount \in Nat,
         NEW r, r = SubBalance(s, pk, asset, amount),
         NEW old, old = GetBalance(s.db, pk, asset),
         NEW new, new = IF old = amount THEN Missing ELSE old - amount
  PROVE  /\ r \in Run
         /\ r.ok => s.ok /\ amount <= old /\ new \in Amount \cup {Missing}
         /\ s.ok /\ amount <= old => r.ok
         /\ r.db = IF r.ok THEN SetBal(s.db, <<pk, asset>>, new) ELSE s.db
         /\ r.keys \subseteq s.keys \cup {BalanceKey(pk, asset)}
<1> DEFINE t == Touch(s, BalanceKey(pk, asset))
           c == Require(t, amount <= old)
<1>1. /\ t \in Run /\ t.ok = s.ok /\ t.db = s.db
      /\ t.keys \subseteq s.keys \cup {BalanceKey(pk, asset)}
  <2> HIDE DEF t
  <2>1. BalanceKey(pk, asset) \in StateKey
    BY BalanceKeyType
  <2> QED
    BY <2>1, TouchRun DEF t
<1>2. c \in Run /\ (c.ok <=> s.ok /\ amount <= old) /\ c.db = s.db /\ c.keys = t.keys
  <2> HIDE DEF t
  <2> QED
    BY <1>1 DEF Require, Run
<1>3. r = IF c.ok THEN [c EXCEPT !.db.bal[<<pk, asset>>] = new] ELSE c
  BY DEF SubBalance
<1>4. s.db \in DB
  BY DEF Run
<1>5. GetBalance(s.db, pk, asset) \in Amount
  BY <1>4, GetBalanceType
<1> HIDE DEF t, c
<1>6. c.ok => new \in Amount \cup {Missing}
  BY <1>2, <1>5, StorageAssumption DEF Amount
<1>7. CASE c.ok
  <2>1. r = [c EXCEPT !.db = SetBal(c.db, <<pk, asset>>, new)]
    BY <1>3, <1>7 DEF SetBal
  <2>2. SetBal(c.db, <<pk, asset>>, new) \in DB
    BY <1>2, <1>4, <1>6, <1>7, SetBalType
  <2>3. r \in Run /\ r.ok /\ r.db = SetBal(s.db, <<pk, asset>>, new) /\ r.keys = c.keys
    BY <1>2, <1>7, <2>1, <2>2 DEF Run
  <2> QED
    BY <1>1, <1>2, <1>6, <1>7, <2>3
<1>8. CASE ~c.ok
  BY <1>1, <1>2, <1>3, <1>8
<1> QED
  BY <1>7, <1>8

\* A loan that grows does not overflow.
LEMMA AddLoanRun ==
  ASSUME NEW s \in Run, NEW asset \in AssetIDs, NEW dest \in Chains, NEW amount,
         s.ok => amount \in Nat,
         NEW r, r = AddLoan(s, asset, dest, amount),
         NEW new, new = GetLoan(s.db, asset, dest) + amount
  PROVE  /\ r \in Run
         /\ r.ok => s.ok /\ new \in Amount
         /\ s.ok /\ new <= MaxUint64 => r.ok
         /\ r.db = IF r.ok THEN SetLoan(s.db, <<asset, dest>>, new) ELSE s.db
         /\ r.keys \subseteq s.keys \cup {LoanKey(asset, dest)}
<1> DEFINE t == Touch(s, LoanKey(asset, dest))
           c == Require(t, new <= MaxUint64)
<1>1. /\ t \in Run /\ t.ok = s.ok /\ t.db = s.db
      /\ t.keys \subseteq s.keys \cup {LoanKey(asset, dest)}
  <2> HIDE DEF t
  <2>1. LoanKey(asset, dest) \in StateKey
    BY LoanKeyType
  <2> QED
    BY <2>1, TouchRun DEF t
<1>2. c \in Run /\ (c.ok <=> s.ok /\ new <= MaxUint64) /\ c.db = s.db /\ c.keys = t.keys
  <2> HIDE DEF t
  <2> QED
    BY <1>1 DEF Require, Run
<1>3. r = IF c.ok THEN [c EXCEPT !.db.loans[<<asset, dest>>] = new] ELSE c
  BY DEF AddLoan
<1>4. s.db \in DB
  BY DEF Run
<1>5. GetLoan(s.db, asset, dest) \in Amount
  BY <1>4, GetLoanType
<1> HIDE DEF t, c
<1>6. c.ok => new \in Amount
  BY <1>2, <1>5, StorageAssumption DEF Amount
<1>7. CASE c.ok
  <2>1. r = [c EXCEPT !.db = SetLoan(c.db, <<asset, dest>>, new)]
    BY <1>3, <1>7 DEF SetLoan
  <2>2. SetLoan(c.db, <<asset, dest>>, new) \in DB
    BY <1>2, <1>4, <1>6, <1>7, SetLoanType
  <2>3. r \in Run /\ r.ok /\ r.db = SetLoan(s.db, <<asset, dest>>, new) /\ r.keys = c.keys
    BY <1>2, <1>7, <2>1, <2>2 DEF Run
  <2> QED
    BY <1>1, <1>2, <1>6, <1>7, <2>3
<1>8. CASE ~c.ok
  BY <1>1, <1>2, <1>3, <1>8
<1> QED
  BY <1>7, <1>8

\* A loan is repaid only as far as it goes, and removed at 0.
LEMMA SubLoanRun ==
  ASSUME NEW s \in Run, NEW asset \in AssetIDs, NEW dest \in Chains, NEW amount,
         s.ok => amount \in Nat,
         NEW r, r = SubLoan(s, asset, dest, amount),
         NEW old, old = GetLoan(s.db, asset, dest),
         NEW new, new = IF old = amount THEN Missing ELSE old - amount
  PROVE  /\ r \in Run
         /\ r.ok => s.ok /\ amount <= old /\ new \in Amount \cup {Missing}
         /\ s.ok /\ amount <= old => r.ok
         /\ r.db = IF r.ok THEN SetLoan(s.db, <<asset, dest>>, new) ELSE s.db
         /\ r.keys \subseteq s.keys \cup {LoanKey(asset, dest)}
<1> DEFINE t == Touch(s, LoanKey(asset, dest))
           c == Require(t, amount <= old)
<1>1. /\ t \in Run /\ t.ok = s.ok /\ t.db = s.db
      /\ t.keys \subseteq s.keys \cup {LoanKey(asset, dest)}
  <2> HIDE DEF t
  <2>1. LoanKey(asset, dest) \in StateKey
    BY LoanKeyType
  <2> QED
    BY <2>1, TouchRun DEF t
<1>2. c \in Run /\ (c.ok <=> s.ok /\ amount <= old) /\ c.db = s.db /\ c.keys = t.keys
  <2> HIDE DEF t
  <2> QED
    BY <1>1 DEF Require, Run
<1>3. r = IF c.ok THEN [c EXCEPT !.db.loans[<<asset, dest>>] = new] ELSE c
  BY DEF SubLoan
<1>4. s.db \in DB
  BY DEF Run
<1>5. GetLoan(s.db, asset, dest) \in Amount
  BY <1>4, GetLoanType
<1> HIDE DEF t, c
<1>6. c.ok => new \in Amount \cup {Missing}
  BY <1>2, <1>5, StorageAssumption DEF Amount
<1>7. CASE c.ok
  <2>1. r = [c EXCEPT !.db = SetLoan(c.db, <<asset, dest>>, new)]
    BY <1>3, <1>7 DEF SetLoan
  <2>2. SetLoan(c.db, <<asset, dest>>, new) \in DB
    BY <1>2, <1>4, <1>6, <1>7, SetLoanType
  <2>3. r \in Run /\ r.ok /\ r.db = SetLoan(s.db, <<asset, dest>>, new) /\ r.keys = c.keys
    BY <1>2, <1>7, <2>1, <2>2 DEF Run
  <2> QED
    BY <1>1, <1>2, <1>6, <1>7, <2>3
<1>8. CASE ~c.ok
  BY <1>1, <1>2, <1>3, <1>8
<1> QED
  BY <1>7, <1>8

-----------------------------------------------------------------------------
\* Setting or deleting a record changes that record only.
LEMMA SetAssetRun ==
  ASSUME NEW s \in Run, NEW asset \in AssetIDs, NEW record,
         s.ok => record \in Asset \cup {Missing},
         NEW r, r = SetAsset(s, asset, record)
  PROVE  /\ r \in Run
         /\ r.ok = s.ok
         /\ ~r.ok => r = s
         /\ r.ok => /\ r.db.assets = [s.db.assets EXCEPT ![asset] = record]
                    /\ r.db.bal = s.db.bal
                    /\ r.db.orders = s.db.orders
                    /\ r.db.loans = s.db.loans
         /\ r.keys \subseteq s.keys \cup {AssetKey(asset)}
<1>1. CASE s.ok
  <2> DEFINE t == Touch(s, AssetKey(asset))
             d == [t.db EXCEPT !.assets = [t.db.assets EXCEPT ![asset] = record]]
  <2>1. AssetKey(asset) \in StateKey
    BY AssetKeyType
  <2>2. /\ t \in Run /\ t.ok = s.ok /\ t.db = s.db
        /\ t.keys \subseteq s.keys \cup {AssetKey(asset)}
    BY <2>1, TouchRun
  <2>3. r = [t EXCEPT !.db = d]
    BY <1>1 DEF SetAsset
  <2> HIDE DEF t
  <2>4. t.db \in DB
    BY <2>2 DEF Run
  <2>5. d \in DB
    BY <1>1, <2>4 DEF DB
  <2>6. /\ d.assets = [s.db.assets EXCEPT ![asset] = record]
        /\ d.bal = s.db.bal /\ d.orders = s.db.orders /\ d.loans = s.db.loans
    BY <2>2, <2>4 DEF DB
  <2> HIDE DEF d
  <2>7. r \in Run /\ r.ok = t.ok /\ r.db = d /\ r.keys = t.keys
    BY <2>2, <2>3, <2>5 DEF Run
  <2> QED
    BY <1>1, <2>2, <2>6, <2>7
<1>2. CASE ~s.ok
  BY <1>2 DEF SetAsset
<1> QED
  BY <1>1, <1>2

\* Setting or deleting an order changes that order only.
LEMMA SetOrderRun ==
  ASSUME NEW s \in Run, NEW id \in TxIDs, NEW record,
         s.ok => record \in Order \cup {Missing},
         NEW r, r = SetOrder(s, id, record)
  PROVE  /\ r \in Run
         /\ r.ok = s.ok
         /\ ~r.ok => r = s
         /\ r.ok => /\ r.db.orders = [s.db.orders EXCEPT ![id] = record]
                    /\ r.db.bal = s.db.bal
                    /\ r.db.assets = s.db.assets
                    /\ r.db.loans = s.db.loans
         /\ r.keys \subseteq s.keys \cup {OrderKey(id)}
<1>1. CASE s.ok
  <2> DEFINE t == Touch(s, OrderKey(id))
             d == [t.db EXCEPT !.orders = [t.db.orders EXCEPT ![id] = record]]
  <2>1. OrderKey(id) \in StateKey
    BY OrderKeyType
  <2>2. /\ t \in Run /\ t.ok = s.ok /\ t.db = s.db
        /\ t.keys \subseteq s.keys \cup {OrderKey(id)}
    BY <2>1, TouchRun
  <2>3. r = [t EXCEPT !.db = d]
    BY <1>1 DEF SetOrder
  <2> HIDE DEF t
  <2>4. t.db \in DB
    BY <2>2 DEF Run
  <2>5. d \in DB
    BY <1>1, <2>4 DEF DB
  <2>6. /\ d.orders = [s.db.orders EXCEPT ![id] = record]
        /\ d.bal = s.db.bal /\ d.assets = s.db.assets /\ d.loans = s.db.loans
    BY <2>2, <2>4 DEF DB
  <2> HIDE DEF d
  <2>7. r \in Run /\ r.ok = t.ok /\ r.db = d /\ r.keys = t.keys
    BY <2>2, <2>3, <2>5 DEF Run
  <2> QED
    BY <1>1, <2>2, <2>6, <2>7
<1>2. CASE ~s.ok
  BY <1>2 DEF SetOrder
<1> QED
  BY <1>1, <1>2
-----------------------------------------------------------------------------
\* amount of asset leaves the balances, orders and loans of a chain that goes
\* from state d to state e.
Moves(d, e, asset, amount) ==
  \A a \in AssetIDs : Gone(e, a) = Gone(d, a) + (IF a = asset THEN amount ELSE 0)

\* Nothing leaves and nothing comes from nowhere.
Conserves(d, e) == \A a \in AssetIDs : Gone(e, a) = Gone(d, a)

\* The functions that are summed up.
Holdings(d, a) == [pk \in PublicKeys |-> GetBalance(d, pk, a)]
Locks(d, a)    == [id \in TxIDs |-> LockedIn(d.orders[id], a)]
Loans(d, a)    == [c \in Chains |-> GetLoan(d, a, c)]

\* The accounts, with the empty key, are finitely many.
LEMMA PublicKeysFinite == IsFiniteSet(PublicKeys)
BY StorageAssumption, FS_AddElement DEF PublicKeys

\* What is summed up are numbers.
LEMMA SummandsType ==
  ASSUME NEW d \in DB, NEW a \in AssetIDs
  PROVE  /\ Holdings(d, a) \in [PublicKeys -> Nat]
         /\ Locks(d, a) \in [TxIDs -> Nat]
         /\ Loans(d, a) \in [Chains -> Nat]
<1>1. \A x \in Amount : x \in Nat
  BY StorageAssumption DEF Amount
<1>2. \A pk \in PublicKeys : GetBalance(d, pk, a) \in Nat
  BY <1>1, GetBalanceType
<1>3. \A c \in Chains : GetLoan(d, a, c) \in Nat
  BY <1>1, GetLoanType
<1>4. \A id \in TxIDs : LockedIn(d.orders[id], a) \in Nat
  BY <1>1 DEF DB, Order, LockedIn
<1> QED
  BY <1>2, <1>3, <1>4 DEF Holdings, Locks, Loans

\* The totals are numbers.
LEMMA GoneType ==
  ASSUME NEW d \in DB, NEW a \in AssetIDs
  PROVE  /\ Supply(d, a) \in Nat
         /\ Held(d, a) \in Nat /\ Locked(d, a) \in Nat /\ Lent(d, a) \in Nat
         /\ Gone(d, a) \in Int
<1>1. Held(d, a) = Total(Holdings(d, a))
  BY DEF Held, Holdings
<1>2. Locked(d, a) = Total(Locks(d, a))
  BY DEF Locked, Locks
<1>3. Lent(d, a) = Total(Loans(d, a))
  BY DEF Lent, Loans
<1>4. Held(d, a) \in Nat
  BY <1>1, SummandsType, PublicKeysFinite, CoinsFinite
<1>5. Locked(d, a) \in Nat
  BY <1>2, SummandsType, StorageAssumption, CoinsFinite
<1>6. Lent(d, a) \in Nat
  BY <1>3, SummandsType, StorageAssumption, CoinsFinite
<1>7. Supply(d, a) \in Nat
  BY StorageAssumption DEF Supply, SupplyOf, DB, Asset, Amount
<1> QED
  BY <1>4, <1>5, <1>6, <1>7 DEF Gone

\* Moves of one asset add up.
LEMMA MovesAdd ==
  ASSUME NEW d \in DB, NEW e \in DB, NEW f \in DB, NEW asset,
         NEW x \in Int, NEW y \in Int,
         Moves(d, e, asset, x), Moves(e, f, asset, y)
  PROVE  Moves(d, f, asset, x + y)
<1> SUFFICES ASSUME NEW a \in AssetIDs
             PROVE  Gone(f, a) = Gone(d, a) + (IF a = asset THEN x + y ELSE 0)
  BY DEF Moves
<1>1. Gone(d, a) \in Int /\ Gone(e, a) \in Int /\ Gone(f, a) \in Int
  BY GoneType
<1>2. /\ Gone(e, a) = Gone(d, a) + (IF a = asset THEN x ELSE 0)
      /\ Gone(f, a) = Gone(e, a) + (IF a = asset THEN y ELSE 0)
  BY DEF Moves
<1> QED
  BY <1>1, <1>2

\* To move nothing is to conserve.
LEMMA MovesNothing ==
  ASSUME NEW d \in DB, NEW e \in DB, NEW asset, NEW x \in Int, x = 0,
         Moves(d, e, asset, x)
  PROVE  Conserves(d, e)
<1> SUFFICES ASSUME NEW a \in AssetIDs PROVE Gone(e, a) = Gone(d, a)
  BY DEF Conserves
<1>1. Gone(d, a) \in Int /\ Gone(e, a) = Gone(d, a) + (IF a = asset THEN x ELSE 0)
  BY GoneType DEF Moves
<1> QED
  BY <1>1

\* What is taken and given back is conserved.
LEMMA RoundTrip ==
  ASSUME NEW d \in DB, NEW e \in DB, NEW f \in DB, NEW asset, NEW x \in Int,
         Moves(d, e, asset, x), Moves(e, f, asset, -x)
  PROVE  Conserves(d, f)
<1> DEFINE y == -x
<1>1. y \in Int /\ x + y = 0 /\ x + y \in Int
  OBVIOUS
<1> HIDE DEF y
<1>2. Moves(d, f, asset, x + y)
  BY <1>1, MovesAdd DEF y
<1> QED
  BY <1>1, <1>2, MovesNothing

\* What is given first and taken back is conserved, too.
LEMMA RoundTripBack ==
  ASSUME NEW d \in DB, NEW e \in DB, NEW f \in DB, NEW asset, NEW x \in Int,
         Moves(d, e, asset, -x), Moves(e, f, asset, x)
  PROVE  Conserves(d, f)
<1> DEFINE y == -x
<1>1. y \in Int /\ y + x = 0 /\ y + x \in Int
  OBVIOUS
<1> HIDE DEF y
<1>2. Moves(d, f, asset, y + x)
  BY <1>1, MovesAdd DEF y
<1> QED
  BY <1>1, <1>2, MovesNothing

\* A state that stays the same moves nothing.
LEMMA StandStill ==
  ASSUME NEW d \in DB, NEW asset
  PROVE  Moves(d, d, asset, 0)
BY GoneType DEF Moves

\* What conserves every asset does so step by step.
LEMMA ConservesTrans ==
  ASSUME NEW d, NEW e, NEW f, Conserves(d, e), Conserves(e, f)
  PROVE  Conserves(d, f)
BY DEF Conserves

\* Writing a balance moves what it grows by.
LEMMA SetBalMoves ==
  ASSUME NEW d \in DB, NEW pk \in PublicKeys, NEW asset \in AssetIDs,
         NEW v \in Amount \cup {Missing}
  PROVE  Moves(d, SetBal(d, <<pk, asset>>, v), asset,
               GetBalance(d, pk, asset) - ValueOf(v))
<1> DEFINE e == SetBal(d, <<pk, asset>>, v)
           old == GetBalance(d, pk, asset)
           new == ValueOf(v)
<1>1. /\ e \in DB /\ e.bal = [d.bal EXCEPT ![<<pk, asset>>] = v]
      /\ e.assets = d.assets /\ e.orders = d.orders /\ e.loans = d.loans
  BY SetBalType
<1>2. old \in Nat /\ new \in Nat
  BY GetBalanceType, ValueOfType, StorageAssumption DEF Amount
<1> HIDE DEF e
<1>3. \A a \in AssetIDs : Held(e, a) = Held(d, a) + (IF a = asset THEN new - old ELSE 0)
  <2> SUFFICES ASSUME NEW a \in AssetIDs
               PROVE  Held(e, a) = Held(d, a) + (IF a = asset THEN new - old ELSE 0)
    OBVIOUS
  <2> DEFINE f == Holdings(d, a)
             g == Holdings(e, a)
  <2>1. f \in [PublicKeys -> Nat] /\ Held(d, a) = Total(f) /\ Held(e, a) = Total(g)
    BY SummandsType DEF Held, Holdings
  <2>2. CASE a = asset
    <3>1. g = Put(f, pk, new) /\ f[pk] = old
      BY <1>1, <2>2 DEF Put, Holdings, GetBalance, DB
    <3> HIDE DEF f, g, old, new
    <3>2. Total(Put(f, pk, new)) + f[pk] = Total(f) + new
      BY <1>2, <2>1, PublicKeysFinite, TotalUpdate
    <3>3. Held(d, a) \in Nat /\ Held(e, a) \in Nat
      BY <1>1, GoneType
    <3>4. Held(e, a) + old = Held(d, a) + new
      BY <2>1, <3>1, <3>2
    <3>5. Held(e, a) = Held(d, a) + (new - old)
      BY <1>2, <3>3, <3>4
    <3> QED
      BY <2>2, <3>5
  <2>3. CASE a # asset
    <3>1. g = f
      BY <1>1, <2>3 DEF Holdings, GetBalance, DB
    <3> HIDE DEF f, g
    <3> QED
      BY <1>1, <2>1, <2>3, <3>1, GoneType
  <2> QED
    BY <2>2, <2>3
<1>4. \A a \in AssetIDs : /\ Supply(e, a) = Supply(d, a)
                          /\ Locked(e, a) = Locked(d, a)
                          /\ Lent(e, a) = Lent(d, a)
  BY <1>1 DEF Supply, Locked, Lent, GetLoan
<1>5. \A a \in AssetIDs : /\ Supply(d, a) \in Nat /\ Held(d, a) \in Nat
                          /\ Locked(d, a) \in Nat /\ Lent(d, a) \in Nat
  BY GoneType
<1> HIDE DEF old, new
<1>6. Moves(d, e, asset, old - new)
  BY <1>2, <1>3, <1>4, <1>5 DEF Moves, Gone
<1> QED
  BY <1>6 DEF e, old, new

\* So does writing a loan.
LEMMA SetLoanMoves ==
  ASSUME NEW d \in DB, NEW dest \in Chains, NEW asset \in AssetIDs,
         NEW v \in Amount \cup {Missing}
  PROVE  Moves(d, SetLoan(d, <<asset, dest>>, v), asset,
               GetLoan(d, asset, dest) - ValueOf(v))
<1> DEFINE e == SetLoan(d, <<asset, dest>>, v)
           old == GetLoan(d, asset, dest)
           new == ValueOf(v)
<1>1. /\ e \in DB /\ e.loans = [d.loans EXCEPT ![<<asset, dest>>] = v]
      /\ e.assets = d.assets /\ e.orders = d.orders /\ e.bal = d.bal
  BY SetLoanType
<1>2. old \in Nat /\ new \in Nat
  BY GetLoanType, ValueOfType, StorageAssumption DEF Amount
<1> HIDE DEF e
<1>3. \A a \in AssetIDs : Lent(e, a) = Lent(d, a) + (IF a = asset THEN new - old ELSE 0)
  <2> SUFFICES ASSUME NEW a \in AssetIDs
               PROVE  Lent(e, a) = Lent(d, a) + (IF a = asset THEN new - old ELSE 0)
    OBVIOUS
  <2> DEFINE f == Loans(d, a)
             g == Loans(e, a)
  <2>1. f \in [Chains -> Nat] /\ Lent(d, a) = Total(f) /\ Lent(e, a) = Total(g)
    BY SummandsType DEF Lent, Loans
  <2>2. CASE a = asset
    <3>1. g = Put(f, dest, new) /\ f[dest] = old
      BY <1>1, <2>2 DEF Put, Loans, GetLoan, DB
    <3>2. IsFiniteSet(Chains)
      BY StorageAssumption
    <3> HIDE DEF f, g, old, new
    <3>3. Total(Put(f, dest, new)) + f[dest] = Total(f) + new
      BY <1>2, <2>1, <3>2, TotalUpdate
    <3>4. Lent(d, a) \in Nat /\ Lent(e, a) \in Nat
      BY <1>1, GoneType
    <3>5. Lent(e, a) + old = Lent(d, a) + new
      BY <2>1, <3>1, <3>3
    <3>6. Lent(e, a) = Lent(d, a) + (new - old)
      BY <1>2, <3>4, <3>5
    <3> QED
      BY <2>2, <3>6
  <2>3. CASE a # asset
    <3>1. g = f
      BY <1>1, <2>3 DEF Loans, GetLoan, DB
    <3> HIDE DEF f, g
    <3> QED
      BY <1>1, <2>1, <2>3, <3>1, GoneType
  <2> QED
    BY <2>2, <2>3
<1>4. \A a \in AssetIDs : /\ Supply(e, a) = Supply(d, a)
                          /\ Locked(e, a) = Locked(d, a)
                          /\ Held(e, a) = Held(d, a)
  BY <1>1 DEF Supply, Locked, Held, GetBalance
<1>5. \A a \in AssetIDs : /\ Supply(d, a) \in Nat /\ Held(d, a) \in Nat
                          /\ Locked(d, a) \in Nat /\ Lent(d, a) \in Nat
  BY GoneType
<1> HIDE DEF old, new
<1>6. Moves(d, e, asset, old - new)
  BY <1>2, <1>3, <1>4, <1>5 DEF Moves, Gone
<1> QED
  BY <1>6 DEF e, old, new

\* Writing an asset creates or destroys the difference of the supplies.
LEMMA SetAssetMoves ==
  ASSUME NEW d \in DB, NEW e \in DB, NEW asset \in AssetIDs,
         NEW record \in Asset \cup {Missing},
         e.assets = [d.assets EXCEPT ![asset] = record],
         e.bal = d.bal, e.orders = d.orders, e.loans = d.loans
  PROVE  Moves(d, e, asset, SupplyOf(record) - SupplyOf(d.assets[asset]))
<1>1. \A a \in AssetIDs : /\ Held(e, a) = Held(d, a)
                          /\ Locked(e, a) = Locked(d, a)
                          /\ Lent(e, a) = Lent(d, a)
  BY DEF Held, Locked, Lent, GetBalance, GetLoan
<1>2. \A a \in AssetIDs :
        Supply(e, a) = IF a = asset THEN SupplyOf(record) ELSE Supply(d, a)
  BY DEF Supply, DB
<1>3. Supply(d, asset) = SupplyOf(d.assets[asset])
  BY DEF Supply
<1>4. \A a \in AssetIDs : /\ Supply(d, a) \in Nat /\ Held(d, a) \in Nat
                          /\ Locked(d, a) \in Nat /\ Lent(d, a) \in Nat
                          /\ Supply(e, a) \in Nat
  BY GoneType
<1> QED
  BY <1>1, <1>2, <1>3, <1>4 DEF Moves, Gone

\* Writing an order moves the difference of what is locked: out of the asset
\* the old record holds and into the one the new record holds.
LEMMA SetOrderMoves ==
  ASSUME NEW d \in DB, NEW e \in DB, NEW id \in TxIDs,
         NEW record \in Order \cup {Missing},
         e.orders = [d.orders EXCEPT ![id] = record],
         e.bal = d.bal, e.assets = d.assets, e.loans = d.loans
  PROVE  \A a \in AssetIDs :
           Gone(e, a) = Gone(d, a) + LockedIn(d.orders[id], a) - LockedIn(record, a)
<1> SUFFICES ASSUME NEW a \in AssetIDs
             PROVE  Gone(e, a) = Gone(d, a) + LockedIn(d.orders[id], a) - LockedIn(record, a)
  OBVIOUS
<1> DEFINE f == Locks(d, a)
           g == Locks(e, a)
           old == LockedIn(d.orders[id], a)
           new == LockedIn(record, a)
<1>1. f \in [TxIDs -> Nat] /\ g \in [TxIDs -> Nat]
  BY SummandsType
<1>2. Locked(d, a) = Total(f) /\ Locked(e, a) = Total(g)
  BY DEF Locked, Locks
<1>3. g = Put(f, id, new) /\ f[id] = old /\ g[id] = new
  BY DEF Put, Locks, DB
<1>4. /\ Supply(e, a) = Supply(d, a) /\ Held(e, a) = Held(d, a) /\ Lent(e, a) = Lent(d, a)
  BY DEF Supply, Held, Lent, GetBalance, GetLoan
<1>5. IsFiniteSet(TxIDs)
  BY StorageAssumption
<1> HIDE DEF f, g, old, new
<1>6. old \in Nat /\ new \in Nat
  BY <1>1, <1>3
<1>7. Total(Put(f, id, new)) + f[id] = Total(f) + new
  BY <1>1, <1>5, <1>6, TotalUpdate
<1>8. /\ Supply(d, a) \in Nat /\ Held(d, a) \in Nat /\ Lent(d, a) \in Nat
      /\ Locked(d, a) \in Nat /\ Locked(e, a) \in Nat
  BY GoneType
<1>9. Gone(e, a) = Gone(d, a) + old - new
  BY <1>2, <1>3, <1>4, <1>6, <1>7, <1>8 DEF Gone
<1> QED
  BY <1>9 DEF old, new
-----------------------------------------------------------------------------
\* A credit that succeeds takes its amount from what is gone.
LEMMA AddBalanceFlow ==
  ASSUME NEW s \in Run, NEW pk \in PublicKeys, NEW asset \in AssetIDs, NEW amount,
         s.ok => amount \in Nat,
         NEW r, r = AddBalance(s, pk, asset, amount)
  PROVE  r.ok => Moves(s.db, r.db, asset, -amount)
<1> DEFINE old == GetBalance(s.db, pk, asset)
           new == old + amount
<1> SUFFICES ASSUME r.ok PROVE Moves(s.db, r.db, asset, -amount)
  OBVIOUS
<1>1. /\ s.ok /\ s.db \in DB /\ amount \in Nat
      /\ new \in Amount
      /\ r.db = SetBal(s.db, <<pk, asset>>, new)
  BY AddBalanceRun DEF Run
<1>2. old \in Amount
  BY <1>1, GetBalanceType
<1>3. old - ValueOf(new) = -amount
  BY <1>1, <1>2, StorageAssumption, MissingAssumption DEF ValueOf, Amount
<1> HIDE DEF new
<1>4. Moves(s.db, r.db, asset, old - ValueOf(new))
  BY <1>1, SetBalMoves
<1> QED
  BY <1>3, <1>4

\* A debit that succeeds adds its amount to it.
LEMMA SubBalanceFlow ==
  ASSUME NEW s \in Run, NEW pk \in PublicKeys, NEW asset \in AssetIDs, NEW amount,
         s.ok => amount \in Nat,
         NEW r, r = SubBalance(s, pk, asset, amount)
  PROVE  r.ok => Moves(s.db, r.db, asset, amount)
<1> DEFINE old == GetBalance(s.db, pk, asset)
           new == IF old = amount THEN Missing ELSE old - amount
<1> SUFFICES ASSUME r.ok PROVE Moves(s.db, r.db, asset, amount)
  OBVIOUS
<1>1. /\ s.ok /\ s.db \in DB /\ amount \in Nat
      /\ new \in Amount \cup {Missing} /\ amount <= old
      /\ r.db = SetBal(s.db, <<pk, asset>>, new)
  BY SubBalanceRun DEF Run
<1>2. old \in Amount
  BY <1>1, GetBalanceType
<1>3. old - ValueOf(new) = amount
  <2>1. CASE old = amount
    BY <1>1, <1>2, <2>1, StorageAssumption DEF ValueOf, Amount
  <2>2. CASE old # amount
    <3>1. old - amount \in Amount
      BY <1>1, <1>2, StorageAssumption DEF Amount
    <3> QED
      BY <1>1, <1>2, <2>2, <3>1, StorageAssumption, MissingAssumption DEF ValueOf, Amount
  <2> QED
    BY <2>1, <2>2
<1> HIDE DEF new
<1>4. Moves(s.db, r.db, asset, old - ValueOf(new))
  BY <1>1, SetBalMoves
<1> QED
  BY <1>3, <1>4

\* What is lent is not gone.
LEMMA AddLoanFlow ==
  ASSUME NEW s \in Run, NEW asset \in AssetIDs, NEW dest \in Chains, NEW amount,
         s.ok => amount \in Nat,
         NEW r, r = AddLoan(s, asset, dest, amount)
  PROVE  r.ok => Moves(s.db, r.db, asset, -amount)
<1> DEFINE old == GetLoan(s.db, asset, dest)
           new == old + amount
<1> SUFFICES ASSUME r.ok PROVE Moves(s.db, r.db, asset, -amount)
  OBVIOUS
<1>1. /\ s.ok /\ s.db \in DB /\ amount \in Nat
      /\ new \in Amount
      /\ r.db = SetLoan(s.db, <<asset, dest>>, new)
  BY AddLoanRun DEF Run
<1>2. old \in Amount
  BY <1>1, GetLoanType
<1>3. old - ValueOf(new) = -amount
  BY <1>1, <1>2, StorageAssumption, MissingAssumption DEF ValueOf, Amount
<1> HIDE DEF new
<1>4. Moves(s.db, r.db, asset, old - ValueOf(new))
  BY <1>1, SetLoanMoves
<1> QED
  BY <1>3, <1>4

\* What is repaid is, until somebody is credited with it.
LEMMA SubLoanFlow ==
  ASSUME NEW s \in Run, NEW asset \in AssetIDs, NEW dest \in Chains, NEW amount,
         s.ok => amount \in Nat,
         NEW r, r = SubLoan(s, asset, dest, amount)
  PROVE  r.ok => Moves(s.db, r.db, asset, amount)
<1> DEFINE old == GetLoan(s.db, asset, dest)
           new == IF old = amount THEN Missing ELSE old - amount
<1> SUFFICES ASSUME r.ok PROVE Moves(s.db, r.db, asset, amount)
  OBVIOUS
<1>1. /\ s.ok /\ s.db \in DB /\ amount \in Nat
      /\ new \in Amount \cup {Missing} /\ amount <= old
      /\ r.db = SetLoan(s.db, <<asset, dest>>, new)
  BY SubLoanRun DEF Run
<1>2. old \in Amount
  BY <1>1, GetLoanType
<1>3. old - ValueOf(new) = amount
  <2>1. CASE old = amount
    BY <1>1, <1>2, <2>1, StorageAssumption DEF ValueOf, Amount
  <2>2. CASE old # amount
    <3>1. old - amount \in Amount
      BY <1>1, <1>2, StorageAssumption DEF Amount
    <3> QED
      BY <1>1, <1>2, <2>2, <3>1, StorageAssumption, MissingAssumption DEF ValueOf, Amount
  <2> QED
    BY <2>1, <2>2
<1> HIDE DEF new
<1>4. Moves(s.db, r.db, asset, old - ValueOf(new))
  BY <1>1, SetLoanMoves
<1> QED
  BY <1>3, <1>4

\* What is minted is gone until it is credited, what is burned must have been
\* debited.
LEMMA SetAssetFlow ==
  ASSUME NEW s \in Run, NEW asset \in AssetIDs, NEW record,
         s.ok => record \in Asset \cup {Missing},
         NEW r, r = SetAsset(s, asset, record),
         NEW amount, s.ok => amount = SupplyOf(record) - SupplyOf(s.db.assets[asset])
  PROVE  r.ok => Moves(s.db, r.db, asset, amount)
<1> SUFFICES ASSUME r.ok PROVE Moves(s.db, r.db, asset, amount)
  OBVIOUS
<1>1. /\ s.ok /\ s.db \in DB /\ r.db \in DB /\ record \in Asset \cup {Missing}
      /\ r.db.assets = [s.db.assets EXCEPT ![asset] = record]
      /\ r.db.bal = s.db.bal /\ r.db.orders = s.db.orders /\ r.db.loans = s.db.loans
  BY SetAssetRun DEF Run
<1> QED
  BY <1>1, SetAssetMoves

\* An order takes what it locks from what is gone and gives back what it
\* locked before.
LEMMA SetOrderFlow ==
  ASSUME NEW s \in Run, NEW id \in TxIDs, NEW record,
         s.ok => record \in Order \cup {Missing},
         NEW r, r = SetOrder(s, id, record)
  PROVE  r.ok => \A a \in AssetIDs :
           Gone(r.db, a) = Gone(s.db, a) + LockedIn(s.db.orders[id], a) - LockedIn(record, a)
<1> SUFFICES ASSUME r.ok
             PROVE  \A a \in AssetIDs :
                      Gone(r.db, a) = Gone(s.db, a) + LockedIn(s.db.orders[id], a)
                                        - LockedIn(record, a)
  OBVIOUS
<1>1. /\ s.ok /\ s.db \in DB /\ r.db \in DB /\ record \in Order \cup {Missing}
      /\ r.db.orders = [s.db.orders EXCEPT ![id] = record]
      /\ r.db.bal = s.db.bal /\ r.db.assets = s.db.assets /\ r.db.loans = s.db.loans
  BY SetOrderRun DEF Run
<1> QED
  BY <1>1, SetOrderMoves

-----------------------------------------------------------------------------
\* Sound states.

OrdersOK(d) == \A id \in TxIDs : d.orders[id] # Missing => WellFormedOrder(d.orders[id])

WarpRecordOK(a, asset) ==
  asset # Missing => /\ asset.warp <=> a \in ImportedIDs
                     /\ asset.warp => asset.metadata = a

WarpOK(d) == \A a \in AssetIDs : WarpRecordOK(a, d.assets[a])

\* Nothing is empty but what Z excuses.
NoEmpty(Z, d) ==
  /\ \A k \in (PublicKeys \X AssetIDs) \ Z : d.bal[k] # 0
  /\ \A k \in AssetIDs \X Chains : d.loans[k] # 0

Sound(Z, d) == d \in DB /\ OrdersOK(d) /\ WarpOK(d) /\ NoEmpty(Z, d)

GoodRun(Z, s) == s \in Run /\ (s.ok => Sound(Z, s.db))

\* Of the transaction ids, only ids may get a record they did not have.
CreatesOnly(d, e, ids) ==
  \A x \in TxIDs \ ids :
    /\ d.assets[x] = Missing => e.assets[x] = Missing
    /\ d.orders[x] = Missing => e.orders[x] = Missing

\* What a run that succeeds does to the state as a whole.
Effect(s, r, ids) ==
  r.ok => s.ok /\ Conserves(s.db, r.db) /\ CreatesOnly(s.db, r.db, ids)

\* What one part of a handler and then the next do is done by both.
LEMMA EffectTrans ==
  ASSUME NEW s, NEW q, NEW r, Effect(s, q, {}), Effect(q, r, {})
  PROVE  Effect(s, r, {})
<1>1. r.ok => s.ok /\ q.ok
  BY DEF Effect
<1>2. r.ok => Conserves(s.db, r.db)
  BY <1>1, ConservesTrans DEF Effect
<1>3. r.ok => CreatesOnly(s.db, q.db, {}) /\ CreatesOnly(q.db, r.db, {})
  BY <1>1 DEF Effect
<1>4. r.ok => CreatesOnly(s.db, r.db, {})
  <2> SUFFICES ASSUME r.ok, NEW x \in TxIDs \ {}
               PROVE  /\ s.db.assets[x] = Missing => r.db.assets[x] = Missing
                      /\ s.db.orders[x] = Missing => r.db.orders[x] = Missing
    BY DEF CreatesOnly
  <2>1. /\ s.db.assets[x] = Missing => q.db.assets[x] = Missing
        /\ s.db.orders[x] = Missing => q.db.orders[x] = Missing
    BY <1>3 DEF CreatesOnly
  <2>2. /\ q.db.assets[x] = Missing => r.db.assets[x] = Missing
        /\ q.db.orders[x] = Missing => r.db.orders[x] = Missing
    BY <1>3 DEF CreatesOnly
  <2> QED
    BY <2>1, <2>2
<1> QED
  BY <1>1, <1>2, <1>4 DEF Effect

MessageOK(m) ==
  /\ m \in Message
  /\ ValidSwapParams(m.value, m.swapIn, m.assetOut, m.swapOut, m.swapExpiry)

-----------------------------------------------------------------------------
\* The operations of Storage on good runs.

\* An early return leaves everything but the outcome.
LEMMA RequireGood ==
  ASSUME NEW Z, NEW s, GoodRun(Z, s), NEW p, p \in BOOLEAN, NEW r, r = Require(s, p)
  PROVE  /\ GoodRun(Z, r) /\ r.db = s.db /\ r.keys = s.keys
         /\ r.ok <=> s.ok /\ p
BY DEF Require, GoodRun, Run

\* A credit of something leaves no empty record.
LEMMA AddBalanceGood ==
  ASSUME NEW Z, NEW s, GoodRun(Z, s), NEW pk \in PublicKeys, NEW asset \in AssetIDs, NEW amount,
         s.ok => amount \in Nat \ {0},
         NEW r, r = AddBalance(s, pk, asset, amount)
  PROVE  /\ GoodRun(Z, r)
         /\ r.ok => s.ok
         /\ s.ok => Sound(Z, r.db)
         /\ r.db.assets = s.db.assets /\ r.db.orders = s.db.orders
         /\ r.keys \subseteq s.keys \cup {BalanceKey(pk, asset)}
<1> DEFINE k   == <<pk, asset>>
           new == GetBalance(s.db, pk, asset) + amount
<1>0. s \in Run /\ s.db \in DB
  BY DEF GoodRun, Run
<1>1. /\ r \in Run
      /\ r.ok => s.ok /\ new \in Amount
      /\ r.db = IF r.ok THEN SetBal(s.db, k, new) ELSE s.db
      /\ r.keys \subseteq s.keys \cup {BalanceKey(pk, asset)}
  BY <1>0, AddBalanceRun
<1>2. GetBalance(s.db, pk, asset) \in Nat
  BY <1>0, GetBalanceType, StorageAssumption DEF Amount
<1>3. r.ok => new # 0
  BY <1>1, <1>2
<1> HIDE DEF new
<1>4. CASE r.ok
  <2> DEFINE d == SetBal(s.db, k, new)
  <2>1. /\ d \in DB /\ d.bal = [s.db.bal EXCEPT ![k] = new]
        /\ d.assets = s.db.assets /\ d.orders = s.db.orders /\ d.loans = s.db.loans
    BY <1>0, <1>1, <1>4, SetBalType
  <2>2. Sound(Z, s.db)
    BY <1>1, <1>4 DEF GoodRun
  <2>3. NoEmpty(Z, d)
    BY SMTT(30), <1>0, <1>3, <1>4, <2>1, <2>2 DEF Sound, NoEmpty, DB
  <2>4. Sound(Z, d)
    BY <2>1, <2>2, <2>3 DEF Sound, OrdersOK, WarpOK
  <2> QED
    BY <1>1, <1>4, <2>1, <2>4 DEF GoodRun
<1>5. CASE ~r.ok
  BY <1>1, <1>5 DEF GoodRun
<1> QED
  BY <1>4, <1>5

\* A debit removes what it empties.
LEMMA SubBalanceGood ==
  ASSUME NEW Z, NEW s, GoodRun(Z, s), NEW pk \in PublicKeys, NEW asset \in AssetIDs, NEW amount,
         s.ok => amount \in Nat,
         NEW r, r = SubBalance(s, pk, asset, amount)
  PROVE  /\ GoodRun(Z, r)
         /\ r.ok => s.ok
         /\ s.ok /\ amount <= GetBalance(s.db, pk, asset) => r.ok
         /\ r.db.assets = s.db.assets /\ r.db.orders = s.db.orders
         /\ r.keys \subseteq s.keys \cup {BalanceKey(pk, asset)}
<1> DEFINE k   == <<pk, asset>>
           old == GetBalance(s.db, pk, asset)
           new == IF old = amount THEN Missing ELSE old - amount
<1>0. s \in Run /\ s.db \in DB
  BY DEF GoodRun, Run
<1>1. /\ r \in Run
      /\ r.ok => s.ok /\ amount <= old /\ new \in Amount \cup {Missing}
      /\ s.ok /\ amount <= old => r.ok
      /\ r.db = IF r.ok THEN SetBal(s.db, k, new) ELSE s.db
      /\ r.keys \subseteq s.keys \cup {BalanceKey(pk, asset)}
  BY <1>0, SubBalanceRun
<1>2. old \in Nat /\ Missing # 0
  BY <1>0, GetBalanceType, StorageAssumption, MissingAssumption DEF Amount
<1>3. r.ok => new # 0
  BY <1>1, <1>2
<1> HIDE DEF old, new
<1>4. CASE r.ok
  <2> DEFINE d == SetBal(s.db, k, new)
  <2>1. /\ d \in DB /\ d.bal = [s.db.bal EXCEPT ![k] = new]
        /\ d.assets = s.db.assets /\ d.orders = s.db.orders /\ d.loans = s.db.loans
    BY <1>0, <1>1, <1>4, SetBalType
  <2>2. Sound(Z, s.db)
    BY <1>1, <1>4 DEF GoodRun
  <2>3. NoEmpty(Z, d)
    BY SMTT(30), <1>0, <1>3, <1>4, <2>1, <2>2 DEF Sound, NoEmpty, DB
  <2>4. Sound(Z, d)
    BY <2>1, <2>2, <2>3 DEF Sound, OrdersOK, WarpOK
  <2> QED
    BY <1>1, <1>4, <2>1, <2>4 DEF GoodRun, old
<1>5. CASE ~r.ok
  BY <1>1, <1>5 DEF GoodRun, old
<1> QED
  BY <1>4, <1>5

\* A loan of something leaves no empty record.
LEMMA AddLoanGood ==
  ASSUME NEW Z, NEW s, GoodRun(Z, s), NEW asset \in AssetIDs, NEW dest \in Chains, NEW amount,
         s.ok => amount \in Nat \ {0},
         NEW r, r = AddLoan(s, asset, dest, amount)
  PROVE  /\ GoodRun(Z, r)
         /\ r.ok => s.ok
         /\ r.db.assets = s.db.assets /\ r.db.orders = s.db.orders
         /\ r.keys \subseteq s.keys \cup {LoanKey(asset, dest)}
<1> DEFINE k   == <<asset, dest>>
           new == GetLoan(s.db, asset, dest) + amount
<1>0. s \in Run /\ s.db \in DB
  BY DEF GoodRun, Run
<1>1. /\ r \in Run
      /\ r.ok => s.ok /\ new \in Amount
      /\ r.db = IF r.ok THEN SetLoan(s.db, k, new) ELSE s.db
      /\ r.keys \subseteq s.keys \cup {LoanKey(asset, dest)}
  BY <1>0, AddLoanRun
<1>2. GetLoan(s.db, asset, dest) \in Nat
  BY <1>0, GetLoanType, StorageAssumption DEF Amount
<1>3. r.ok => new # 0
  BY <1>1, <1>2
<1> HIDE DEF new
<1>4. CASE r.ok
  <2> DEFINE d == SetLoan(s.db, k, new)
  <2>1. /\ d \in DB /\ d.loans = [s.db.loans EXCEPT ![k] = new]
        /\ d.assets = s.db.assets /\ d.orders = s.db.orders /\ d.bal = s.db.bal
    BY <1>0, <1>1, <1>4, SetLoanType
  <2>2. Sound(Z, s.db)
    BY <1>1, <1>4 DEF GoodRun
  <2>3. NoEmpty(Z, d)
    BY ZenonT(30), <1>0, <1>3, <1>4, <2>1, <2>2 DEF Sound, NoEmpty, DB
  <2>4. Sound(Z, d)
    BY <2>1, <2>2, <2>3 DEF Sound, OrdersOK, WarpOK
  <2> QED
    BY <1>1, <1>4, <2>1, <2>4 DEF GoodRun
<1>5. CASE ~r.ok
  BY <1>1, <1>5 DEF GoodRun
<1> QED
  BY <1>4, <1>5

\* A repayment removes the loan it settles.
LEMMA SubLoanGood ==
  ASSUME NEW Z, NEW s, GoodRun(Z, s), NEW asset \in AssetIDs, NEW dest \in Chains, NEW amount,
         s.ok => amount \in Nat,
         NEW r, r = SubLoan(s, asset, dest, amount)
  PROVE  /\ GoodRun(Z, r)
         /\ r.ok => s.ok
         /\ r.db.assets = s.db.assets /\ r.db.orders = s.db.orders
         /\ r.keys \subseteq s.keys \cup {LoanKey(asset, dest)}
<1> DEFINE k   == <<asset, dest>>
           old == GetLoan(s.db, asset, dest)
           new == IF old = amount THEN Missing ELSE old - amount
<1>0. s \in Run /\ s.db \in DB
  BY DEF GoodRun, Run
<1>1. /\ r \in Run
      /\ r.ok => s.ok /\ amount <= old /\ new \in Amount \cup {Missing}
      /\ r.db = IF r.ok THEN SetLoan(s.db, k, new) ELSE s.db
      /\ r.keys \subseteq s.keys \cup {LoanKey(asset, dest)}
  BY <1>0, SubLoanRun
<1>2. old \in Nat /\ Missing # 0
  BY <1>0, GetLoanType, StorageAssumption, MissingAssumption DEF Amount
<1>3. r.ok => new # 0
  BY <1>1, <1>2
<1> HIDE DEF old, new
<1>4. CASE r.ok
  <2> DEFINE d == SetLoan(s.db, k, new)
  <2>1. /\ d \in DB /\ d.loans = [s.db.loans EXCEPT ![k] = new]
        /\ d.assets = s.db.assets /\ d.orders = s.db.orders /\ d.bal = s.db.bal
    BY <1>0, <1>1, <1>4, SetLoanType
  <2>2. Sound(Z, s.db)
    BY <1>1, <1>4 DEF GoodRun
  <2>3. NoEmpty(Z, d)
    BY ZenonT(30), <1>0, <1>3, <1>4, <2>1, <2>2 DEF Sound, NoEmpty, DB
  <2>4. Sound(Z, d)
    BY <2>1, <2>2, <2>3 DEF Sound, OrdersOK, WarpOK
  <2> QED
    BY <1>1, <1>4, <2>1, <2>4 DEF GoodRun
<1>5. CASE ~r.ok
  BY <1>1, <1>5 DEF GoodRun
<1> QED
  BY <1>4, <1>5

\* A record of an asset is written only as a warp asset under an imported id.
LEMMA SetAssetGood ==
  ASSUME NEW Z, NEW s, GoodRun(Z, s), NEW asset \in AssetIDs, NEW record,
         s.ok => record \in Asset \cup {Missing} /\ WarpRecordOK(asset, record),
         NEW r, r = SetAsset(s, asset, record)
  PROVE  /\ GoodRun(Z, r)
         /\ r.ok = s.ok
         /\ r.db.orders = s.db.orders
         /\ r.keys \subseteq s.keys \cup {AssetKey(asset)}
<1>1. /\ r \in Run /\ r.ok = s.ok /\ (~r.ok => r = s)
      /\ r.ok => /\ r.db.assets = [s.db.assets EXCEPT ![asset] = record]
                 /\ r.db.bal = s.db.bal
                 /\ r.db.orders = s.db.orders
                 /\ r.db.loans = s.db.loans
      /\ r.keys \subseteq s.keys \cup {AssetKey(asset)}
  BY SetAssetRun DEF GoodRun
<1>2. CASE r.ok
  <2>1. Sound(Z, s.db) /\ r.db \in DB /\ s.db \in DB
    BY <1>1, <1>2 DEF GoodRun, Run
  <2>2. WarpOK(r.db)
    BY SMTT(30), <1>1, <1>2, <2>1 DEF Sound, WarpOK, DB
  <2>3. Sound(Z, r.db)
    BY <1>1, <1>2, <2>1, <2>2 DEF Sound, OrdersOK, NoEmpty
  <2> QED
    BY <1>1, <1>2, <2>3 DEF GoodRun
<1>3. CASE ~r.ok
  BY <1>1, <1>3
<1> QED
  BY <1>2, <1>3

\* An order is written only when it is well formed.
LEMMA SetOrderGood ==
  ASSUME NEW Z, NEW s, GoodRun(Z, s), NEW id \in TxIDs, NEW record,
         s.ok => record = Missing \/ (record \in Order /\ WellFormedOrder(record)),
         NEW r, r = SetOrder(s, id, record)
  PROVE  /\ GoodRun(Z, r)
         /\ r.ok = s.ok
         /\ r.db.assets = s.db.assets
         /\ r.keys \subseteq s.keys \cup {OrderKey(id)}
<1>1. /\ r \in Run /\ r.ok = s.ok /\ (~r.ok => r = s)
      /\ r.ok => /\ r.db.orders = [s.db.orders EXCEPT ![id] = record]
                 /\ r.db.bal = s.db.bal
                 /\ r.db.assets = s.db.assets
                 /\ r.db.loans = s.db.loans
      /\ r.keys \subseteq s.keys \cup {OrderKey(id)}
  BY SetOrderRun DEF GoodRun
<1>2. CASE r.ok
  <2>1. Sound(Z, s.db) /\ r.db \in DB /\ s.db \in DB
    BY <1>1, <1>2 DEF GoodRun, Run
  <2>2. OrdersOK(r.db)
    BY <1>1, <1>2, <2>1 DEF Sound, OrdersOK, DB
  <2>3. Sound(Z, r.db)
    BY <1>1, <1>2, <2>1, <2>2 DEF Sound, WarpOK, NoEmpty
  <2> QED
    BY <1>1, <1>2, <2>3 DEF GoodRun
<1>3. CASE ~r.ok
  BY <1>1, <1>3
<1> QED
  BY <1>2, <1>3

\* A record appears only under an id that had one, or was free to take one.
LEMMA SetAssetCreates ==
  ASSUME NEW s \in Run, NEW asset \in AssetIDs, NEW record, NEW ids,
         s.ok => record \in Asset \cup {Missing},
         s.ok => \/ record = Missing \/ s.db.assets[asset] # Missing
                 \/ asset \in ids \/ asset \notin TxIDs,
         NEW r, r = SetAsset(s, asset, record)
  PROVE  r.ok => CreatesOnly(s.db, r.db, ids)
<1> SUFFICES ASSUME r.ok PROVE CreatesOnly(s.db, r.db, ids)
  OBVIOUS
<1>1. /\ s.ok /\ r.db.assets = [s.db.assets EXCEPT ![asset] = record]
      /\ r.db.orders = s.db.orders
  BY SetAssetRun
<1>2. s.db.assets \in [AssetIDs -> Asset \cup {Missing}]
  BY DEF Run, DB
<1>3. \A x \in TxIDs : x \in AssetIDs
  BY DEF AssetIDs, LocalIDs
<1> QED
  BY <1>1, <1>2, <1>3 DEF CreatesOnly

\* The same of an order.
LEMMA SetOrderCreates ==
  ASSUME NEW s \in Run, NEW id \in TxIDs, NEW record, NEW ids,
         s.ok => record \in Order \cup {Missing},
         s.ok => record = Missing \/ s.db.orders[id] # Missing \/ id \in ids,
         NEW r, r = SetOrder(s, id, record)
  PROVE  r.ok => CreatesOnly(s.db, r.db, ids)
<1> SUFFICES ASSUME r.ok PROVE CreatesOnly(s.db, r.db, ids)
  OBVIOUS
<1>1. /\ s.ok /\ r.db.orders = [s.db.orders EXCEPT ![id] = record]
      /\ r.db.assets = s.db.assets
  BY SetOrderRun
<1>2. s.db.orders \in [TxIDs -> Order \cup {Missing}]
  BY DEF Run, DB
<1> QED
  BY <1>1, <1>2 DEF CreatesOnly

-----------------------------------------------------------------------------
\* What a good run holds under an id.
LEMMA AssetOnRecord ==
  ASSUME NEW Z, NEW s, GoodRun(Z, s), NEW asset \in AssetIDs
  PROVE  /\ s.db.assets[asset] \in Asset \cup {Missing}
         /\ s.ok => WarpRecordOK(asset, s.db.assets[asset])
BY DEF GoodRun, Run, DB, Sound, WarpOK

\* An order on record is well formed as long as the run has not failed.
LEMMA OrderOnRecord ==
  ASSUME NEW Z, NEW s, GoodRun(Z, s), NEW id \in TxIDs
  PROVE  /\ s.db.orders[id] \in Order \cup {Missing}
         /\ s.ok /\ s.db.orders[id] # Missing => WellFormedOrder(s.db.orders[id])
BY DEF GoodRun, Run, DB, Sound, OrdersOK

-----------------------------------------------------------------------------
\* The handlers.

\* A transfer of nothing is refused, so neither party keeps an empty balance.
LEMMA TransferGood ==
  ASSUME NEW Z, NEW s, GoodRun(Z, s), NEW actor \in PublicKeys, NEW to \in PublicKeys,
         NEW asset \in AssetIDs, NEW value \in Amount,
         NEW r, r = ExecuteTransfer(s, actor, to, asset, value)
  PROVE  /\ GoodRun(Z, r) /\ Effect(s, r, {})
         /\ r.keys \subseteq s.keys \cup TransferKeys(actor, to, asset)
<1> DEFINE valid   == Require(s, value # 0)
           debited == SubBalance(valid, actor, asset, value)
<1>1. /\ GoodRun(Z, valid) /\ valid.db = s.db /\ valid.keys = s.keys
      /\ valid.ok => s.ok /\ value # 0
  BY DEF Require, GoodRun, Run
<1>2. value \in Nat
  BY StorageAssumption DEF Amount
<1>3. r = AddBalance(debited, to, asset, value)
  BY DEF ExecuteTransfer
<1> HIDE DEF valid
<1>4. /\ GoodRun(Z, debited) /\ (debited.ok => valid.ok)
      /\ debited.db.assets = s.db.assets /\ debited.db.orders = s.db.orders
      /\ debited.keys \subseteq valid.keys \cup {BalanceKey(actor, asset)}
  BY <1>1, <1>2, SubBalanceGood
<1>5. debited.ok => Moves(s.db, debited.db, asset, value)
  BY <1>1, <1>2, SubBalanceFlow DEF GoodRun
<1> HIDE DEF debited
<1>6. /\ GoodRun(Z, r) /\ (r.ok => debited.ok)
      /\ r.db.assets = s.db.assets /\ r.db.orders = s.db.orders
      /\ r.keys \subseteq debited.keys \cup {BalanceKey(to, asset)}
  BY <1>1, <1>2, <1>3, <1>4, AddBalanceGood
<1>7. r.ok => Moves(debited.db, r.db, asset, -value)
  BY <1>2, <1>3, <1>4, AddBalanceFlow DEF GoodRun
<1>8. r.ok => Conserves(s.db, r.db)
  BY <1>2, <1>4, <1>5, <1>6, <1>7, RoundTrip DEF GoodRun, Run
<1> QED
  BY <1>1, <1>4, <1>6, <1>8 DEF TransferKeys, Effect, CreatesOnly

\* A created asset is not a warp asset, and its id, a transaction id, is not
\* an imported one.
LEMMA CreateAssetGood ==
  ASSUME NEW Z, NEW s, GoodRun(Z, s), NEW actor \in PublicKeys, NEW id \in TxIDs,
         NEW metadata \in Metadata, s.db.assets[id] = Missing,
         NEW r, r = ExecuteCreateAsset(s, actor, id, metadata)
  PROVE  /\ GoodRun(Z, r) /\ Effect(s, r, {id})
         /\ r.keys \subseteq s.keys \cup CreateAssetKeys(id)
<1> DEFINE record == [metadata |-> metadata, supply |-> 0,
                      owner |-> actor, warp |-> FALSE]
<1>1. id \in AssetIDs /\ id \notin ImportedIDs
  BY StorageAssumption DEF AssetIDs, LocalIDs
<1>2. record \in Asset /\ WarpRecordOK(id, record)
  BY <1>1, StorageAssumption DEF Asset, WarpRecordOK, Amount
<1>3. r = SetAsset(s, id, record)
  BY DEF ExecuteCreateAsset
<1>4. SupplyOf(record) = 0 /\ SupplyOf(s.db.assets[id]) = 0
  BY <1>2, MissingAssumption DEF SupplyOf
<1> HIDE DEF record
<1>5. GoodRun(Z, r) /\ r.ok = s.ok /\ r.keys \subseteq s.keys \cup {AssetKey(id)}
  BY <1>1, <1>2, <1>3, SetAssetGood
<1>6. r.ok => Moves(s.db, r.db, id, 0)
  BY <1>1, <1>2, <1>3, <1>4, SetAssetFlow DEF GoodRun
<1>7. r.ok => Conserves(s.db, r.db)
  BY <1>5, <1>6, MovesNothing DEF GoodRun, Run
<1>8. r.ok => CreatesOnly(s.db, r.db, {id})
  BY <1>1, <1>2, <1>3, SetAssetCreates DEF GoodRun
<1> QED
  BY <1>5, <1>7, <1>8 DEF CreateAssetKeys, Effect

\* The check of MintAsset and ModifyAsset.
LEMMA RequireAssetOwnerGood ==
  ASSUME NEW Z, NEW s, GoodRun(Z, s), NEW actor, NEW asset \in AssetIDs,
         NEW r, r = RequireAssetOwner(s, actor, asset)
  PROVE  /\ GoodRun(Z, r) /\ r.db = s.db
         /\ r.ok => s.ok /\ s.db.assets[asset] \in Asset /\ ~s.db.assets[asset].warp
         /\ r.keys \subseteq s.keys \cup {AssetKey(asset)}
<1> DEFINE t == Touch(s, AssetKey(asset))
           a == s.db.assets[asset]
<1>1. /\ t \in Run /\ t.ok = s.ok /\ t.db = s.db
      /\ t.keys \subseteq s.keys \cup {AssetKey(asset)}
  BY AssetKeyType, TouchRun DEF GoodRun
<1>2. r = Require(t, a # Missing /\ ~a.warp /\ a.owner = actor)
  BY DEF RequireAssetOwner
<1> HIDE DEF t
<1>3. /\ r \in Run /\ r.db = s.db /\ r.keys = t.keys
      /\ r.ok => s.ok /\ a # Missing /\ ~a.warp
  BY <1>1, <1>2 DEF Require, Run
<1>4. a \in Asset \cup {Missing}
  BY AssetOnRecord
<1> QED
  BY <1>1, <1>3, <1>4 DEF GoodRun

\* Minting keeps the kind of the asset and its supply within a uint64.
LEMMA MintAssetGood ==
  ASSUME NEW Z, NEW s, GoodRun(Z, s), NEW actor \in PublicKeys, NEW to \in PublicKeys,
         NEW asset \in AssetIDs, NEW value \in Amount,
         NEW r, r = ExecuteMintAsset(s, actor, to, asset, value)
  PROVE  /\ GoodRun(Z, r) /\ Effect(s, r, {})
         /\ r.keys \subseteq s.keys \cup MintAssetKeys(to, asset)
<1> DEFINE valid  == Require(s, asset # Native /\ value # 0)
           owned  == RequireAssetOwner(valid, actor, asset)
           a      == s.db.assets[asset]
           fits   == Require(owned, a.supply + value <= MaxUint64)
           record == [a EXCEPT !.supply = a.supply + value]
           minted == SetAsset(fits, asset, record)
<1>1. /\ GoodRun(Z, valid) /\ valid.db = s.db /\ valid.keys = s.keys
      /\ valid.ok => s.ok /\ value # 0
  BY DEF Require, GoodRun, Run
<1>2. r = AddBalance(minted, to, asset, value)
  BY DEF ExecuteMintAsset
<1> HIDE DEF valid
<1>3. /\ GoodRun(Z, owned) /\ owned.db = s.db
      /\ owned.ok => valid.ok /\ a \in Asset /\ ~a.warp
      /\ owned.keys \subseteq s.keys \cup {AssetKey(asset)}
  BY <1>1, RequireAssetOwnerGood
<1> HIDE DEF owned, a
<1>4. /\ GoodRun(Z, fits) /\ fits.db = s.db /\ fits.keys = owned.keys
      /\ fits.ok => owned.ok /\ a.supply + value <= MaxUint64
  BY <1>3 DEF Require, GoodRun, Run
<1> HIDE DEF fits
<1>5. value \in Nat
  BY StorageAssumption DEF Amount
<1>6. fits.ok => record \in Asset /\ WarpRecordOK(asset, record)
  <2>1. fits.ok => WarpRecordOK(asset, a)
    BY <1>4, AssetOnRecord DEF a
  <2> QED
    BY <1>3, <1>4, <1>5, <2>1, StorageAssumption, MissingAssumption
       DEF Asset, WarpRecordOK, Amount
<1>9. fits.ok => value = SupplyOf(record) - SupplyOf(a) /\ a # Missing
  BY <1>3, <1>4, <1>5, <1>6, StorageAssumption, MissingAssumption DEF SupplyOf, Asset, Amount
<1> HIDE DEF record
<1>7. /\ GoodRun(Z, minted) /\ minted.ok = fits.ok
      /\ minted.keys \subseteq fits.keys \cup {AssetKey(asset)}
  BY <1>4, <1>6, SetAssetGood
<1>10. minted.ok => Moves(s.db, minted.db, asset, value) /\ CreatesOnly(s.db, minted.db, {})
  <2>1. minted.ok => Moves(s.db, minted.db, asset, value)
    BY <1>4, <1>6, <1>9, SetAssetFlow DEF GoodRun, a
  <2>2. minted.ok => CreatesOnly(s.db, minted.db, {})
    BY <1>4, <1>6, <1>9, SetAssetCreates DEF GoodRun, a
  <2> QED
    BY <2>1, <2>2
<1> HIDE DEF minted
<1>8. /\ GoodRun(Z, r) /\ (r.ok => minted.ok)
      /\ r.db.assets = minted.db.assets /\ r.db.orders = minted.db.orders
      /\ r.keys \subseteq minted.keys \cup {BalanceKey(to, asset)}
  BY <1>1, <1>2, <1>3, <1>4, <1>5, <1>7, AddBalanceGood
<1>11. r.ok => Conserves(s.db, r.db)
  <2>1. r.ok => Moves(minted.db, r.db, asset, -value)
    BY <1>2, <1>5, <1>7, AddBalanceFlow DEF GoodRun
  <2> QED
    BY <1>5, <1>7, <1>8, <1>10, <2>1, RoundTrip DEF GoodRun, Run
<1> QED
  BY <1>1, <1>3, <1>4, <1>7, <1>8, <1>10, <1>11 DEF MintAssetKeys, Effect, CreatesOnly

\* Burning keeps the record of the asset, with a smaller supply.
LEMMA BurnAssetGood ==
  ASSUME NEW Z, NEW s, GoodRun(Z, s), NEW actor \in PublicKeys, NEW asset \in AssetIDs,
         NEW value \in Amount,
         NEW r, r = ExecuteBurnAsset(s, actor, asset, value)
  PROVE  /\ GoodRun(Z, r) /\ Effect(s, r, {})
         /\ r.keys \subseteq s.keys \cup BurnAssetKeys(actor, asset)
<1> DEFINE valid   == Require(s, value # 0)
           debited == SubBalance(valid, actor, asset, value)
           a       == debited.db.assets[asset]
           t       == Touch(debited, AssetKey(asset))
           found   == Require(t, a # Missing /\ value <= a.supply)
           record  == [a EXCEPT !.supply = a.supply - value]
<1>1. GoodRun(Z, valid) /\ valid.db = s.db /\ valid.keys = s.keys /\ (valid.ok => s.ok)
  BY DEF Require, GoodRun, Run
<1>2. value \in Nat
  BY StorageAssumption DEF Amount
<1>3. r = SetAsset(found, asset, record)
  BY DEF ExecuteBurnAsset
<1> HIDE DEF valid
<1>4. /\ GoodRun(Z, debited) /\ (debited.ok => s.ok)
      /\ debited.db.assets = s.db.assets /\ debited.db.orders = s.db.orders
      /\ debited.keys \subseteq valid.keys \cup {BalanceKey(actor, asset)}
  BY <1>1, <1>2, SubBalanceGood
<1>10. debited.ok => Moves(s.db, debited.db, asset, value)
  BY <1>1, <1>2, SubBalanceFlow DEF GoodRun
<1> HIDE DEF debited
<1>5. /\ a \in Asset \cup {Missing}
      /\ debited.ok => WarpRecordOK(asset, a)
  BY <1>4, AssetOnRecord
<1>6. /\ t \in Run /\ t.ok = debited.ok /\ t.db = debited.db
      /\ t.keys \subseteq debited.keys \cup {AssetKey(asset)}
  BY <1>4, AssetKeyType, TouchRun DEF GoodRun
<1> HIDE DEF t, a
<1>7. /\ GoodRun(Z, found) /\ found.keys = t.keys /\ found.db = debited.db
      /\ found.ok => debited.ok /\ a # Missing /\ value <= a.supply
  BY <1>4, <1>6 DEF Require, GoodRun, Run
<1> HIDE DEF found
<1>8. found.ok => record \in Asset /\ WarpRecordOK(asset, record)
  BY <1>2, <1>5, <1>7, StorageAssumption DEF Asset, WarpRecordOK, Amount
<1>11. found.ok => -value = SupplyOf(record) - SupplyOf(a) /\ a # Missing
  BY <1>2, <1>5, <1>7, <1>8, StorageAssumption, MissingAssumption DEF SupplyOf, Asset, Amount
<1> HIDE DEF record
<1>9. /\ GoodRun(Z, r) /\ r.ok = found.ok /\ r.db.orders = debited.db.orders
      /\ r.keys \subseteq found.keys \cup {AssetKey(asset)}
  BY <1>3, <1>7, <1>8, SetAssetGood
<1>12. r.ok => Conserves(s.db, r.db)
  <2>1. r.ok => Moves(debited.db, r.db, asset, -value)
    BY <1>3, <1>7, <1>8, <1>11, SetAssetFlow DEF GoodRun, a
  <2> QED
    BY <1>2, <1>4, <1>7, <1>9, <1>10, <2>1, RoundTrip DEF GoodRun, Run
<1>13. r.ok => CreatesOnly(s.db, r.db, {})
  <2>1. r.ok => CreatesOnly(debited.db, r.db, {})
    BY <1>3, <1>7, <1>8, <1>11, SetAssetCreates DEF GoodRun, a
  <2> QED
    BY <1>4, <2>1 DEF CreatesOnly
<1> QED
  BY <1>1, <1>4, <1>6, <1>7, <1>9, <1>12, <1>13 DEF BurnAssetKeys, Effect

\* Only an asset of this chain gets new metadata.
LEMMA ModifyAssetGood ==
  ASSUME NEW Z, NEW s, GoodRun(Z, s), NEW actor \in PublicKeys, NEW asset \in AssetIDs,
         NEW owner \in PublicKeys, NEW metadata \in Metadata,
         NEW r, r = ExecuteModifyAsset(s, actor, asset, owner, metadata)
  PROVE  /\ GoodRun(Z, r) /\ Effect(s, r, {})
         /\ r.keys \subseteq s.keys \cup ModifyAssetKeys(asset)
<1> DEFINE valid  == Require(s, asset # Native)
           owned  == RequireAssetOwner(valid, actor, asset)
           a      == s.db.assets[asset]
           record == [a EXCEPT !.owner = owner, !.metadata = metadata]
<1>1. GoodRun(Z, valid) /\ valid.db = s.db /\ valid.keys = s.keys /\ (valid.ok => s.ok)
  BY DEF Require, GoodRun, Run
<1>2. r = SetAsset(owned, asset, record)
  BY DEF ExecuteModifyAsset
<1> HIDE DEF valid
<1>3. /\ GoodRun(Z, owned) /\ owned.db = s.db
      /\ owned.ok => s.ok /\ a \in Asset /\ ~a.warp
      /\ owned.keys \subseteq s.keys \cup {AssetKey(asset)}
  BY <1>1, RequireAssetOwnerGood
<1> HIDE DEF owned
<1>4. owned.ok => WarpRecordOK(asset, a)
  BY <1>3, AssetOnRecord
<1> HIDE DEF a
<1>5. owned.ok => record \in Asset /\ WarpRecordOK(asset, record)
  BY <1>3, <1>4, MissingAssumption DEF Asset, WarpRecordOK
<1>6. owned.ok => 0 = SupplyOf(record) - SupplyOf(a) /\ a # Missing
  <2> SUFFICES ASSUME owned.ok PROVE 0 = SupplyOf(record) - SupplyOf(a) /\ a # Missing
    OBVIOUS
  <2>1. a # Missing /\ record # Missing
    BY <1>3, <1>5, MissingAssumption
  <2>2. record.supply = a.supply /\ a.supply \in Nat
    BY <1>3, StorageAssumption DEF Asset, Amount
  <2> HIDE DEF record
  <2> QED
    BY <2>1, <2>2 DEF SupplyOf
<1> HIDE DEF record
<1>7. GoodRun(Z, r) /\ r.ok = owned.ok /\ r.keys \subseteq owned.keys \cup {AssetKey(asset)}
  BY <1>2, <1>3, <1>5, SetAssetGood
<1>8. r.ok => Conserves(s.db, r.db)
  <2>1. r.ok => Moves(s.db, r.db, asset, 0)
    BY <1>2, <1>3, <1>5, <1>6, SetAssetFlow DEF GoodRun, a
  <2> QED
    BY <1>7, <2>1, MovesNothing DEF GoodRun, Run
<1>9. r.ok => CreatesOnly(s.db, r.db, {})
  BY <1>2, <1>3, <1>5, <1>6, SetAssetCreates DEF GoodRun, a
<1> QED
  BY <1>3, <1>7, <1>8, <1>9 DEF ModifyAssetKeys, Effect

\* An order locks a positive number of whole blocks.
LEMMA CreateOrderGood ==
  ASSUME NEW Z, NEW s, GoodRun(Z, s), NEW actor \in Accounts, NEW id \in TxIDs,
         NEW in \in AssetIDs, NEW inTick \in Amount, NEW out \in AssetIDs,
         NEW outTick \in Amount, NEW supply \in Amount, s.db.orders[id] = Missing,
         NEW r, r = ExecuteCreateOrder(s, actor, id, in, inTick, out, outTick, supply)
  PROVE  /\ GoodRun(Z, r) /\ Effect(s, r, {id})
         /\ r.keys \subseteq s.keys \cup CreateOrderKeys(actor, id, out)
<1> DEFINE cond   == /\ in # out
                     /\ inTick # 0 /\ outTick # 0 /\ supply # 0
                     /\ supply % outTick = 0
           valid  == Require(s, cond)
           locked == SubBalance(valid, actor, out, supply)
           record == [in |-> in, inTick |-> inTick, out |-> out, outTick |-> outTick,
                      remaining |-> supply, owner |-> actor]
<1>1. /\ GoodRun(Z, valid) /\ valid.db = s.db /\ valid.keys = s.keys
      /\ valid.ok => s.ok /\ cond
  BY DEF Require, GoodRun, Run
<1>2. supply \in Nat /\ inTick \in Nat /\ outTick \in Nat
  BY StorageAssumption DEF Amount
<1>3. r = SetOrder(locked, id, record)
  BY DEF ExecuteCreateOrder
<1> HIDE DEF valid
<1>4. actor \in PublicKeys
  BY DEF PublicKeys
<1>5. /\ GoodRun(Z, locked) /\ (locked.ok => valid.ok)
      /\ locked.db.assets = s.db.assets /\ locked.db.orders = s.db.orders
      /\ locked.keys \subseteq valid.keys \cup {BalanceKey(actor, out)}
  BY <1>1, <1>2, <1>4, SubBalanceGood
<1>8. locked.ok => Moves(s.db, locked.db, out, supply)
  BY <1>1, <1>2, <1>4, SubBalanceFlow DEF GoodRun
<1> HIDE DEF locked
<1>6. locked.ok => record \in Order /\ WellFormedOrder(record)
  <2>1. record \in Order
    BY <1>4 DEF Order
  <2>2. locked.ok => WellFormedOrder(record)
    BY <1>1, <1>2, <1>5 DEF WellFormedOrder
  <2> QED
    BY <2>1, <2>2
<1>9. \A a : locked.ok => LockedIn(record, a) = IF a = out THEN supply ELSE 0
  BY <1>6, MissingAssumption DEF LockedIn
<1> HIDE DEF record
<1>7. /\ GoodRun(Z, r) /\ r.ok = locked.ok
      /\ r.keys \subseteq locked.keys \cup {OrderKey(id)}
  BY <1>3, <1>5, <1>6, SetOrderGood
<1>10. r.ok => Conserves(s.db, r.db)
  <2> SUFFICES ASSUME r.ok, NEW a \in AssetIDs PROVE Gone(r.db, a) = Gone(s.db, a)
    BY DEF Conserves
  <2>1. Gone(r.db, a) = Gone(locked.db, a) + LockedIn(locked.db.orders[id], a)
                          - LockedIn(record, a)
    BY <1>3, <1>5, <1>6, SetOrderFlow DEF GoodRun
  <2>2. LockedIn(locked.db.orders[id], a) = 0
    BY <1>5 DEF LockedIn
  <2>3. Gone(locked.db, a) = Gone(s.db, a) + (IF a = out THEN supply ELSE 0)
    BY <1>7, <1>8 DEF Moves
  <2>4. Gone(s.db, a) \in Int /\ Gone(locked.db, a) \in Int
    BY <1>5, GoneType DEF GoodRun, Run
  <2> QED
    BY <1>2, <1>7, <1>9, <2>1, <2>2, <2>3, <2>4
<1>11. r.ok => CreatesOnly(locked.db, r.db, {id})
  BY <1>3, <1>5, <1>6, SetOrderCreates DEF GoodRun
<1>12. r.ok => CreatesOnly(s.db, r.db, {id})
  BY <1>5, <1>11 DEF CreatesOnly
<1> QED
  BY <1>1, <1>5, <1>7, <1>10, <1>12 DEF CreateOrderKeys, Effect

-----------------------------------------------------------------------------
\* Arithmetic of whole blocks.

\* A whole number of blocks fits into what it was divided from.
LEMMA DivBound ==
  ASSUME NEW a \in Nat, NEW b \in Nat \ {0}
  PROVE  a \div b \in Nat /\ b * (a \div b) <= a
BY SMT

\* Without a remainder the blocks are all there is.
LEMMA ModDiv ==
  ASSUME NEW a \in Nat, NEW b \in Nat \ {0}, a % b = 0
  PROVE  a = b * (a \div b)
BY SMT

\* A number of blocks has no remainder.
LEMMA ModMul ==
  ASSUME NEW k \in Nat, NEW b \in Nat \ {0}
  PROVE  (b * k) % b = 0
BY SMT

\* More blocks are worth at least as much.
LEMMA MulMono ==
  ASSUME NEW a \in Nat, NEW b \in Nat, NEW c \in Nat, a <= b
  PROVE  a * c <= b * c
BY SMT

\* What is worth at least as much has at least as many blocks.
LEMMA MulCancel ==
  ASSUME NEW a \in Nat, NEW b \in Nat, NEW c \in Nat \ {0}, c * b <= c * a
  PROVE  b <= a
BY SMT

\* The difference of two numbers of blocks is a number of blocks.
LEMMA MulDist ==
  ASSUME NEW a \in Nat, NEW b \in Nat, NEW c \in Nat
  PROVE  c * a - c * b = c * (a - b)
BY SMT

\* A fill trades a positive amount both ways, never more than was asked for,
\* and leaves a well-formed order or none.
LEMMA FillAmounts ==
  ASSUME NEW o \in Order, WellFormedOrder(o), NEW v \in Amount,
         v % o.inTick = 0, Wanted(o, v) # 0, FillInput(o, v) # 0
  PROVE  /\ FillInput(o, v) \in Nat \ {0} /\ FillInput(o, v) <= v
         /\ FillOutput(o, v) \in Nat \ {0}
         /\ \/ RemainingOrder(o, v) = Missing
            \/ RemainingOrder(o, v) \in Order /\ WellFormedOrder(RemainingOrder(o, v))
         /\ \A a : LockedIn(RemainingOrder(o, v), a)
                    = LockedIn(o, a) - (IF a = o.out THEN FillOutput(o, v) ELSE 0)
<1> DEFINE i == o.inTick
           t == o.outTick
           n == v \div i
           q == o.remaining \div t
           w == t * n
           over == (w - o.remaining) \div t
<1>1. /\ i \in Nat \ {0} /\ t \in Nat \ {0} /\ v \in Nat
      /\ o.remaining \in Nat \ {0} /\ o.remaining <= MaxUint64 /\ o.remaining % t = 0
  BY StorageAssumption DEF Order, Amount, WellFormedOrder
<1>2. Wanted(o, v) = w
  BY DEF Wanted
<1>3. FillInput(o, v) = IF w > o.remaining THEN v - over * i ELSE v
  BY <1>2 DEF FillInput
<1>4. FillOutput(o, v) = IF w > o.remaining THEN o.remaining ELSE w
  BY <1>2 DEF FillOutput
<1>5. RemainingOrder(o, v) = IF w >= o.remaining THEN Missing
                             ELSE [o EXCEPT !.remaining = o.remaining - w]
  BY <1>2 DEF RemainingOrder
<1>6. n \in Nat /\ i * n <= v
  BY <1>1, DivBound
<1>7. q \in Nat /\ o.remaining = t * q
  BY <1>1, DivBound, ModDiv
<1>8. w \in Nat /\ w # 0
  BY <1>1, <1>2, <1>6
<1>9. w > o.remaining => over \in Nat /\ over * i <= v
  <2> SUFFICES ASSUME w > o.remaining PROVE over \in Nat /\ over * i <= v
    OBVIOUS
  <2>1. w - o.remaining \in Nat /\ w - o.remaining <= w
    BY <1>1, <1>8
  <2>2. over \in Nat /\ t * over <= w - o.remaining
    BY <1>1, <2>1, DivBound
  <2>3. t * over <= t * n
    <3> HIDE DEF over, n
    <3> QED
      BY <1>1, <1>6, <2>1, <2>2
  <2> HIDE DEF over, n, i, t
  <2>4. over <= n
    BY <1>1, <1>6, <2>2, <2>3, MulCancel
  <2>5. over * i <= n * i
    BY <1>1, <1>6, <2>2, <2>4, MulMono
  <2>6. n * i = i * n
    BY <1>1, <1>6
  <2> QED
    BY <1>1, <1>6, <2>2, <2>5, <2>6
<1>10. w < o.remaining => /\ o.remaining - w \in Amount \ {0}
                          /\ (o.remaining - w) % t = 0
  <2> SUFFICES ASSUME w < o.remaining
               PROVE  o.remaining - w \in Amount \ {0} /\ (o.remaining - w) % t = 0
    OBVIOUS
  <2>1. o.remaining - w \in Amount \ {0}
    BY <1>1, <1>8, StorageAssumption DEF Amount
  <2> HIDE DEF n, i, t, q
  <2>2. o.remaining - w = t * (q - n)
    BY <1>1, <1>6, <1>7, MulDist
  <2>3. n <= q
    BY <1>1, <1>6, <1>7, MulCancel
  <2>4. q - n \in Nat
    BY <1>6, <1>7, <2>3
  <2> QED
    BY <1>1, <2>1, <2>2, <2>4, ModMul
<1> HIDE DEF w, over
<1>11. FillInput(o, v) \in Nat \ {0} /\ FillInput(o, v) <= v
  <2>1. CASE w > o.remaining
    <3> DEFINE p == over * i
    <3>1. p \in Nat /\ p <= v
      BY <1>1, <1>9, <2>1
    <3>2. FillInput(o, v) = v - p
      BY <1>3, <2>1
    <3> HIDE DEF p
    <3> QED
      BY <1>1, <3>1, <3>2
  <2>2. CASE ~(w > o.remaining)
    BY <1>1, <1>3, <2>2
  <2> QED
    BY <2>1, <2>2
<1>12. FillOutput(o, v) \in Nat \ {0}
  BY <1>1, <1>4, <1>8
<1>13. \/ RemainingOrder(o, v) = Missing
       \/ RemainingOrder(o, v) \in Order /\ WellFormedOrder(RemainingOrder(o, v))
  <2>1. CASE w < o.remaining
    <3> DEFINE left == [o EXCEPT !.remaining = o.remaining - w]
    <3>1. RemainingOrder(o, v) = left
      BY <1>1, <1>5, <1>8, <2>1
    <3>2. left \in Order
      BY <1>10, <2>1 DEF Order
    <3>3. WellFormedOrder(left)
      BY <1>1, <1>10, <2>1, StorageAssumption DEF WellFormedOrder, Order, Amount
    <3> QED
      BY <3>1, <3>2, <3>3
  <2>2. CASE ~(w < o.remaining)
    BY <1>1, <1>5, <1>8, <2>2
  <2> QED
    BY <2>1, <2>2
<1>14. ASSUME NEW a
       PROVE  LockedIn(RemainingOrder(o, v), a)
                = LockedIn(o, a) - (IF a = o.out THEN FillOutput(o, v) ELSE 0)
  <2>1. LockedIn(o, a) = IF a = o.out THEN o.remaining ELSE 0
    BY MissingAssumption DEF LockedIn
  <2>2. CASE w >= o.remaining
    <3>1. LockedIn(RemainingOrder(o, v), a) = 0 /\ FillOutput(o, v) = o.remaining
      BY <1>1, <1>4, <1>5, <1>8, <2>2 DEF LockedIn
    <3> QED
      BY <1>1, <2>1, <3>1
  <2>3. CASE ~(w >= o.remaining)
    <3>1. RemainingOrder(o, v) \in Order /\ RemainingOrder(o, v) # Missing
      BY <1>5, <1>10, <1>1, <1>8, <2>3, MissingAssumption DEF Order
    <3>2. /\ RemainingOrder(o, v).out = o.out
          /\ RemainingOrder(o, v).remaining = o.remaining - w
      BY <1>5, <2>3 DEF Order
    <3>3. FillOutput(o, v) = w
      BY <1>1, <1>4, <1>8, <2>3
    <3> QED
      BY <1>1, <1>8, <2>1, <3>1, <3>2, <3>3 DEF LockedIn
  <2> QED
    BY <2>2, <2>3
<1> QED
  BY <1>11, <1>12, <1>13, <1>14

\* A fill credits something to both sides and leaves a well-formed order or
\* none.
LEMMA FillOrderGood ==
  ASSUME NEW Z, NEW s, GoodRun(Z, s), NEW actor \in PublicKeys, NEW id \in TxIDs,
         NEW owner \in PublicKeys, NEW in \in AssetIDs, NEW out \in AssetIDs,
         NEW value \in Amount,
         NEW r, r = ExecuteFillOrder(s, actor, id, owner, in, out, value)
  PROVE  /\ GoodRun(Z, r) /\ Effect(s, r, {})
         /\ r.keys \subseteq s.keys \cup FillOrderKeys(actor, id, owner, in, out)
<1> DEFINE order    == s.db.orders[id]
           t        == Touch(s, OrderKey(id))
           found    == order # Missing /\ order.owner = owner
                         /\ order.in = in /\ order.out = out
           matched  == Require(t, found)
           aligned  == Require(matched, value # 0 /\ value % order.inTick = 0)
           priced   == Require(aligned, /\ Wanted(order, value) <= MaxUint64
                                        /\ Wanted(order, value) # 0
                                        /\ FillInput(order, value) # 0)
           input    == FillInput(order, value)
           output   == FillOutput(order, value)
           rest     == RemainingOrder(order, value)
           debited  == SubBalance(priced, actor, in, input)
           proceeds == AddBalance(debited, owner, in, input)
           credited == AddBalance(proceeds, actor, out, output)
<1>1. r = SetOrder(credited, id, rest)
  BY DEF ExecuteFillOrder
<1>2. /\ t \in Run /\ t.ok = s.ok /\ t.db = s.db
      /\ t.keys \subseteq s.keys \cup {OrderKey(id)}
  BY OrderKeyType, TouchRun DEF GoodRun
<1>3. /\ order \in Order \cup {Missing}
      /\ s.ok /\ order # Missing => WellFormedOrder(order)
  BY OrderOnRecord
<1> HIDE DEF t, order
<1>4. /\ GoodRun(Z, matched) /\ matched.keys = t.keys /\ matched.db = s.db
      /\ matched.ok => s.ok /\ order # Missing /\ order.out = out
  BY <1>2 DEF Require, GoodRun, Run
<1> HIDE DEF matched
<1>5. /\ GoodRun(Z, aligned) /\ aligned.keys = t.keys /\ aligned.db = s.db
      /\ aligned.ok => matched.ok /\ value % order.inTick = 0
  BY <1>4 DEF Require, GoodRun, Run
<1> HIDE DEF aligned
<1>6. /\ GoodRun(Z, priced) /\ priced.keys = t.keys /\ priced.db = s.db
      /\ priced.ok => aligned.ok /\ Wanted(order, value) # 0 /\ FillInput(order, value) # 0
  BY <1>5 DEF Require, GoodRun, Run
<1> HIDE DEF priced
<1>7. priced.ok => /\ input \in Nat \ {0} /\ output \in Nat \ {0}
                   /\ rest = Missing \/ (rest \in Order /\ WellFormedOrder(rest))
                   /\ \A a : LockedIn(rest, a)
                              = LockedIn(order, a) - (IF a = out THEN output ELSE 0)
  BY <1>3, <1>4, <1>5, <1>6, FillAmounts
<1> HIDE DEF input, output, rest
<1>8. /\ GoodRun(Z, debited) /\ (debited.ok => priced.ok)
      /\ debited.db.assets = s.db.assets /\ debited.db.orders = s.db.orders
      /\ debited.keys \subseteq t.keys \cup {BalanceKey(actor, in)}
  BY SMTT(30), <1>6, <1>7, SubBalanceGood
<1>12. debited.ok => Moves(s.db, debited.db, in, input)
  BY <1>6, <1>7, SubBalanceFlow DEF GoodRun
<1> HIDE DEF debited
<1>9. /\ GoodRun(Z, proceeds) /\ (proceeds.ok => debited.ok)
      /\ proceeds.db.assets = s.db.assets /\ proceeds.db.orders = s.db.orders
      /\ proceeds.keys \subseteq debited.keys \cup {BalanceKey(owner, in)}
  BY <1>7, <1>8, AddBalanceGood
<1>13. proceeds.ok => Moves(debited.db, proceeds.db, in, -input)
  BY <1>7, <1>8, AddBalanceFlow DEF GoodRun
<1> HIDE DEF proceeds
<1>10. /\ GoodRun(Z, credited) /\ (credited.ok => proceeds.ok)
       /\ credited.db.assets = s.db.assets /\ credited.db.orders = s.db.orders
       /\ credited.keys \subseteq proceeds.keys \cup {BalanceKey(actor, out)}
  BY <1>7, <1>8, <1>9, AddBalanceGood
<1>14. credited.ok => Moves(proceeds.db, credited.db, out, -output)
  BY <1>7, <1>8, <1>9, AddBalanceFlow DEF GoodRun
<1> HIDE DEF credited
<1>11. /\ GoodRun(Z, r) /\ r.ok = credited.ok
       /\ r.keys \subseteq credited.keys \cup {OrderKey(id)}
  BY <1>1, <1>7, <1>8, <1>9, <1>10, SetOrderGood
<1>15. r.ok => Conserves(s.db, r.db)
  <2> SUFFICES ASSUME r.ok, NEW a \in AssetIDs PROVE Gone(r.db, a) = Gone(s.db, a)
    BY DEF Conserves
  <2>1. credited.ok /\ proceeds.ok /\ debited.ok /\ priced.ok
    BY <1>8, <1>9, <1>10, <1>11
  <2>2. credited.db.orders[id] = order
    BY <1>10 DEF order
  <2>3. Gone(r.db, a) = Gone(credited.db, a) + LockedIn(order, a) - LockedIn(rest, a)
    BY <1>1, <1>7, <1>10, <2>1, <2>2, SetOrderFlow DEF GoodRun
  <2>4. Gone(proceeds.db, a) = Gone(s.db, a)
    BY <1>7, <1>8, <1>9, <1>12, <1>13, <2>1, RoundTrip DEF GoodRun, Run, Conserves
  <2>5. Gone(credited.db, a) = Gone(proceeds.db, a) + (IF a = out THEN -output ELSE 0)
    BY <1>14, <2>1 DEF Moves
  <2>6. Gone(s.db, a) \in Int
    BY GoneType DEF GoodRun, Run
  <2>7. LockedIn(rest, a) = LockedIn(order, a) - (IF a = out THEN output ELSE 0)
    BY <1>7, <2>1
  <2>8. LockedIn(order, a) \in Int
    BY <1>3, StorageAssumption DEF LockedIn, Order, Amount
  <2> QED
    BY <1>7, <2>1, <2>3, <2>4, <2>5, <2>6, <2>7, <2>8
<1>16. r.ok => CreatesOnly(s.db, r.db, {})
  <2>1. (s.ok /\ order # Missing) \/ ~credited.ok
    BY <1>4, <1>5, <1>6, <1>8, <1>9, <1>10
  <2>2. r.ok => CreatesOnly(credited.db, r.db, {})
    BY <1>1, <1>7, <1>8, <1>9, <1>10, <2>1, SetOrderCreates DEF GoodRun, order
  <2> QED
    BY <1>10, <2>2 DEF CreatesOnly
<1> QED
  BY ZenonT(30), <1>2, <1>4, <1>5, <1>6, <1>8, <1>9, <1>10, <1>11, <1>15, <1>16 DEF FillOrderKeys, Effect

\* A close credits what the order locks, which is never nothing.
LEMMA CloseOrderGood ==
  ASSUME NEW Z, NEW s, GoodRun(Z, s), NEW actor \in PublicKeys, NEW id \in TxIDs,
         NEW out \in AssetIDs,
         NEW r, r = ExecuteCloseOrder(s, actor, id, out)
  PROVE  /\ GoodRun(Z, r) /\ Effect(s, r, {})
         /\ r.keys \subseteq s.keys \cup CloseOrderKeys(actor, id, out)
<1> DEFINE order   == s.db.orders[id]
           t       == Touch(s, OrderKey(id))
           matched == Require(t, order # Missing
                                   /\ order.owner = actor /\ order.out = out)
           deleted == SetOrder(matched, id, Missing)
<1>1. r = AddBalance(deleted, actor, out, order.remaining)
  BY DEF ExecuteCloseOrder
<1>2. /\ t \in Run /\ t.ok = s.ok /\ t.db = s.db
      /\ t.keys \subseteq s.keys \cup {OrderKey(id)}
  BY OrderKeyType, TouchRun DEF GoodRun
<1>3. /\ order \in Order \cup {Missing}
      /\ s.ok /\ order # Missing => WellFormedOrder(order)
  BY OrderOnRecord
<1> HIDE DEF t, order
<1>4. /\ GoodRun(Z, matched) /\ matched.keys = t.keys /\ matched.db = s.db
      /\ matched.ok => s.ok /\ order # Missing /\ order.out = out
  BY <1>2 DEF Require, GoodRun, Run
<1> HIDE DEF matched
<1>5. matched.ok => order.remaining \in Nat \ {0}
  BY <1>3, <1>4, StorageAssumption DEF WellFormedOrder, Order, Amount
<1>6. /\ GoodRun(Z, deleted) /\ deleted.ok = matched.ok
      /\ deleted.keys \subseteq t.keys \cup {OrderKey(id)}
  BY <1>4, SetOrderGood
<1>8. deleted.ok => \A a \in AssetIDs :
        Gone(deleted.db, a) = Gone(s.db, a) + LockedIn(order, a) - LockedIn(Missing, a)
  BY <1>4, <1>6, SetOrderFlow DEF GoodRun, order
<1>9. deleted.ok => CreatesOnly(s.db, deleted.db, {})
  BY <1>4, SetOrderCreates DEF GoodRun
<1> HIDE DEF deleted
<1>7. /\ GoodRun(Z, r) /\ (r.ok => deleted.ok)
      /\ r.db.assets = deleted.db.assets /\ r.db.orders = deleted.db.orders
      /\ r.keys \subseteq deleted.keys \cup {BalanceKey(actor, out)}
  BY <1>1, <1>5, <1>6, AddBalanceGood
<1>10. r.ok => Conserves(s.db, r.db)
  <2> SUFFICES ASSUME r.ok, NEW a \in AssetIDs PROVE Gone(r.db, a) = Gone(s.db, a)
    BY DEF Conserves
  <2>1. LockedIn(Missing, a) = 0 /\ LockedIn(order, a) = IF a = out THEN order.remaining ELSE 0
    BY <1>4, <1>6, <1>7 DEF LockedIn
  <2>2. r.ok => Moves(deleted.db, r.db, out, -order.remaining)
    BY <1>1, <1>5, <1>6, AddBalanceFlow DEF GoodRun
  <2>3. Gone(r.db, a) = Gone(deleted.db, a) + (IF a = out THEN -order.remaining ELSE 0)
    BY <2>2 DEF Moves
  <2>4. Gone(s.db, a) \in Int
    BY GoneType DEF GoodRun, Run
  <2> QED
    BY <1>5, <1>6, <1>7, <1>8, <2>1, <2>3, <2>4
<1> QED
  BY <1>2, <1>4, <1>6, <1>7, <1>9, <1>10 DEF CloseOrderKeys, Effect, CreatesOnly

-----------------------------------------------------------------------------
\* Exports and imports.

ExportRequest ==
  [to : PublicKeys, asset : AssetIDs, value : Amount, return : BOOLEAN,
   reward : Amount, swapIn : Amount, assetOut : AssetIDs, swapOut : Amount,
   swapExpiry : -1 .. MaxTime, destination : Chains]

\* A return shrinks a warp asset, and deletes it rather than leave it empty.
LEMMA RetireGood ==
  ASSUME NEW Z, NEW s, GoodRun(Z, s), NEW actor \in PublicKeys, NEW e \in ExportRequest,
         NEW r, r = Retire(s, actor, e)
  PROVE  /\ GoodRun(Z, r) /\ Effect(s, r, {})
         /\ r.ok => s.ok /\ s.db.assets[e.asset] \in Asset /\ s.db.assets[e.asset].warp
         /\ r.keys \subseteq s.keys \cup {AssetKey(e.asset), BalanceKey(actor, e.asset)}
<1> DEFINE a       == s.db.assets[e.asset]
           t       == Touch(s, AssetKey(e.asset))
           home    == Require(t, a # Missing /\ a.warp /\ a.metadata[2] = e.destination)
           covered == Require(home, e.value + e.reward <= a.supply)
           supply  == a.supply - e.value - e.reward
           rest    == IF supply > 0
                      THEN [a EXCEPT !.supply = supply, !.owner = EmptyKey]
                      ELSE Missing
           retired == SetAsset(covered, e.asset, rest)
           debited == SubBalance(retired, actor, e.asset, e.value)
<1>1. r = IF e.reward > 0 THEN SubBalance(debited, actor, e.asset, e.reward)
                          ELSE debited
  BY DEF Retire
<1>2. e.asset \in AssetIDs /\ e.value \in Nat /\ e.reward \in Nat
  BY StorageAssumption DEF ExportRequest, Amount
<1>3. /\ t \in Run /\ t.ok = s.ok /\ t.db = s.db
      /\ t.keys \subseteq s.keys \cup {AssetKey(e.asset)}
  BY <1>2, AssetKeyType, TouchRun DEF GoodRun
<1>4. a \in Asset \cup {Missing} /\ (s.ok => WarpRecordOK(e.asset, a))
  BY <1>2, AssetOnRecord
<1> HIDE DEF t, a
<1>5. /\ GoodRun(Z, home) /\ home.keys = t.keys /\ home.db = s.db
      /\ home.ok => s.ok /\ a # Missing /\ a.warp
  BY <1>3 DEF Require, GoodRun, Run
<1> HIDE DEF home
<1>6. /\ GoodRun(Z, covered) /\ covered.keys = t.keys /\ covered.db = s.db
      /\ covered.ok => home.ok /\ e.value + e.reward <= a.supply
  BY <1>5 DEF Require, GoodRun, Run
<1> HIDE DEF covered
<1>7. covered.ok => rest \in Asset \cup {Missing} /\ WarpRecordOK(e.asset, rest)
  <2> SUFFICES ASSUME covered.ok
               PROVE  rest \in Asset \cup {Missing} /\ WarpRecordOK(e.asset, rest)
    OBVIOUS
  <2>1. a \in Asset /\ WarpRecordOK(e.asset, a) /\ a # Missing
    BY <1>4, <1>5, <1>6
  <2>2. supply \in Amount
    BY <1>2, <1>6, <2>1, StorageAssumption DEF Asset, Amount
  <2> HIDE DEF supply
  <2> QED
    BY <2>1, <2>2 DEF Asset, WarpRecordOK, PublicKeys
<1>11. covered.ok => -(e.value + e.reward) = SupplyOf(rest) - SupplyOf(a)
  <2> SUFFICES ASSUME covered.ok
               PROVE  -(e.value + e.reward) = SupplyOf(rest) - SupplyOf(a)
    OBVIOUS
  <2>1. a \in Asset /\ a # Missing /\ a.supply \in Nat
    BY <1>4, <1>5, <1>6, StorageAssumption DEF Asset, Amount
  <2>2. supply \in Nat /\ supply = a.supply - (e.value + e.reward)
    BY <1>2, <1>6, <2>1
  <2>3. SupplyOf(rest) = supply
    <3>1. CASE supply > 0
      <4>0. rest = [a EXCEPT !.supply = supply, !.owner = EmptyKey]
        BY <3>1
      <4>2. supply \in Amount
        BY <1>2, <2>1, <2>2, StorageAssumption DEF Asset, Amount
      <4> HIDE DEF supply
      <4>1. rest \in Asset /\ rest.supply = supply
        BY <2>1, <4>0, <4>2 DEF Asset, PublicKeys
      <4> HIDE DEF rest
      <4> QED
        BY <4>1, MissingAssumption DEF SupplyOf
    <3>2. CASE ~(supply > 0)
      <4>1. rest = Missing /\ supply = 0
        BY <2>2, <3>2
      <4> QED
        BY <4>1 DEF SupplyOf
    <3> QED
      BY <3>1, <3>2
  <2> HIDE DEF rest, supply
  <2> QED
    BY <1>2, <2>1, <2>2, <2>3 DEF SupplyOf
<1> HIDE DEF rest
<1>8. /\ GoodRun(Z, retired) /\ retired.ok = covered.ok
      /\ retired.keys \subseteq t.keys \cup {AssetKey(e.asset)}
  BY <1>2, <1>6, <1>7, SetAssetGood
<1>12. retired.ok => Moves(s.db, retired.db, e.asset, -(e.value + e.reward))
  BY <1>2, <1>6, <1>7, <1>11, SetAssetFlow DEF GoodRun, a
<1>13. retired.ok => CreatesOnly(s.db, retired.db, {})
  BY <1>2, <1>5, <1>6, <1>7, SetAssetCreates DEF GoodRun, a
<1> HIDE DEF retired
<1>9. /\ GoodRun(Z, debited) /\ (debited.ok => retired.ok)
      /\ debited.db.assets = retired.db.assets /\ debited.db.orders = retired.db.orders
      /\ debited.keys \subseteq retired.keys \cup {BalanceKey(actor, e.asset)}
  BY <1>2, <1>8, SubBalanceGood
<1>14. debited.ok => Moves(retired.db, debited.db, e.asset, e.value)
  BY <1>2, <1>8, SubBalanceFlow DEF GoodRun
<1> HIDE DEF debited
<1>10. /\ GoodRun(Z, r) /\ (r.ok => debited.ok)
       /\ r.db.assets = retired.db.assets /\ r.db.orders = retired.db.orders
       /\ r.keys \subseteq debited.keys \cup {BalanceKey(actor, e.asset)}
  BY <1>1, <1>2, <1>9, SubBalanceGood
<1>15. r.ok => Moves(debited.db, r.db, e.asset, e.reward)
  <2>1. CASE e.reward > 0
    BY <1>1, <1>2, <1>9, <2>1, SubBalanceFlow DEF GoodRun
  <2>2. CASE ~(e.reward > 0)
    <3>1. r = debited /\ e.reward = 0
      BY <1>1, <1>2, <2>2
    <3> QED
      BY <1>9, <3>1, StandStill DEF GoodRun, Run
  <2> QED
    BY <2>1, <2>2
<1>16. r.ok => Conserves(s.db, r.db)
  <2> SUFFICES ASSUME r.ok PROVE Conserves(s.db, r.db)
    OBVIOUS
  <2>1. Moves(retired.db, r.db, e.asset, e.value + e.reward)
    BY <1>2, <1>8, <1>9, <1>10, <1>14, <1>15, MovesAdd DEF GoodRun, Run
  <2> DEFINE n == e.value + e.reward
  <2>2. n \in Int
    BY <1>2
  <2>3. Moves(s.db, retired.db, e.asset, -n) /\ Moves(retired.db, r.db, e.asset, n)
    BY <1>9, <1>10, <1>12, <2>1
  <2> HIDE DEF n
  <2> QED
    BY <1>8, <1>10, <2>2, <2>3, RoundTripBack DEF GoodRun, Run
<1> QED
  BY <1>3, <1>4, <1>5, <1>6, <1>8, <1>9, <1>10, <1>13, <1>16 DEF a, Effect, CreatesOnly

LEMMA ExportReturnGood ==
  ASSUME NEW Z, NEW s, GoodRun(Z, s), NEW actor \in PublicKeys, NEW e \in ExportRequest,
         NEW r, r = ExportReturn(s, actor, e)
  PROVE  /\ GoodRun(Z, r) /\ Effect(s, r, {})
         /\ r.ok => s.ok /\ s.db.assets[e.asset] \in Asset /\ s.db.assets[e.asset].warp
         /\ r.keys \subseteq s.keys \cup {AssetKey(e.asset), BalanceKey(actor, e.asset)}
<1> DEFINE q == Retire(s, actor, e)
<1>1. /\ GoodRun(Z, q) /\ Effect(s, q, {})
      /\ q.ok => s.ok /\ s.db.assets[e.asset] \in Asset /\ s.db.assets[e.asset].warp
      /\ q.keys \subseteq s.keys \cup {AssetKey(e.asset), BalanceKey(actor, e.asset)}
  BY RetireGood
<1> HIDE DEF q
<1>2. r = Require(q, Marshals(e)) /\ Marshals(e) \in BOOLEAN
  BY DEF ExportReturn, Marshals, q
<1> QED
  BY <1>1, <1>2, RequireGood DEF Effect

\* A loan is of an asset of this chain.
LEMMA LendGood ==
  ASSUME NEW Z, NEW s, GoodRun(Z, s), NEW actor \in PublicKeys, NEW e \in ExportRequest,
         s.ok => e.value # 0,
         NEW r, r = Lend(s, actor, e)
  PROVE  /\ GoodRun(Z, r) /\ Effect(s, r, {})
         /\ r.ok => s.ok /\ s.db.assets[e.asset] \in Asset /\ ~s.db.assets[e.asset].warp
         /\ r.keys \subseteq s.keys \cup
              {AssetKey(e.asset), BalanceKey(actor, e.asset),
               LoanKey(e.asset, e.destination)}
<1> DEFINE a       == s.db.assets[e.asset]
           t       == Touch(s, AssetKey(e.asset))
           local   == Require(t, a # Missing /\ ~a.warp)
           lent    == AddLoan(local, e.asset, e.destination, e.value)
           debited == SubBalance(lent, actor, e.asset, e.value)
           reward  == AddLoan(debited, e.asset, e.destination, e.reward)
<1>1. r = IF e.reward > 0 THEN SubBalance(reward, actor, e.asset, e.reward)
                          ELSE debited
  BY DEF Lend
<1>2. /\ e.asset \in AssetIDs /\ e.destination \in Chains
      /\ e.value \in Nat /\ e.reward \in Nat
  BY StorageAssumption DEF ExportRequest, Amount
<1>3. /\ t \in Run /\ t.ok = s.ok /\ t.db = s.db
      /\ t.keys \subseteq s.keys \cup {AssetKey(e.asset)}
  BY <1>2, AssetKeyType, TouchRun DEF GoodRun
<1>4. a \in Asset \cup {Missing}
  BY <1>2, AssetOnRecord
<1> HIDE DEF t, a
<1>5. /\ GoodRun(Z, local) /\ local.keys = t.keys /\ local.db = s.db
      /\ local.ok => s.ok /\ a # Missing /\ ~a.warp
  BY <1>3 DEF Require, GoodRun, Run
<1> HIDE DEF local
<1>6. /\ GoodRun(Z, lent) /\ (lent.ok => local.ok)
      /\ lent.db.assets = s.db.assets /\ lent.db.orders = s.db.orders
      /\ lent.keys \subseteq t.keys \cup {LoanKey(e.asset, e.destination)}
  BY <1>2, <1>5, AddLoanGood
<1>10. lent.ok => Moves(s.db, lent.db, e.asset, -e.value)
  BY <1>2, <1>5, AddLoanFlow DEF GoodRun
<1> HIDE DEF lent
<1>7. /\ GoodRun(Z, debited) /\ (debited.ok => lent.ok)
      /\ debited.db.assets = s.db.assets /\ debited.db.orders = s.db.orders
      /\ debited.keys \subseteq lent.keys \cup {BalanceKey(actor, e.asset)}
  BY <1>2, <1>6, SubBalanceGood
<1>11. debited.ok => Conserves(s.db, debited.db)
  <2>1. debited.ok => Moves(lent.db, debited.db, e.asset, e.value)
    BY <1>2, <1>6, SubBalanceFlow DEF GoodRun
  <2> QED
    BY <1>2, <1>6, <1>7, <1>10, <2>1, RoundTripBack DEF GoodRun, Run
<1> HIDE DEF debited
<1>8. CASE e.reward > 0
  <2>1. /\ GoodRun(Z, reward) /\ (reward.ok => debited.ok)
        /\ reward.db.assets = s.db.assets /\ reward.db.orders = s.db.orders
        /\ reward.keys \subseteq debited.keys \cup {LoanKey(e.asset, e.destination)}
    BY <1>2, <1>7, <1>8, AddLoanGood
  <2>3. reward.ok => Moves(debited.db, reward.db, e.asset, -e.reward)
    BY <1>2, <1>7, <1>8, AddLoanFlow DEF GoodRun
  <2> HIDE DEF reward
  <2>2. /\ GoodRun(Z, r) /\ (r.ok => reward.ok)
        /\ r.db.assets = s.db.assets /\ r.db.orders = s.db.orders
        /\ r.keys \subseteq reward.keys \cup {BalanceKey(actor, e.asset)}
    BY <1>1, <1>2, <1>8, <2>1, SubBalanceGood
  <2>4. r.ok => Moves(reward.db, r.db, e.asset, e.reward)
    BY <1>1, <1>2, <1>8, <2>1, SubBalanceFlow DEF GoodRun
  <2>5. r.ok => Conserves(debited.db, r.db)
    BY <1>2, <1>7, <2>1, <2>2, <2>3, <2>4, RoundTripBack DEF GoodRun, Run
  <2>6. r.ok => Conserves(s.db, r.db)
    BY <1>11, <2>1, <2>2, <2>5, ConservesTrans
  <2> QED
    BY <1>3, <1>4, <1>5, <1>6, <1>7, <2>1, <2>2, <2>6 DEF a, Effect, CreatesOnly
<1>9. CASE ~(e.reward > 0)
  BY <1>1, <1>3, <1>4, <1>5, <1>6, <1>7, <1>9, <1>11 DEF a, Effect, CreatesOnly
<1> QED
  BY <1>8, <1>9

LEMMA ExportLoanGood ==
  ASSUME NEW Z, NEW s, GoodRun(Z, s), NEW actor \in PublicKeys, NEW e \in ExportRequest,
         s.ok => e.value # 0,
         NEW r, r = ExportLoan(s, actor, e)
  PROVE  /\ GoodRun(Z, r) /\ Effect(s, r, {})
         /\ r.ok => s.ok /\ s.db.assets[e.asset] \in Asset /\ ~s.db.assets[e.asset].warp
         /\ r.keys \subseteq s.keys \cup
              {AssetKey(e.asset), BalanceKey(actor, e.asset),
               LoanKey(e.asset, e.destination)}
<1> DEFINE q == Lend(s, actor, e)
<1>1. /\ GoodRun(Z, q) /\ Effect(s, q, {})
      /\ q.ok => s.ok /\ s.db.assets[e.asset] \in Asset /\ ~s.db.assets[e.asset].warp
      /\ q.keys \subseteq s.keys \cup
           {AssetKey(e.asset), BalanceKey(actor, e.asset),
           LoanKey(e.asset, e.destination)}
  BY LendGood
<1> HIDE DEF q
<1>2. r = Require(q, Marshals(e)) /\ Marshals(e) \in BOOLEAN
  BY DEF ExportLoan, Marshals, q
<1> QED
  BY <1>1, <1>2, RequireGood DEF Effect

\* The message of a successful export carries the id the asset has at home.
LEMMA ExportAssetGood ==
  ASSUME NEW Z, NEW s, GoodRun(Z, s), NEW actor \in PublicKeys, NEW e \in ExportRequest,
         ValidSwapParams(e.value, e.swapIn, e.assetOut, e.swapOut, e.swapExpiry),
         NEW c \in Chains, NEW id \in TxIDs,
         NEW r, r = ExecuteExportAsset(s, actor, e)
  PROVE  /\ GoodRun(Z, r) /\ Effect(s, r, {})
         /\ r.keys \subseteq s.keys \cup ExportAssetKeys(actor, e)
         /\ r.ok => MessageOK(WarpTransfer(s.db, c, id, e))
<1> DEFINE valid == Require(s, e.value # 0)
           a     == s.db.assets[e.asset]
           m     == WarpTransfer(s.db, c, id, e)
<1>1. /\ GoodRun(Z, valid) /\ valid.db = s.db /\ valid.keys = s.keys
      /\ valid.ok => s.ok /\ e.value # 0
  BY DEF Require, GoodRun, Run
<1>2. r = IF e.return THEN ExportReturn(valid, actor, e) ELSE ExportLoan(valid, actor, e)
  BY DEF ExecuteExportAsset
<1> HIDE DEF valid
<1>3. /\ GoodRun(Z, r) /\ Effect(s, r, {})
      /\ r.ok => s.ok /\ a \in Asset /\ (a.warp <=> e.return)
      /\ r.keys \subseteq s.keys \cup ExportAssetKeys(actor, e)
  <2>1. CASE e.return
    BY <1>1, <1>2, <2>1, ExportReturnGood DEF ExportAssetKeys, Effect
  <2>2. CASE ~e.return
    BY <1>1, <1>2, <2>2, ExportLoanGood DEF ExportAssetKeys, Effect
  <2> QED
    BY <2>1, <2>2
<1>4. ASSUME r.ok PROVE MessageOK(m)
  <2>1. e.asset \in AssetIDs
    BY DEF ExportRequest
  <2>2. WarpRecordOK(e.asset, a) /\ a # Missing
    BY <1>3, <1>4, <2>1, AssetOnRecord, MissingAssumption
  <2>3. (IF e.return THEN a.metadata[1] ELSE e.asset) \in LocalIDs
    BY <1>3, <1>4, <2>1, <2>2 DEF WarpRecordOK, AssetIDs, ImportedIDs
  <2>5. e.swapExpiry \in Time
    BY TokenVMAssumption DEF ExportRequest, ValidSwapParams, Time
  <2>4. m \in Message
    BY <2>3, <2>5 DEF WarpTransfer, Message, ExportRequest
  <2> QED
    BY <2>4 DEF MessageOK, WarpTransfer
<1> QED
  BY <1>3, <1>4

\* An import writes a warp asset under an imported id, with that id as its
\* metadata.
LEMMA ImportMintGood ==
  ASSUME NEW Z, NEW s, GoodRun(Z, s), NEW actor \in PublicKeys, NEW m \in Message,
         s.ok => m.value # 0,
         NEW r, r = ImportMint(s, actor, m)
  PROVE  /\ GoodRun(Z, r) /\ Effect(s, r, {})
         /\ r.keys \subseteq s.keys \cup
              {AssetKey(ImportedAssetID(m.asset, m.src)),
               BalanceKey(m.to, ImportedAssetID(m.asset, m.src))} \cup
              (IF m.reward > 0 THEN {BalanceKey(actor, ImportedAssetID(m.asset, m.src))}
                               ELSE {})
<1> DEFINE asset    == ImportedAssetID(m.asset, m.src)
           a        == s.db.assets[asset]
           t        == Touch(s, AssetKey(asset))
           found    == Require(t, a = Missing \/ a.warp)
           before   == IF a = Missing THEN 0 ELSE a.supply
           supply   == before + m.value + m.reward
           fits     == Require(found, supply <= MaxUint64)
           record   == [metadata |-> IF a = Missing
                                     THEN ImportedAssetMetadata(m.asset, m.src)
                                     ELSE a.metadata,
                        supply |-> supply, owner |-> EmptyKey, warp |-> TRUE]
           minted   == SetAsset(fits, asset, record)
           credited == AddBalance(minted, m.to, asset, m.value)
<1>1. r = IF m.reward > 0 THEN AddBalance(credited, actor, asset, m.reward)
                          ELSE credited
  BY DEF ImportMint
<1>2. m.value \in Nat /\ m.reward \in Nat /\ m.to \in PublicKeys
  BY StorageAssumption DEF Message, Amount
<1>3. /\ asset \in ImportedIDs /\ asset \in AssetIDs
      /\ ImportedAssetMetadata(m.asset, m.src) = asset
  BY DEF Message, ImportedAssetID, ImportedAssetMetadata, ImportedIDs, AssetIDs
<1> HIDE DEF asset
<1>4. /\ t \in Run /\ t.ok = s.ok /\ t.db = s.db
      /\ t.keys \subseteq s.keys \cup {AssetKey(asset)}
  BY <1>3, AssetKeyType, TouchRun DEF GoodRun
<1>5. a \in Asset \cup {Missing} /\ (s.ok => WarpRecordOK(asset, a))
  BY <1>3, AssetOnRecord
<1> HIDE DEF t, a
<1>6. /\ GoodRun(Z, found) /\ found.keys = t.keys /\ found.db = s.db
      /\ found.ok => s.ok /\ (a = Missing \/ a.warp)
  BY <1>4 DEF Require, GoodRun, Run
<1> HIDE DEF found
<1>7. /\ GoodRun(Z, fits) /\ fits.keys = t.keys /\ fits.db = s.db
      /\ fits.ok => found.ok /\ supply <= MaxUint64
  BY <1>6 DEF Require, GoodRun, Run
<1> HIDE DEF fits
<1>8. fits.ok => record \in Asset /\ WarpRecordOK(asset, record)
  <2> SUFFICES ASSUME fits.ok PROVE record \in Asset /\ WarpRecordOK(asset, record)
    OBVIOUS
  <2>1. supply \in Amount
    BY <1>2, <1>5, <1>7, StorageAssumption DEF Asset, Amount
  <2>2. record.metadata = asset
    BY <1>3, <1>5, <1>6, <1>7 DEF WarpRecordOK
  <2> HIDE DEF supply
  <2>3. record \in Asset
    BY <1>3, <2>1, <2>2 DEF Asset, PublicKeys
  <2> QED
    BY <1>3, <2>2, <2>3 DEF WarpRecordOK
<1>12. fits.ok => m.value + m.reward = SupplyOf(record) - SupplyOf(a)
  <2> SUFFICES ASSUME fits.ok PROVE m.value + m.reward = SupplyOf(record) - SupplyOf(a)
    OBVIOUS
  <2>1. SupplyOf(a) = before /\ before \in Nat
    BY <1>5, StorageAssumption DEF SupplyOf, Asset, Amount
  <2>2. record # Missing /\ record.supply = supply
    BY <1>8, MissingAssumption
  <2>3. SupplyOf(record) = before + m.value + m.reward
    BY <2>2 DEF SupplyOf
  <2> HIDE DEF record, before
  <2> QED
    BY <1>2, <2>1, <2>3
<1> HIDE DEF record
<1>9. /\ GoodRun(Z, minted) /\ minted.ok = fits.ok
      /\ minted.keys \subseteq t.keys \cup {AssetKey(asset)}
  BY <1>3, <1>7, <1>8, SetAssetGood
<1>13. minted.ok => Moves(s.db, minted.db, asset, m.value + m.reward)
  BY <1>3, <1>7, <1>8, <1>12, SetAssetFlow DEF GoodRun, a
<1>14. minted.ok => CreatesOnly(s.db, minted.db, {})
  <2>1. asset \notin TxIDs
    BY <1>3, StorageAssumption DEF LocalIDs
  <2> QED
    BY <1>3, <1>7, <1>8, <2>1, SetAssetCreates DEF GoodRun
<1> HIDE DEF minted
<1>10. /\ GoodRun(Z, credited) /\ (credited.ok => minted.ok)
       /\ credited.db.assets = minted.db.assets /\ credited.db.orders = minted.db.orders
       /\ credited.keys \subseteq minted.keys \cup {BalanceKey(m.to, asset)}
  BY SMTT(30), <1>2, <1>3, <1>6, <1>7, <1>9, AddBalanceGood
<1>15. credited.ok => Moves(minted.db, credited.db, asset, -m.value)
  BY <1>2, <1>3, <1>9, AddBalanceFlow DEF GoodRun
<1> HIDE DEF credited
<1>11. /\ GoodRun(Z, r) /\ (r.ok => credited.ok)
       /\ r.db.assets = minted.db.assets /\ r.db.orders = minted.db.orders
       /\ r.keys \subseteq credited.keys \cup
            (IF m.reward > 0 THEN {BalanceKey(actor, asset)} ELSE {})
  BY <1>1, <1>2, <1>3, <1>10, AddBalanceGood
<1>16. r.ok => Moves(credited.db, r.db, asset, -m.reward)
  <2>1. CASE m.reward > 0
    BY <1>1, <1>2, <1>3, <1>10, <2>1, AddBalanceFlow DEF GoodRun
  <2>2. CASE ~(m.reward > 0)
    <3>1. r = credited /\ -m.reward = 0
      BY <1>1, <1>2, <2>2
    <3> QED
      BY <1>10, <3>1, StandStill DEF GoodRun, Run
  <2> QED
    BY <2>1, <2>2
<1>17. r.ok => Conserves(s.db, r.db)
  <2> SUFFICES ASSUME r.ok PROVE Conserves(s.db, r.db)
    OBVIOUS
  <2> DEFINE n == m.value + m.reward
  <2>1. n \in Int /\ -m.value \in Int /\ -m.reward \in Int /\ (-m.value) + (-m.reward) = -n
    BY <1>2
  <2>2. Moves(minted.db, r.db, asset, (-m.value) + (-m.reward))
    BY <1>9, <1>10, <1>11, <1>15, <1>16, <2>1, MovesAdd DEF GoodRun, Run
  <2>3. Moves(s.db, minted.db, asset, n)
    BY <1>10, <1>11, <1>13
  <2> HIDE DEF n
  <2>4. Moves(minted.db, r.db, asset, -n)
    BY <2>1, <2>2
  <2> QED
    BY <1>9, <1>11, <2>1, <2>3, <2>4, RoundTrip DEF GoodRun, Run
<1> QED
  BY <1>4, <1>6, <1>7, <1>9, <1>10, <1>11, <1>14, <1>17 DEF asset, Effect, CreatesOnly

\* A return repays the loan and credits what it carries.
LEMMA ImportReturnGood ==
  ASSUME NEW Z, NEW s, GoodRun(Z, s), NEW actor \in PublicKeys, NEW m \in Message,
         s.ok => m.value # 0,
         NEW r, r = ImportReturn(s, actor, m)
  PROVE  /\ GoodRun(Z, r) /\ Effect(s, r, {})
         /\ r.keys \subseteq s.keys \cup
              {LoanKey(m.asset, m.src), BalanceKey(m.to, m.asset)} \cup
              (IF m.reward > 0 THEN {BalanceKey(actor, m.asset)} ELSE {})
<1> DEFINE repaid   == SubLoan(s, m.asset, m.src, m.value)
           credited == AddBalance(repaid, m.to, m.asset, m.value)
           reward   == SubLoan(credited, m.asset, m.src, m.reward)
<1>1. r = IF m.reward > 0 THEN AddBalance(reward, actor, m.asset, m.reward)
                          ELSE credited
  BY DEF ImportReturn
<1>2. /\ m.value \in Nat /\ m.reward \in Nat /\ m.to \in PublicKeys
      /\ m.asset \in AssetIDs /\ m.src \in Chains
  BY StorageAssumption DEF Message, Amount, AssetIDs
<1>3. /\ GoodRun(Z, repaid) /\ (repaid.ok => s.ok)
      /\ repaid.db.assets = s.db.assets /\ repaid.db.orders = s.db.orders
      /\ repaid.keys \subseteq s.keys \cup {LoanKey(m.asset, m.src)}
  BY <1>2, SubLoanGood
<1>7. repaid.ok => Moves(s.db, repaid.db, m.asset, m.value)
  BY <1>2, SubLoanFlow DEF GoodRun
<1> HIDE DEF repaid
<1>4. /\ GoodRun(Z, credited) /\ (credited.ok => repaid.ok)
      /\ credited.db.assets = s.db.assets /\ credited.db.orders = s.db.orders
      /\ credited.keys \subseteq repaid.keys \cup {BalanceKey(m.to, m.asset)}
  BY <1>2, <1>3, AddBalanceGood
<1>8. credited.ok => Conserves(s.db, credited.db)
  <2>1. credited.ok => Moves(repaid.db, credited.db, m.asset, -m.value)
    BY <1>2, <1>3, AddBalanceFlow DEF GoodRun
  <2> QED
    BY <1>2, <1>3, <1>4, <1>7, <2>1, RoundTrip DEF GoodRun, Run
<1> HIDE DEF credited
<1>5. CASE m.reward > 0
  <2>1. /\ GoodRun(Z, reward) /\ (reward.ok => credited.ok)
        /\ reward.db.assets = s.db.assets /\ reward.db.orders = s.db.orders
        /\ reward.keys \subseteq credited.keys \cup {LoanKey(m.asset, m.src)}
    BY <1>2, <1>4, SubLoanGood
  <2>3. reward.ok => Moves(credited.db, reward.db, m.asset, m.reward)
    BY <1>2, <1>4, SubLoanFlow DEF GoodRun
  <2> HIDE DEF reward
  <2>2. /\ GoodRun(Z, r) /\ (r.ok => reward.ok)
        /\ r.db.assets = s.db.assets /\ r.db.orders = s.db.orders
        /\ r.keys \subseteq reward.keys \cup {BalanceKey(actor, m.asset)}
    BY <1>1, <1>2, <1>5, <2>1, AddBalanceGood
  <2>4. r.ok => Moves(reward.db, r.db, m.asset, -m.reward)
    BY <1>1, <1>2, <1>5, <2>1, AddBalanceFlow DEF GoodRun
  <2>5. r.ok => Conserves(credited.db, r.db)
    BY <1>2, <1>4, <2>1, <2>2, <2>3, <2>4, RoundTrip DEF GoodRun, Run
  <2>6. r.ok => Conserves(s.db, r.db)
    BY <1>8, <2>1, <2>2, <2>5, ConservesTrans
  <2> QED
    BY <1>3, <1>4, <1>5, <2>1, <2>2, <2>6 DEF Effect, CreatesOnly
<1>6. CASE ~(m.reward > 0)
  BY <1>1, <1>3, <1>4, <1>6, <1>8 DEF Effect, CreatesOnly
<1> QED
  BY <1>5, <1>6

\* A swap moves a positive amount both ways.
LEMMA FillSwapGood ==
  ASSUME NEW Z, NEW s, GoodRun(Z, s), NEW actor \in PublicKeys, NEW m, MessageOK(m),
         m.swapIn # 0, AssetIn(m) \in AssetIDs,
         NEW r, r = FillSwap(s, actor, m)
  PROVE  /\ GoodRun(Z, r) /\ Effect(s, r, {})
         /\ r.keys \subseteq s.keys \cup
              {BalanceKey(m.to, AssetIn(m)), BalanceKey(actor, AssetIn(m)),
               BalanceKey(actor, m.assetOut), BalanceKey(m.to, m.assetOut)}
<1> DEFINE in     == AssetIn(m)
           pays   == m.swapIn
           gets   == m.swapOut
           taken  == SubBalance(s, m.to, in, pays)
           sold   == AddBalance(taken, actor, in, pays)
           bought == SubBalance(sold, actor, m.assetOut, gets)
<1>1. r = AddBalance(bought, m.to, m.assetOut, gets)
  BY DEF FillSwap
<1>2. /\ pays \in Nat \ {0} /\ gets \in Nat \ {0}
      /\ m.to \in PublicKeys /\ m.assetOut \in AssetIDs /\ in \in AssetIDs
  BY StorageAssumption DEF MessageOK, Message, ValidSwapParams, Amount
<1> HIDE DEF in, pays, gets
<1>3. /\ GoodRun(Z, taken) /\ (taken.ok => s.ok)
      /\ taken.db.assets = s.db.assets /\ taken.db.orders = s.db.orders
      /\ taken.keys \subseteq s.keys \cup {BalanceKey(m.to, in)}
  BY <1>2, SubBalanceGood
<1>7. taken.ok => Moves(s.db, taken.db, in, pays)
  BY <1>2, SubBalanceFlow DEF GoodRun
<1> HIDE DEF taken
<1>4. /\ GoodRun(Z, sold) /\ (sold.ok => taken.ok)
      /\ sold.db.assets = s.db.assets /\ sold.db.orders = s.db.orders
      /\ sold.keys \subseteq taken.keys \cup {BalanceKey(actor, in)}
  BY <1>2, <1>3, AddBalanceGood
<1>8. sold.ok => Conserves(s.db, sold.db)
  <2>1. sold.ok => Moves(taken.db, sold.db, in, -pays)
    BY <1>2, <1>3, AddBalanceFlow DEF GoodRun
  <2> QED
    BY <1>2, <1>3, <1>4, <1>7, <2>1, RoundTrip DEF GoodRun, Run
<1> HIDE DEF sold
<1>5. /\ GoodRun(Z, bought) /\ (bought.ok => sold.ok)
      /\ bought.db.assets = s.db.assets /\ bought.db.orders = s.db.orders
      /\ bought.keys \subseteq sold.keys \cup {BalanceKey(actor, m.assetOut)}
  BY <1>2, <1>4, SubBalanceGood
<1>9. bought.ok => Moves(sold.db, bought.db, m.assetOut, gets)
  BY <1>2, <1>4, SubBalanceFlow DEF GoodRun
<1> HIDE DEF bought
<1>6. /\ GoodRun(Z, r) /\ (r.ok => bought.ok)
      /\ r.db.assets = s.db.assets /\ r.db.orders = s.db.orders
      /\ r.keys \subseteq bought.keys \cup {BalanceKey(m.to, m.assetOut)}
  BY <1>1, <1>2, <1>5, AddBalanceGood
<1>10. r.ok => Conserves(sold.db, r.db)
  <2>1. r.ok => Moves(bought.db, r.db, m.assetOut, -gets)
    BY <1>1, <1>2, <1>5, AddBalanceFlow DEF GoodRun
  <2> QED
    BY <1>2, <1>4, <1>5, <1>6, <1>9, <2>1, RoundTrip DEF GoodRun, Run
<1>11. r.ok => Conserves(s.db, r.db)
  BY <1>5, <1>6, <1>8, <1>10, ConservesTrans
<1> QED
  BY <1>3, <1>4, <1>5, <1>6, <1>11 DEF in, Effect, CreatesOnly

\* An import stays sound in each of its six ways: minted or returned, without
\* a swap, filled or expired.
LEMMA ImportAssetGood ==
  ASSUME NEW Z, NEW s, GoodRun(Z, s), NEW actor \in PublicKeys, NEW m, MessageOK(m),
         NEW fill \in BOOLEAN, NEW t \in Time, NEW verified \in BOOLEAN,
         NEW r, r = ExecuteImportAsset(s, actor, m, fill, t, verified)
  PROVE  /\ GoodRun(Z, r) /\ Effect(s, r, {})
         /\ r.keys \subseteq s.keys \cup ImportAssetKeys(actor, m, fill)
<1> DEFINE valid    == Require(s, verified /\ m.value # 0)
           imported == IF m.return THEN ImportReturn(valid, actor, m)
                                   ELSE ImportMint(valid, actor, m)
           basic    == (IF m.return THEN {LoanKey(m.asset, m.src)} ELSE {AssetKey(AssetIn(m))})
                         \cup {BalanceKey(m.to, AssetIn(m))}
                         \cup (IF m.reward > 0 THEN {BalanceKey(actor, AssetIn(m))} ELSE {})
<1>1. r = IF m.swapIn = 0 THEN imported
          ELSE IF fill    THEN FillSwap(imported, actor, m)
          ELSE Require(imported, m.swapExpiry <= t)
  BY DEF ExecuteImportAsset
<1>2. m \in Message /\ m.swapIn \in Nat /\ m.return \in BOOLEAN
  BY StorageAssumption DEF MessageOK, Message, Amount
<1>3. AssetIn(m) \in AssetIDs
  BY <1>2 DEF AssetIn, Message, ImportedAssetID, ImportedIDs, AssetIDs
<1>4. /\ GoodRun(Z, valid) /\ valid.keys = s.keys /\ valid.db = s.db
      /\ valid.ok => s.ok /\ m.value # 0
  BY DEF Require, GoodRun, Run
<1> HIDE DEF valid
<1>5. /\ GoodRun(Z, imported) /\ Effect(s, imported, {})
      /\ imported.keys \subseteq s.keys \cup basic
  <2>1. CASE m.return
    BY <1>2, <1>4, <2>1, ImportReturnGood DEF AssetIn, Effect
  <2>2. CASE ~m.return
    BY <1>2, <1>4, <2>2, ImportMintGood DEF AssetIn, Effect
  <2> QED
    BY <2>1, <2>2
<1>6. /\ basic \subseteq ImportAssetKeys(actor, m, fill)
      /\ fill /\ m.swapIn > 0 =>
           {BalanceKey(m.to, AssetIn(m)), BalanceKey(actor, AssetIn(m)),
            BalanceKey(actor, m.assetOut), BalanceKey(m.to, m.assetOut)}
             \subseteq ImportAssetKeys(actor, m, fill)
  BY DEF ImportAssetKeys
<1> HIDE DEF imported, basic
<1>7. CASE m.swapIn = 0
  BY <1>1, <1>5, <1>6, <1>7
<1>8. CASE m.swapIn # 0 /\ fill
  <2>1. r = FillSwap(imported, actor, m)
    BY <1>1, <1>8
  <2>2. /\ GoodRun(Z, r) /\ Effect(imported, r, {})
        /\ r.keys \subseteq imported.keys \cup
             {BalanceKey(m.to, AssetIn(m)), BalanceKey(actor, AssetIn(m)),
              BalanceKey(actor, m.assetOut), BalanceKey(m.to, m.assetOut)}
    BY <1>3, <1>5, <1>8, <2>1, FillSwapGood
  <2>3. m.swapIn > 0
    BY <1>2, <1>8
  <2>4. Effect(s, r, {})
    BY <1>5, <2>2, EffectTrans
  <2> QED
    BY <1>5, <1>6, <1>8, <2>2, <2>3, <2>4
<1>9. CASE m.swapIn # 0 /\ ~fill
  <2>1. r = Require(imported, m.swapExpiry <= t)
    BY <1>1, <1>9
  <2>2. /\ GoodRun(Z, r) /\ r.keys = imported.keys
        /\ r.db = imported.db /\ (r.ok => imported.ok)
    BY <1>5, <2>1 DEF Require, GoodRun, Run
  <2>3. Effect(s, r, {})
    BY <1>5, <2>2 DEF Effect
  <2> QED
    BY <1>5, <1>6, <2>2, <2>3
<1> QED
  BY <1>7, <1>8, <1>9
-----------------------------------------------------------------------------
\* What an entry of v on the account <<x, y>> does to the account <<p, q>>.
At(p, q, x, y, v) == IF p = x /\ q = y THEN v ELSE 0

\* Nothing but balances differs between d and e.
OnlyBalances(d, e) ==
  e.assets = d.assets /\ e.orders = d.orders /\ e.loans = d.loans

\* Nothing but loans differs between d and e.
OnlyLoans(d, e) ==
  e.assets = d.assets /\ e.orders = d.orders /\ e.bal = d.bal

\* Writing one balance.
LEMMA SetBalEntry ==
  ASSUME NEW d \in DB, NEW pk \in PublicKeys, NEW asset \in AssetIDs,
         NEW v \in Amount \cup {Missing}, NEW x \in Int,
         ValueOf(v) = GetBalance(d, pk, asset) + x,
         NEW e, e = SetBal(d, <<pk, asset>>, v)
  PROVE  /\ OnlyBalances(d, e)
         /\ \A q \in PublicKeys, b \in AssetIDs :
              GetBalance(e, q, b) = GetBalance(d, q, b) + At(q, b, pk, asset, x)
<1>1. /\ e.bal = [d.bal EXCEPT ![<<pk, asset>>] = v]
      /\ OnlyBalances(d, e)
  BY SetBalType DEF OnlyBalances
<1>2. d.bal \in [PublicKeys \X AssetIDs -> Amount \cup {Missing}]
  BY DEF DB
<1>3. ASSUME NEW q \in PublicKeys, NEW b \in AssetIDs
      PROVE  GetBalance(e, q, b) = GetBalance(d, q, b) + At(q, b, pk, asset, x)
  <2>1. GetBalance(d, q, b) \in Nat
    BY GetBalanceType, StorageAssumption DEF Amount
  <2>2. CASE q = pk /\ b = asset
    BY <1>1, <1>2, <2>2 DEF GetBalance, At
  <2>3. CASE ~(q = pk /\ b = asset)
    BY <1>1, <1>2, <2>1, <2>3 DEF GetBalance, At
  <2> QED
    BY <2>2, <2>3
<1> QED
  BY <1>1, <1>3

\* Writing one loan.
LEMMA SetLoanEntry ==
  ASSUME NEW d \in DB, NEW asset \in AssetIDs, NEW dest \in Chains,
         NEW v \in Amount \cup {Missing}, NEW x \in Int,
         ValueOf(v) = GetLoan(d, asset, dest) + x,
         NEW e, e = SetLoan(d, <<asset, dest>>, v)
  PROVE  /\ OnlyLoans(d, e)
         /\ \A b \in AssetIDs, z \in Chains :
              GetLoan(e, b, z) = GetLoan(d, b, z) + At(b, z, asset, dest, x)
<1>1. /\ e.loans = [d.loans EXCEPT ![<<asset, dest>>] = v]
      /\ OnlyLoans(d, e)
  BY SetLoanType DEF OnlyLoans
<1>2. d.loans \in [AssetIDs \X Chains -> Amount \cup {Missing}]
  BY DEF DB
<1>3. ASSUME NEW b \in AssetIDs, NEW z \in Chains
      PROVE  GetLoan(e, b, z) = GetLoan(d, b, z) + At(b, z, asset, dest, x)
  <2>1. GetLoan(d, b, z) \in Nat
    BY GetLoanType, StorageAssumption DEF Amount
  <2>2. CASE b = asset /\ z = dest
    BY <1>1, <1>2, <2>2 DEF GetLoan, At
  <2>3. CASE ~(b = asset /\ z = dest)
    BY <1>1, <1>2, <2>1, <2>3 DEF GetLoan, At
  <2> QED
    BY <2>2, <2>3
<1> QED
  BY <1>1, <1>3

\* What is written in place of a record from which amount is taken.
LEMMA LessValue ==
  ASSUME NEW old \in Amount, NEW amount \in Nat, amount <= old,
         NEW new, new = IF old = amount THEN Missing ELSE old - amount
  PROVE  ValueOf(new) = old + (-amount) /\ -amount \in Int
<1>1. old - amount \in Amount /\ old \in Nat
  BY StorageAssumption DEF Amount
<1>2. CASE old = amount
  BY <1>1, <1>2 DEF ValueOf
<1>3. CASE old # amount
  <2>1. ValueOf(new) = old - amount
    BY <1>1, <1>3, MissingAssumption DEF ValueOf
  <2> QED
    BY <1>1, <2>1
<1> QED
  BY <1>2, <1>3

\* What is written as an amount reads as that amount.
LEMMA MoreValue ==
  ASSUME NEW new \in Amount
  PROVE  ValueOf(new) = new
BY MissingAssumption DEF ValueOf

\* A credit of a balance enters what it credits, and only there.
LEMMA AddBalanceEntry ==
  ASSUME NEW s \in Run, NEW pk \in PublicKeys, NEW asset \in AssetIDs, NEW amount,
         s.ok => amount \in Nat,
         NEW r, r = AddBalance(s, pk, asset, amount)
  PROVE  /\ r \in Run
         /\ r.ok => s.ok
         /\ OnlyBalances(s.db, r.db)
         /\ r.ok => \A q \in PublicKeys, b \in AssetIDs :
                      GetBalance(r.db, q, b)
                        = GetBalance(s.db, q, b) + At(q, b, pk, asset, amount)
<1> DEFINE new == GetBalance(s.db, pk, asset) + amount
<1>1. /\ r \in Run
      /\ r.ok => s.ok /\ new \in Amount
      /\ r.db = IF r.ok THEN SetBal(s.db, <<pk, asset>>, new) ELSE s.db
  BY AddBalanceRun
<1>2. CASE r.ok
  <2>1. s.db \in DB /\ amount \in Int
    BY <1>1, <1>2 DEF Run
  <2>2. new = GetBalance(s.db, pk, asset) + amount
    OBVIOUS
  <2> HIDE DEF new
  <2>3. ValueOf(new) = GetBalance(s.db, pk, asset) + amount
    BY <1>1, <1>2, <2>2, MoreValue
  <2>4. new \in Amount \cup {Missing} /\ r.db = SetBal(s.db, <<pk, asset>>, new)
    BY <1>1, <1>2
  <2> QED
    BY <1>1, <2>1, <2>3, <2>4, SetBalEntry
<1>3. CASE ~r.ok
  BY <1>1, <1>3 DEF OnlyBalances
<1> QED
  BY <1>2, <1>3

\* A debit of a balance enters what it debits, and only there.
LEMMA SubBalanceEntry ==
  ASSUME NEW s \in Run, NEW pk \in PublicKeys, NEW asset \in AssetIDs, NEW amount,
         s.ok => amount \in Nat,
         NEW r, r = SubBalance(s, pk, asset, amount)
  PROVE  /\ r \in Run
         /\ r.ok => s.ok
         /\ OnlyBalances(s.db, r.db)
         /\ r.ok => \A q \in PublicKeys, b \in AssetIDs :
                      GetBalance(r.db, q, b)
                        = GetBalance(s.db, q, b) + At(q, b, pk, asset, -amount)
<1> DEFINE old == GetBalance(s.db, pk, asset)
           new == IF old = amount THEN Missing ELSE old - amount
<1>1. /\ r \in Run
      /\ r.ok => s.ok /\ amount <= old /\ new \in Amount \cup {Missing}
      /\ r.db = IF r.ok THEN SetBal(s.db, <<pk, asset>>, new) ELSE s.db
  BY SubBalanceRun
<1>2. CASE r.ok
  <2>1. s.db \in DB /\ amount \in Nat
    BY <1>1, <1>2 DEF Run
  <2>2. old \in Amount
    BY <2>1, GetBalanceType
  <2>3. ValueOf(new) = old + (-amount) /\ -amount \in Int
    BY <1>1, <1>2, <2>1, <2>2, LessValue
  <2> HIDE DEF new
  <2>4. new \in Amount \cup {Missing} /\ r.db = SetBal(s.db, <<pk, asset>>, new)
    BY <1>1, <1>2
  <2> QED
    BY <1>1, <2>1, <2>3, <2>4, SetBalEntry
<1>3. CASE ~r.ok
  BY <1>1, <1>3 DEF OnlyBalances
<1> QED
  BY <1>2, <1>3

\* A loan that grows enters by how much, and only there.
LEMMA AddLoanEntry ==
  ASSUME NEW s \in Run, NEW asset \in AssetIDs, NEW dest \in Chains, NEW amount,
         s.ok => amount \in Nat,
         NEW r, r = AddLoan(s, asset, dest, amount)
  PROVE  /\ r \in Run
         /\ r.ok => s.ok
         /\ OnlyLoans(s.db, r.db)
         /\ r.ok => \A b \in AssetIDs, z \in Chains :
                      GetLoan(r.db, b, z)
                        = GetLoan(s.db, b, z) + At(b, z, asset, dest, amount)
<1> DEFINE new == GetLoan(s.db, asset, dest) + amount
<1>1. /\ r \in Run
      /\ r.ok => s.ok /\ new \in Amount
      /\ r.db = IF r.ok THEN SetLoan(s.db, <<asset, dest>>, new) ELSE s.db
  BY AddLoanRun
<1>2. CASE r.ok
  <2>1. s.db \in DB /\ amount \in Int
    BY <1>1, <1>2 DEF Run
  <2>2. new = GetLoan(s.db, asset, dest) + amount
    OBVIOUS
  <2> HIDE DEF new
  <2>3. ValueOf(new) = GetLoan(s.db, asset, dest) + amount
    BY <1>1, <1>2, <2>2, MoreValue
  <2>4. new \in Amount \cup {Missing} /\ r.db = SetLoan(s.db, <<asset, dest>>, new)
    BY <1>1, <1>2
  <2> QED
    BY <1>1, <2>1, <2>3, <2>4, SetLoanEntry
<1>3. CASE ~r.ok
  BY <1>1, <1>3 DEF OnlyLoans
<1> QED
  BY <1>2, <1>3

\* A loan that is paid back enters by how much, and only there.
LEMMA SubLoanEntry ==
  ASSUME NEW s \in Run, NEW asset \in AssetIDs, NEW dest \in Chains, NEW amount,
         s.ok => amount \in Nat,
         NEW r, r = SubLoan(s, asset, dest, amount)
  PROVE  /\ r \in Run
         /\ r.ok => s.ok
         /\ s.ok /\ amount <= GetLoan(s.db, asset, dest) => r.ok
         /\ OnlyLoans(s.db, r.db)
         /\ r.ok => \A b \in AssetIDs, z \in Chains :
                      GetLoan(r.db, b, z)
                        = GetLoan(s.db, b, z) + At(b, z, asset, dest, -amount)
<1> DEFINE old == GetLoan(s.db, asset, dest)
           new == IF old = amount THEN Missing ELSE old - amount
<1>1. /\ r \in Run
      /\ r.ok => s.ok /\ amount <= old /\ new \in Amount \cup {Missing}
      /\ s.ok /\ amount <= old => r.ok
      /\ r.db = IF r.ok THEN SetLoan(s.db, <<asset, dest>>, new) ELSE s.db
  BY SubLoanRun
<1>2. CASE r.ok
  <2>1. s.db \in DB /\ amount \in Nat
    BY <1>1, <1>2 DEF Run
  <2>2. old \in Amount
    BY <2>1, GetLoanType
  <2>3. ValueOf(new) = old + (-amount) /\ -amount \in Int
    BY <1>1, <1>2, <2>1, <2>2, LessValue
  <2> HIDE DEF new
  <2>4. new \in Amount \cup {Missing} /\ r.db = SetLoan(s.db, <<asset, dest>>, new)
    BY <1>1, <1>2
  <2> QED
    BY <1>1, <2>1, <2>3, <2>4, SetLoanEntry
<1>3. CASE ~r.ok
  BY <1>1, <1>3 DEF OnlyLoans
<1> QED
  BY <1>2, <1>3

-----------------------------------------------------------------------------
\* A condition of a handler ends the run or changes nothing.
LEMMA RequireRun ==
  ASSUME NEW s \in Run, NEW cond, NEW r, r = Require(s, cond)
  PROVE  r \in Run /\ r.db = s.db /\ r.keys = s.keys /\ (r.ok <=> s.ok /\ cond)
BY DEF Require, Run

-----------------------------------------------------------------------------
\* What the handlers do to the state of a chain when they succeed: the records
\* they write, and the entries they make in the balances and in the loans.

\* value of the asset moves from the actor to to.
Transferred(d, e, actor, to, asset, value) ==
  /\ OnlyBalances(d, e)
  /\ \A q \in PublicKeys, b \in AssetIDs :
       GetBalance(e, q, b) = GetBalance(d, q, b)
         + At(q, b, actor, asset, -value) + At(q, b, to, asset, value)

\* The actor owns a new asset of nothing.
AssetCreated(d, e, actor, id, metadata) ==
  /\ e.bal = d.bal /\ e.orders = d.orders /\ e.loans = d.loans
  /\ e.assets = [d.assets EXCEPT ![id] =
                   [metadata |-> metadata, supply |-> 0,
                    owner |-> actor, warp |-> FALSE]]

\* The asset is of this chain and belongs to the actor.
Owns(d, actor, asset) ==
  d.assets[asset] \in Asset /\ ~d.assets[asset].warp /\ d.assets[asset].owner = actor

\* The actor's own asset grows by value, which is to's.
Minted(d, e, actor, to, asset, value) ==
  /\ Owns(d, actor, asset)
  /\ e.assets = [d.assets EXCEPT ![asset] =
                   [d.assets[asset] EXCEPT !.supply = d.assets[asset].supply + value]]
  /\ e.orders = d.orders /\ e.loans = d.loans
  /\ \A q \in PublicKeys, b \in AssetIDs :
       GetBalance(e, q, b) = GetBalance(d, q, b) + At(q, b, to, asset, value)

\* The actor destroys value of what is his.
Burned(d, e, actor, asset, value) ==
  /\ d.assets[asset] \in Asset /\ value <= d.assets[asset].supply
  /\ e.assets = [d.assets EXCEPT ![asset] =
                   [d.assets[asset] EXCEPT !.supply = d.assets[asset].supply - value]]
  /\ e.orders = d.orders /\ e.loans = d.loans
  /\ \A q \in PublicKeys, b \in AssetIDs :
       GetBalance(e, q, b) = GetBalance(d, q, b) + At(q, b, actor, asset, -value)

\* The actor's own asset gets other metadata or another owner.
Modified(d, e, actor, asset, owner, metadata) ==
  /\ Owns(d, actor, asset)
  /\ e.assets = [d.assets EXCEPT ![asset] =
                   [d.assets[asset] EXCEPT !.owner = owner, !.metadata = metadata]]
  /\ e.bal = d.bal /\ e.orders = d.orders /\ e.loans = d.loans

\* The actor locks supply of out in a new order.
Offered(d, e, actor, id, in, inTick, out, outTick, supply) ==
  /\ in # out /\ inTick # 0 /\ outTick # 0 /\ supply # 0 /\ supply % outTick = 0
  /\ e.orders = [d.orders EXCEPT ![id] =
                   [in |-> in, inTick |-> inTick, out |-> out, outTick |-> outTick,
                    remaining |-> supply, owner |-> actor]]
  /\ e.assets = d.assets /\ e.loans = d.loans
  /\ \A q \in PublicKeys, b \in AssetIDs :
       GetBalance(e, q, b) = GetBalance(d, q, b) + At(q, b, actor, out, -supply)

\* The actor buys: the order's owner is paid, the rest of the order stays open.
Filled(d, e, actor, id, value) ==
  LET o == d.orders[id] IN
  /\ o \in Order /\ WellFormedOrder(o)
  /\ value % o.inTick = 0 /\ Wanted(o, value) # 0
  /\ FillInput(o, value) \in Nat \ {0} /\ FillOutput(o, value) \in Nat \ {0}
  /\ e.orders = [d.orders EXCEPT ![id] = RemainingOrder(o, value)]
  /\ e.assets = d.assets /\ e.loans = d.loans
  /\ \A q \in PublicKeys, b \in AssetIDs :
       GetBalance(e, q, b) = GetBalance(d, q, b)
         + At(q, b, actor, o.in, -FillInput(o, value))
         + At(q, b, o.owner, o.in, FillInput(o, value))
         + At(q, b, actor, o.out, FillOutput(o, value))

\* The actor closes an order of his and gets the remainder.
TakenBack(d, e, actor, id) ==
  LET o == d.orders[id] IN
  /\ o \in Order /\ o.owner = actor
  /\ e.orders = [d.orders EXCEPT ![id] = Missing]
  /\ e.assets = d.assets /\ e.loans = d.loans
  /\ \A q \in PublicKeys, b \in AssetIDs :
       GetBalance(e, q, b) = GetBalance(d, q, b) + At(q, b, actor, o.out, o.remaining)

\* A warp asset leaves for its home: it is destroyed here.
SentHome(d, e, actor, x) ==
  /\ d.assets[x.asset] \in Asset /\ d.assets[x.asset].warp
  /\ d.assets[x.asset].metadata[2] = x.destination
  /\ \E rest \in Asset \cup {Missing} :
       /\ e.assets = [d.assets EXCEPT ![x.asset] = rest]
       /\ SupplyOf(rest) = d.assets[x.asset].supply + (-(x.value + x.reward))
  /\ e.orders = d.orders /\ e.loans = d.loans
  /\ \A q \in PublicKeys, b \in AssetIDs :
       GetBalance(e, q, b) = GetBalance(d, q, b)
         + At(q, b, actor, x.asset, -x.value) + At(q, b, actor, x.asset, -x.reward)

\* An asset of this chain leaves for another: it is lent.
SentAway(d, e, actor, x) ==
  /\ d.assets[x.asset] \in Asset /\ ~d.assets[x.asset].warp
  /\ e.assets = d.assets /\ e.orders = d.orders
  /\ \A b \in AssetIDs, z \in Chains :
       GetLoan(e, b, z) = GetLoan(d, b, z)
         + At(b, z, x.asset, x.destination, x.value)
         + At(b, z, x.asset, x.destination, x.reward)
  /\ \A q \in PublicKeys, b \in AssetIDs :
       GetBalance(e, q, b) = GetBalance(d, q, b)
         + At(q, b, actor, x.asset, -x.value) + At(q, b, actor, x.asset, -x.reward)

\* A message of another chain's asset creates it here.
Arrived(d, e, actor, m) ==
  LET i == ImportedAssetID(m.asset, m.src) IN
  /\ \E record \in Asset :
       /\ e.assets = [d.assets EXCEPT ![i] = record]
       /\ SupplyOf(record) = SupplyOf(d.assets[i]) + m.value + m.reward
  /\ e.orders = d.orders /\ e.loans = d.loans
  /\ \A q \in PublicKeys, b \in AssetIDs :
       GetBalance(e, q, b) = GetBalance(d, q, b)
         + At(q, b, m.to, i, m.value) + At(q, b, actor, i, m.reward)

\* A message returns an asset of this chain, which is lent no longer.
CameHome(d, e, actor, m) ==
  /\ e.assets = d.assets /\ e.orders = d.orders
  /\ \A b \in AssetIDs, z \in Chains :
       GetLoan(e, b, z) = GetLoan(d, b, z)
         + At(b, z, m.asset, m.src, -m.value) + At(b, z, m.asset, m.src, -m.reward)
  /\ \A q \in PublicKeys, b \in AssetIDs :
       GetBalance(e, q, b) = GetBalance(d, q, b)
         + At(q, b, m.to, m.asset, m.value) + At(q, b, actor, m.asset, m.reward)

\* The recipient of a message sells what arrived to the actor.
Swapped(d, e, actor, m) ==
  /\ OnlyBalances(d, e)
  /\ \A q \in PublicKeys, b \in AssetIDs :
       GetBalance(e, q, b) = GetBalance(d, q, b)
         + At(q, b, m.to, AssetIn(m), -m.swapIn) + At(q, b, actor, AssetIn(m), m.swapIn)
         + At(q, b, actor, m.assetOut, -m.swapOut) + At(q, b, m.to, m.assetOut, m.swapOut)

\* A transfer is a debit of the signer and a credit of the recipient.
LEMMA TransferEntry ==
  ASSUME NEW s \in Run, NEW actor \in PublicKeys, NEW to \in PublicKeys,
         NEW asset \in AssetIDs, NEW value \in Amount,
         NEW r, r = ExecuteTransfer(s, actor, to, asset, value), r.ok
  PROVE  s.ok /\ Transferred(s.db, r.db, actor, to, asset, value)
<1> DEFINE valid   == Require(s, value # 0)
           debited == SubBalance(valid, actor, asset, value)
<1>1. /\ valid \in Run /\ valid.db = s.db /\ (valid.ok => s.ok)
      /\ value \in Nat
  BY RequireRun, StorageAssumption DEF Amount
<1>2. r = AddBalance(debited, to, asset, value)
  BY DEF ExecuteTransfer
<1> HIDE DEF valid
<1>3. /\ debited \in Run /\ (debited.ok => valid.ok)
      /\ OnlyBalances(s.db, debited.db)
      /\ debited.ok => \A q \in PublicKeys, b \in AssetIDs :
                         GetBalance(debited.db, q, b)
                           = GetBalance(s.db, q, b) + At(q, b, actor, asset, -value)
  BY <1>1, SubBalanceEntry
<1> HIDE DEF debited
<1>4. /\ debited.ok
      /\ OnlyBalances(debited.db, r.db)
      /\ \A q \in PublicKeys, b \in AssetIDs :
           GetBalance(r.db, q, b) = GetBalance(debited.db, q, b) + At(q, b, to, asset, value)
  BY <1>1, <1>2, <1>3, AddBalanceEntry
<1>5. /\ s.ok /\ OnlyBalances(s.db, r.db)
      /\ \A q \in PublicKeys, b \in AssetIDs :
           GetBalance(r.db, q, b) = GetBalance(s.db, q, b)
             + At(q, b, actor, asset, -value) + At(q, b, to, asset, value)
  BY <1>1, <1>3, <1>4 DEF OnlyBalances
<1> QED
  BY <1>5 DEF Transferred

\* A creation writes the record of an asset.
LEMMA CreateAssetEntry ==
  ASSUME NEW s \in Run, NEW actor \in PublicKeys, NEW id \in TxIDs,
         NEW metadata \in Metadata,
         NEW r, r = ExecuteCreateAsset(s, actor, id, metadata), r.ok
  PROVE  s.ok /\ AssetCreated(s.db, r.db, actor, id, metadata)
<1> DEFINE record == [metadata |-> metadata, supply |-> 0,
                      owner |-> actor, warp |-> FALSE]
<1>1. id \in AssetIDs /\ record \in Asset
  BY StorageAssumption DEF Asset, Amount, AssetIDs, LocalIDs
<1>2. r = SetAsset(s, id, record)
  BY DEF ExecuteCreateAsset
<1>3. s.ok => record \in Asset \cup {Missing}
  BY <1>1
<1> HIDE DEF record
<1>4. /\ s.ok /\ r.db.assets = [s.db.assets EXCEPT ![id] = record]
      /\ r.db.bal = s.db.bal /\ r.db.orders = s.db.orders /\ r.db.loans = s.db.loans
  BY <1>1, <1>2, <1>3, SetAssetRun
<1>5. /\ s.ok /\ r.db.bal = s.db.bal /\ r.db.orders = s.db.orders
      /\ r.db.loans = s.db.loans
      /\ r.db.assets = [s.db.assets EXCEPT ![id] =
                          [metadata |-> metadata, supply |-> 0,
                           owner |-> actor, warp |-> FALSE]]
  BY <1>4 DEF record
<1> QED
  BY <1>5 DEF AssetCreated

\* So does the condition that the actor owns the asset.
LEMMA RequireAssetOwnerRun ==
  ASSUME NEW s \in Run, NEW actor, NEW asset \in AssetIDs,
         NEW r, r = RequireAssetOwner(s, actor, asset)
  PROVE  /\ r \in Run /\ r.db = s.db
         /\ r.ok => /\ s.ok /\ s.db.assets[asset] \in Asset
                    /\ ~s.db.assets[asset].warp /\ s.db.assets[asset].owner = actor
<1> DEFINE t == Touch(s, AssetKey(asset))
           a == s.db.assets[asset]
<1>1. t \in Run /\ t.ok = s.ok /\ t.db = s.db
  BY AssetKeyType, TouchRun
<1>2. r = Require(t, a # Missing /\ ~a.warp /\ a.owner = actor)
  BY DEF RequireAssetOwner
<1> HIDE DEF t
<1>3. a \in Asset \cup {Missing}
  BY DEF Run, DB
<1>4. r \in Run /\ r.db = t.db /\ (r.ok <=> t.ok /\ a # Missing /\ ~a.warp /\ a.owner = actor)
  BY ZenonT(30), <1>1, <1>2, RequireRun
<1> QED
  BY <1>1, <1>3, <1>4

\* A mint raises the supply and credits the recipient.
LEMMA MintAssetEntry ==
  ASSUME NEW s \in Run, NEW actor \in PublicKeys, NEW to \in PublicKeys,
         NEW asset \in AssetIDs, NEW value \in Amount,
         NEW r, r = ExecuteMintAsset(s, actor, to, asset, value), r.ok
  PROVE  s.ok /\ Minted(s.db, r.db, actor, to, asset, value)
<1> DEFINE a == s.db.assets[asset]
<1>0. /\ a = s.db.assets[asset]
  OBVIOUS
<1> HIDE DEF a
<1> USE <1>0
<1> DEFINE valid  == Require(s, asset # Native /\ value # 0)
           owned  == RequireAssetOwner(valid, actor, asset)
           fits   == Require(owned, a.supply + value <= MaxUint64)
           record == [a EXCEPT !.supply = a.supply + value]
           minted == SetAsset(fits, asset, record)
<1>1. valid \in Run /\ valid.db = s.db /\ (valid.ok => s.ok)
  BY RequireRun
<1>2. r = AddBalance(minted, to, asset, value)
  BY DEF ExecuteMintAsset
<1> HIDE DEF valid
<1>3. /\ owned \in Run /\ owned.db = s.db
      /\ owned.ok => valid.ok /\ a \in Asset /\ ~a.warp /\ a.owner = actor
  BY <1>1, RequireAssetOwnerRun
<1> HIDE DEF owned
<1>4. /\ fits \in Run /\ fits.db = s.db
      /\ fits.ok => owned.ok /\ a.supply + value <= MaxUint64
  BY <1>3 DEF Require, Run
<1> HIDE DEF fits
<1>5. value \in Nat
  BY StorageAssumption DEF Amount
<1>6. fits.ok => record \in Asset
  BY <1>3, <1>4, <1>5, StorageAssumption DEF Asset, Amount
<1> HIDE DEF record
<1>7. /\ minted \in Run /\ minted.ok = fits.ok
      /\ minted.ok => /\ minted.db.assets = [s.db.assets EXCEPT ![asset] = record]
                      /\ minted.db.bal = s.db.bal /\ minted.db.orders = s.db.orders
                      /\ minted.db.loans = s.db.loans
  BY <1>4, <1>6, SetAssetRun
<1> HIDE DEF minted
<1>8. /\ minted.ok /\ OnlyBalances(minted.db, r.db)
      /\ \A q \in PublicKeys, b \in AssetIDs :
           GetBalance(r.db, q, b) = GetBalance(minted.db, q, b) + At(q, b, to, asset, value)
  BY <1>2, <1>5, <1>7, AddBalanceEntry
<1>9. \A q \in PublicKeys, b \in AssetIDs : GetBalance(minted.db, q, b) = GetBalance(s.db, q, b)
  BY <1>7, <1>8 DEF GetBalance
<1>10. /\ s.ok /\ a \in Asset /\ ~a.warp /\ a.owner = actor
       /\ r.db.assets = [s.db.assets EXCEPT ![asset] = [a EXCEPT !.supply = a.supply + value]]
       /\ r.db.orders = s.db.orders /\ r.db.loans = s.db.loans
       /\ \A q \in PublicKeys, b \in AssetIDs :
            GetBalance(r.db, q, b)
              = GetBalance(s.db, q, b) + At(q, b, to, asset, value)
  BY <1>1, <1>3, <1>4, <1>7, <1>8, <1>9 DEF OnlyBalances, record
<1> QED
  BY <1>10 DEF Minted, Owns

\* A burn lowers the supply and debits the signer.
LEMMA BurnAssetEntry ==
  ASSUME NEW s \in Run, NEW actor \in PublicKeys, NEW asset \in AssetIDs,
         NEW value \in Amount,
         NEW r, r = ExecuteBurnAsset(s, actor, asset, value), r.ok
  PROVE  s.ok /\ Burned(s.db, r.db, actor, asset, value)
<1> DEFINE a == s.db.assets[asset]
<1>0. /\ a = s.db.assets[asset]
  OBVIOUS
<1> HIDE DEF a
<1> USE <1>0
<1> DEFINE valid   == Require(s, value # 0)
           debited == SubBalance(valid, actor, asset, value)
           t       == Touch(debited, AssetKey(asset))
           found   == Require(t, debited.db.assets[asset] # Missing
                                   /\ value <= debited.db.assets[asset].supply)
           record  == [debited.db.assets[asset] EXCEPT
                         !.supply = debited.db.assets[asset].supply - value]
<1>1. /\ valid \in Run /\ valid.db = s.db /\ (valid.ok => s.ok)
      /\ value \in Nat
  BY RequireRun, StorageAssumption DEF Amount
<1>2. r = SetAsset(found, asset, record)
  BY DEF ExecuteBurnAsset
<1> HIDE DEF valid
<1>3. /\ debited \in Run /\ (debited.ok => valid.ok)
      /\ OnlyBalances(s.db, debited.db)
      /\ debited.ok => \A q \in PublicKeys, b \in AssetIDs :
                         GetBalance(debited.db, q, b)
                           = GetBalance(s.db, q, b) + At(q, b, actor, asset, -value)
  BY <1>1, SubBalanceEntry
<1>4. /\ debited.db.assets[asset] = a /\ a \in Asset \cup {Missing}
  BY <1>3 DEF OnlyBalances, Run, DB
<1> HIDE DEF debited
<1>5. t \in Run /\ t.ok = debited.ok /\ t.db = debited.db
  BY <1>3, AssetKeyType, TouchRun
<1> HIDE DEF t
<1>6. /\ found \in Run /\ found.db = debited.db
      /\ found.ok => debited.ok /\ a # Missing /\ value <= a.supply
  BY <1>4, <1>5, RequireRun
<1> HIDE DEF found
<1>7. record = [a EXCEPT !.supply = a.supply - value]
  BY <1>4
<1>8. found.ok => record \in Asset
  BY <1>1, <1>4, <1>6, <1>7, StorageAssumption DEF Asset, Amount
<1> HIDE DEF record
<1>9. /\ found.ok /\ r.db.assets = [found.db.assets EXCEPT ![asset] = record]
      /\ r.db.bal = found.db.bal /\ r.db.orders = found.db.orders
      /\ r.db.loans = found.db.loans
  BY <1>2, <1>6, <1>8, SetAssetRun
<1>10. \A q \in PublicKeys, b \in AssetIDs :
         GetBalance(r.db, q, b) = GetBalance(debited.db, q, b)
  BY <1>6, <1>9 DEF GetBalance
<1>11. /\ s.ok /\ a \in Asset /\ value <= a.supply
       /\ r.db.assets = [s.db.assets EXCEPT ![asset] = [a EXCEPT !.supply = a.supply - value]]
       /\ r.db.orders = s.db.orders /\ r.db.loans = s.db.loans
       /\ \A q \in PublicKeys, b \in AssetIDs :
            GetBalance(r.db, q, b)
              = GetBalance(s.db, q, b) + At(q, b, actor, asset, -value)
  BY <1>1, <1>3, <1>4, <1>6, <1>7, <1>9, <1>10 DEF OnlyBalances
<1> QED
  BY <1>11 DEF Burned

\* A modification writes the record of an asset of its owner.
LEMMA ModifyAssetEntry ==
  ASSUME NEW s \in Run, NEW actor \in PublicKeys, NEW asset \in AssetIDs,
         NEW owner \in PublicKeys, NEW metadata \in Metadata,
         NEW r, r = ExecuteModifyAsset(s, actor, asset, owner, metadata), r.ok
  PROVE  s.ok /\ Modified(s.db, r.db, actor, asset, owner, metadata)
<1> DEFINE a == s.db.assets[asset]
<1>0. /\ a = s.db.assets[asset]
  OBVIOUS
<1> HIDE DEF a
<1> USE <1>0
<1> DEFINE valid  == Require(s, asset # Native)
           owned  == RequireAssetOwner(valid, actor, asset)
           record == [a EXCEPT !.owner = owner, !.metadata = metadata]
<1>1. valid \in Run /\ valid.db = s.db /\ (valid.ok => s.ok)
  BY RequireRun
<1>2. r = SetAsset(owned, asset, record)
  BY DEF ExecuteModifyAsset
<1> HIDE DEF valid
<1>3. /\ owned \in Run /\ owned.db = s.db
      /\ owned.ok => valid.ok /\ a \in Asset /\ ~a.warp /\ a.owner = actor
  BY <1>1, RequireAssetOwnerRun
<1> HIDE DEF owned
<1>4. owned.ok => record \in Asset
  BY <1>3 DEF Asset
<1> HIDE DEF record
<1>5. /\ owned.ok /\ r.db.assets = [s.db.assets EXCEPT ![asset] = record]
      /\ r.db.bal = s.db.bal /\ r.db.orders = s.db.orders /\ r.db.loans = s.db.loans
  BY <1>2, <1>3, <1>4, SetAssetRun
<1>6. /\ s.ok /\ a \in Asset /\ ~a.warp /\ a.owner = actor
      /\ r.db.assets = [s.db.assets EXCEPT ![asset] =
                          [a EXCEPT !.owner = owner, !.metadata = metadata]]
      /\ r.db.bal = s.db.bal /\ r.db.orders = s.db.orders /\ r.db.loans = s.db.loans
  BY <1>1, <1>3, <1>5 DEF record
<1> QED
  BY <1>6 DEF Modified, Owns

\* An order takes what it offers from its owner.
LEMMA CreateOrderEntry ==
  ASSUME NEW s \in Run, NEW actor \in PublicKeys, NEW id \in TxIDs,
         NEW in \in AssetIDs, NEW inTick \in Amount, NEW out \in AssetIDs,
         NEW outTick \in Amount, NEW supply \in Amount,
         NEW r, r = ExecuteCreateOrder(s, actor, id, in, inTick, out, outTick, supply), r.ok
  PROVE  s.ok /\ Offered(s.db, r.db, actor, id, in, inTick, out, outTick, supply)
<1> DEFINE record == [in |-> in, inTick |-> inTick, out |-> out, outTick |-> outTick,
                      remaining |-> supply, owner |-> actor]
<1>0. /\ record = [in |-> in, inTick |-> inTick, out |-> out, outTick |-> outTick,
                       remaining |-> supply, owner |-> actor]
  OBVIOUS
<1> HIDE DEF record
<1> USE <1>0
<1> DEFINE valid  == Require(s, /\ in # out
                                /\ inTick # 0 /\ outTick # 0 /\ supply # 0
                                /\ supply % outTick = 0)
           locked == SubBalance(valid, actor, out, supply)
<1>1. /\ valid \in Run /\ valid.db = s.db
      /\ valid.ok => /\ s.ok /\ in # out
                     /\ inTick # 0 /\ outTick # 0 /\ supply # 0 /\ supply % outTick = 0
  BY DEF Require, Run
<1>6. supply \in Nat
  BY StorageAssumption DEF Amount
<1>2. r = SetOrder(locked, id, record) /\ record \in Order
  BY DEF ExecuteCreateOrder, Order
<1> HIDE DEF valid
<1>3. /\ locked \in Run /\ (locked.ok => valid.ok)
      /\ OnlyBalances(s.db, locked.db)
      /\ locked.ok => \A q \in PublicKeys, b \in AssetIDs :
                        GetBalance(locked.db, q, b)
                          = GetBalance(s.db, q, b) + At(q, b, actor, out, -supply)
  BY <1>1, <1>6, SubBalanceEntry
<1> HIDE DEF locked
<1>4. /\ locked.ok /\ r.db.orders = [locked.db.orders EXCEPT ![id] = record]
      /\ r.db.bal = locked.db.bal /\ r.db.assets = locked.db.assets
      /\ r.db.loans = locked.db.loans
  BY <1>2, <1>3, SetOrderRun
<1>5. \A q \in PublicKeys, b \in AssetIDs :
        GetBalance(r.db, q, b) = GetBalance(locked.db, q, b)
  BY <1>4 DEF GetBalance
<1>7. /\ s.ok
      /\ in # out /\ inTick # 0 /\ outTick # 0 /\ supply # 0 /\ supply % outTick = 0
      /\ r.db.orders = [s.db.orders EXCEPT ![id] = record]
      /\ r.db.assets = s.db.assets /\ r.db.loans = s.db.loans
      /\ \A q \in PublicKeys, b \in AssetIDs :
           GetBalance(r.db, q, b)
             = GetBalance(s.db, q, b) + At(q, b, actor, out, -supply)
  BY <1>1, <1>3, <1>4, <1>5 DEF OnlyBalances
<1> QED
  BY <1>7 DEF Offered

\* A fill moves the input from the buyer to the owner and the output to the buyer.
LEMMA FillOrderEntry ==
  ASSUME NEW Z, NEW s, GoodRun(Z, s), NEW actor \in PublicKeys, NEW id \in TxIDs,
         NEW owner \in PublicKeys, NEW in \in AssetIDs, NEW out \in AssetIDs,
         NEW value \in Amount,
         NEW r, r = ExecuteFillOrder(s, actor, id, owner, in, out, value), r.ok
  PROVE  s.ok /\ Filled(s.db, r.db, actor, id, value)
<1> DEFINE o == s.db.orders[id]
           input == FillInput(o, value)
           output == FillOutput(o, value)
<1>0. /\ o = s.db.orders[id]
      /\ input = FillInput(o, value)
      /\ output = FillOutput(o, value)
  OBVIOUS
<1> HIDE DEF o, input, output
<1> USE <1>0
<1> DEFINE t        == Touch(s, OrderKey(id))
           matched  == Require(t, /\ o # Missing /\ o.owner = owner
                                  /\ o.in = in /\ o.out = out)
           aligned  == Require(matched, value # 0 /\ value % o.inTick = 0)
           priced   == Require(aligned, /\ Wanted(o, value) <= MaxUint64
                                        /\ Wanted(o, value) # 0
                                        /\ FillInput(o, value) # 0)
           rest     == RemainingOrder(o, value)
           debited  == SubBalance(priced, actor, in, input)
           proceeds == AddBalance(debited, owner, in, input)
           credited == AddBalance(proceeds, actor, out, output)
<1>1. r = SetOrder(credited, id, rest)
  BY ZenonT(30) DEF ExecuteFillOrder
<1>2. s \in Run /\ t \in Run /\ t.ok = s.ok /\ t.db = s.db
  BY OrderKeyType, TouchRun DEF GoodRun
<1>3. o \in Order \cup {Missing} /\ (s.ok /\ o # Missing => WellFormedOrder(o))
  BY OrderOnRecord
<1> HIDE DEF t
<1>4. /\ matched \in Run /\ matched.db = s.db
      /\ matched.ok => s.ok /\ o # Missing /\ o.owner = owner /\ o.in = in /\ o.out = out
  BY <1>2 DEF Require, Run
<1> HIDE DEF matched
<1>5. /\ aligned \in Run /\ aligned.db = s.db
      /\ aligned.ok => matched.ok /\ value % o.inTick = 0
  BY <1>4 DEF Require, Run
<1> HIDE DEF aligned
<1>6. /\ priced \in Run /\ priced.db = s.db
      /\ priced.ok => aligned.ok /\ Wanted(o, value) # 0 /\ FillInput(o, value) # 0
  BY <1>5 DEF Require, Run
<1> HIDE DEF priced
<1>7. priced.ok => /\ input \in Nat \ {0} /\ output \in Nat \ {0}
                   /\ rest \in Order \cup {Missing}
                   /\ o \in Order /\ WellFormedOrder(o)
  BY <1>3, <1>4, <1>5, <1>6, FillAmounts
<1>16. priced.ok => input \in Nat /\ output \in Nat
  BY <1>7
<1> HIDE DEF rest
<1>8. /\ debited \in Run /\ (debited.ok => priced.ok)
      /\ OnlyBalances(s.db, debited.db)
      /\ debited.ok => \A q \in PublicKeys, b \in AssetIDs :
                         GetBalance(debited.db, q, b)
                           = GetBalance(s.db, q, b) + At(q, b, actor, in, -input)
  <2>1. debited = SubBalance(priced, actor, in, input)
    OBVIOUS
  <2> HIDE DEF debited
  <2>3. priced \in Run /\ (priced.ok => input \in Nat)
    BY <1>6, <1>16
  <2>2. /\ debited \in Run /\ (debited.ok => priced.ok)
        /\ OnlyBalances(priced.db, debited.db)
        /\ debited.ok => \A q \in PublicKeys, b \in AssetIDs :
                           GetBalance(debited.db, q, b)
                             = GetBalance(priced.db, q, b) + At(q, b, actor, in, -input)
    BY <2>1, <2>3, SubBalanceEntry
  <2> QED
    BY <1>6, <2>2
<1> HIDE DEF debited
<1>9. /\ proceeds \in Run /\ (proceeds.ok => debited.ok)
      /\ OnlyBalances(debited.db, proceeds.db)
      /\ proceeds.ok => \A q \in PublicKeys, b \in AssetIDs :
                          GetBalance(proceeds.db, q, b)
                            = GetBalance(debited.db, q, b) + At(q, b, owner, in, input)
  <2>1. proceeds = AddBalance(debited, owner, in, input)
    OBVIOUS
  <2> HIDE DEF proceeds
  <2>2. debited.ok => input \in Nat
    BY <1>16, <1>8
  <2> QED
    BY <1>8, <2>1, <2>2, AddBalanceEntry
<1> HIDE DEF proceeds
<1>10. /\ credited \in Run /\ (credited.ok => proceeds.ok)
       /\ OnlyBalances(proceeds.db, credited.db)
       /\ credited.ok => \A q \in PublicKeys, b \in AssetIDs :
                           GetBalance(credited.db, q, b)
                             = GetBalance(proceeds.db, q, b) + At(q, b, actor, out, output)
  <2>1. credited = AddBalance(proceeds, actor, out, output)
    OBVIOUS
  <2> HIDE DEF credited
  <2>2. proceeds.ok => output \in Nat
    BY <1>16, <1>8, <1>9
  <2> QED
    BY <1>9, <2>1, <2>2, AddBalanceEntry
<1> HIDE DEF credited
<1>11. credited.ok => rest \in Order \cup {Missing}
  BY <1>7, <1>8, <1>9, <1>10
<1>12. /\ credited.ok /\ r.db.orders = [credited.db.orders EXCEPT ![id] = rest]
       /\ r.db.bal = credited.db.bal /\ r.db.assets = credited.db.assets
       /\ r.db.loans = credited.db.loans
  BY <1>1, <1>10, <1>11, SetOrderRun
<1>13. \A q \in PublicKeys, b \in AssetIDs :
         GetBalance(r.db, q, b) = GetBalance(credited.db, q, b)
  BY <1>12 DEF GetBalance
<1>14. proceeds.ok /\ debited.ok /\ priced.ok /\ aligned.ok /\ matched.ok
  BY <1>5, <1>6, <1>8, <1>9, <1>10, <1>12
<1>15. \A q \in PublicKeys, b \in AssetIDs :
         GetBalance(r.db, q, b) = GetBalance(s.db, q, b)
           + At(q, b, actor, in, -input) + At(q, b, owner, in, input)
           + At(q, b, actor, out, output)
  BY <1>8, <1>9, <1>10, <1>12, <1>13, <1>14
<1>17. /\ s.ok /\ o \in Order /\ WellFormedOrder(o)
       /\ o.owner = owner /\ o.in = in /\ o.out = out
       /\ value % o.inTick = 0 /\ Wanted(o, value) # 0
       /\ input \in Nat \ {0} /\ output \in Nat \ {0}
       /\ r.db.orders = [s.db.orders EXCEPT ![id] = RemainingOrder(o, value)]
       /\ r.db.assets = s.db.assets /\ r.db.loans = s.db.loans
       /\ \A q \in PublicKeys, b \in AssetIDs :
            GetBalance(r.db, q, b) = GetBalance(s.db, q, b)
              + At(q, b, actor, in, -input) + At(q, b, owner, in, input)
              + At(q, b, actor, out, output)
  BY SMTT(30), <1>4, <1>5, <1>6, <1>7, <1>8, <1>9, <1>10, <1>12, <1>14, <1>15 DEF OnlyBalances, rest
<1> QED
  BY <1>17 DEF Filled

\* A close gives the remainder back.
LEMMA CloseOrderEntry ==
  ASSUME NEW s \in Run, NEW actor \in PublicKeys, NEW id \in TxIDs,
         NEW out \in AssetIDs,
         NEW r, r = ExecuteCloseOrder(s, actor, id, out), r.ok
  PROVE  s.ok /\ TakenBack(s.db, r.db, actor, id)
<1> DEFINE o == s.db.orders[id]
<1>0. /\ o = s.db.orders[id]
  OBVIOUS
<1> HIDE DEF o
<1> USE <1>0
<1> DEFINE t       == Touch(s, OrderKey(id))
           matched == Require(t, /\ o # Missing /\ o.owner = actor /\ o.out = out)
           deleted == SetOrder(matched, id, Missing)
<1>1. r = AddBalance(deleted, actor, out, o.remaining)
  BY DEF ExecuteCloseOrder
<1>2. t \in Run /\ t.ok = s.ok /\ t.db = s.db
  BY OrderKeyType, TouchRun
<1>3. o \in Order \cup {Missing}
  BY DEF Run, DB
<1> HIDE DEF t
<1>4. /\ matched \in Run /\ matched.db = s.db
      /\ matched.ok => s.ok /\ o # Missing /\ o.owner = actor /\ o.out = out
  BY <1>2 DEF Require, Run
<1> HIDE DEF matched
<1>5. /\ deleted \in Run /\ deleted.ok = matched.ok
      /\ deleted.ok => /\ deleted.db.orders = [s.db.orders EXCEPT ![id] = Missing]
                       /\ deleted.db.bal = s.db.bal /\ deleted.db.assets = s.db.assets
                       /\ deleted.db.loans = s.db.loans
  BY <1>4, SetOrderRun
<1> HIDE DEF deleted
<1>6. deleted.ok => o.remaining \in Nat
  BY <1>3, <1>4, <1>5, StorageAssumption DEF Order, Amount
<1>7. /\ deleted.ok /\ OnlyBalances(deleted.db, r.db)
      /\ \A q \in PublicKeys, b \in AssetIDs :
           GetBalance(r.db, q, b)
             = GetBalance(deleted.db, q, b) + At(q, b, actor, out, o.remaining)
  BY <1>1, <1>5, <1>6, AddBalanceEntry
<1>8. \A q \in PublicKeys, b \in AssetIDs :
        GetBalance(deleted.db, q, b) = GetBalance(s.db, q, b)
  BY <1>5, <1>7 DEF GetBalance
<1>9. /\ s.ok /\ o \in Order /\ o.owner = actor /\ o.out = out
      /\ r.db.orders = [s.db.orders EXCEPT ![id] = Missing]
      /\ r.db.assets = s.db.assets /\ r.db.loans = s.db.loans
      /\ \A q \in PublicKeys, b \in AssetIDs :
           GetBalance(r.db, q, b)
             = GetBalance(s.db, q, b) + At(q, b, actor, out, o.remaining)
  BY <1>3, <1>4, <1>5, <1>7, <1>8 DEF OnlyBalances
<1> QED
  BY <1>9 DEF TakenBack

\* A return retires what is sent home.
LEMMA RetireEntry ==
  ASSUME NEW s \in Run, NEW actor \in PublicKeys, NEW e \in ExportRequest,
         NEW r, r = Retire(s, actor, e), r.ok
  PROVE  s.ok /\ SentHome(s.db, r.db, actor, e)
<1> DEFINE a == s.db.assets[e.asset]
<1>0. /\ a = s.db.assets[e.asset]
  OBVIOUS
<1> HIDE DEF a
<1> USE <1>0
<1> DEFINE t       == Touch(s, AssetKey(e.asset))
           home    == Require(t, a # Missing /\ a.warp /\ a.metadata[2] = e.destination)
           covered == Require(home, e.value + e.reward <= a.supply)
           supply  == a.supply - e.value - e.reward
           rest    == IF supply > 0
                      THEN [a EXCEPT !.supply = supply, !.owner = EmptyKey]
                      ELSE Missing
           retired == SetAsset(covered, e.asset, rest)
           debited == SubBalance(retired, actor, e.asset, e.value)
<1>1. r = IF e.reward > 0 THEN SubBalance(debited, actor, e.asset, e.reward)
                          ELSE debited
  BY ZenonT(30) DEF Retire
<1>2. e.asset \in AssetIDs /\ e.value \in Nat /\ e.reward \in Nat
  BY StorageAssumption DEF ExportRequest, Amount
<1>3. t \in Run /\ t.ok = s.ok /\ t.db = s.db
  BY <1>2, AssetKeyType, TouchRun
<1>4. a \in Asset \cup {Missing}
  BY <1>2 DEF Run, DB
<1> HIDE DEF t
<1>5. /\ home \in Run /\ home.db = s.db
      /\ home.ok => s.ok /\ a # Missing /\ a.warp /\ a.metadata[2] = e.destination
  BY <1>3 DEF Require, Run
<1> HIDE DEF home
<1>6. /\ covered \in Run /\ covered.db = s.db
      /\ covered.ok => home.ok /\ e.value + e.reward <= a.supply
  BY <1>5 DEF Require, Run
<1> HIDE DEF covered
<1>7. covered.ok => /\ rest \in Asset \cup {Missing}
                    /\ SupplyOf(rest) = a.supply + (-(e.value + e.reward))
  <2> SUFFICES ASSUME covered.ok
               PROVE  /\ rest \in Asset \cup {Missing}
                      /\ SupplyOf(rest) = a.supply + (-(e.value + e.reward))
    OBVIOUS
  <2>1. a \in Asset /\ a.supply \in Nat /\ a.supply <= MaxUint64
    BY <1>4, <1>5, <1>6, StorageAssumption DEF Asset, Amount
  <2>2. supply \in Amount /\ supply \in Nat /\ supply = a.supply + (-(e.value + e.reward))
    BY <1>2, <1>6, <2>1, StorageAssumption DEF Amount
  <2>3. CASE supply > 0
    <3>1. rest = [a EXCEPT !.supply = supply, !.owner = EmptyKey]
      BY ZenonT(30), <2>3
    <3> HIDE DEF supply
    <3>2. rest \in Asset /\ rest.supply = supply
      BY <2>1, <2>2, <3>1 DEF Asset, PublicKeys
    <3> HIDE DEF rest
    <3> QED
      BY <2>2, <3>2, MissingAssumption DEF SupplyOf
  <2>4. CASE ~(supply > 0)
    <3>1. rest = Missing /\ supply = 0
      BY <2>2, <2>4
    <3> HIDE DEF rest, supply
    <3> QED
      BY <2>2, <3>1 DEF SupplyOf
  <2> QED
    BY <2>3, <2>4
<1> HIDE DEF rest
<1>8. /\ retired \in Run /\ retired.ok = covered.ok
      /\ retired.ok => /\ retired.db.assets = [s.db.assets EXCEPT ![e.asset] = rest]
                       /\ retired.db.bal = s.db.bal /\ retired.db.orders = s.db.orders
                       /\ retired.db.loans = s.db.loans
  <2>1. e.asset \in AssetIDs /\ covered \in Run /\ covered.db = s.db
        /\ (covered.ok => rest \in Asset \cup {Missing})
    BY <1>2, <1>6, <1>7
  <2>2. retired = SetAsset(covered, e.asset, rest)
    OBVIOUS
  <2> HIDE DEF rest, retired
  <2> QED
    BY <2>1, <2>2, SetAssetRun
<1> HIDE DEF retired
<1>9. /\ debited \in Run /\ (debited.ok => retired.ok)
      /\ OnlyBalances(retired.db, debited.db)
      /\ debited.ok => \A q \in PublicKeys, b \in AssetIDs :
                         GetBalance(debited.db, q, b) = GetBalance(retired.db, q, b)
                                                  + At(q, b, actor, e.asset, -e.value)
  BY <1>2, <1>8, SubBalanceEntry
<1> HIDE DEF debited
<1>10. /\ debited.ok /\ OnlyBalances(debited.db, r.db)
       /\ \A q \in PublicKeys, b \in AssetIDs :
            GetBalance(r.db, q, b) = GetBalance(debited.db, q, b)
                                       + At(q, b, actor, e.asset, -e.reward)
  <2>1. CASE e.reward > 0
    <3>1. r = SubBalance(debited, actor, e.asset, e.reward)
      BY <1>1, <2>1
    <3> QED
      BY <1>2, <1>9, <3>1, SubBalanceEntry
  <2>2. CASE ~(e.reward > 0)
    <3>1. r = debited /\ e.reward = 0
      BY <1>1, <1>2, <2>2
    <3>2. \A q \in PublicKeys, b \in AssetIDs :
            GetBalance(r.db, q, b) = GetBalance(r.db, q, b) + At(q, b, actor, e.asset, -e.reward)
      BY <1>9, <3>1, GetBalanceType, StorageAssumption DEF Run, Amount, At
    <3> QED
      BY <3>1, <3>2 DEF OnlyBalances
  <2> QED
    BY <2>1, <2>2
<1>11. \A q \in PublicKeys, b \in AssetIDs :
         GetBalance(retired.db, q, b) = GetBalance(s.db, q, b)
  BY <1>8, <1>9, <1>10 DEF GetBalance
<1>12. \A q \in PublicKeys, b \in AssetIDs :
         GetBalance(r.db, q, b) = GetBalance(s.db, q, b)
           + At(q, b, actor, e.asset, -e.value) + At(q, b, actor, e.asset, -e.reward)
  BY <1>9, <1>10, <1>11
<1>13. covered.ok /\ home.ok
  BY <1>6, <1>8, <1>9, <1>10
<1>14. rest \in Asset \cup {Missing} /\ r.db.assets = [s.db.assets EXCEPT ![e.asset] = rest]
       /\ SupplyOf(rest) = a.supply + (-(e.value + e.reward))
  BY <1>7, <1>8, <1>9, <1>10, <1>13 DEF OnlyBalances
<1>15. /\ s.ok /\ a \in Asset /\ a.warp /\ a.metadata[2] = e.destination
       /\ \E left \in Asset \cup {Missing} :
            /\ r.db.assets = [s.db.assets EXCEPT ![e.asset] = left]
            /\ SupplyOf(left) = a.supply + (-(e.value + e.reward))
       /\ r.db.orders = s.db.orders /\ r.db.loans = s.db.loans
       /\ \A q \in PublicKeys, b \in AssetIDs :
            GetBalance(r.db, q, b) = GetBalance(s.db, q, b)
              + At(q, b, actor, e.asset, -e.value) + At(q, b, actor, e.asset, -e.reward)
  BY <1>4, <1>5, <1>8, <1>9, <1>10, <1>12, <1>13, <1>14 DEF OnlyBalances
<1> QED
  BY <1>15 DEF SentHome

LEMMA ExportReturnEntry ==
  ASSUME NEW Z, NEW s, GoodRun(Z, s), NEW actor \in PublicKeys, NEW e \in ExportRequest,
         NEW r, r = ExportReturn(s, actor, e), r.ok
  PROVE  s.ok /\ SentHome(s.db, r.db, actor, e)
<1> DEFINE q == Retire(s, actor, e)
<1>1. s \in Run /\ q \in Run
  BY RetireGood DEF GoodRun
<1>2. r = Require(q, Marshals(e))
  BY DEF ExportReturn
<1>3. q.ok /\ r.db = q.db
  <2> HIDE DEF q
  <2> QED
    BY <1>1, <1>2, RequireRun
<1> QED
  BY <1>1, <1>3, RetireEntry

\* An export of an asset of this chain becomes a loan.
LEMMA LendEntry ==
  ASSUME NEW s \in Run, NEW actor \in PublicKeys, NEW e \in ExportRequest,
         NEW r, r = Lend(s, actor, e), r.ok
  PROVE  s.ok /\ SentAway(s.db, r.db, actor, e)
<1> DEFINE a == s.db.assets[e.asset]
<1>0. /\ a = s.db.assets[e.asset]
  OBVIOUS
<1> HIDE DEF a
<1> USE <1>0
<1> DEFINE t       == Touch(s, AssetKey(e.asset))
           local   == Require(t, a # Missing /\ ~a.warp)
           lent    == AddLoan(local, e.asset, e.destination, e.value)
           debited == SubBalance(lent, actor, e.asset, e.value)
           reward  == AddLoan(debited, e.asset, e.destination, e.reward)
<1>1. r = IF e.reward > 0 THEN SubBalance(reward, actor, e.asset, e.reward)
                          ELSE debited
  BY DEF Lend
<1>2. /\ e.asset \in AssetIDs /\ e.destination \in Chains
      /\ e.value \in Nat /\ e.reward \in Nat
  BY StorageAssumption DEF ExportRequest, Amount
<1>3. t \in Run /\ t.ok = s.ok /\ t.db = s.db
  BY <1>2, AssetKeyType, TouchRun
<1>4. a \in Asset \cup {Missing}
  BY <1>2 DEF Run, DB
<1> HIDE DEF t
<1>5. /\ local \in Run /\ local.db = s.db
      /\ local.ok => s.ok /\ a # Missing /\ ~a.warp
  BY <1>3 DEF Require, Run
<1> HIDE DEF local
<1>6. /\ lent \in Run /\ (lent.ok => local.ok) /\ OnlyLoans(s.db, lent.db)
      /\ lent.ok => \A b \in AssetIDs, z \in Chains :
                      GetLoan(lent.db, b, z) = GetLoan(s.db, b, z)
                                             + At(b, z, e.asset, e.destination, e.value)
  BY <1>2, <1>5, AddLoanEntry
<1> HIDE DEF lent
<1>7. /\ debited \in Run /\ (debited.ok => lent.ok) /\ OnlyBalances(lent.db, debited.db)
      /\ debited.ok => \A q \in PublicKeys, b \in AssetIDs :
                         GetBalance(debited.db, q, b) = GetBalance(lent.db, q, b)
                                                  + At(q, b, actor, e.asset, -e.value)
  BY <1>2, <1>6, SubBalanceEntry
<1> HIDE DEF debited
<1>8. \A q \in PublicKeys, b \in AssetIDs :
        GetBalance(lent.db, q, b) = GetBalance(s.db, q, b)
  BY <1>6 DEF GetBalance, OnlyLoans
<1>9. \A b \in AssetIDs, z \in Chains :
        GetLoan(debited.db, b, z) = GetLoan(lent.db, b, z)
  BY <1>7 DEF GetLoan, OnlyBalances
<1>10. /\ debited.ok /\ r.db.assets = debited.db.assets /\ r.db.orders = debited.db.orders
       /\ \A q \in PublicKeys, b \in AssetIDs :
            GetBalance(r.db, q, b) = GetBalance(debited.db, q, b)
                                       + At(q, b, actor, e.asset, -e.reward)
       /\ \A b \in AssetIDs, z \in Chains :
            GetLoan(r.db, b, z) = GetLoan(debited.db, b, z)
                                    + At(b, z, e.asset, e.destination, e.reward)
  <2>1. CASE e.reward > 0
    <3>1. r = SubBalance(reward, actor, e.asset, e.reward)
      BY <1>1, <2>1
    <3>2. /\ reward \in Run /\ (reward.ok => debited.ok) /\ OnlyLoans(debited.db, reward.db)
          /\ reward.ok => \A b \in AssetIDs, z \in Chains :
                            GetLoan(reward.db, b, z) = GetLoan(debited.db, b, z)
                                               + At(b, z, e.asset, e.destination, e.reward)
      BY <1>2, <1>7, AddLoanEntry
    <3> HIDE DEF reward
    <3>3. /\ reward.ok /\ OnlyBalances(reward.db, r.db)
          /\ \A q \in PublicKeys, b \in AssetIDs :
               GetBalance(r.db, q, b) = GetBalance(reward.db, q, b)
                                          + At(q, b, actor, e.asset, -e.reward)
      BY <1>2, <3>1, <3>2, SubBalanceEntry
    <3>4. \A q \in PublicKeys, b \in AssetIDs :
            GetBalance(reward.db, q, b) = GetBalance(debited.db, q, b)
      BY <3>2 DEF GetBalance, OnlyLoans
    <3>5. \A b \in AssetIDs, z \in Chains :
            GetLoan(r.db, b, z) = GetLoan(reward.db, b, z)
      BY <3>3 DEF GetLoan, OnlyBalances
    <3> QED
      BY <3>2, <3>3, <3>4, <3>5 DEF OnlyBalances, OnlyLoans
  <2>2. CASE ~(e.reward > 0)
    <3>1. r = debited /\ e.reward = 0
      BY <1>1, <1>2, <2>2
    <3>2. \A q \in PublicKeys, b \in AssetIDs :
            GetBalance(r.db, q, b) = GetBalance(r.db, q, b) + At(q, b, actor, e.asset, -e.reward)
      BY <1>7, <3>1, GetBalanceType, StorageAssumption DEF Run, Amount, At
    <3>3. \A b \in AssetIDs, z \in Chains :
            GetLoan(r.db, b, z) = GetLoan(r.db, b, z) + At(b, z, e.asset, e.destination, e.reward)
      BY <1>7, <3>1, GetLoanType, StorageAssumption DEF Run, Amount, At
    <3> QED
      BY <3>1, <3>2, <3>3
  <2> QED
    BY <2>1, <2>2
<1>11. \A q \in PublicKeys, b \in AssetIDs :
         GetBalance(r.db, q, b) = GetBalance(s.db, q, b)
           + At(q, b, actor, e.asset, -e.value) + At(q, b, actor, e.asset, -e.reward)
  BY <1>7, <1>8, <1>10
<1>12. \A b \in AssetIDs, z \in Chains :
         GetLoan(r.db, b, z) = GetLoan(s.db, b, z)
           + At(b, z, e.asset, e.destination, e.value)
           + At(b, z, e.asset, e.destination, e.reward)
  BY <1>6, <1>7, <1>9, <1>10
<1>13. /\ s.ok /\ a \in Asset /\ ~a.warp
       /\ r.db.assets = s.db.assets /\ r.db.orders = s.db.orders
       /\ \A b \in AssetIDs, z \in Chains :
            GetLoan(r.db, b, z) = GetLoan(s.db, b, z)
              + At(b, z, e.asset, e.destination, e.value)
              + At(b, z, e.asset, e.destination, e.reward)
       /\ \A q \in PublicKeys, b \in AssetIDs :
            GetBalance(r.db, q, b) = GetBalance(s.db, q, b)
              + At(q, b, actor, e.asset, -e.value) + At(q, b, actor, e.asset, -e.reward)
  BY <1>4, <1>5, <1>6, <1>7, <1>10, <1>11, <1>12 DEF OnlyBalances, OnlyLoans
<1> QED
  BY <1>13 DEF SentAway

LEMMA ExportLoanEntry ==
  ASSUME NEW Z, NEW s, GoodRun(Z, s), NEW actor \in PublicKeys, NEW e \in ExportRequest,
         s.ok => e.value # 0,
         NEW r, r = ExportLoan(s, actor, e), r.ok
  PROVE  s.ok /\ SentAway(s.db, r.db, actor, e)
<1> DEFINE q == Lend(s, actor, e)
<1>1. s \in Run /\ q \in Run
  BY LendGood DEF GoodRun
<1>2. r = Require(q, Marshals(e))
  BY DEF ExportLoan
<1>3. q.ok /\ r.db = q.db
  <2> HIDE DEF q
  <2> QED
    BY <1>1, <1>2, RequireRun
<1> QED
  BY <1>1, <1>3, LendEntry

\* An import of an asset of another chain mints it.
LEMMA ImportMintEntry ==
  ASSUME NEW s \in Run, NEW actor \in PublicKeys, NEW m \in Message,
         NEW r, r = ImportMint(s, actor, m), r.ok
  PROVE  s.ok /\ Arrived(s.db, r.db, actor, m)
<1> DEFINE i == ImportedAssetID(m.asset, m.src)
<1>0. /\ i = ImportedAssetID(m.asset, m.src)
  OBVIOUS
<1> HIDE DEF i
<1> USE <1>0
<1> DEFINE a        == s.db.assets[i]
           t        == Touch(s, AssetKey(i))
           found    == Require(t, a = Missing \/ a.warp)
           before   == IF a = Missing THEN 0 ELSE a.supply
           supply   == before + m.value + m.reward
           fits     == Require(found, supply <= MaxUint64)
           record   == [metadata |-> IF a = Missing
                                     THEN ImportedAssetMetadata(m.asset, m.src)
                                     ELSE a.metadata,
                        supply |-> supply, owner |-> EmptyKey, warp |-> TRUE]
           minted   == SetAsset(fits, i, record)
           credited == AddBalance(minted, m.to, i, m.value)
<1>1. r = IF m.reward > 0 THEN AddBalance(credited, actor, i, m.reward)
                          ELSE credited
  BY ZenonT(30) DEF ImportMint
<1>2. m.value \in Nat /\ m.reward \in Nat /\ m.to \in PublicKeys
  BY StorageAssumption DEF Message, Amount
<1>3. /\ i \in ImportedIDs /\ i \in AssetIDs
      /\ ImportedAssetMetadata(m.asset, m.src) = i
  BY DEF Message, ImportedAssetID, ImportedAssetMetadata, ImportedIDs, AssetIDs
<1>4. t \in Run /\ t.ok = s.ok /\ t.db = s.db
  BY <1>3, AssetKeyType, TouchRun
<1>5. a \in Asset \cup {Missing}
  BY <1>3 DEF Run, DB
<1> HIDE DEF t, a
<1>6. /\ found \in Run /\ found.db = s.db /\ (found.ok => s.ok)
  BY <1>4 DEF Require, Run
<1> HIDE DEF found
<1>7. /\ fits \in Run /\ fits.db = s.db
      /\ fits.ok => found.ok /\ supply <= MaxUint64
  BY <1>6 DEF Require, Run
<1> HIDE DEF fits
<1>8. SupplyOf(a) = before /\ before \in Nat
  BY <1>5, StorageAssumption DEF SupplyOf, Asset, Amount
<1>9. fits.ok => record \in Asset /\ SupplyOf(record) = SupplyOf(a) + m.value + m.reward
  <2> SUFFICES ASSUME fits.ok
               PROVE  record \in Asset /\ SupplyOf(record) = SupplyOf(a) + m.value + m.reward
    OBVIOUS
  <2>1. supply \in Amount
    BY <1>2, <1>7, <1>8, StorageAssumption DEF Amount
  <2>2. record.metadata \in Metadata \cup ImportedIDs
    BY <1>3, <1>5 DEF Asset
  <2>3. supply = SupplyOf(a) + m.value + m.reward
    BY <1>8
  <2> HIDE DEF supply
  <2>4. record \in Asset /\ record.supply = supply
    BY <2>1, <2>2 DEF Asset, PublicKeys
  <2> HIDE DEF record
  <2> QED
    BY <2>3, <2>4, MissingAssumption DEF SupplyOf
<1> HIDE DEF record
<1>10. /\ minted \in Run /\ minted.ok = fits.ok
       /\ minted.ok => /\ minted.db.assets = [s.db.assets EXCEPT ![i] = record]
                       /\ minted.db.bal = s.db.bal /\ minted.db.orders = s.db.orders
                       /\ minted.db.loans = s.db.loans
  <2>1. fits.ok => record \in Asset \cup {Missing}
    BY <1>9
  <2> QED
    BY <1>3, <1>7, <2>1, SetAssetRun
<1> HIDE DEF minted
<1>11. /\ credited \in Run /\ (credited.ok => minted.ok)
       /\ OnlyBalances(minted.db, credited.db)
       /\ credited.ok => \A q \in PublicKeys, b \in AssetIDs :
                           GetBalance(credited.db, q, b) = GetBalance(minted.db, q, b)
                                                     + At(q, b, m.to, i, m.value)
  BY <1>2, <1>3, <1>10, AddBalanceEntry
<1> HIDE DEF credited
<1>12. /\ credited.ok /\ OnlyBalances(credited.db, r.db)
       /\ \A q \in PublicKeys, b \in AssetIDs :
            GetBalance(r.db, q, b) = GetBalance(credited.db, q, b)
                                       + At(q, b, actor, i, m.reward)
  <2>1. CASE m.reward > 0
    <3>1. r = AddBalance(credited, actor, i, m.reward)
      BY <1>1, <2>1
    <3> QED
      BY <1>2, <1>3, <1>11, <3>1, AddBalanceEntry
  <2>2. CASE ~(m.reward > 0)
    <3>1. r = credited /\ m.reward = 0
      BY <1>1, <1>2, <2>2
    <3>2. \A q \in PublicKeys, b \in AssetIDs :
            GetBalance(r.db, q, b) = GetBalance(r.db, q, b) + At(q, b, actor, i, m.reward)
      BY <1>11, <3>1, GetBalanceType, StorageAssumption DEF Run, Amount, At
    <3> QED
      BY <3>1, <3>2 DEF OnlyBalances
  <2> QED
    BY <2>1, <2>2
<1>13. \A q \in PublicKeys, b \in AssetIDs :
         GetBalance(minted.db, q, b) = GetBalance(s.db, q, b)
  BY <1>10, <1>11, <1>12 DEF GetBalance
<1>14. \A q \in PublicKeys, b \in AssetIDs :
         GetBalance(r.db, q, b) = GetBalance(s.db, q, b)
           + At(q, b, m.to, i, m.value) + At(q, b, actor, i, m.reward)
  BY <1>11, <1>12, <1>13
<1>15. s.ok /\ fits.ok /\ r.db.assets = [s.db.assets EXCEPT ![i] = record]
  BY <1>6, <1>7, <1>10, <1>11, <1>12 DEF OnlyBalances
<1>16. /\ s.ok
       /\ \E entry \in Asset :
            /\ r.db.assets = [s.db.assets EXCEPT ![i] = entry]
            /\ SupplyOf(entry) = SupplyOf(s.db.assets[i]) + m.value + m.reward
       /\ r.db.orders = s.db.orders /\ r.db.loans = s.db.loans
       /\ \A q \in PublicKeys, b \in AssetIDs :
            GetBalance(r.db, q, b) = GetBalance(s.db, q, b)
              + At(q, b, m.to, i, m.value) + At(q, b, actor, i, m.reward)
  BY <1>9, <1>10, <1>11, <1>12, <1>14, <1>15 DEF OnlyBalances, a
<1> QED
  BY <1>16 DEF Arrived

\* An import of what comes home repays the loan.
LEMMA ImportReturnEntry ==
  ASSUME NEW s \in Run, NEW actor \in PublicKeys, NEW m \in Message,
         NEW r, r = ImportReturn(s, actor, m), r.ok
  PROVE  s.ok /\ CameHome(s.db, r.db, actor, m)
<1> DEFINE repaid   == SubLoan(s, m.asset, m.src, m.value)
           credited == AddBalance(repaid, m.to, m.asset, m.value)
           reward   == SubLoan(credited, m.asset, m.src, m.reward)
<1>1. r = IF m.reward > 0 THEN AddBalance(reward, actor, m.asset, m.reward)
                          ELSE credited
  BY DEF ImportReturn
<1>2. /\ m.value \in Nat /\ m.reward \in Nat /\ m.to \in PublicKeys
      /\ m.asset \in AssetIDs /\ m.src \in Chains
  BY StorageAssumption DEF Message, Amount, AssetIDs
<1>3. /\ repaid \in Run /\ (repaid.ok => s.ok) /\ OnlyLoans(s.db, repaid.db)
      /\ repaid.ok => \A b \in AssetIDs, z \in Chains :
                        GetLoan(repaid.db, b, z) = GetLoan(s.db, b, z)
                                                 + At(b, z, m.asset, m.src, -m.value)
  BY <1>2, SubLoanEntry
<1> HIDE DEF repaid
<1>4. /\ credited \in Run /\ (credited.ok => repaid.ok)
      /\ OnlyBalances(repaid.db, credited.db)
      /\ credited.ok => \A q \in PublicKeys, b \in AssetIDs :
                          GetBalance(credited.db, q, b) = GetBalance(repaid.db, q, b)
                                                    + At(q, b, m.to, m.asset, m.value)
  BY <1>2, <1>3, AddBalanceEntry
<1> HIDE DEF credited
<1>5. \A q \in PublicKeys, b \in AssetIDs :
        GetBalance(repaid.db, q, b) = GetBalance(s.db, q, b)
  BY <1>3 DEF GetBalance, OnlyLoans
<1>6. \A b \in AssetIDs, z \in Chains :
        GetLoan(credited.db, b, z) = GetLoan(repaid.db, b, z)
  BY <1>4 DEF GetLoan, OnlyBalances
<1>7. /\ credited.ok /\ r.db.assets = credited.db.assets /\ r.db.orders = credited.db.orders
      /\ \A q \in PublicKeys, b \in AssetIDs :
           GetBalance(r.db, q, b) = GetBalance(credited.db, q, b)
                                      + At(q, b, actor, m.asset, m.reward)
      /\ \A b \in AssetIDs, z \in Chains :
           GetLoan(r.db, b, z) = GetLoan(credited.db, b, z)
                                   + At(b, z, m.asset, m.src, -m.reward)
  <2>1. CASE m.reward > 0
    <3>1. r = AddBalance(reward, actor, m.asset, m.reward)
      BY <1>1, <2>1
    <3>2. /\ reward \in Run /\ (reward.ok => credited.ok) /\ OnlyLoans(credited.db, reward.db)
          /\ reward.ok => \A b \in AssetIDs, z \in Chains :
                            GetLoan(reward.db, b, z) = GetLoan(credited.db, b, z)
                                                     + At(b, z, m.asset, m.src, -m.reward)
      BY <1>2, <1>4, SubLoanEntry
    <3> HIDE DEF reward
    <3>3. /\ reward.ok /\ OnlyBalances(reward.db, r.db)
          /\ \A q \in PublicKeys, b \in AssetIDs :
               GetBalance(r.db, q, b) = GetBalance(reward.db, q, b)
                                          + At(q, b, actor, m.asset, m.reward)
      BY SMTT(30), <1>2, <3>1, <3>2, AddBalanceEntry
    <3>4. \A q \in PublicKeys, b \in AssetIDs :
            GetBalance(reward.db, q, b) = GetBalance(credited.db, q, b)
      BY <3>2 DEF GetBalance, OnlyLoans
    <3>5. \A b \in AssetIDs, z \in Chains :
            GetLoan(r.db, b, z) = GetLoan(reward.db, b, z)
      BY <3>3 DEF GetLoan, OnlyBalances
    <3> QED
      BY <3>2, <3>3, <3>4, <3>5 DEF OnlyBalances, OnlyLoans
  <2>2. CASE ~(m.reward > 0)
    <3>1. r = credited /\ m.reward = 0
      BY <1>1, <1>2, <2>2
    <3>2. \A q \in PublicKeys, b \in AssetIDs :
            GetBalance(r.db, q, b) = GetBalance(r.db, q, b) + At(q, b, actor, m.asset, m.reward)
      BY <1>4, <3>1, GetBalanceType, StorageAssumption DEF Run, Amount, At
    <3>3. \A b \in AssetIDs, z \in Chains :
            GetLoan(r.db, b, z) = GetLoan(r.db, b, z) + At(b, z, m.asset, m.src, -m.reward)
      BY <1>4, <3>1, GetLoanType, StorageAssumption DEF Run, Amount, At
    <3> QED
      BY <3>1, <3>2, <3>3
  <2> QED
    BY <2>1, <2>2
<1>8. \A q \in PublicKeys, b \in AssetIDs :
        GetBalance(r.db, q, b) = GetBalance(s.db, q, b)
          + At(q, b, m.to, m.asset, m.value) + At(q, b, actor, m.asset, m.reward)
  BY <1>4, <1>5, <1>7
<1>9. \A b \in AssetIDs, z \in Chains :
        GetLoan(r.db, b, z) = GetLoan(s.db, b, z)
          + At(b, z, m.asset, m.src, -m.value) + At(b, z, m.asset, m.src, -m.reward)
  BY <1>3, <1>4, <1>6, <1>7
<1>10. /\ s.ok /\ r.db.assets = s.db.assets /\ r.db.orders = s.db.orders
       /\ \A b \in AssetIDs, z \in Chains :
            GetLoan(r.db, b, z) = GetLoan(s.db, b, z)
              + At(b, z, m.asset, m.src, -m.value) + At(b, z, m.asset, m.src, -m.reward)
       /\ \A q \in PublicKeys, b \in AssetIDs :
            GetBalance(r.db, q, b) = GetBalance(s.db, q, b)
              + At(q, b, m.to, m.asset, m.value) + At(q, b, actor, m.asset, m.reward)
  BY <1>3, <1>4, <1>7, <1>8, <1>9 DEF OnlyBalances, OnlyLoans
<1> QED
  BY <1>10 DEF CameHome

\* A swap is four entries that balance.
LEMMA FillSwapEntry ==
  ASSUME NEW s \in Run, NEW actor \in PublicKeys, NEW m \in Message,
         AssetIn(m) \in AssetIDs,
         NEW r, r = FillSwap(s, actor, m), r.ok
  PROVE  s.ok /\ Swapped(s.db, r.db, actor, m)
<1> DEFINE in == AssetIn(m)
<1>0. /\ in = AssetIn(m)
      /\ in \in AssetIDs
  OBVIOUS
<1> HIDE DEF in
<1> USE <1>0
<1> DEFINE to    == m.to
           out   == m.assetOut
           pays  == m.swapIn
           gets  == m.swapOut
           taken  == SubBalance(s, to, in, pays)
           sold   == AddBalance(taken, actor, in, pays)
           bought == SubBalance(sold, actor, out, gets)
<1>1. r = AddBalance(bought, to, out, gets)
  BY DEF FillSwap
<1>2. /\ pays \in Nat /\ gets \in Nat
      /\ to \in PublicKeys /\ out \in AssetIDs
  BY StorageAssumption DEF Message, Amount
<1> HIDE DEF to, out, pays, gets
<1>3. /\ taken \in Run /\ (taken.ok => s.ok) /\ OnlyBalances(s.db, taken.db)
      /\ taken.ok => \A q \in PublicKeys, b \in AssetIDs :
                       GetBalance(taken.db, q, b)
                         = GetBalance(s.db, q, b) + At(q, b, to, in, -pays)
  <2>1. taken = SubBalance(s, to, in, pays) /\ (s.ok => pays \in Nat)
    BY <1>2
  <2> HIDE DEF taken
  <2> QED
    BY <1>2, <2>1, SubBalanceEntry
<1> HIDE DEF taken
<1>4. /\ sold \in Run /\ (sold.ok => taken.ok) /\ OnlyBalances(taken.db, sold.db)
      /\ sold.ok => \A q \in PublicKeys, b \in AssetIDs :
                      GetBalance(sold.db, q, b)
                        = GetBalance(taken.db, q, b) + At(q, b, actor, in, pays)
  BY SMTT(30), <1>2, <1>3, AddBalanceEntry
<1> HIDE DEF sold
<1>5. /\ bought \in Run /\ (bought.ok => sold.ok) /\ OnlyBalances(sold.db, bought.db)
      /\ bought.ok => \A q \in PublicKeys, b \in AssetIDs :
                        GetBalance(bought.db, q, b)
                          = GetBalance(sold.db, q, b) + At(q, b, actor, out, -gets)
  BY <1>2, <1>4, SubBalanceEntry
<1> HIDE DEF bought
<1>6. /\ bought.ok /\ OnlyBalances(bought.db, r.db)
      /\ \A q \in PublicKeys, b \in AssetIDs :
           GetBalance(r.db, q, b)
             = GetBalance(bought.db, q, b) + At(q, b, to, out, gets)
  <2>1. bought \in Run /\ (bought.ok => gets \in Nat)
    BY <1>2, <1>5
  <2> QED
    BY <1>1, <1>2, <2>1, AddBalanceEntry
<1>7. sold.ok /\ taken.ok /\ s.ok
  BY <1>3, <1>4, <1>5, <1>6
<1>8. /\ s.ok /\ OnlyBalances(s.db, r.db)
      /\ \A q \in PublicKeys, b \in AssetIDs :
           GetBalance(r.db, q, b) = GetBalance(s.db, q, b)
             + At(q, b, m.to, in, -m.swapIn) + At(q, b, actor, in, m.swapIn)
             + At(q, b, actor, m.assetOut, -m.swapOut) + At(q, b, m.to, m.assetOut, m.swapOut)
  BY <1>3, <1>4, <1>5, <1>6, <1>7 DEF OnlyBalances, to, out, pays, gets
<1> QED
  BY <1>8 DEF Swapped
-----------------------------------------------------------------------------
\* The inductive invariant: the messages under way ask for swaps an import
\* can fill, for otherwise an import could credit nothing or name an asset
\* that does not exist; the state of every chain is sound; an id that is not
\* used has no record, for otherwise a new order could replace an open one and
\* what that one locks would be lost.
FreshIds ==
  \A c \in Chains, id \in TxIDs \ used :
    db[c].assets[id] = Missing /\ db[c].orders[id] = Missing

\* The balances the genesis of a chain stores as zero.
Zeros(c) ==
  {k \in PublicKeys \X AssetIDs : k[2] = Native /\ GenesisBalance(c, k[1]) = 0}

IInv ==
  /\ TypeOK
  /\ \A c \in Chains : Sound(Zeros(c), db[c])
  /\ \A m \in sent : MessageOK(m)
  /\ OnlyDeclaredKeys
  /\ FreshIds
  /\ Conservation

-----------------------------------------------------------------------------
\* The genesis.

\* A genesis lists finitely many allocations.
LEMMA AllocationsType ==
  ASSUME NEW c \in Chains
  PROVE  /\ IsFiniteSet(DOMAIN Allocations[c])
         /\ \A i \in DOMAIN Allocations[c] :
              /\ Allocations[c][i].balance \in Amount
              /\ Allocations[c][i].balance \in Nat
<1> DEFINE as == Allocations[c]
           R  == [address : PublicKeys, balance : Amount]
<1>1. \A x \in R : x.balance \in Amount /\ x.balance \in Nat
  BY StorageAssumption DEF Amount
<1>2. as \in Seq(R)
  BY GenesisAssumption
<1> HIDE DEF as, R
<1>3. /\ DOMAIN as = 1 .. Len(as) /\ Len(as) \in Nat
      /\ \A i \in DOMAIN as : as[i] \in R
  BY <1>2, LenProperties, ElementOfSeq
<1>4. IsFiniteSet(DOMAIN as)
  <2> DEFINE n == Len(as)
  <2>1. DOMAIN as = 1 .. n /\ 1 \in Int /\ n \in Int
    BY <1>3
  <2> HIDE DEF n
  <2>2. IsFiniteSet(1 .. n)
    BY <2>1, FS_Interval
  <2> QED
    BY <2>1, <2>2
<1> QED
  BY <1>1, <1>3, <1>4 DEF as

\* The supply of the genesis is a number: Load checks that it fits.
LEMMA GenesisSupplyType ==
  ASSUME NEW c \in Chains
  PROVE  GenesisSupply(c) \in Nat
<1> DEFINE as == Allocations[c]
           f  == [i \in DOMAIN as |-> as[i].balance]
<1>1. IsFiniteSet(DOMAIN as) /\ \A i \in DOMAIN as : as[i].balance \in Nat
  BY AllocationsType
<1> HIDE DEF as
<1>2. f \in [DOMAIN as -> Nat]
  BY <1>1
<1>3. Total(f) \in Nat
  <2> DEFINE S == DOMAIN as
  <2> HIDE DEF f
  <2> QED
    BY <1>1, <1>2, CoinsFinite, Zenon
<1> QED
  BY <1>3 DEF GenesisSupply, as

\* An address that is listed has a balance, every other has none.
LEMMA GenesisBalanceType ==
  ASSUME NEW c \in Chains, NEW pk \in PublicKeys
  PROVE  GenesisBalance(c, pk) \in Amount \cup {Missing}
<1> DEFINE as == Allocations[c]
           i  == CHOOSE i \in DOMAIN as : IsBalance(c, pk, i)
<1>1. \A j \in DOMAIN as : as[j].balance \in Amount
  BY AllocationsType
<1>2. CASE \E j \in DOMAIN as : IsBalance(c, pk, j)
  <2>1. i \in DOMAIN as
    BY <1>2
  <2>2. GenesisBalance(c, pk) = as[i].balance
    BY <1>2 DEF GenesisBalance
  <2> HIDE DEF i, as
  <2> QED
    BY <1>1, <2>1, <2>2
<1>3. CASE ~\E j \in DOMAIN as : IsBalance(c, pk, j)
  BY <1>3, StorageAssumption, MissingAssumption DEF GenesisBalance, Amount
<1> QED
  BY <1>2, <1>3

\* The genesis state is sound.
LEMMA LoadSound ==
  ASSUME GenesisLoads, NEW c \in Chains
  PROVE  Sound(Zeros(c), Load(c))
<1> DEFINE d == Load(c)
           bal == [k \in PublicKeys \X AssetIDs |->
                     IF k[2] = Native THEN GenesisBalance(c, k[1]) ELSE Missing]
           native == [metadata |-> CHOOSE m \in Metadata : TRUE,
                      supply |-> GenesisSupply(c),
                      owner |-> EmptyKey, warp |-> FALSE]
           assets == [a \in AssetIDs |-> IF a = Native THEN native ELSE Missing]
<1>1. /\ d.bal = bal /\ d.assets = assets
      /\ d.orders = [id \in TxIDs |-> Missing]
      /\ d.loans = [k \in AssetIDs \X Chains |-> Missing]
      /\ d = [bal |-> d.bal, assets |-> d.assets, orders |-> d.orders, loans |-> d.loans]
  BY DEF Load
<1>2. Missing # 0
  BY StorageAssumption, MissingAssumption DEF Amount
<1>3. /\ bal \in [PublicKeys \X AssetIDs -> Amount \cup {Missing}]
      /\ \A k \in (PublicKeys \X AssetIDs) \ Zeros(c) : bal[k] # 0
  BY <1>2, GenesisBalanceType DEF Zeros
<1>4. native \in Asset
  <2>1. GenesisSupply(c) \in Amount
    BY GenesisSupplyType, StorageAssumption DEF GenesisLoads, Amount
  <2>2. (CHOOSE m \in Metadata : TRUE) \in Metadata
    BY GenesisAssumption
  <2> QED
    BY <2>1, <2>2 DEF Asset, PublicKeys
<1>5. Native \notin ImportedIDs /\ ~native.warp
  BY StorageAssumption DEF LocalIDs
<1> HIDE DEF native, bal, d
<1>6. /\ assets \in [AssetIDs -> Asset \cup {Missing}]
      /\ \A a \in AssetIDs : WarpRecordOK(a, assets[a])
  BY <1>4, <1>5 DEF WarpRecordOK
<1> HIDE DEF assets
<1>7. d \in DB
  BY <1>1, <1>3, <1>6 DEF DB
<1>8. OrdersOK(d) /\ WarpOK(d) /\ NoEmpty(Zeros(c), d)
  BY <1>1, <1>2, <1>3, <1>6 DEF OrdersOK, WarpOK, NoEmpty
<1> QED
  BY <1>7, <1>8 DEF Sound, d

\* What duplicate allocations lose is a natural number: every balance is one
\* of the allocations, and those of two addresses are two.
LEMMA GenesisLostType ==
  ASSUME NEW c \in Chains
  PROVE  GenesisLost(c) \in Nat
<1> DEFINE f  == [pk \in PublicKeys |-> ValueOf(GenesisBalance(c, pk))]
           as == Allocations[c]
           D  == DOMAIN as
           g  == [i \in D |-> as[i].balance]
           at == [pk \in PublicKeys |-> CHOOSE i \in D : IsBalance(c, pk, i)]
<1>1. f \in [PublicKeys -> Nat]
  <2>1. \A x \in Amount : x \in Nat
    BY StorageAssumption DEF Amount
  <2>2. \A pk \in PublicKeys : ValueOf(GenesisBalance(c, pk)) \in Amount
    BY GenesisBalanceType, ValueOfType
  <2> QED
    BY <2>1, <2>2
<1>2. IsFiniteSet(D) /\ g \in [D -> Nat]
  BY AllocationsType
<1>3. ASSUME NEW pk \in PublicKeys, f[pk] > 0
      PROVE  /\ at[pk] \in D /\ f[pk] <= g[at[pk]]
             /\ as[at[pk]].address = pk
  <2>1. \E i \in D : IsBalance(c, pk, i)
    BY <1>3 DEF GenesisBalance, ValueOf
  <2>2. at[pk] \in D /\ IsBalance(c, pk, at[pk])
    BY <2>1
  <2>3. GenesisBalance(c, pk) = as[at[pk]].balance
    BY <2>1 DEF GenesisBalance
  <2>4. as[at[pk]].balance \in Amount /\ as[at[pk]].balance \in Nat
    BY <2>2, AllocationsType
  <2>5. f[pk] = g[at[pk]]
    BY <2>2, <2>3, <2>4, MissingAssumption DEF ValueOf
  <2>6. as[at[pk]].address = pk
    BY <2>2 DEF IsBalance
  <2> HIDE DEF f, g, at, as
  <2>7. f[pk] <= g[at[pk]]
    BY <1>1, <2>5
  <2> QED
    BY <2>2, <2>6, <2>7
<1> HIDE DEF at, g, f, D, as
<1>4. /\ \A x \in PublicKeys : f[x] > 0 => at[x] \in D /\ f[x] <= g[at[x]]
      /\ \A x, y \in PublicKeys : f[x] > 0 /\ f[y] > 0 /\ at[x] = at[y] => x = y
  BY <1>3
<1>5. Total(f) <= Total(g)
  BY <1>1, <1>2, <1>4, TotalEmbeds, Zenon
<1>6. Total(f) \in Nat /\ Total(g) \in Nat
  BY <1>1, <1>2, PublicKeysFinite, CoinsFinite
<1>7. GenesisLost(c) = Total(g) - Total(f)
  BY DEF GenesisLost, GenesisSupply, f, g, D, as
<1> QED
  BY <1>5, <1>6, <1>7

\* The genesis books: the supply of the native asset is held, but for what is
\* lost, and there is no other asset.
LEMMA LoadGone ==
  ASSUME GenesisLoads, NEW c \in Chains, NEW a \in AssetIDs
  PROVE  Gone(Load(c), a) = IF a = Native THEN GenesisLost(c) ELSE 0
<1> DEFINE d == Load(c)
           held == [pk \in PublicKeys |-> ValueOf(GenesisBalance(c, pk))]
           native == [metadata |-> CHOOSE m \in Metadata : TRUE,
                      supply |-> GenesisSupply(c),
                      owner |-> EmptyKey, warp |-> FALSE]
<1>1. d \in DB
  BY LoadSound DEF Sound
<1>2. /\ d.bal = [k \in PublicKeys \X AssetIDs |->
                   IF k[2] = Native THEN GenesisBalance(c, k[1]) ELSE Missing]
      /\ d.assets = [x \in AssetIDs |-> IF x = Native THEN native ELSE Missing]
      /\ d.orders = [id \in TxIDs |-> Missing]
      /\ d.loans = [k \in AssetIDs \X Chains |-> Missing]
  BY DEF Load
<1>3. Native \in AssetIDs
  BY DEF AssetIDs, LocalIDs
<1>4. native \in Asset
  <2>1. GenesisSupply(c) \in Amount
    BY GenesisSupplyType, StorageAssumption DEF GenesisLoads, Amount
  <2>2. (CHOOSE m \in Metadata : TRUE) \in Metadata
    BY GenesisAssumption
  <2> QED
    BY <2>1, <2>2 DEF Asset, PublicKeys
<1>5. Supply(d, a) = IF a = Native THEN GenesisSupply(c) ELSE 0
  <2>1. d.assets[a] = IF a = Native THEN native ELSE Missing
    BY <1>2
  <2>2. native # Missing /\ native.supply = GenesisSupply(c)
    BY <1>4, MissingAssumption
  <2> HIDE DEF d, native
  <2> QED
    BY <2>1, <2>2 DEF Supply, SupplyOf
<1> HIDE DEF d, native
<1>6. Locked(d, a) = 0
  <2>1. \A id \in TxIDs : Locks(d, a)[id] = 0
    BY <1>2 DEF Locks, LockedIn
  <2> QED
    BY <1>1, <2>1, SummandsType, TotalZero DEF Locked, Locks
<1>7. Lent(d, a) = 0
  <2>1. \A x \in Chains : Loans(d, a)[x] = 0
    BY <1>2 DEF Loans, GetLoan, ValueOf
  <2> QED
    BY <1>1, <2>1, SummandsType, TotalZero DEF Lent, Loans
<1>8. CASE a = Native
  <2>1. Holdings(d, a) = held
    BY <1>2, <1>8 DEF Holdings, GetBalance
  <2>2. Held(d, a) = Total(held) /\ GenesisLost(c) = GenesisSupply(c) - Total(held)
    BY <2>1 DEF Held, Holdings, GenesisLost
  <2>3. Held(d, a) \in Nat /\ GenesisSupply(c) \in Nat
    BY <1>1, GoneType, GenesisSupplyType
  <2> HIDE DEF held
  <2> QED
    BY <1>5, <1>6, <1>7, <1>8, <2>2, <2>3 DEF Gone, d
<1>9. CASE a # Native
  <2>1. \A pk \in PublicKeys : Holdings(d, a)[pk] = 0
    BY <1>2, <1>9 DEF Holdings, GetBalance, ValueOf
  <2>2. Held(d, a) = 0
    BY <1>1, <2>1, SummandsType, TotalZero DEF Held, Holdings
  <2> QED
    BY <1>5, <1>6, <1>7, <1>9, <2>2 DEF Gone, d
<1> QED
  BY <1>8, <1>9

\* The inductive invariant holds initially.
LEMMA InitIInv == Init => IInv
<1> SUFFICES ASSUME Init PROVE IInv
  OBVIOUS
<1>1. \A c \in Chains : db[c] = Load(c) /\ Sound(Zeros(c), Load(c))
  BY LoadSound DEF Init
<1>2. db \in [Chains -> DB]
  BY <1>1 DEF Init, Sound
<1>3. last \in Receipt
  <2> DEFINE first == CHOOSE c \in Chains : TRUE
  <2>1. first \in Chains
    BY TokenVMAssumption
  <2>2. last = [chain |-> first, actor |-> EmptyKey, kind |-> "Genesis", ok |-> TRUE]
    BY DEF Init
  <2> HIDE DEF first
  <2> QED
    BY <2>1, <2>2 DEF Receipt, PublicKeys
<1>4. now \in Time
  BY TokenVMAssumption DEF Init, Time
<1>5. TypeOK
  BY <1>2, <1>3, <1>4 DEF Init, TypeOK
<1>6. Conservation
  <2> SUFFICES ASSUME NEW c \in Chains, NEW a \in AssetIDs
               PROVE  Gone(db[c], a) = IF a = Native THEN fees[c] + GenesisLost(c) ELSE 0
    BY DEF Conservation
  <2>1. Gone(db[c], a) = IF a = Native THEN GenesisLost(c) ELSE 0
    BY <1>1, LoadGone DEF Init
  <2>2. fees[c] = 0 /\ GenesisLost(c) \in Int
    BY GenesisLostType DEF Init
  <2> QED
    BY <2>1, <2>2
<1>7. FreshIds
  <2> SUFFICES ASSUME NEW c \in Chains, NEW id \in TxIDs \ used
               PROVE  db[c].assets[id] = Missing /\ db[c].orders[id] = Missing
    BY DEF FreshIds
  <2>1. id \in TxIDs /\ id \in AssetIDs /\ id # Native
    BY StorageAssumption DEF AssetIDs, LocalIDs
  <2>2. Load(c).assets[id] = Missing /\ Load(c).orders[id] = Missing
    BY <2>1 DEF Load
  <2> QED
    BY <1>1, <2>2
<1> QED
  BY <1>1, <1>5, <1>6, <1>7 DEF Init, IInv, OnlyDeclaredKeys

-----------------------------------------------------------------------------
\* Every transaction.

\* Charging the fee keeps the state sound, and succeeds when CanDeduct says so.
LEMMA ChargedGood ==
  ASSUME IInv, NEW c \in Chains, NEW actor \in Accounts, NEW fee \in Nat
  PROVE  /\ GoodRun(Zeros(c), Charged(c, actor, fee))
         /\ CanDeduct(db[c], actor, fee) => Charged(c, actor, fee).ok
         /\ Charged(c, actor, fee).db.assets = db[c].assets
         /\ Charged(c, actor, fee).db.orders = db[c].orders
         /\ Charged(c, actor, fee).keys \subseteq AuthKeys(actor)
<1> DEFINE b == Begin(db[c])
           r == Charged(c, actor, fee)
<1>1. /\ GoodRun(Zeros(c), b) /\ b.ok /\ b.db = db[c] /\ b.keys = {}
  BY DEF IInv, Begin, GoodRun, Run, Sound
<1>2. actor \in PublicKeys /\ Native \in AssetIDs
  BY DEF PublicKeys, AssetIDs, LocalIDs
<1>3. r = SubBalance(b, actor, Native, fee)
  BY DEF Charged, Deduct
<1> HIDE DEF b, r
<1>4. /\ GoodRun(Zeros(c), r)
      /\ b.ok /\ fee <= GetBalance(b.db, actor, Native) => r.ok
      /\ r.db.assets = b.db.assets /\ r.db.orders = b.db.orders
      /\ r.keys \subseteq b.keys \cup {BalanceKey(actor, Native)}
  BY <1>1, <1>2, <1>3, SubBalanceGood
<1> QED
  BY <1>1, <1>4 DEF CanDeduct, AuthKeys, r

\* The fee leaves the balance of the signer, and nothing else changes hands.
LEMMA ChargedFlow ==
  ASSUME IInv, NEW c \in Chains, NEW actor \in Accounts, NEW fee \in Nat,
         NEW r, r = Charged(c, actor, fee), r.ok
  PROVE  /\ Moves(db[c], r.db, Native, fee)
         /\ GetBalance(r.db, actor, Native) = GetBalance(db[c], actor, Native) - fee
<1> DEFINE b   == Begin(db[c])
           old == GetBalance(db[c], actor, Native)
           new == IF old = fee THEN Missing ELSE old - fee
<1>1. b \in Run /\ b.ok /\ b.db = db[c] /\ db[c] \in DB
  BY DEF IInv, Begin, Run, Sound
<1>2. actor \in PublicKeys /\ Native \in AssetIDs
  BY DEF PublicKeys, AssetIDs, LocalIDs
<1>3. r = SubBalance(b, actor, Native, fee)
  BY DEF Charged, Deduct
<1> HIDE DEF b
<1>4. Moves(db[c], r.db, Native, fee)
  BY <1>1, <1>2, <1>3, SubBalanceFlow
<1>5. /\ fee <= old /\ new \in Amount \cup {Missing}
      /\ r.db = SetBal(db[c], <<actor, Native>>, new)
  BY <1>1, <1>2, <1>3, SubBalanceRun
<1>6. old \in Amount
  BY <1>1, <1>2, GetBalanceType
<1>7. ValueOf(new) = old - fee
  <2>1. old - fee \in Amount
    BY <1>5, <1>6, StorageAssumption DEF Amount
  <2> QED
    BY <1>6, <2>1, StorageAssumption, MissingAssumption DEF ValueOf, Amount
<1> HIDE DEF new
<1>8. r.db.bal = [db[c].bal EXCEPT ![<<actor, Native>>] = new]
  BY <1>1, <1>2, <1>5, SetBalType
<1>9. db[c].bal \in [PublicKeys \X AssetIDs -> Amount \cup {Missing}]
  BY <1>1 DEF DB
<1>10. GetBalance(r.db, actor, Native) = ValueOf(new)
  BY <1>2, <1>8, <1>9 DEF GetBalance
<1> QED
  BY <1>4, <1>7, <1>10

\* The refund of a part of the fee cannot overflow, so that it goes through.
LEMMA RefundFlow ==
  ASSUME IInv, NEW c \in Chains, NEW actor \in Accounts, NEW fee \in Nat,
         NEW refund \in Nat, refund <= fee,
         NEW s, s = Charged(c, actor, fee), s.ok,
         NEW r, r = Refund(s, actor, refund)
  PROVE  /\ r.db \in DB /\ r.db.assets = s.db.assets /\ r.db.orders = s.db.orders
         /\ Moves(s.db, r.db, Native, -refund)
<1>1. GoodRun(Zeros(c), s)
  BY ChargedGood
<1>2. actor \in PublicKeys /\ Native \in AssetIDs
  BY DEF PublicKeys, AssetIDs, LocalIDs
<1>3. CASE refund > 0
  <2>1. r = AddBalance(s, actor, Native, refund)
    BY <1>3 DEF Refund
  <2>2. GetBalance(s.db, actor, Native) = GetBalance(db[c], actor, Native) - fee
    BY ChargedFlow
  <2>3. GetBalance(db[c], actor, Native) \in Amount
    BY <1>2, GetBalanceType DEF IInv, Sound
  <2>4. GetBalance(s.db, actor, Native) + refund <= MaxUint64
    BY <2>2, <2>3, StorageAssumption DEF Amount
  <2>5. r.ok
    <3> DEFINE new == GetBalance(s.db, actor, Native) + refund
    <3>1. /\ s \in Run /\ s.ok /\ new <= MaxUint64
          /\ new = GetBalance(s.db, actor, Native) + refund
      BY <1>1, <2>4 DEF GoodRun
    <3> HIDE DEF new
    <3>2. /\ r \in Run
          /\ s.ok /\ new <= MaxUint64 => r.ok
          /\ r.db = IF r.ok THEN SetBal(s.db, <<actor, Native>>, new) ELSE s.db
      BY <1>2, <2>1, <3>1, AddBalanceRun
    <3> QED
      BY <3>1, <3>2
  <2>6. Moves(s.db, r.db, Native, -refund)
    BY <1>1, <1>2, <2>1, <2>5, AddBalanceFlow DEF GoodRun
  <2>7. GoodRun(Zeros(c), r) /\ r.db.assets = s.db.assets /\ r.db.orders = s.db.orders
    BY <1>1, <1>2, <1>3, <2>1, AddBalanceGood
  <2> QED
    BY <2>6, <2>7 DEF GoodRun, Run
<1>4. CASE ~(refund > 0)
  <2>1. r = s /\ -refund = 0
    BY <1>4 DEF Refund
  <2>2. s.db \in DB
    BY <1>1 DEF GoodRun, Run
  <2> QED
    BY <2>1, <2>2, StandStill
<1> QED
  BY <1>3, <1>4

\* Whatever the action does, the books of every chain are balanced: the fee
\* is all that is gone, and what a failed action is refunded is not.
LEMMA IncludeBooks ==
  ASSUME IInv, NEW c \in Chains, NEW actor \in Accounts, NEW kind,
         NEW fee \in Nat, NEW refund \in Nat, refund <= fee,
         NEW run, GoodRun(Zeros(c), run), NEW declared, NEW ids,
         Effect(Charged(c, actor, fee), run, ids),
         Include(c, actor, kind, fee, refund, run, declared),
         used \subseteq used', run.ok => ids \subseteq used'
  PROVE  Conservation' /\ FreshIds'
<1> DEFINE charged == Charged(c, actor, fee)
           failed  == Refund(charged, actor, refund)
           final   == IF run.ok THEN run ELSE failed
           cost    == fee - (IF run.ok THEN 0 ELSE refund)
<1>1. GoodRun(Zeros(c), charged) /\ charged.ok
      /\ charged.db.assets = db[c].assets /\ charged.db.orders = db[c].orders
  BY ChargedGood DEF Include
<1>2. Moves(db[c], charged.db, Native, fee)
  BY <1>1, ChargedFlow
<1>3. /\ failed.db \in DB
      /\ failed.db.assets = charged.db.assets /\ failed.db.orders = charged.db.orders
      /\ Moves(charged.db, failed.db, Native, -refund)
  BY <1>1, RefundFlow
<1>4. /\ db' = [db EXCEPT ![c] = final.db]
      /\ fees' = [fees EXCEPT ![c] = fees[c] + fee - (IF run.ok THEN 0 ELSE refund)]
  BY DEF Include
<1>5. /\ db \in [Chains -> DB] /\ fees \in [Chains -> Nat]
      /\ Conservation /\ FreshIds
  BY DEF IInv, TypeOK
<1> HIDE DEF charged
<1>6. /\ run.ok => Conserves(charged.db, run.db) /\ CreatesOnly(charged.db, run.db, ids)
      /\ run.db \in DB /\ charged.db \in DB /\ db[c] \in DB
  BY <1>1, <1>5 DEF charged, Effect, GoodRun, Run
<1> HIDE DEF failed
<1>7. ASSUME NEW a \in AssetIDs
      PROVE  Gone(final.db, a) = Gone(db[c], a) + (IF a = Native THEN cost ELSE 0)
  <2>1. Gone(db[c], a) \in Int /\ Gone(charged.db, a) \in Int
    BY <1>6, GoneType
  <2>2. Gone(charged.db, a) = Gone(db[c], a) + (IF a = Native THEN fee ELSE 0)
    BY <1>2 DEF Moves
  <2>3. run.ok => Gone(run.db, a) = Gone(charged.db, a)
    BY <1>6 DEF Conserves
  <2>4. Gone(failed.db, a) = Gone(charged.db, a) + (IF a = Native THEN -refund ELSE 0)
    BY <1>3 DEF Moves
  <2> QED
    BY <2>1, <2>2, <2>3, <2>4
<1>8. ASSUME NEW id \in TxIDs \ used'
      PROVE  final.db.assets[id] = Missing /\ final.db.orders[id] = Missing
  <2>1. charged.db.assets[id] = Missing /\ charged.db.orders[id] = Missing
    BY <1>1, <1>5 DEF FreshIds
  <2>2. CASE run.ok
    BY <1>6, <2>1, <2>2 DEF CreatesOnly
  <2>3. CASE ~run.ok
    BY <1>3, <2>1, <2>3
  <2> QED
    BY <2>2, <2>3
<1>9. db'[c] = final.db /\ fees'[c] = fees[c] + cost /\ fees[c] \in Nat
  BY <1>4, <1>5
<1>10. \A x \in Chains : x # c => db'[x] = db[x] /\ fees'[x] = fees[x]
  BY <1>4, <1>5
<1>11. cost \in Int
  OBVIOUS
<1> HIDE DEF final, cost
<1>12. Conservation'
  <2> SUFFICES ASSUME NEW x \in Chains, NEW a \in AssetIDs
               PROVE  Gone(db'[x], a) = IF a = Native THEN fees'[x] + GenesisLost(x) ELSE 0
    BY DEF Conservation
  <2>1. /\ Gone(db[x], a) = IF a = Native THEN fees[x] + GenesisLost(x) ELSE 0
        /\ GenesisLost(x) \in Int
    BY <1>5, GenesisLostType DEF Conservation
  <2>2. CASE x = c
    BY <1>7, <1>9, <1>11, <2>1, <2>2
  <2>3. CASE x # c
    BY <1>10, <2>1, <2>3
  <2> QED
    BY <2>2, <2>3
<1>13. FreshIds'
  <2> SUFFICES ASSUME NEW x \in Chains, NEW id \in TxIDs \ used'
               PROVE  db'[x].assets[id] = Missing /\ db'[x].orders[id] = Missing
    BY DEF FreshIds
  <2>1. CASE x = c
    BY <1>8, <1>9, <2>1
  <2>2. CASE x # c
    BY <1>5, <1>10, <2>2 DEF FreshIds
  <2> QED
    BY <2>1, <2>2
<1> QED
  BY <1>12, <1>13

\* Whatever the action does, the chain keeps a sound state and the keys
\* touched were declared.
LEMMA IncludeStep ==
  ASSUME IInv, NEW c \in Chains, NEW actor \in Accounts, NEW kind \in ActionKinds,
         NEW fee \in Nat, NEW refund \in Nat, refund <= fee,
         NEW run, GoodRun(Zeros(c), run), NEW declared,
         run.keys \subseteq Charged(c, actor, fee).keys \cup declared,
         Include(c, actor, kind, fee, refund, run, declared)
  PROVE  /\ db' \in [Chains -> DB]
         /\ \A d \in Chains : Sound(Zeros(d), db'[d])
         /\ fees' \in [Chains -> Nat]
         /\ undeclared' = {}
         /\ last' \in Receipt
         /\ now' \in Time
<1> DEFINE charged == Charged(c, actor, fee)
           failed  == Refund(charged, actor, refund)
           final   == IF run.ok THEN run ELSE failed
<1>1. GoodRun(Zeros(c), charged) /\ charged.ok /\ charged.keys \subseteq AuthKeys(actor)
  BY ChargedGood DEF Include
<1>2. actor \in PublicKeys /\ Native \in AssetIDs
  BY DEF PublicKeys, AssetIDs, LocalIDs
<1>3. Sound(Zeros(c), failed.db)
  <2> HIDE DEF charged
  <2>1. CASE refund > 0
    <3>1. failed = AddBalance(charged, actor, Native, refund)
      BY <2>1 DEF Refund
    <3> HIDE DEF failed
    <3> QED
      BY <1>1, <1>2, <2>1, <3>1, AddBalanceGood
  <2>2. CASE ~(refund > 0)
    BY <1>1, <2>2 DEF Refund, GoodRun
  <2> QED
    BY <2>1, <2>2
<1>4. Sound(Zeros(c), final.db)
  BY <1>3 DEF GoodRun
<1>5. /\ db' = [db EXCEPT ![c] = final.db]
      /\ fees' = [fees EXCEPT ![c] = fees[c] + fee - (IF run.ok THEN 0 ELSE refund)]
      /\ undeclared' = undeclared \cup (run.keys \ (declared \cup AuthKeys(actor)))
      /\ last' = [chain |-> c, actor |-> actor, kind |-> kind, ok |-> run.ok]
      /\ now' = now
  BY DEF Include
<1>6. undeclared = {} /\ db \in [Chains -> DB] /\ fees \in [Chains -> Nat] /\ now \in Time
  BY DEF IInv, TypeOK, OnlyDeclaredKeys
<1>7. \A d \in Chains : Sound(Zeros(d), db[d])
  BY DEF IInv
<1> HIDE DEF final, charged
<1>8. db' \in [Chains -> DB] /\ \A d \in Chains : Sound(Zeros(d), db'[d])
  BY <1>4, <1>5, <1>6, <1>7 DEF Sound
<1>9. fees' \in [Chains -> Nat]
  BY <1>5, <1>6
<1>10. undeclared' = {}
  BY <1>1, <1>5, <1>6 DEF charged
<1>11. last' \in Receipt
  <2>1. run.ok \in BOOLEAN
    BY DEF GoodRun, Run
  <2> QED
    BY <1>2, <1>5, <2>1 DEF Receipt
<1> QED
  BY <1>5, <1>6, <1>8, <1>9, <1>10, <1>11

\* What is left to show of an action once its handler is known to be good.
LEMMA StepIInv ==
  ASSUME IInv,
         db' \in [Chains -> DB], \A d \in Chains : Sound(Zeros(d), db'[d]),
         fees' \in [Chains -> Nat], undeclared' = {}, last' \in Receipt, now' \in Time,
         used' \in SUBSET TxIDs, \A m \in sent' : MessageOK(m),
         received' \in [Chains -> SUBSET Message],
         Conservation', FreshIds'
  PROVE  IInv'
<1>1. sent' \in SUBSET Message
  BY DEF MessageOK
<1> QED
  BY <1>1 DEF IInv, TypeOK, OnlyDeclaredKeys

\* A transaction that neither creates an id nor sends or imports a message.
LEMMA LocalStep ==
  ASSUME IInv, NEW c \in Chains, NEW actor \in Accounts, NEW kind \in ActionKinds,
         NEW fee \in Nat, NEW refund \in Nat, refund <= fee,
         NEW run, GoodRun(Zeros(c), run), NEW declared,
         NEW ids, Effect(Charged(c, actor, fee), run, ids),
         run.keys \subseteq Charged(c, actor, fee).keys \cup declared,
         Include(c, actor, kind, fee, refund, run, declared),
         used' \in SUBSET TxIDs, used \subseteq used', run.ok => ids \subseteq used',
         UNCHANGED <<sent, received>>
  PROVE  IInv'
<1>1. /\ db' \in [Chains -> DB] /\ \A d \in Chains : Sound(Zeros(d), db'[d])
      /\ fees' \in [Chains -> Nat] /\ undeclared' = {} /\ last' \in Receipt /\ now' \in Time
  BY IncludeStep
<1>2. (\A m \in sent' : MessageOK(m)) /\ received' \in [Chains -> SUBSET Message]
  BY DEF IInv, TypeOK
<1>3. Conservation' /\ FreshIds'
  BY IncludeBooks
<1> QED
  BY <1>1, <1>2, <1>3, StepIInv

\* What the signers write in their transactions.
LEMMA Inputs ==
  /\ \A x \in Accounts : x \in PublicKeys
  /\ \A x \in Recipients : x \in PublicKeys
  /\ \A x \in Named : x \in AssetIDs
  /\ \A x \in Values : x \in Amount
  /\ \A x \in Ticks : x \in Amount
  /\ BaseFee \in Nat /\ TradeFee \in Nat /\ BaseFee + TradeFee \in Nat
  /\ 0 <= BaseFee /\ TradeFee <= BaseFee + TradeFee
BY TokenVMAssumption DEF PublicKeys

\* What a signer writes in an export is an export request.
LEMMA ExportsType ==
  ASSUME NEW e \in Exports
  PROVE  e \in ExportRequest
<1>1. PICK to \in Recipients, asset \in Named, value \in Values, return \in BOOLEAN,
           reward \in Rewards, swap \in Swaps, destination \in Chains :
        e = [to |-> to, asset |-> asset, value |-> value, return |-> return,
             reward |-> reward, swapIn |-> swap.swapIn, assetOut |-> swap.assetOut,
             swapOut |-> swap.swapOut, swapExpiry |-> swap.swapExpiry,
             destination |-> destination]
  BY DEF Exports
<1>2. /\ to \in PublicKeys /\ asset \in AssetIDs /\ value \in Amount /\ reward \in Amount
      /\ swap.swapIn \in Amount /\ swap.assetOut \in AssetIDs
      /\ swap.swapOut \in Amount /\ swap.swapExpiry \in -1 .. MaxTime
  BY TokenVMAssumption
<1> QED
  BY <1>1, <1>2 DEF ExportRequest

\* Every step keeps the inductive invariant: one case per action.
LEMMA NextIInv == IInv /\ [Next]_vars => IInv'
<1> SUFFICES ASSUME IInv, [Next]_vars PROVE IInv'
  OBVIOUS
<1> USE Inputs
<1>1. ASSUME NEW c \in Chains, NEW actor \in Accounts, NEW fee \in Nat
      PROVE  GoodRun(Zeros(c), Charged(c, actor, fee))
  BY <1>1, ChargedGood
<1>2. used \in SUBSET TxIDs
  BY DEF IInv, TypeOK
<1>3. ASSUME NEW c \in Chains, NEW actor \in Accounts, Transfer(c, actor) PROVE IInv'
  <2> DEFINE s == Charged(c, actor, BaseFee)
  <2>1. PICK to \in Recipients, asset \in Named, value \in Values :
          /\ Include(c, actor, "Transfer", BaseFee, 0,
                     ExecuteTransfer(s, actor, to, asset, value),
                     TransferKeys(actor, to, asset))
    BY <1>2, <1>3 DEF Transfer
  <2>2. GoodRun(Zeros(c), s)
    BY <1>1
  <2> DEFINE run == ExecuteTransfer(s, actor, to, asset, value)
  <2>3. used' \in SUBSET TxIDs /\ used' = used /\ UNCHANGED <<sent, received>>
    BY <1>2, <1>3, <2>1 DEF Transfer
  <2>4. "Transfer" \in ActionKinds
    BY DEF ActionKinds
  <2> HIDE DEF s
  <2>5. /\ GoodRun(Zeros(c), run) /\ Effect(s, run, {})
        /\ run.keys \subseteq s.keys \cup TransferKeys(actor, to, asset)
    BY <2>2, TransferGood
  <2> QED
    BY <2>1, <2>3, <2>4, <2>5, LocalStep DEF s
<1>4. ASSUME NEW c \in Chains, NEW actor \in Accounts, CreateAsset(c, actor) PROVE IInv'
  <2> DEFINE s == Charged(c, actor, BaseFee)
  <2>1. PICK id \in TxIDs \ used, metadata \in Metadata :
          /\ Include(c, actor, "CreateAsset", BaseFee, 0,
                     ExecuteCreateAsset(s, actor, id, metadata),
                     CreateAssetKeys(id))
          /\ used' = used \cup {id}
    BY <1>2, <1>4 DEF CreateAsset
  <2>2. GoodRun(Zeros(c), s)
    BY <1>1
  <2> DEFINE run == ExecuteCreateAsset(s, actor, id, metadata)
  <2>3. /\ used' \in SUBSET TxIDs /\ used \subseteq used'
        /\ run.ok => id \in used'
        /\ UNCHANGED <<sent, received>>
    BY <1>2, <1>4, <2>1 DEF CreateAsset
  <2>4. "CreateAsset" \in ActionKinds
    BY DEF ActionKinds
  <2> HIDE DEF s
  <2>6. s.db.assets[id] = Missing
    BY <2>1, ChargedGood DEF IInv, FreshIds, s
  <2>5. /\ GoodRun(Zeros(c), run) /\ Effect(s, run, {id})
        /\ run.keys \subseteq s.keys \cup CreateAssetKeys(id)
    BY <2>2, <2>6, CreateAssetGood
  <2> QED
    BY <2>1, <2>3, <2>4, <2>5, LocalStep DEF s
<1>5. ASSUME NEW c \in Chains, NEW actor \in Accounts, MintAsset(c, actor) PROVE IInv'
  <2> DEFINE s == Charged(c, actor, BaseFee)
  <2>1. PICK to \in Accounts, asset \in Named, value \in Values :
          /\ Include(c, actor, "MintAsset", BaseFee, 0,
                     ExecuteMintAsset(s, actor, to, asset, value),
                     MintAssetKeys(to, asset))
    BY <1>2, <1>5 DEF MintAsset
  <2>2. GoodRun(Zeros(c), s)
    BY <1>1
  <2> DEFINE run == ExecuteMintAsset(s, actor, to, asset, value)
  <2>3. used' \in SUBSET TxIDs /\ used' = used /\ UNCHANGED <<sent, received>>
    BY <1>2, <1>5, <2>1 DEF MintAsset
  <2>4. "MintAsset" \in ActionKinds
    BY DEF ActionKinds
  <2> HIDE DEF s
  <2>5. /\ GoodRun(Zeros(c), run) /\ Effect(s, run, {})
        /\ run.keys \subseteq s.keys \cup MintAssetKeys(to, asset)
    BY <2>2, MintAssetGood
  <2> QED
    BY <2>1, <2>3, <2>4, <2>5, LocalStep DEF s
<1>6. ASSUME NEW c \in Chains, NEW actor \in Accounts, BurnAsset(c, actor) PROVE IInv'
  <2> DEFINE s == Charged(c, actor, BaseFee)
  <2>1. PICK asset \in Named, value \in Values :
          /\ Include(c, actor, "BurnAsset", BaseFee, 0,
                     ExecuteBurnAsset(s, actor, asset, value),
                     BurnAssetKeys(actor, asset))
    BY <1>2, <1>6 DEF BurnAsset
  <2>2. GoodRun(Zeros(c), s)
    BY <1>1
  <2> DEFINE run == ExecuteBurnAsset(s, actor, asset, value)
  <2>3. used' \in SUBSET TxIDs /\ used' = used /\ UNCHANGED <<sent, received>>
    BY <1>2, <1>6, <2>1 DEF BurnAsset
  <2>4. "BurnAsset" \in ActionKinds
    BY DEF ActionKinds
  <2> HIDE DEF s
  <2>5. /\ GoodRun(Zeros(c), run) /\ Effect(s, run, {})
        /\ run.keys \subseteq s.keys \cup BurnAssetKeys(actor, asset)
    BY <2>2, BurnAssetGood
  <2> QED
    BY <2>1, <2>3, <2>4, <2>5, LocalStep DEF s
<1>7. ASSUME NEW c \in Chains, NEW actor \in Accounts, ModifyAsset(c, actor) PROVE IInv'
  <2> DEFINE s == Charged(c, actor, BaseFee)
  <2>1. PICK asset \in Named, owner \in PublicKeys, metadata \in Metadata :
          /\ Include(c, actor, "ModifyAsset", BaseFee, 0,
                     ExecuteModifyAsset(s, actor, asset, owner, metadata),
                     ModifyAssetKeys(asset))
    BY <1>2, <1>7 DEF ModifyAsset
  <2>2. GoodRun(Zeros(c), s)
    BY <1>1
  <2> DEFINE run == ExecuteModifyAsset(s, actor, asset, owner, metadata)
  <2>3. used' \in SUBSET TxIDs /\ used' = used /\ UNCHANGED <<sent, received>>
    BY <1>2, <1>7, <2>1 DEF ModifyAsset
  <2>4. "ModifyAsset" \in ActionKinds
    BY DEF ActionKinds
  <2> HIDE DEF s
  <2>5. /\ GoodRun(Zeros(c), run) /\ Effect(s, run, {})
        /\ run.keys \subseteq s.keys \cup ModifyAssetKeys(asset)
    BY <2>2, ModifyAssetGood
  <2> QED
    BY <2>1, <2>3, <2>4, <2>5, LocalStep DEF s
<1>8. ASSUME NEW c \in Chains, NEW actor \in Accounts, CreateOrder(c, actor) PROVE IInv'
  <2> DEFINE s == Charged(c, actor, BaseFee)
  <2>1. PICK id \in TxIDs \ used, in \in Named, out \in Named, inTick \in Ticks, outTick \in Ticks, supply \in Values :
          /\ Include(c, actor, "CreateOrder", BaseFee, 0,
                     ExecuteCreateOrder(s, actor, id, in, inTick, out, outTick, supply),
                     CreateOrderKeys(actor, id, out))
          /\ used' = IF ExecuteCreateOrder(s, actor, id, in, inTick, out, outTick, supply).ok
                     THEN used \cup {id} ELSE used
    BY <1>2, <1>8 DEF CreateOrder
  <2>2. GoodRun(Zeros(c), s)
    BY <1>1
  <2> DEFINE run == ExecuteCreateOrder(s, actor, id, in, inTick, out, outTick, supply)
  <2>3. /\ used' \in SUBSET TxIDs /\ used \subseteq used'
        /\ run.ok => id \in used'
        /\ UNCHANGED <<sent, received>>
    BY <1>2, <1>8, <2>1 DEF CreateOrder
  <2>4. "CreateOrder" \in ActionKinds
    BY DEF ActionKinds
  <2> HIDE DEF s
  <2>6. s.db.orders[id] = Missing
    BY <2>1, ChargedGood DEF IInv, FreshIds, s
  <2>7. /\ id \in TxIDs /\ in \in AssetIDs /\ out \in AssetIDs
        /\ inTick \in Amount /\ outTick \in Amount /\ supply \in Amount
    OBVIOUS
  <2>5. /\ GoodRun(Zeros(c), run) /\ Effect(s, run, {id})
        /\ run.keys \subseteq s.keys \cup CreateOrderKeys(actor, id, out)
    <3>1. run = ExecuteCreateOrder(s, actor, id, in, inTick, out, outTick, supply)
      OBVIOUS
    <3> DEFINE z == Zeros(c)
    <3>2. GoodRun(z, s) /\ actor \in Accounts
      BY <2>2
    <3> HIDE DEF run, z
    <3>3. GoodRun(z, run) /\ Effect(s, run, {id})
          /\ run.keys \subseteq s.keys \cup CreateOrderKeys(actor, id, out)
      <4>1. \A r : r = ExecuteCreateOrder(s, actor, id, in, inTick, out, outTick, supply) =>
                    /\ GoodRun(z, r) /\ Effect(s, r, {id})
                    /\ r.keys \subseteq s.keys \cup CreateOrderKeys(actor, id, out)
        BY <2>6, <2>7, <3>2, CreateOrderGood
      <4> QED
        BY <3>1, <4>1
    <3> QED
      BY <3>3 DEF z
  <2> QED
    BY <2>1, <2>3, <2>4, <2>5, LocalStep DEF s
<1>9. ASSUME NEW c \in Chains, NEW actor \in Accounts, FillOrder(c, actor) PROVE IInv'
  <2> DEFINE s == Charged(c, actor, BaseFee + TradeFee)
  <2>1. PICK id \in TxIDs, owner \in Accounts, in \in Named, out \in Named, value \in Values :
          /\ Include(c, actor, "FillOrder", BaseFee + TradeFee, TradeFee,
                     ExecuteFillOrder(s, actor, id, owner, in, out, value),
                     FillOrderKeys(actor, id, owner, in, out))
    BY <1>2, <1>9 DEF FillOrder
  <2>2. GoodRun(Zeros(c), s)
    BY <1>1
  <2> DEFINE run == ExecuteFillOrder(s, actor, id, owner, in, out, value)
  <2>3. used' \in SUBSET TxIDs /\ used' = used /\ UNCHANGED <<sent, received>>
    BY <1>2, <1>9, <2>1 DEF FillOrder
  <2>4. "FillOrder" \in ActionKinds
    BY DEF ActionKinds
  <2> HIDE DEF s
  <2>5. /\ GoodRun(Zeros(c), run) /\ Effect(s, run, {})
        /\ run.keys \subseteq s.keys \cup FillOrderKeys(actor, id, owner, in, out)
    BY <2>2, FillOrderGood
  <2> QED
    BY <2>1, <2>3, <2>4, <2>5, LocalStep DEF s
<1>10. ASSUME NEW c \in Chains, NEW actor \in Accounts, CloseOrder(c, actor) PROVE IInv'
  <2> DEFINE s == Charged(c, actor, BaseFee)
  <2>1. PICK id \in TxIDs, out \in Named :
          /\ Include(c, actor, "CloseOrder", BaseFee, 0,
                     ExecuteCloseOrder(s, actor, id, out),
                     CloseOrderKeys(actor, id, out))
    BY <1>2, <1>10 DEF CloseOrder
  <2>2. GoodRun(Zeros(c), s)
    BY <1>1
  <2> DEFINE run == ExecuteCloseOrder(s, actor, id, out)
  <2>3. used' \in SUBSET TxIDs /\ used' = used /\ UNCHANGED <<sent, received>>
    BY <1>2, <1>10, <2>1 DEF CloseOrder
  <2>4. "CloseOrder" \in ActionKinds
    BY DEF ActionKinds
  <2> HIDE DEF s
  <2>5. /\ GoodRun(Zeros(c), run) /\ Effect(s, run, {})
        /\ run.keys \subseteq s.keys \cup CloseOrderKeys(actor, id, out)
    BY <2>2, CloseOrderGood
  <2> QED
    BY <2>1, <2>3, <2>4, <2>5, LocalStep DEF s
<1>11. ASSUME NEW c \in Chains, NEW actor \in Accounts, ExportAsset(c, actor) PROVE IInv'
  <2> DEFINE s == Charged(c, actor, BaseFee)
  <2>1. PICK id \in TxIDs \ used, e \in Exports :
          LET run == ExecuteExportAsset(s, actor, e)
          IN  /\ ValidSwapParams(e.value, e.swapIn, e.assetOut, e.swapOut, e.swapExpiry)
              /\ Include(c, actor, "ExportAsset", BaseFee, 0, run,
                         ExportAssetKeys(actor, e))
              /\ used' = IF run.ok THEN used \cup {id} ELSE used
              /\ sent' = IF run.ok
                         THEN sent \cup {WarpTransfer(s.db, c, id, e)}
                         ELSE sent
    BY <1>11 DEF ExportAsset
  <2> DEFINE run == ExecuteExportAsset(s, actor, e)
             m   == WarpTransfer(s.db, c, id, e)
  <2>2. GoodRun(Zeros(c), s) /\ e \in ExportRequest
    BY <1>1, ExportsType
  <2>3. "ExportAsset" \in ActionKinds
    BY DEF ActionKinds
  <2> HIDE DEF s
  <2>4. /\ GoodRun(Zeros(c), run) /\ Effect(s, run, {})
        /\ run.keys \subseteq s.keys \cup ExportAssetKeys(actor, e)
        /\ run.ok => MessageOK(m)
    BY <2>1, <2>2, ExportAssetGood
  <2>5. /\ used' = IF run.ok THEN used \cup {id} ELSE used
        /\ sent' = IF run.ok THEN sent \cup {m} ELSE sent
        /\ received' = received
    BY <1>11, <2>1 DEF ExportAsset
  <2>6. Include(c, actor, "ExportAsset", BaseFee, 0, run, ExportAssetKeys(actor, e))
    BY <2>1
  <2> HIDE DEF run, m
  <2>7. /\ db' \in [Chains -> DB] /\ \A d \in Chains : Sound(Zeros(d), db'[d])
        /\ fees' \in [Chains -> Nat] /\ undeclared' = {} /\ last' \in Receipt /\ now' \in Time
    BY <2>3, <2>4, <2>6, IncludeStep DEF s
  <2>8. /\ used' \in SUBSET TxIDs
        /\ \A x \in sent' : MessageOK(x)
        /\ received' \in [Chains -> SUBSET Message]
    BY <1>2, <2>4, <2>5 DEF IInv, TypeOK
  <2>9. Conservation' /\ FreshIds'
    BY <2>4, <2>5, <2>6, IncludeBooks DEF s
  <2> QED
    BY <2>7, <2>8, <2>9, StepIInv
<1>12. ASSUME NEW c \in Chains, NEW actor \in Accounts, ImportAsset(c, actor) PROVE IInv'
  <2> DEFINE s == Charged(c, actor, BaseFee)
  <2>1. PICK m \in sent, fill \in BOOLEAN :
          LET verified == m.dest = c /\ m \notin received[c]
              run == ExecuteImportAsset(s, actor, m, fill, now, verified)
          IN  /\ Include(c, actor, "ImportAsset", BaseFee, 0, run,
                         ImportAssetKeys(actor, m, fill))
              /\ received' = IF run.ok THEN [received EXCEPT ![c] = @ \cup {m}]
                                       ELSE received
    BY <1>12 DEF ImportAsset
  <2> DEFINE verified == m.dest = c /\ m \notin received[c]
             run == ExecuteImportAsset(s, actor, m, fill, now, verified)
  <2>2. GoodRun(Zeros(c), s) /\ MessageOK(m) /\ now \in Time
    BY <1>1 DEF IInv, TypeOK
  <2>3. "ImportAsset" \in ActionKinds
    BY DEF ActionKinds
  <2>4. Include(c, actor, "ImportAsset", BaseFee, 0, run, ImportAssetKeys(actor, m, fill))
    BY <2>1
  <2>5. /\ UNCHANGED <<used, sent>>
        /\ received' = IF run.ok THEN [received EXCEPT ![c] = @ \cup {m}] ELSE received
    BY <1>12, <2>1 DEF ImportAsset
  <2>6. verified \in BOOLEAN
    OBVIOUS
  <2> HIDE DEF s, verified
  <2>7. /\ GoodRun(Zeros(c), run) /\ Effect(s, run, {})
        /\ run.keys \subseteq s.keys \cup ImportAssetKeys(actor, m, fill)
    BY <2>2, <2>6, ImportAssetGood
  <2> HIDE DEF run
  <2>8. /\ db' \in [Chains -> DB] /\ \A d \in Chains : Sound(Zeros(d), db'[d])
        /\ fees' \in [Chains -> Nat] /\ undeclared' = {} /\ last' \in Receipt /\ now' \in Time
    BY <2>3, <2>4, <2>7, IncludeStep DEF s
  <2>9. /\ used' \in SUBSET TxIDs
        /\ \A x \in sent' : MessageOK(x)
        /\ received' \in [Chains -> SUBSET Message]
    BY <1>2, <2>2, <2>5 DEF IInv, TypeOK, MessageOK
  <2>10. Conservation' /\ FreshIds'
    BY <2>4, <2>5, <2>7, IncludeBooks DEF s
  <2> QED
    BY <2>8, <2>9, <2>10, StepIInv
<1>13. CASE Tick
  <2>1. now' \in Time
    BY <1>13, TokenVMAssumption DEF Tick, IInv, TypeOK, Time
  <2> QED
    BY <1>13, <2>1 DEF Tick, IInv, TypeOK, OnlyDeclaredKeys, FreshIds, Conservation
<1>14. CASE UNCHANGED vars
  BY <1>14 DEF vars, IInv, TypeOK, OnlyDeclaredKeys, FreshIds, Conservation
<1> QED
  BY <1>3, <1>4, <1>5, <1>6, <1>7, <1>8, <1>9, <1>10, <1>11, <1>12, <1>13, <1>14 DEF Next

-----------------------------------------------------------------------------
\* In every reachable state the inductive invariant holds.
THEOREM Invariance == Spec => []IInv
BY InitIInv, NextIInv, PTL DEF Spec

\* What an order holds fits on top of any balance of the same asset, as long as
\* no more is held, locked and lent than exists.
LEMMA OrderFits ==
  ASSUME NEW d \in DB, NEW pk \in PublicKeys, NEW id \in TxIDs,
         d.orders[id] # Missing,
         NEW a, a = d.orders[id].out, a \in AssetIDs, Gone(d, a) >= 0
  PROVE  GetBalance(d, pk, a) + d.orders[id].remaining <= MaxUint64
<1>1. /\ Holdings(d, a) \in [PublicKeys -> Nat] /\ IsFiniteSet(PublicKeys)
      /\ Locks(d, a) \in [TxIDs -> Nat] /\ IsFiniteSet(TxIDs)
  BY SummandsType, PublicKeysFinite, StorageAssumption
<1>2. Holdings(d, a)[pk] <= Total(Holdings(d, a))
  BY <1>1, TotalBound
<1>3. Locks(d, a)[id] <= Total(Locks(d, a))
  BY <1>1, TotalBound
<1>4. GetBalance(d, pk, a) <= Held(d, a) /\ GetBalance(d, pk, a) \in Nat
  BY <1>1, <1>2 DEF Held, Holdings
<1>5. d.orders[id].remaining <= Locked(d, a) /\ d.orders[id].remaining \in Nat
  BY <1>1, <1>3 DEF Locked, Locks, LockedIn
<1>6. Supply(d, a) <= MaxUint64
  BY StorageAssumption DEF Supply, SupplyOf, DB, Asset, Amount
<1>7. /\ Supply(d, a) \in Nat
      /\ Held(d, a) \in Nat /\ Locked(d, a) \in Nat /\ Lent(d, a) \in Nat
  BY GoneType
<1>8. Held(d, a) + Locked(d, a) <= Supply(d, a)
  BY <1>7 DEF Gone
<1> HIDE DEF Holdings, Locks
<1> QED
  BY <1>4, <1>5, <1>6, <1>7, <1>8, StorageAssumption

\* Writing or deleting an order leaves the balances alone.
LEMMA SetOrderBalances ==
  ASSUME NEW s \in Run, NEW id \in TxIDs, NEW record,
         s.ok => record \in Order \cup {Missing},
         NEW r, r = SetOrder(s, id, record)
  PROVE  r \in Run /\ r.ok = s.ok /\ (r.ok => r.db.bal = s.db.bal)
<1>1. /\ r \in Run /\ r.ok = s.ok /\ (~r.ok => r = s)
      /\ r.ok => /\ r.db.orders = [s.db.orders EXCEPT ![id] = record]
                 /\ r.db.bal = s.db.bal
                 /\ r.db.assets = s.db.assets
                 /\ r.db.loans = s.db.loans
      /\ r.keys \subseteq s.keys \cup {OrderKey(id)}
  BY SetOrderRun
<1> QED
  BY <1>1

\* A sound state with balanced books lets the owner of an order close it.
LEMMA CloseSucceeds ==
  ASSUME NEW Z, NEW d, Sound(Z, d), NEW id \in TxIDs, d.orders[id] # Missing,
         NEW o, o = d.orders[id], Gone(d, o.out) >= 0
  PROVE  ExecuteCloseOrder(Begin(d), o.owner, id, o.out).ok
<1> DEFINE s       == Begin(d)
           t       == Touch(s, OrderKey(id))
           matched == Require(t, o # Missing /\ o.owner = o.owner /\ o.out = o.out)
           deleted == SetOrder(matched, id, Missing)
<1>1. d \in DB /\ o \in Order /\ o.owner \in PublicKeys /\ o.out \in AssetIDs
  BY DEF Sound, DB, Order
<1>2. s \in Run /\ s.ok /\ s.db = d
  BY <1>1 DEF Begin, Run
<1>3. ExecuteCloseOrder(s, o.owner, id, o.out)
        = AddBalance(deleted, o.owner, o.out, o.remaining)
  BY <1>2 DEF ExecuteCloseOrder
<1> HIDE DEF s
<1>4. t \in Run /\ t.ok /\ t.db = d
  BY <1>2, OrderKeyType, TouchRun
<1> HIDE DEF t
<1>5. matched \in Run /\ matched.ok /\ matched.db = d
  BY <1>4 DEF Require, Run
<1> HIDE DEF matched
<1>6. deleted \in Run /\ deleted.ok /\ deleted.db.bal = d.bal
  <2>1. deleted = SetOrder(matched, id, Missing)
    OBVIOUS
  <2> HIDE DEF deleted
  <2> QED
    BY <1>5, <2>1, SetOrderBalances
<1> HIDE DEF deleted
<1>7. o.remaining \in Nat
  BY <1>1, StorageAssumption DEF Order, Amount
<1>8. GetBalance(deleted.db, o.owner, o.out) = GetBalance(d, o.owner, o.out)
  BY <1>6 DEF GetBalance
<1>9. GetBalance(d, o.owner, o.out) + o.remaining <= MaxUint64
  BY <1>1, OrderFits
<1>10. AddBalance(deleted, o.owner, o.out, o.remaining).ok
  <2> DEFINE new == GetBalance(deleted.db, o.owner, o.out) + o.remaining
             r   == AddBalance(deleted, o.owner, o.out, o.remaining)
  <2>1. deleted.ok /\ new <= MaxUint64
    BY <1>6, <1>8, <1>9
  <2>3. /\ r = AddBalance(deleted, o.owner, o.out, o.remaining)
        /\ new = GetBalance(deleted.db, o.owner, o.out) + o.remaining
    OBVIOUS
  <2> HIDE DEF r, new
  <2>4. deleted.ok => o.remaining \in Nat
    BY <1>7
  <2>5. o.owner \in PublicKeys /\ o.out \in AssetIDs /\ deleted \in Run
    BY <1>1, <1>6
  <2>2. /\ r \in Run
        /\ deleted.ok /\ new <= MaxUint64 => r.ok
        /\ r.db = IF r.ok THEN SetBal(deleted.db, <<o.owner, o.out>>, new) ELSE deleted.db
    BY <2>3, <2>4, <2>5, AddBalanceRun
  <2> QED
    BY <2>1, <2>2 DEF r
<1> QED
  BY <1>3, <1>10 DEF s

\* Every variable holds values of its kind: no amount ever exceeds the
\* largest uint64, and every message names an asset by its id at home.
THEOREM TypeCorrect == Spec => []TypeOK
<1>1. IInv => TypeOK
  BY DEF IInv
<1> QED
  BY <1>1, Invariance, PTL

\* Every open order has a price without a zero and holds a positive number
\* of whole blocks, whatever was filled of it before.
THEOREM OrdersStayWellFormed == Spec => []OrdersWellFormed
<1>1. IInv => OrdersWellFormed
  BY DEF IInv, Sound, OrdersOK, OrdersWellFormed
<1> QED
  BY <1>1, Invariance, PTL

\* An asset is a warp asset exactly when its id is derived from another
\* chain's, and its metadata names that asset.
THEOREM WarpAssetsStayIdentified == Spec => []WarpAssetsIdentified
<1>1. IInv => WarpAssetsIdentified
  BY DEF IInv, Sound, WarpOK, WarpRecordOK, WarpAssetsIdentified
<1> QED
  BY <1>1, Invariance, PTL

\* No loan of zero is ever on record, and no balance of zero but those the
\* genesis stored.
THEOREM NoRecordIsEmpty == Spec => []NoEmptyRecords
<1>1. IInv => NoEmptyRecords
  <2> SUFFICES ASSUME IInv, NEW c \in Chains
               PROVE  /\ \A pk \in PublicKeys, a \in AssetIDs :
                           db[c].bal[<<pk, a>>] = 0 =>
                             a = Native /\ GenesisBalance(c, pk) = 0
                      /\ \A k \in AssetIDs \X Chains : db[c].loans[k] # 0
    BY DEF NoEmptyRecords
  <2>1. NoEmpty(Zeros(c), db[c])
    BY DEF IInv, Sound
  <2>2. ASSUME NEW pk \in PublicKeys, NEW a \in AssetIDs, db[c].bal[<<pk, a>>] = 0
        PROVE  a = Native /\ GenesisBalance(c, pk) = 0
    <3>1. <<pk, a>> \in Zeros(c)
      BY <2>1, <2>2 DEF NoEmpty
    <3> QED
      BY <3>1 DEF Zeros
  <2> QED
    BY <2>1, <2>2 DEF NoEmpty
<1> QED
  BY <1>1, Invariance, PTL

\* Nothing is ever created or lost but by minting, burning and paying fees:
\* what exists of an asset is held, locked in orders or lent.
THEOREM NothingIsLost == Spec => []Conservation
<1>1. IInv => Conservation
  BY DEF IInv
<1> QED
  BY <1>1, Invariance, PTL

\* Whatever was filled of an order, and whatever its owner holds meanwhile, he
\* can take back what is left: the credit of CloseOrder never overflows.
THEOREM OrdersStayClosable == Spec => []OrdersCanBeClosed
<1>1. IInv => OrdersCanBeClosed
  <2> SUFFICES ASSUME IInv, NEW c \in Chains, NEW id \in TxIDs,
                      NEW o, o = db[c].orders[id], o # Missing
               PROVE  ExecuteCloseOrder(Begin(db[c]), o.owner, id, o.out).ok
    BY DEF OrdersCanBeClosed
  <2>1. Sound(Zeros(c), db[c])
    BY DEF IInv
  <2>2. o.out \in AssetIDs
    BY <2>1 DEF Sound, DB, Order
  <2>3. Gone(db[c], o.out) >= 0
    <3>1. fees[c] \in Nat /\ GenesisLost(c) \in Nat
      BY GenesisLostType DEF IInv, TypeOK
    <3>2. Gone(db[c], o.out) = IF o.out = Native THEN fees[c] + GenesisLost(c) ELSE 0
      BY <2>2 DEF IInv, Conservation
    <3> QED
      BY <3>1, <3>2
  <2> QED
    BY <2>1, <2>3, CloseSucceeds
<1> QED
  BY <1>1, Invariance, PTL

\* No handler touches a state key it has not declared.
THEOREM KeysAreDeclared == Spec => []OnlyDeclaredKeys
<1>1. IInv => OnlyDeclaredKeys
  BY DEF IInv
<1> QED
  BY <1>1, Invariance, PTL
=============================================================================
