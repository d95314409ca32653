--------------------------- MODULE Network_proofs ---------------------------
(***************************************************************************)
(* What a transaction may never do: the action properties of TokenVM, the  *)
(* orders of a chain as an implementation of Market, the bridge between    *)
(* two chains, and what the commands of the wallet let through.            *)
(***************************************************************************)
EXTENDS Trading, Wallet, TokenVM_proofs

-----------------------------------------------------------------------------
\* A transaction as seen from outside.

\* A transaction on chain c: it changes the state of no other chain.
Step(c, actor, kind) ==
  /\ last'.chain = c /\ last'.actor = actor /\ last'.kind = kind
  /\ \A x \in Chains : x # c => db'[x] = db[x]

\* A transaction of which nothing remains but the fee.
Idle(c) ==
  /\ OnlyBalances(db[c], db'[c])
  /\ \A q \in PublicKeys, b \in AssetIDs : Net(c, q, b) = 0

\* A transaction whose action took over in state d, the fee paid.
Paid(c, d) ==
  /\ d \in DB /\ OnlyBalances(db[c], d)
  /\ \A q \in PublicKeys, b \in AssetIDs :
       /\ GetBalance(d, q, b) \in Int
       /\ Net(c, q, b) = GetBalance(db'[c], q, b) - GetBalance(d, q, b)

\* The fee leaves the balance of the signer and no other record.
LEMMA ChargedEntry ==
  ASSUME IInv, NEW c \in Chains, NEW actor \in Accounts, NEW fee \in Nat,
         CanDeduct(db[c], actor, fee), NEW s, s = Charged(c, actor, fee)
  PROVE  /\ GoodRun(Zeros(c), s) /\ s.ok /\ OnlyBalances(db[c], s.db)
         /\ \A q \in PublicKeys, b \in AssetIDs :
              GetBalance(s.db, q, b) = GetBalance(db[c], q, b) + At(q, b, actor, Native, -fee)
<1> DEFINE b0 == Begin(db[c])
<1>1. b0 \in Run /\ b0.ok /\ b0.db = db[c]
  BY DEF IInv, Begin, Run, Sound
<1>2. actor \in PublicKeys /\ Native \in AssetIDs
  BY DEF PublicKeys, AssetIDs, LocalIDs
<1>3. s = SubBalance(b0, actor, Native, fee)
  BY DEF Charged, Deduct
<1>4. GoodRun(Zeros(c), s) /\ s.ok
  BY ChargedGood
<1> HIDE DEF b0
<1>5. /\ OnlyBalances(b0.db, s.db)
      /\ s.ok => \A q \in PublicKeys, b \in AssetIDs :
                   GetBalance(s.db, q, b)
                     = GetBalance(b0.db, q, b) + At(q, b, actor, Native, -fee)
  BY <1>1, <1>2, <1>3, SubBalanceEntry
<1> QED
  BY <1>1, <1>4, <1>5

\* The refund returns to the balance of the signer and to no other record.
LEMMA RefundEntry ==
  ASSUME IInv, NEW c \in Chains, NEW actor \in Accounts, NEW fee \in Nat,
         NEW refund \in Nat, refund <= fee,
         NEW s, s = Charged(c, actor, fee), s.ok,
         NEW r, r = Refund(s, actor, refund)
  PROVE  /\ OnlyBalances(s.db, r.db)
         /\ \A q \in PublicKeys, b \in AssetIDs :
              GetBalance(r.db, q, b) = GetBalance(s.db, q, b) + At(q, b, actor, Native, refund)
<1>1. GoodRun(Zeros(c), s) /\ s \in Run /\ s.db \in DB
  BY ChargedGood DEF GoodRun, Run
<1>2. actor \in PublicKeys /\ Native \in AssetIDs
  BY DEF PublicKeys, AssetIDs, LocalIDs
<1>3. CASE refund > 0
  <2>1. r = AddBalance(s, actor, Native, refund)
    BY <1>3 DEF Refund
  <2>2. GetBalance(s.db, actor, Native) = GetBalance(db[c], actor, Native) - fee
    BY ChargedFlow
  <2>3. GetBalance(db[c], actor, Native) \in Amount
    BY <1>2, GetBalanceType DEF IInv, Sound
  <2>4. GetBalance(s.db, actor, Native) + refund <= MaxUint64
    BY <2>2, <2>3, StorageAssumption DEF Amount
  <2>5. r.ok
    <3> DEFINE new == GetBalance(s.db, actor, Native) + refund
    <3>1. s.ok /\ new <= MaxUint64 /\ new = GetBalance(s.db, actor, Native) + refund
      BY <2>4
    <3> HIDE DEF new
    <3>2. /\ r \in Run
          /\ s.ok /\ new <= MaxUint64 => r.ok
          /\ r.db = IF r.ok THEN SetBal(s.db, <<actor, Native>>, new) ELSE s.db
      BY <1>1, <1>2, <2>1, <3>1, AddBalanceRun
    <3> QED
      BY <3>1, <3>2
  <2> QED
    BY <1>1, <1>2, <2>1, <2>5, AddBalanceEntry
<1>4. CASE ~(refund > 0)
  <2>1. r = s /\ refund = 0
    BY <1>4 DEF Refund
  <2>2. \A q \in PublicKeys, b \in AssetIDs : GetBalance(s.db, q, b) \in Int
    BY <1>1, GetBalanceType, StorageAssumption DEF Amount
  <2> QED
    BY <2>1, <2>2 DEF OnlyBalances, At
<1> QED
  BY <1>3, <1>4

\* What a transaction does is what its action does to the run that was
\* charged, or, when the action fails, nothing.
LEMMA IncludeEntry ==
  ASSUME IInv, NEW c \in Chains, NEW actor \in Accounts, NEW kind,
         NEW fee \in Nat, NEW refund \in Nat, refund <= fee,
         NEW run, run \in Run, NEW declared,
         Include(c, actor, kind, fee, refund, run, declared),
         NEW s, s = Charged(c, actor, fee)
  PROVE  /\ GoodRun(Zeros(c), s) /\ s \in Run /\ s.ok /\ OnlyBalances(db[c], s.db)
         /\ Step(c, actor, kind)
         /\ run.ok => db'[c] = run.db /\ Paid(c, s.db)
         /\ ~run.ok => Idle(c)
<1> DEFINE failed == Refund(s, actor, refund)
           final  == IF run.ok THEN run ELSE failed
<1>1. /\ GoodRun(Zeros(c), s) /\ s.ok /\ OnlyBalances(db[c], s.db)
      /\ \A q \in PublicKeys, b \in AssetIDs :
           GetBalance(s.db, q, b) = GetBalance(db[c], q, b) + At(q, b, actor, Native, -fee)
  BY ChargedEntry DEF Include
<1>2. /\ OnlyBalances(s.db, failed.db)
      /\ \A q \in PublicKeys, b \in AssetIDs :
           GetBalance(failed.db, q, b)
             = GetBalance(s.db, q, b) + At(q, b, actor, Native, refund)
  BY <1>1, RefundEntry
<1>3. /\ db' = [db EXCEPT ![c] = final.db]
      /\ fees' = [fees EXCEPT ![c] = fees[c] + fee - (IF run.ok THEN 0 ELSE refund)]
      /\ last' = [chain |-> c, actor |-> actor, kind |-> kind, ok |-> run.ok]
  BY DEF Include
<1>4. db \in [Chains -> DB] /\ fees \in [Chains -> Nat] /\ db[c] \in DB /\ fees[c] \in Nat
  BY DEF IInv, TypeOK
<1> HIDE DEF failed
<1>5. /\ db'[c] = final.db
      /\ fees'[c] - fees[c] = fee - (IF run.ok THEN 0 ELSE refund)
      /\ last'.actor = actor
  BY <1>3, <1>4
<1>6. Step(c, actor, kind)
  BY <1>3, <1>4 DEF Step
<1>7. /\ s \in Run /\ run.db \in DB
      /\ \A q \in PublicKeys, b \in AssetIDs : GetBalance(s.db, q, b) \in Int
      /\ s.db \in DB
  BY <1>1, GetBalanceType, StorageAssumption DEF GoodRun, Run, Amount
<1> HIDE DEF final
<1>8. \A q \in PublicKeys, b \in AssetIDs :
        /\ GetBalance(db[c], q, b) \in Int /\ GetBalance(run.db, q, b) \in Int
        /\ Net(c, q, b) = GetBalance(final.db, q, b) - GetBalance(db[c], q, b)
             + At(q, b, actor, Native, fee - (IF run.ok THEN 0 ELSE refund))
  <2>1. ASSUME NEW d \in DB, NEW q \in PublicKeys, NEW b \in AssetIDs
        PROVE  GetBalance(d, q, b) \in Int
    BY GetBalanceType, StorageAssumption DEF Amount
  <2>2. ASSUME NEW q \in PublicKeys, NEW b \in AssetIDs
        PROVE  Net(c, q, b) = GetBalance(final.db, q, b) - GetBalance(db[c], q, b)
                 + At(q, b, actor, Native, fee - (IF run.ok THEN 0 ELSE refund))
    BY <1>5 DEF Net, At
  <2> QED
    BY <1>4, <1>7, <2>1, <2>2
<1>9. CASE run.ok
  <2>1. final = run
    BY <1>9 DEF final
  <2>2. ASSUME NEW q \in PublicKeys, NEW b \in AssetIDs
        PROVE  Net(c, q, b) = GetBalance(run.db, q, b) - GetBalance(s.db, q, b)
    <3>1. Net(c, q, b) = GetBalance(run.db, q, b) - GetBalance(db[c], q, b)
                           + At(q, b, actor, Native, fee - 0)
      BY <1>8, <1>9, <2>1
    <3>2. GetBalance(s.db, q, b) = GetBalance(db[c], q, b) + At(q, b, actor, Native, -fee)
      BY <1>1
    <3> QED
      BY <1>8, <3>1, <3>2 DEF At
  <2> QED
    BY <1>1, <1>5, <1>6, <1>7, <1>9, <2>1, <2>2 DEF Paid
<1>10. CASE ~run.ok
  <2>1. final = failed
    BY <1>10 DEF final
  <2>2. ASSUME NEW q \in PublicKeys, NEW b \in AssetIDs
        PROVE  Net(c, q, b) = 0
    <3>1. Net(c, q, b) = GetBalance(failed.db, q, b) - GetBalance(db[c], q, b)
                           + At(q, b, actor, Native, fee - refund)
      BY <1>8, <1>10, <2>1
    <3>2. GetBalance(s.db, q, b) = GetBalance(db[c], q, b) + At(q, b, actor, Native, -fee)
      BY <1>1
    <3>3. GetBalance(failed.db, q, b)
            = GetBalance(s.db, q, b) + At(q, b, actor, Native, refund)
      BY <1>2
    <3> QED
      BY <1>8, <3>1, <3>2, <3>3 DEF At
  <2>3. OnlyBalances(db[c], db'[c])
    BY <1>1, <1>2, <1>5, <2>1 DEF OnlyBalances
  <2> QED
    BY <1>1, <1>6, <1>7, <1>10, <2>2, <2>3 DEF Idle
<1> QED
  BY <1>9, <1>10

\* The same, in terms of the state that was charged.
LEMMA IncludeOutcome ==
  ASSUME IInv, NEW c \in Chains, NEW actor \in Accounts, NEW kind,
         NEW fee \in Nat, NEW refund \in Nat, refund <= fee,
         NEW run \in Run, NEW declared,
         Include(c, actor, kind, fee, refund, run, declared)
  PROVE  /\ Charged(c, actor, fee) \in Run
         /\ Step(c, actor, kind)
         /\ run.ok => db'[c] = run.db /\ Paid(c, Charged(c, actor, fee).db)
         /\ ~run.ok => Idle(c)
<1> DEFINE s == Charged(c, actor, fee)
<1>1. s = Charged(c, actor, fee) /\ run \in Run
  OBVIOUS
<1> HIDE DEF s
<1>2. /\ s \in Run
      /\ Step(c, actor, kind)
      /\ run.ok => db'[c] = run.db /\ Paid(c, s.db)
      /\ ~run.ok => Idle(c)
  BY <1>1, IncludeEntry
<1> QED
  BY <1>1, <1>2

-----------------------------------------------------------------------------
\* The actions, seen from outside.

\* A transfer moves an amount from the signer to the recipient.
LEMMA TransferStep ==
  ASSUME IInv, NEW c \in Chains, NEW actor \in Accounts, Transfer(c, actor)
  PROVE  /\ Step(c, actor, "Transfer")
         /\ \/ Idle(c) /\ UNCHANGED <<used, sent, received>>
            \/ \E d : /\ Paid(c, d)
                      /\ UNCHANGED <<used, sent, received>>
                      /\ \E to \in PublicKeys, asset \in AssetIDs, value \in Nat :
                           Transferred(d, db'[c], actor, to, asset, value)
<1> DEFINE s == Charged(c, actor, BaseFee)
<1>1. PICK to \in Recipients, asset \in Named, value \in Values :
        Include(c, actor, "Transfer", BaseFee, 0,
                ExecuteTransfer(s, actor, to, asset, value),
                TransferKeys(actor, to, asset))
  BY DEF Transfer
<1> DEFINE run == ExecuteTransfer(s, actor, to, asset, value)
           declared == TransferKeys(actor, to, asset)
<1>2. /\ to \in PublicKeys /\ asset \in AssetIDs /\ value \in Amount /\ value \in Nat
      /\ actor \in PublicKeys /\ BaseFee \in Nat /\ 0 \in Nat /\ 0 <= BaseFee
  BY Inputs, StorageAssumption DEF Amount
<1>3. /\ Include(c, actor, "Transfer", BaseFee, 0, run, declared)
      /\ s = Charged(c, actor, BaseFee)
  BY <1>1
<1>4. GoodRun(Zeros(c), s) /\ s.db.assets = db[c].assets /\ s.db.orders = db[c].orders
  BY <1>2, ChargedGood
<1> HIDE DEF s
<1>5. run = ExecuteTransfer(s, actor, to, asset, value)
  OBVIOUS
<1>6. run \in Run
  BY <1>2, <1>4, TransferGood DEF GoodRun
<1>7. UNCHANGED <<used, sent, received>>
  BY <1>1 DEF Transfer
<1> HIDE DEF run, declared
<1>8. /\ s \in Run /\ Step(c, actor, "Transfer")
      /\ run.ok => db'[c] = run.db /\ Paid(c, s.db)
      /\ ~run.ok => Idle(c)
  BY <1>2, <1>3, <1>6, IncludeOutcome
<1>9. CASE run.ok
  <2>1. Transferred(s.db, run.db, actor, to, asset, value)
    BY <1>2, <1>4, <1>5, <1>8, <1>9, TransferEntry
  <2> QED
    BY <1>2, <1>7, <1>8, <1>9, <2>1
<1>10. CASE ~run.ok
  BY <1>7, <1>8, <1>10
<1> QED
  BY <1>9, <1>10

\* A creation records an asset under an id never used before.
LEMMA CreateAssetStep ==
  ASSUME IInv, NEW c \in Chains, NEW actor \in Accounts, CreateAsset(c, actor)
  PROVE  /\ Step(c, actor, "CreateAsset")
         /\ \/ Idle(c) /\ used \subseteq used' /\ UNCHANGED <<sent, received>>
            \/ \E d : /\ Paid(c, d)
                      /\ used \subseteq used' /\ UNCHANGED <<sent, received>>
                      /\ \E id \in TxIDs \ used, metadata \in Metadata :
                           AssetCreated(d, db'[c], actor, id, metadata)
<1> DEFINE s == Charged(c, actor, BaseFee)
<1>1. PICK id \in TxIDs \ used, metadata \in Metadata :
        /\ Include(c, actor, "CreateAsset", BaseFee, 0,
                   ExecuteCreateAsset(s, actor, id, metadata), CreateAssetKeys(id))
        /\ used' = used \cup {id}
  BY DEF CreateAsset
<1> DEFINE run == ExecuteCreateAsset(s, actor, id, metadata)
           declared == CreateAssetKeys(id)
<1>2. /\ id \in TxIDs /\ metadata \in Metadata
      /\ actor \in PublicKeys /\ BaseFee \in Nat /\ 0 \in Nat /\ 0 <= BaseFee
  BY Inputs, StorageAssumption DEF Amount
<1>3. /\ Include(c, actor, "CreateAsset", BaseFee, 0, run, declared)
      /\ s = Charged(c, actor, BaseFee)
  BY <1>1
<1>4. GoodRun(Zeros(c), s) /\ s.db.assets = db[c].assets /\ s.db.orders = db[c].orders
  BY <1>2, ChargedGood
<1> HIDE DEF s
<1>11. s.db.assets[id] = Missing
  BY <1>2, <1>4 DEF IInv, FreshIds
<1>5. run = ExecuteCreateAsset(s, actor, id, metadata)
  OBVIOUS
<1>6. run \in Run
  BY <1>2, <1>4, <1>11, CreateAssetGood DEF GoodRun
<1>7. used \subseteq used' /\ UNCHANGED <<sent, received>>
  BY <1>1 DEF CreateAsset
<1> HIDE DEF run, declared
<1>8. /\ s \in Run /\ Step(c, actor, "CreateAsset")
      /\ run.ok => db'[c] = run.db /\ Paid(c, s.db)
      /\ ~run.ok => Idle(c)
  BY <1>2, <1>3, <1>6, IncludeOutcome
<1>9. CASE run.ok
  <2>1. AssetCreated(s.db, run.db, actor, id, metadata)
    BY <1>2, <1>4, <1>5, <1>8, <1>9, CreateAssetEntry
  <2> QED
    BY <1>2, <1>7, <1>8, <1>9, <2>1
<1>10. CASE ~run.ok
  BY <1>7, <1>8, <1>10
<1> QED
  BY <1>9, <1>10

\* Only the owner of an asset of this chain mints it.
LEMMA MintAssetStep ==
  ASSUME IInv, NEW c \in Chains, NEW actor \in Accounts, MintAsset(c, actor)
  PROVE  /\ Step(c, actor, "MintAsset")
         /\ \/ Idle(c) /\ UNCHANGED <<used, sent, received>>
            \/ \E d : /\ Paid(c, d)
                      /\ UNCHANGED <<used, sent, received>>
                      /\ \E to \in PublicKeys, asset \in AssetIDs, value \in Nat :
                           Minted(d, db'[c], actor, to, asset, value)
<1> DEFINE s == Charged(c, actor, BaseFee)
<1>1. PICK to \in Accounts, asset \in Named, value \in Values :
        Include(c, actor, "MintAsset", BaseFee, 0,
                ExecuteMintAsset(s, actor, to, asset, value),
                MintAssetKeys(to, asset))
  BY DEF MintAsset
<1> DEFINE run == ExecuteMintAsset(s, actor, to, asset, value)
           declared == MintAssetKeys(to, asset)
<1>2. /\ to \in PublicKeys /\ asset \in AssetIDs /\ value \in Amount /\ value \in Nat
      /\ actor \in PublicKeys /\ BaseFee \in Nat /\ 0 \in Nat /\ 0 <= BaseFee
  BY Inputs, StorageAssumption DEF Amount
<1>3. /\ Include(c, actor, "MintAsset", BaseFee, 0, run, declared)
      /\ s = Charged(c, actor, BaseFee)
  BY <1>1
<1>4. GoodRun(Zeros(c), s) /\ s.db.assets = db[c].assets /\ s.db.orders = db[c].orders
  BY <1>2, ChargedGood
<1> HIDE DEF s
<1>5. run = ExecuteMintAsset(s, actor, to, asset, value)
  OBVIOUS
<1>6. run \in Run
  BY <1>2, <1>4, MintAssetGood DEF GoodRun
<1>7. UNCHANGED <<used, sent, received>>
  BY <1>1 DEF MintAsset
<1> HIDE DEF run, declared
<1>8. /\ s \in Run /\ Step(c, actor, "MintAsset")
      /\ run.ok => db'[c] = run.db /\ Paid(c, s.db)
      /\ ~run.ok => Idle(c)
  BY <1>2, <1>3, <1>6, IncludeOutcome
<1>9. CASE run.ok
  <2>1. Minted(s.db, run.db, actor, to, asset, value)
    BY <1>2, <1>4, <1>5, <1>8, <1>9, MintAssetEntry
  <2> QED
    BY <1>2, <1>7, <1>8, <1>9, <2>1
<1>10. CASE ~run.ok
  BY <1>7, <1>8, <1>10
<1> QED
  BY <1>9, <1>10

\* Anybody burns what is his.
LEMMA BurnAssetStep ==
  ASSUME IInv, NEW c \in Chains, NEW actor \in Accounts, BurnAsset(c, actor)
  PROVE  /\ Step(c, actor, "BurnAsset")
         /\ \/ Idle(c) /\ UNCHANGED <<used, sent, received>>
            \/ \E d : /\ Paid(c, d)
                      /\ UNCHANGED <<used, sent, received>>
                      /\ \E asset \in AssetIDs, value \in Nat : Burned(d, db'[c], actor, asset, value)
<1> DEFINE s == Charged(c, actor, BaseFee)
<1>1. PICK asset \in Named, value \in Values :
        Include(c, actor, "BurnAsset", BaseFee, 0,
                ExecuteBurnAsset(s, actor, asset, value),
                BurnAssetKeys(actor, asset))
  BY DEF BurnAsset
<1> DEFINE run == ExecuteBurnAsset(s, actor, asset, value)
           declared == BurnAssetKeys(actor, asset)
<1>2. /\ asset \in AssetIDs /\ value \in Amount /\ value \in Nat
      /\ actor \in PublicKeys /\ BaseFee \in Nat /\ 0 \in Nat /\ 0 <= BaseFee
  BY Inputs, StorageAssumption DEF Amount
<1>3. /\ Include(c, actor, "BurnAsset", BaseFee, 0, run, declared)
      /\ s = Charged(c, actor, BaseFee)
  BY <1>1
<1>4. GoodRun(Zeros(c), s) /\ s.db.assets = db[c].assets /\ s.db.orders = db[c].orders
  BY <1>2, ChargedGood
<1> HIDE DEF s
<1>5. run = ExecuteBurnAsset(s, actor, asset, value)
  OBVIOUS
<1>6. run \in Run
  BY <1>2, <1>4, BurnAssetGood DEF GoodRun
<1>7. UNCHANGED <<used, sent, received>>
  BY <1>1 DEF BurnAsset
<1> HIDE DEF run, declared
<1>8. /\ s \in Run /\ Step(c, actor, "BurnAsset")
      /\ run.ok => db'[c] = run.db /\ Paid(c, s.db)
      /\ ~run.ok => Idle(c)
  BY <1>2, <1>3, <1>6, IncludeOutcome
<1>9. CASE run.ok
  <2>1. Burned(s.db, run.db, actor, asset, value)
    BY <1>2, <1>4, <1>5, <1>8, <1>9, BurnAssetEntry
  <2> QED
    BY <1>2, <1>7, <1>8, <1>9, <2>1
<1>10. CASE ~run.ok
  BY <1>7, <1>8, <1>10
<1> QED
  BY <1>9, <1>10

\* Only the owner of an asset of this chain modifies it.
LEMMA ModifyAssetStep ==
  ASSUME IInv, NEW c \in Chains, NEW actor \in Accounts, ModifyAsset(c, actor)
  PROVE  /\ Step(c, actor, "ModifyAsset")
         /\ \/ Idle(c) /\ UNCHANGED <<used, sent, received>>
            \/ \E d : /\ Paid(c, d)
                      /\ UNCHANGED <<used, sent, received>>
                      /\ \E asset \in AssetIDs, owner \in PublicKeys, metadata \in Metadata :
                           Modified(d, db'[c], actor, asset, owner, metadata)
<1> DEFINE s == Charged(c, actor, BaseFee)
<1>1. PICK asset \in Named, owner \in PublicKeys, metadata \in Metadata :
        Include(c, actor, "ModifyAsset", BaseFee, 0,
                ExecuteModifyAsset(s, actor, asset, owner, metadata),
                ModifyAssetKeys(asset))
  BY DEF ModifyAsset
<1> DEFINE run == ExecuteModifyAsset(s, actor, asset, owner, metadata)
           declared == ModifyAssetKeys(asset)
<1>2. /\ asset \in AssetIDs /\ owner \in PublicKeys /\ metadata \in Metadata
      /\ actor \in PublicKeys /\ BaseFee \in Nat /\ 0 \in Nat /\ 0 <= BaseFee
  BY Inputs, StorageAssumption DEF Amount
<1>3. /\ Include(c, actor, "ModifyAsset", BaseFee, 0, run, declared)
      /\ s = Charged(c, actor, BaseFee)
  BY <1>1
<1>4. GoodRun(Zeros(c), s) /\ s.db.assets = db[c].assets /\ s.db.orders = db[c].orders
  BY <1>2, ChargedGood
<1> HIDE DEF s
<1>5. run = ExecuteModifyAsset(s, actor, asset, owner, metadata)
  OBVIOUS
<1>6. run \in Run
  BY <1>2, <1>4, ModifyAssetGood DEF GoodRun
<1>7. UNCHANGED <<used, sent, received>>
  BY <1>1 DEF ModifyAsset
<1> HIDE DEF run, declared
<1>8. /\ s \in Run /\ Step(c, actor, "ModifyAsset")
      /\ run.ok => db'[c] = run.db /\ Paid(c, s.db)
      /\ ~run.ok => Idle(c)
  BY <1>2, <1>3, <1>6, IncludeOutcome
<1>9. CASE run.ok
  <2>1. Modified(s.db, run.db, actor, asset, owner, metadata)
    BY <1>2, <1>4, <1>5, <1>8, <1>9, ModifyAssetEntry
  <2> QED
    BY <1>2, <1>7, <1>8, <1>9, <2>1
<1>10. CASE ~run.ok
  BY <1>7, <1>8, <1>10
<1> QED
  BY <1>9, <1>10

\* A new order has an id never used before, and the id is used up.
LEMMA CreateOrderStep ==
  ASSUME IInv, NEW c \in Chains, NEW actor \in Accounts, CreateOrder(c, actor)
  PROVE  /\ Step(c, actor, "CreateOrder")
         /\ \/ Idle(c) /\ UNCHANGED <<used, sent, received>>
            \/ \E d : /\ Paid(c, d)
                      /\ UNCHANGED <<sent, received>>
                      /\ \E id \in TxIDs \ used, in, out \in Named, inTick, outTick \in Ticks,
                           supply \in Values :
                           /\ Offered(d, db'[c], actor, id, in, inTick, out, outTick, supply)
                           /\ used' = used \cup {id}
<1> DEFINE s == Charged(c, actor, BaseFee)
<1>1. PICK id \in TxIDs \ used, in \in Named, out \in Named, inTick \in Ticks,
           outTick \in Ticks, supply \in Values :
        /\ Include(c, actor, "CreateOrder", BaseFee, 0,
                   ExecuteCreateOrder(s, actor, id, in, inTick, out, outTick, supply),
                   CreateOrderKeys(actor, id, out))
        /\ used' = IF ExecuteCreateOrder(s, actor, id, in, inTick, out, outTick, supply).ok
                   THEN used \cup {id} ELSE used
  BY DEF CreateOrder
<1> DEFINE run == ExecuteCreateOrder(s, actor, id, in, inTick, out, outTick, supply)
           declared == CreateOrderKeys(actor, id, out)
<1>2. /\ id \in TxIDs /\ in \in AssetIDs /\ out \in AssetIDs
      /\ inTick \in Amount /\ outTick \in Amount /\ supply \in Amount
      /\ actor \in PublicKeys /\ BaseFee \in Nat /\ 0 \in Nat /\ 0 <= BaseFee
  BY Inputs, StorageAssumption DEF Amount
<1>3. /\ Include(c, actor, "CreateOrder", BaseFee, 0, run, declared)
      /\ s = Charged(c, actor, BaseFee)
  BY <1>1
<1>4. GoodRun(Zeros(c), s) /\ s.db.assets = db[c].assets /\ s.db.orders = db[c].orders
  BY <1>2, ChargedGood
<1> HIDE DEF s
<1>11. s.db.orders[id] = Missing
  BY <1>2, <1>4 DEF IInv, FreshIds
<1>5. run = ExecuteCreateOrder(s, actor, id, in, inTick, out, outTick, supply)
  OBVIOUS
<1>6. run \in Run
  BY <1>2, <1>4, <1>11, CreateOrderGood DEF GoodRun
<1>7. /\ used' = IF run.ok THEN used \cup {id} ELSE used
      /\ UNCHANGED <<sent, received>>
  BY <1>1 DEF CreateOrder
<1> HIDE DEF run, declared
<1>8. /\ s \in Run /\ Step(c, actor, "CreateOrder")
      /\ run.ok => db'[c] = run.db /\ Paid(c, s.db)
      /\ ~run.ok => Idle(c)
  BY <1>2, <1>3, <1>6, IncludeOutcome
<1>9. CASE run.ok
  <2>1. Offered(s.db, run.db, actor, id, in, inTick, out, outTick, supply)
    BY <1>2, <1>4, <1>5, <1>8, <1>9, CreateOrderEntry
  <2> QED
    BY <1>2, <1>7, <1>8, <1>9, <2>1
<1>10. CASE ~run.ok
  BY <1>7, <1>8, <1>10
<1> QED
  BY <1>9, <1>10

\* A fill trades with an order at its price.
LEMMA FillOrderStep ==
  ASSUME IInv, NEW c \in Chains, NEW actor \in Accounts, FillOrder(c, actor)
  PROVE  /\ Step(c, actor, "FillOrder")
         /\ \/ Idle(c) /\ UNCHANGED <<used, sent, received>>
            \/ \E d : /\ Paid(c, d)
                      /\ UNCHANGED <<used, sent, received>>
                      /\ \E id \in TxIDs, value \in Amount : Filled(d, db'[c], actor, id, value)
<1> DEFINE s == Charged(c, actor, BaseFee + TradeFee)
<1>1. PICK id \in TxIDs, owner \in Accounts, in \in Named, out \in Named, value \in Values :
        Include(c, actor, "FillOrder", BaseFee + TradeFee, TradeFee,
                ExecuteFillOrder(s, actor, id, owner, in, out, value),
                FillOrderKeys(actor, id, owner, in, out))
  BY DEF FillOrder
<1> DEFINE run == ExecuteFillOrder(s, actor, id, owner, in, out, value)
           declared == FillOrderKeys(actor, id, owner, in, out)
<1>2. /\ id \in TxIDs /\ owner \in PublicKeys /\ in \in AssetIDs /\ out \in AssetIDs
      /\ value \in Amount
      /\ actor \in PublicKeys /\ BaseFee + TradeFee \in Nat /\ TradeFee \in Nat /\ TradeFee <= BaseFee + TradeFee
  BY Inputs, StorageAssumption DEF Amount
<1>3. /\ Include(c, actor, "FillOrder", BaseFee + TradeFee, TradeFee, run, declared)
      /\ s = Charged(c, actor, BaseFee + TradeFee)
  BY <1>1
<1>4. GoodRun(Zeros(c), s) /\ s.db.assets = db[c].assets /\ s.db.orders = db[c].orders
  BY <1>2, ChargedGood
<1> HIDE DEF s
<1>5. run = ExecuteFillOrder(s, actor, id, owner, in, out, value)
  OBVIOUS
<1>6. run \in Run
  BY <1>2, <1>4, FillOrderGood DEF GoodRun
<1>7. UNCHANGED <<used, sent, received>>
  BY <1>1 DEF FillOrder
<1> HIDE DEF run, declared
<1>8. /\ s \in Run /\ Step(c, actor, "FillOrder")
      /\ run.ok => db'[c] = run.db /\ Paid(c, s.db)
      /\ ~run.ok => Idle(c)
  BY <1>2, <1>3, <1>6, IncludeOutcome
<1>9. CASE run.ok
  <2>1. Filled(s.db, run.db, actor, id, value)
    BY <1>2, <1>4, <1>5, <1>8, <1>9, FillOrderEntry
  <2> QED
    BY <1>2, <1>7, <1>8, <1>9, <2>1
<1>10. CASE ~run.ok
  BY <1>7, <1>8, <1>10
<1> QED
  BY <1>9, <1>10

\* A close gives what is left of an order back to its owner, the signer.
LEMMA CloseOrderStep ==
  ASSUME IInv, NEW c \in Chains, NEW actor \in Accounts, CloseOrder(c, actor)
  PROVE  /\ Step(c, actor, "CloseOrder")
         /\ \/ Idle(c) /\ UNCHANGED <<used, sent, received>>
            \/ \E d : /\ Paid(c, d)
                      /\ UNCHANGED <<used, sent, received>>
                      /\ \E id \in TxIDs : TakenBack(d, db'[c], actor, id)
<1> DEFINE s == Charged(c, actor, BaseFee)
<1>1. PICK id \in TxIDs, out \in Named :
        Include(c, actor, "CloseOrder", BaseFee, 0,
                ExecuteCloseOrder(s, actor, id, out),
                CloseOrderKeys(actor, id, out))
  BY DEF CloseOrder
<1> DEFINE run == ExecuteCloseOrder(s, actor, id, out)
           declared == CloseOrderKeys(actor, id, out)
<1>2. /\ id \in TxIDs /\ out \in AssetIDs
      /\ actor \in PublicKeys /\ BaseFee \in Nat /\ 0 \in Nat /\ 0 <= BaseFee
  BY Inputs, StorageAssumption DEF Amount
<1>3. /\ Include(c, actor, "CloseOrder", BaseFee, 0, run, declared)
      /\ s = Charged(c, actor, BaseFee)
  BY <1>1
<1>4. GoodRun(Zeros(c), s) /\ s.db.assets = db[c].assets /\ s.db.orders = db[c].orders
  BY <1>2, ChargedGood
<1> HIDE DEF s
<1>5. run = ExecuteCloseOrder(s, actor, id, out)
  OBVIOUS
<1>6. run \in Run
  BY <1>2, <1>4, CloseOrderGood DEF GoodRun
<1>7. UNCHANGED <<used, sent, received>>
  BY <1>1 DEF CloseOrder
<1> HIDE DEF run, declared
<1>8. /\ s \in Run /\ Step(c, actor, "CloseOrder")
      /\ run.ok => db'[c] = run.db /\ Paid(c, s.db)
      /\ ~run.ok => Idle(c)
  BY <1>2, <1>3, <1>6, IncludeOutcome
<1>9. CASE run.ok
  <2>1. TakenBack(s.db, run.db, actor, id)
    BY <1>2, <1>4, <1>5, <1>8, <1>9, CloseOrderEntry
  <2> QED
    BY <1>2, <1>7, <1>8, <1>9, <2>1
<1>10. CASE ~run.ok
  BY <1>7, <1>8, <1>10
<1> QED
  BY <1>9, <1>10

\* An export sends a message under an id never used before. An asset of this
\* chain is lent, an asset of the destination is retired.
LEMMA ExportAssetStep ==
  ASSUME IInv, NEW c \in Chains, NEW actor \in Accounts, ExportAsset(c, actor)
  PROVE  /\ Step(c, actor, "ExportAsset")
         /\ \/ Idle(c) /\ UNCHANGED <<used, sent, received>>
            \/ \E d : /\ Paid(c, d) /\ received' = received
                      /\ \E id \in TxIDs \ used, x \in ExportRequest : \E m :
                           /\ m = WarpTransfer(d, c, id, x) /\ MessageOK(m) /\ x.value # 0
                           /\ used' = used \cup {id} /\ sent' = sent \cup {m}
                           /\ IF x.return THEN SentHome(d, db'[c], actor, x)
                                          ELSE SentAway(d, db'[c], actor, x)
<1> DEFINE s == Charged(c, actor, BaseFee)
<1>1. PICK id \in TxIDs \ used, x \in Exports :
        LET run == ExecuteExportAsset(s, actor, x)
        IN  /\ ValidSwapParams(x.value, x.swapIn, x.assetOut, x.swapOut, x.swapExpiry)
            /\ Include(c, actor, "ExportAsset", BaseFee, 0, run, ExportAssetKeys(actor, x))
            /\ used' = IF run.ok THEN used \cup {id} ELSE used
            /\ sent' = IF run.ok THEN sent \cup {WarpTransfer(s.db, c, id, x)} ELSE sent
  BY DEF ExportAsset
<1> DEFINE run == ExecuteExportAsset(s, actor, x)
           declared == ExportAssetKeys(actor, x)
           m == WarpTransfer(s.db, c, id, x)
           valid == Require(s, x.value # 0)
<1>2. /\ id \in TxIDs \ used /\ x \in ExportRequest
      /\ actor \in PublicKeys /\ BaseFee \in Nat /\ 0 \in Nat /\ 0 <= BaseFee
  BY Inputs, ExportsType
<1>3. /\ Include(c, actor, "ExportAsset", BaseFee, 0, run, declared)
      /\ s = Charged(c, actor, BaseFee)
  BY <1>1
<1>4. GoodRun(Zeros(c), s)
  BY <1>2, ChargedGood
<1> HIDE DEF s
<1>5. run = IF x.return THEN ExportReturn(valid, actor, x) ELSE ExportLoan(valid, actor, x)
  BY DEF ExecuteExportAsset
<1>6. /\ run \in Run
      /\ run.ok => MessageOK(m)
  BY <1>1, <1>2, <1>4, ExportAssetGood DEF GoodRun
<1>7. /\ used' = IF run.ok THEN used \cup {id} ELSE used
      /\ sent' = IF run.ok THEN sent \cup {m} ELSE sent
      /\ received' = received
  BY <1>1 DEF ExportAsset
<1>8. m = WarpTransfer(s.db, c, id, x)
  OBVIOUS
<1> HIDE DEF run, declared, m
<1>9. /\ s \in Run /\ Step(c, actor, "ExportAsset")
      /\ run.ok => db'[c] = run.db /\ Paid(c, s.db)
      /\ ~run.ok => Idle(c)
  BY ZenonT(60), <1>2, <1>3, <1>6, IncludeOutcome
<1>10. CASE run.ok
  <2>1. /\ GoodRun(Zeros(c), valid) /\ valid \in Run
        /\ valid.db = s.db /\ (valid.ok => x.value # 0)
    BY <1>4, <1>9, RequireRun DEF GoodRun
  <2> HIDE DEF valid
  <2>4. /\ x.value # 0
        /\ IF x.return THEN SentHome(s.db, run.db, actor, x)
                       ELSE SentAway(s.db, run.db, actor, x)
    <3>1. x.return \in BOOLEAN
      BY <1>2 DEF ExportRequest
    <3>2. CASE x.return
      <4>1. run = ExportReturn(valid, actor, x)
        BY <1>5, <3>2
      <4>2. valid.ok /\ SentHome(valid.db, run.db, actor, x)
        BY <1>2, <1>10, <2>1, <4>1, ExportReturnEntry
      <4> QED
        BY <2>1, <3>2, <4>2
    <3>3. CASE ~x.return
      <4>1. run = ExportLoan(valid, actor, x)
        BY <1>5, <3>3
      <4>2. valid.ok /\ SentAway(valid.db, run.db, actor, x)
        BY <1>2, <1>10, <2>1, <4>1, ExportLoanEntry
      <4> QED
        BY <2>1, <3>3, <4>2
    <3> QED
      BY <3>2, <3>3
  <2> QED
    BY <1>2, <1>6, <1>7, <1>8, <1>9, <1>10, <2>4
<1>11. CASE ~run.ok
  BY <1>7, <1>9, <1>11
<1> QED
  BY <1>10, <1>11

\* An import takes a message that was sent to this chain and that it has not
\* imported: what comes home repays the loan, what comes from another chain is
\* minted.  Then its swap is filled, or there is none, or it has expired.
LEMMA ImportAssetStep ==
  ASSUME IInv, NEW c \in Chains, NEW actor \in Accounts, ImportAsset(c, actor)
  PROVE  /\ Step(c, actor, "ImportAsset") /\ UNCHANGED <<used, sent>>
         /\ \/ Idle(c) /\ received' = received
            \/ \E d : /\ Paid(c, d)
                      /\ \E m \in sent : \E mid :
                           /\ m.dest = c /\ m \notin received[c]
                           /\ received' = [received EXCEPT ![c] = received[c] \cup {m}]
                           /\ IF m.return THEN CameHome(d, mid, actor, m)
                                          ELSE Arrived(d, mid, actor, m)
                           /\ \/ db'[c] = mid
                              \/ m.swapIn # 0 /\ Swapped(mid, db'[c], actor, m)
<1> DEFINE s == Charged(c, actor, BaseFee)
<1>1. PICK m \in sent, fill \in BOOLEAN :
        LET verified == m.dest = c /\ m \notin received[c]
            run == ExecuteImportAsset(s, actor, m, fill, now, verified)
        IN  /\ Include(c, actor, "ImportAsset", BaseFee, 0, run,
                       ImportAssetKeys(actor, m, fill))
            /\ received' = IF run.ok THEN [received EXCEPT ![c] = @ \cup {m}]
                                     ELSE received
  BY DEF ImportAsset
<1> DEFINE verified == m.dest = c /\ m \notin received[c]
           run == ExecuteImportAsset(s, actor, m, fill, now, verified)
           declared == ImportAssetKeys(actor, m, fill)
           valid == Require(s, verified /\ m.value # 0)
           imported == IF m.return THEN ImportReturn(valid, actor, m)
                                   ELSE ImportMint(valid, actor, m)
<1>2. /\ MessageOK(m) /\ m \in Message /\ now \in Time
      /\ actor \in PublicKeys /\ BaseFee \in Nat /\ 0 \in Nat /\ 0 <= BaseFee
  BY Inputs DEF IInv, TypeOK, MessageOK
<1>3. /\ Include(c, actor, "ImportAsset", BaseFee, 0, run, declared)
      /\ s = Charged(c, actor, BaseFee)
  BY <1>1
<1>4. GoodRun(Zeros(c), s)
  BY <1>2, ChargedGood
<1>5. /\ UNCHANGED <<used, sent>>
      /\ received' = IF run.ok THEN [received EXCEPT ![c] = received[c] \cup {m}] ELSE received
  BY <1>1 DEF ImportAsset
<1> HIDE DEF s
<1>6. run = IF m.swapIn = 0 THEN imported
            ELSE IF fill    THEN FillSwap(imported, actor, m)
            ELSE Require(imported, m.swapExpiry <= now)
  BY DEF ExecuteImportAsset
<1>7. verified \in BOOLEAN /\ (verified <=> m.dest = c /\ m \notin received[c])
  OBVIOUS
<1> HIDE DEF verified
<1>8. run \in Run
  BY <1>2, <1>4, <1>7, ImportAssetGood DEF GoodRun
<1> HIDE DEF run, declared
<1>9. /\ s \in Run /\ Step(c, actor, "ImportAsset")
      /\ run.ok => db'[c] = run.db /\ Paid(c, s.db)
      /\ ~run.ok => Idle(c)
  BY SMTT(30), <1>2, <1>3, <1>8, IncludeOutcome
<1>10. CASE run.ok
  <2>1. valid \in Run /\ valid.db = s.db /\ (valid.ok => verified /\ m.value # 0)
    BY <1>9, RequireRun
  <2>2. valid.ok => s.ok
    BY <1>9, RequireRun
  <2>3. GoodRun(Zeros(c), valid) /\ (valid.ok => m.value # 0)
    BY <1>4, <2>1, <2>2 DEF GoodRun
  <2> HIDE DEF valid
  <2>4. imported \in Run
    <3>1. ImportReturn(valid, actor, m) \in Run
      BY <1>2, <2>3, ImportReturnGood DEF GoodRun
    <3>2. ImportMint(valid, actor, m) \in Run
      BY <1>2, <2>3, ImportMintGood DEF GoodRun
    <3> QED
      BY <3>1, <3>2
  <2>5. imported.ok => /\ verified
                       /\ IF m.return THEN CameHome(s.db, imported.db, actor, m)
                                      ELSE Arrived(s.db, imported.db, actor, m)
    <3> SUFFICES ASSUME imported.ok
                 PROVE  /\ valid.ok
                        /\ IF m.return THEN CameHome(valid.db, imported.db, actor, m)
                                       ELSE Arrived(valid.db, imported.db, actor, m)
      BY <2>1
    <3>1. CASE m.return
      <4>1. imported = ImportReturn(valid, actor, m)
        BY <3>1
      <4> HIDE DEF imported
      <4>2. valid.ok /\ CameHome(valid.db, imported.db, actor, m)
        BY <1>2, <2>1, <4>1, ImportReturnEntry
      <4> QED
        BY <3>1, <4>2
    <3>2. CASE ~m.return
      <4>1. imported = ImportMint(valid, actor, m)
        BY <3>2
      <4> HIDE DEF imported
      <4>2. valid.ok /\ Arrived(valid.db, imported.db, actor, m)
        BY <1>2, <2>1, <4>1, ImportMintEntry
      <4> QED
        BY <3>2, <4>2
    <3> QED
      BY <3>1, <3>2
  <2> HIDE DEF imported
  <2>6. /\ imported.ok
        /\ \/ run.db = imported.db
           \/ m.swapIn # 0 /\ Swapped(imported.db, run.db, actor, m)
    <3>1. CASE m.swapIn = 0
      BY <1>6, <1>10, <3>1
    <3>2. CASE m.swapIn # 0 /\ fill
      <4>1. run = FillSwap(imported, actor, m)
        BY <1>6, <3>2
      <4>2. AssetIn(m) \in AssetIDs
        BY <1>2 DEF Message, AssetIn, ImportedAssetID, AssetIDs, ImportedIDs
      <4>3. imported.ok /\ Swapped(imported.db, run.db, actor, m)
        BY <1>2, <1>10, <2>4, <4>1, <4>2, FillSwapEntry
      <4> QED
        BY <3>2, <4>3
    <3>3. CASE m.swapIn # 0 /\ ~fill
      <4>1. run = Require(imported, m.swapExpiry <= now)
        BY <1>6, <3>3
      <4> QED
        BY <1>10, <2>4, <4>1, RequireRun
    <3> QED
      BY <3>1, <3>2, <3>3
  <2> DEFINE mid == imported.db
  <2>7. /\ m.dest = c /\ m \notin received[c]
        /\ received' = [received EXCEPT ![c] = received[c] \cup {m}]
        /\ IF m.return THEN CameHome(s.db, mid, actor, m) ELSE Arrived(s.db, mid, actor, m)
        /\ db'[c] = mid \/ (m.swapIn # 0 /\ Swapped(mid, db'[c], actor, m))
    BY <1>5, <1>7, <1>9, <1>10, <2>5, <2>6
  <2> HIDE DEF mid
  <2> QED
    BY <1>5, <1>9, <1>10, <2>7
<1>11. CASE ~run.ok
  BY <1>5, <1>9, <1>11
<1> QED
  BY <1>10, <1>11

-----------------------------------------------------------------------------
\* What a step of the network may be.

\* What an action that succeeds does to the state d it finds.
TransferActs(c, actor, d) ==
  /\ UNCHANGED <<used, sent, received>>
  /\ \E to \in PublicKeys, asset \in AssetIDs, value \in Nat :
       Transferred(d, db'[c], actor, to, asset, value)

CreateAssetActs(c, actor, d) ==
  /\ used \subseteq used' /\ UNCHANGED <<sent, received>>
  /\ \E id \in TxIDs \ used, metadata \in Metadata :
       AssetCreated(d, db'[c], actor, id, metadata)

MintAssetActs(c, actor, d) ==
  /\ UNCHANGED <<used, sent, received>>
  /\ \E to \in PublicKeys, asset \in AssetIDs, value \in Nat :
       Minted(d, db'[c], actor, to, asset, value)

BurnAssetActs(c, actor, d) ==
  /\ UNCHANGED <<used, sent, received>>
  /\ \E asset \in AssetIDs, value \in Nat : Burned(d, db'[c], actor, asset, value)

ModifyAssetActs(c, actor, d) ==
  /\ UNCHANGED <<used, sent, received>>
  /\ \E asset \in AssetIDs, owner \in PublicKeys, metadata \in Metadata :
       Modified(d, db'[c], actor, asset, owner, metadata)

CreateOrderActs(c, actor, d) ==
  /\ UNCHANGED <<sent, received>>
  /\ \E id \in TxIDs \ used, in, out \in Named, inTick, outTick \in Ticks,
        supply \in Values :
       /\ Offered(d, db'[c], actor, id, in, inTick, out, outTick, supply)
       /\ used' = used \cup {id}

FillOrderActs(c, actor, d) ==
  /\ UNCHANGED <<used, sent, received>>
  /\ \E id \in TxIDs, value \in Amount : Filled(d, db'[c], actor, id, value)

CloseOrderActs(c, actor, d) ==
  /\ UNCHANGED <<used, sent, received>>
  /\ \E id \in TxIDs : TakenBack(d, db'[c], actor, id)

ExportAssetActs(c, actor, d) ==
  /\ UNCHANGED received
  /\ \E id \in TxIDs \ used, x \in ExportRequest : \E m :
       /\ m = WarpTransfer(d, c, id, x) /\ MessageOK(m) /\ x.value # 0
       /\ used' = used \cup {id} /\ sent' = sent \cup {m}
       /\ IF x.return THEN SentHome(d, db'[c], actor, x)
                 ELSE SentAway(d, db'[c], actor, x)

ImportAssetActs(c, actor, d) ==
  /\ UNCHANGED <<used, sent>>
  /\ \E m \in sent : \E mid :
       /\ m.dest = c /\ m \notin received[c]
       /\ received' = [received EXCEPT ![c] = received[c] \cup {m}]
       /\ IF m.return THEN CameHome(d, mid, actor, m)
                 ELSE Arrived(d, mid, actor, m)
       /\ \/ db'[c] = mid
          \/ m.swapIn # 0 /\ Swapped(mid, db'[c], actor, m)

Acts(c, actor, kind, d) ==
  \/ kind = "Transfer" /\ TransferActs(c, actor, d)
  \/ kind = "CreateAsset" /\ CreateAssetActs(c, actor, d)
  \/ kind = "MintAsset" /\ MintAssetActs(c, actor, d)
  \/ kind = "BurnAsset" /\ BurnAssetActs(c, actor, d)
  \/ kind = "ModifyAsset" /\ ModifyAssetActs(c, actor, d)
  \/ kind = "CreateOrder" /\ CreateOrderActs(c, actor, d)
  \/ kind = "FillOrder" /\ FillOrderActs(c, actor, d)
  \/ kind = "CloseOrder" /\ CloseOrderActs(c, actor, d)
  \/ kind = "ExportAsset" /\ ExportAssetActs(c, actor, d)
  \/ kind = "ImportAsset" /\ ImportAssetActs(c, actor, d)

\* A transaction that is included on chain c.
Transacts(c, actor, kind) ==
  /\ Step(c, actor, kind)
  /\ \/ Idle(c) /\ used \subseteq used' /\ UNCHANGED <<sent, received>>
     \/ \E d : Paid(c, d) /\ Acts(c, actor, kind, d)

Quiet == UNCHANGED <<db, used, sent, received>>

\* Every step is quiet or a transaction with one of these effects.
LEMMA Outcome ==
  ASSUME IInv, [Next]_vars
  PROVE  Quiet \/ \E c \in Chains, actor \in Accounts, kind \in ActionKinds :
                    Transacts(c, actor, kind)
<1>1. CASE Tick \/ UNCHANGED vars
  BY <1>1 DEF Tick, vars, Quiet
<1>2. ASSUME NEW c \in Chains, NEW actor \in Accounts,
             \/ Transfer(c, actor)    \/ CreateAsset(c, actor) \/ MintAsset(c, actor)
             \/ BurnAsset(c, actor)   \/ ModifyAsset(c, actor) \/ CreateOrder(c, actor)
             \/ FillOrder(c, actor)   \/ CloseOrder(c, actor)
             \/ ExportAsset(c, actor) \/ ImportAsset(c, actor)
      PROVE  \E kind \in ActionKinds : Transacts(c, actor, kind)
  <2>1. CASE Transfer(c, actor)
    <3>1. Transacts(c, actor, "Transfer")
      BY <2>1, TransferStep DEF Transacts, Acts, TransferActs
    <3> QED
      BY <3>1 DEF ActionKinds
  <2>2. CASE CreateAsset(c, actor)
    <3>1. Transacts(c, actor, "CreateAsset")
      BY <2>2, CreateAssetStep DEF Transacts, Acts, CreateAssetActs
    <3> QED
      BY <3>1 DEF ActionKinds
  <2>3. CASE MintAsset(c, actor)
    <3>1. Transacts(c, actor, "MintAsset")
      BY <2>3, MintAssetStep DEF Transacts, Acts, MintAssetActs
    <3> QED
      BY <3>1 DEF ActionKinds
  <2>4. CASE BurnAsset(c, actor)
    <3>1. Transacts(c, actor, "BurnAsset")
      BY <2>4, BurnAssetStep DEF Transacts, Acts, BurnAssetActs
    <3> QED
      BY <3>1 DEF ActionKinds
  <2>5. CASE ModifyAsset(c, actor)
    <3>1. Transacts(c, actor, "ModifyAsset")
      BY <2>5, ModifyAssetStep DEF Transacts, Acts, ModifyAssetActs
    <3> QED
      BY <3>1 DEF ActionKinds
  <2>6. CASE CreateOrder(c, actor)
    <3>1. Transacts(c, actor, "CreateOrder")
      BY <2>6, CreateOrderStep DEF Transacts, Acts, CreateOrderActs
    <3> QED
      BY <3>1 DEF ActionKinds
  <2>7. CASE FillOrder(c, actor)
    <3>1. Transacts(c, actor, "FillOrder")
      BY <2>7, FillOrderStep DEF Transacts, Acts, FillOrderActs
    <3> QED
      BY <3>1 DEF ActionKinds
  <2>8. CASE CloseOrder(c, actor)
    <3>1. Transacts(c, actor, "CloseOrder")
      BY <2>8, CloseOrderStep DEF Transacts, Acts, CloseOrderActs
    <3> QED
      BY <3>1 DEF ActionKinds
  <2>9. CASE ExportAsset(c, actor)
    <3>1. Transacts(c, actor, "ExportAsset")
      BY <2>9, ExportAssetStep DEF Transacts, Acts, ExportAssetActs
    <3> QED
      BY <3>1 DEF ActionKinds
  <2>10. CASE ImportAsset(c, actor)
    <3>1. Transacts(c, actor, "ImportAsset")
      BY <2>10, ImportAssetStep DEF Transacts, Acts, ImportAssetActs
    <3> QED
      BY <3>1 DEF ActionKinds
  <2> QED
    BY <1>2, <2>1, <2>2, <2>3, <2>4, <2>5, <2>6, <2>7, <2>8, <2>9, <2>10
<1> QED
  BY <1>1, <1>2 DEF Next

-----------------------------------------------------------------------------
\* OnlySignerPays.

\* Nobody but the signer has less of anything than before.
OthersGain(c, actor) ==
  \A q \in PublicKeys, b \in AssetIDs :
    q # actor => GetBalance(db[c], q, b) <= GetBalance(db'[c], q, b)

\* Fees aside, what a step does to somebody else is what it does to the balance.
LEMMA NetOfOthers ==
  ASSUME IInv, IInv', NEW c \in Chains, NEW actor, NEW kind, Step(c, actor, kind),
         NEW q \in PublicKeys, NEW b \in AssetIDs, q # actor
  PROVE  /\ GetBalance(db[c], q, b) \in Int /\ GetBalance(db'[c], q, b) \in Int
         /\ Net(c, q, b) = GetBalance(db'[c], q, b) - GetBalance(db[c], q, b)
<1>1. db[c] \in DB /\ db'[c] \in DB
  BY DEF IInv, TypeOK
<1>2. GetBalance(db[c], q, b) \in Int /\ GetBalance(db'[c], q, b) \in Int
  BY <1>1, GetBalanceType, StorageAssumption DEF Amount
<1> QED
  BY <1>2 DEF Net, Step

\* A step of which nothing remains takes nothing from others.
LEMMA IdleGains ==
  ASSUME IInv, IInv', NEW c \in Chains, NEW actor, NEW kind, Step(c, actor, kind), Idle(c)
  PROVE  OthersGain(c, actor)
<1> SUFFICES ASSUME NEW q \in PublicKeys, NEW b \in AssetIDs, q # actor
             PROVE  GetBalance(db[c], q, b) <= GetBalance(db'[c], q, b)
  BY DEF OthersGain
<1>1. /\ GetBalance(db[c], q, b) \in Int /\ GetBalance(db'[c], q, b) \in Int
      /\ Net(c, q, b) = GetBalance(db'[c], q, b) - GetBalance(db[c], q, b)
  BY NetOfOthers
<1>2. Net(c, q, b) = 0
  BY DEF Idle
<1> QED
  BY <1>1, <1>2

\* Nobody but the signer has less in state e than in state d.
Gives(d, e, actor) ==
  \A q \in PublicKeys, b \in AssetIDs :
    q # actor => GetBalance(d, q, b) <= GetBalance(e, q, b)

\* The fee takes nothing from others: what the action gives them they gain.
LEMMA PaidGains ==
  ASSUME IInv, IInv', NEW c \in Chains, NEW actor, NEW kind, Step(c, actor, kind),
         NEW d, Paid(c, d), Gives(d, db'[c], actor)
  PROVE  OthersGain(c, actor)
<1> SUFFICES ASSUME NEW q \in PublicKeys, NEW b \in AssetIDs, q # actor
             PROVE  GetBalance(db[c], q, b) <= GetBalance(db'[c], q, b)
  BY DEF OthersGain
<1>1. /\ GetBalance(db[c], q, b) \in Int /\ GetBalance(db'[c], q, b) \in Int
      /\ Net(c, q, b) = GetBalance(db'[c], q, b) - GetBalance(db[c], q, b)
  BY NetOfOthers
<1>2. /\ GetBalance(d, q, b) \in Int
      /\ Net(c, q, b) = GetBalance(db'[c], q, b) - GetBalance(d, q, b)
  BY DEF Paid
<1>3. GetBalance(d, q, b) <= GetBalance(db'[c], q, b)
  BY DEF Gives
<1> QED
  BY <1>1, <1>2, <1>3

\* What an import credits covers what its swap takes from the recipient.
LEMMA ImportGives ==
  ASSUME NEW d, NEW mid, NEW e, NEW actor, NEW m, MessageOK(m),
         \A q \in PublicKeys, b \in AssetIDs : GetBalance(d, q, b) \in Int,
         IF m.return THEN CameHome(d, mid, actor, m) ELSE Arrived(d, mid, actor, m),
         e = mid \/ Swapped(mid, e, actor, m)
  PROVE  Gives(d, e, actor)
<1>1. /\ m.value \in Nat /\ m.reward \in Nat /\ m.swapIn \in Nat /\ m.swapOut \in Nat
      /\ m.swapIn <= m.value
  BY StorageAssumption DEF MessageOK, Message, ValidSwapParams, Amount
<1>2. \A q \in PublicKeys, b \in AssetIDs :
        GetBalance(mid, q, b) = GetBalance(d, q, b)
          + At(q, b, m.to, AssetIn(m), m.value) + At(q, b, actor, AssetIn(m), m.reward)
  BY DEF CameHome, Arrived, AssetIn
<1> SUFFICES ASSUME NEW q \in PublicKeys, NEW b \in AssetIDs, q # actor
             PROVE  GetBalance(d, q, b) <= GetBalance(e, q, b)
  BY DEF Gives
<1>3. CASE e = mid
  BY <1>1, <1>2, <1>3 DEF At
<1>4. CASE Swapped(mid, e, actor, m)
  <2> DEFINE i == AssetIn(m)
             n == GetBalance(d, q, b)
  <2>1. GetBalance(mid, q, b) = n + At(q, b, m.to, i, m.value) + At(q, b, actor, i, m.reward)
    BY <1>2
  <2>2. GetBalance(e, q, b) = GetBalance(mid, q, b)
          + At(q, b, m.to, i, -m.swapIn) + At(q, b, actor, i, m.swapIn)
          + At(q, b, actor, m.assetOut, -m.swapOut) + At(q, b, m.to, m.assetOut, m.swapOut)
    BY <1>4 DEF Swapped
  <2>3. n \in Int
    OBVIOUS
  <2> HIDE DEF i, n
  <2>4. n <= GetBalance(e, q, b)
    BY <1>1, <2>1, <2>2, <2>3 DEF At
  <2> QED
    BY <2>4 DEF n
<1> QED
  BY <1>3, <1>4

\* Transfers, fills and imports give to others, and no other action touches
\* what they hold.
LEMMA ActsGive ==
  ASSUME IInv, NEW c \in Chains, NEW actor \in Accounts, NEW kind, NEW d,
         Paid(c, d), Acts(c, actor, kind, d)
  PROVE  Gives(d, db'[c], actor)
<1> DEFINE e == db'[c]
<1>1. \A q \in PublicKeys, b \in AssetIDs : GetBalance(d, q, b) \in Int
  BY DEF Paid
<1> HIDE DEF e
<1>2. CASE CreateAssetActs(c, actor, d) \/ ModifyAssetActs(c, actor, d)
  <2>1. e.bal = d.bal
    BY <1>2 DEF CreateAssetActs, ModifyAssetActs, AssetCreated, Modified, e
  <2> QED
    BY SMTT(30), <1>1, <2>1 DEF Gives, GetBalance, e
<1>3. CASE TransferActs(c, actor, d)
  <2>1. PICK to \in PublicKeys, asset \in AssetIDs, value \in Nat :
          Transferred(d, e, actor, to, asset, value)
    BY <1>3 DEF TransferActs, e
  <2>2. \A q \in PublicKeys, b \in AssetIDs :
          q # actor => GetBalance(d, q, b) <= GetBalance(e, q, b)
    BY <1>1, <2>1 DEF Transferred, At
  <2> QED
    BY <2>2 DEF Gives, e
<1>4. CASE MintAssetActs(c, actor, d)
  <2>1. PICK to \in PublicKeys, asset \in AssetIDs, value \in Nat :
          Minted(d, e, actor, to, asset, value)
    BY <1>4 DEF MintAssetActs, e
  <2>2. \A q \in PublicKeys, b \in AssetIDs :
          q # actor => GetBalance(d, q, b) <= GetBalance(e, q, b)
    BY <1>1, <2>1 DEF Minted, At
  <2> QED
    BY <2>2 DEF Gives, e
<1>5. CASE BurnAssetActs(c, actor, d)
  <2>1. PICK asset \in AssetIDs, value \in Nat :
          Burned(d, e, actor, asset, value)
    BY <1>5 DEF BurnAssetActs, e
  <2>2. \A q \in PublicKeys, b \in AssetIDs :
          q # actor => GetBalance(d, q, b) <= GetBalance(e, q, b)
    BY <1>1, <2>1 DEF Burned, At
  <2> QED
    BY <2>2 DEF Gives, e
<1>6. CASE CreateOrderActs(c, actor, d)
  <2>1. PICK id \in TxIDs, in \in Named, out \in Named, inTick \in Ticks, outTick \in Ticks,
            supply \in Values :
          Offered(d, e, actor, id, in, inTick, out, outTick, supply)
    BY <1>6 DEF CreateOrderActs, e
  <2>2. \A q \in PublicKeys, b \in AssetIDs :
          q # actor => GetBalance(d, q, b) <= GetBalance(e, q, b)
    BY <1>1, <2>1 DEF Offered, At
  <2> QED
    BY <2>2 DEF Gives, e
<1>7. CASE CloseOrderActs(c, actor, d)
  <2>1. PICK id \in TxIDs :
          TakenBack(d, e, actor, id)
    BY <1>7 DEF CloseOrderActs, e
  <2>2. \A q \in PublicKeys, b \in AssetIDs :
          q # actor => GetBalance(d, q, b) <= GetBalance(e, q, b)
    BY <1>1, <2>1 DEF TakenBack, At
  <2> QED
    BY <2>2 DEF Gives, e
<1>8. CASE FillOrderActs(c, actor, d)
  <2>1. PICK id \in TxIDs, value \in Amount :
          Filled(d, e, actor, id, value)
    BY <1>8 DEF FillOrderActs, e
  <2>2. \A q \in PublicKeys, b \in AssetIDs :
          q # actor => GetBalance(d, q, b) <= GetBalance(e, q, b)
    BY <1>1, <2>1 DEF Filled, At
  <2> QED
    BY <2>2 DEF Gives, e
<1>9. CASE ExportAssetActs(c, actor, d)
  <2>1. PICK x \in ExportRequest : SentHome(d, e, actor, x) \/ SentAway(d, e, actor, x)
    BY <1>9 DEF ExportAssetActs, e
  <2>2. \A q \in PublicKeys, b \in AssetIDs :
          q # actor => GetBalance(d, q, b) <= GetBalance(e, q, b)
    BY <1>1, <2>1 DEF SentHome, SentAway, At
  <2> QED
    BY <2>2 DEF Gives, e
<1>10. CASE ImportAssetActs(c, actor, d)
  <2>1. PICK m \in sent : \E mid :
          /\ IF m.return THEN CameHome(d, mid, actor, m) ELSE Arrived(d, mid, actor, m)
          /\ e = mid \/ Swapped(mid, e, actor, m)
    BY <1>10 DEF ImportAssetActs, e
  <2>2. MessageOK(m)
    BY DEF IInv
  <2>3. PICK mid :
          /\ IF m.return THEN CameHome(d, mid, actor, m) ELSE Arrived(d, mid, actor, m)
          /\ e = mid \/ Swapped(mid, e, actor, m)
    BY <2>1
  <2> QED
    BY <1>1, <2>2, <2>3, ImportGives DEF e
<1> QED
  BY <1>2, <1>3, <1>4, <1>5, <1>6, <1>7, <1>8, <1>9, <1>10 DEF Acts

\* Nobody pays for a transaction he did not sign: neither the recipient whose
\* swap an import fills nor the owner of an order that is filled has less of
\* anything afterwards.
THEOREM SignerPaysAlone == Spec => OnlySignerPays
<1>1. IInv /\ IInv' /\ [Next]_vars => SignerPays
  <2> SUFFICES ASSUME IInv, IInv', [Next]_vars,
                      NEW x \in Chains, NEW pk \in PublicKeys, NEW a \in AssetIDs,
                      GetBalance(db'[x], pk, a) < GetBalance(db[x], pk, a)
               PROVE  last'.chain = x /\ last'.actor = pk
    BY DEF SignerPays
  <2>1. GetBalance(db[x], pk, a) \in Int /\ GetBalance(db'[x], pk, a) \in Int
    BY GetBalanceType, StorageAssumption DEF IInv, TypeOK, Amount
  <2>2. ~Quiet
    BY <2>1 DEF Quiet
  <2>3. PICK c \in Chains, actor \in Accounts, kind \in ActionKinds : Transacts(c, actor, kind)
    BY <2>2, Outcome
  <2>4. Step(c, actor, kind)
    BY <2>3 DEF Transacts
  <2>5. x = c
    BY <2>1, <2>4 DEF Step
  <2>6. OthersGain(c, actor)
    BY <2>3, <2>4, IdleGains, ActsGive, PaidGains DEF Transacts
  <2>7. pk = actor
    BY <2>1, <2>5, <2>6 DEF OthersGain
  <2> QED
    BY <2>4, <2>5, <2>7 DEF Step
<1>2. IInv /\ [Next]_vars => IInv'
  BY NextIInv
<1> QED
  BY <1>1, <1>2, Invariance, PTL DEF Spec, OnlySignerPays

-----------------------------------------------------------------------------
\* RevocationIsFinal.

\* The asset a of this chain keeps its record, or somebody owns it, or it only
\* loses supply.
Settles(old, new) ==
  old # Missing /\ old.owner = EmptyKey =>
    new # Missing /\ new.owner = EmptyKey /\ new.supply <= old.supply

\* An action mints and modifies what its signer owns, burns what he holds and
\* records new assets under new ids; imports and returns concern assets of
\* other chains.
LEMMA ActsSettle ==
  ASSUME IInv, NEW c \in Chains, NEW actor \in Accounts, NEW kind, NEW d,
         Paid(c, d), Acts(c, actor, kind, d), NEW a \in LocalIDs
  PROVE  Settles(d.assets[a], db'[c].assets[a])
<1> DEFINE e == db'[c]
           old == d.assets[a]
           new == e.assets[a]
<1>1. /\ a \in AssetIDs /\ d \in DB /\ old \in Asset \cup {Missing}
      /\ d.assets = db[c].assets
  BY DEF Paid, DB, AssetIDs, OnlyBalances
<1>2. d.assets \in [AssetIDs -> Asset \cup {Missing}]
  BY <1>1 DEF DB
<1> HIDE DEF e
<1> SUFFICES ASSUME old # Missing, old.owner = EmptyKey
             PROVE  new # Missing /\ new.owner = EmptyKey /\ new.supply <= old.supply
  BY DEF Settles, e
<1>3. old \in Asset /\ old.supply \in Int
  BY <1>1, StorageAssumption DEF Asset, Amount
<1>4. actor # EmptyKey
  BY StorageAssumption
<1>5. CASE e.assets = d.assets
  BY <1>3, <1>5
<1>6. CASE CreateAssetActs(c, actor, d)
  <2>1. PICK id \in TxIDs \ used, metadata \in Metadata :
          AssetCreated(d, e, actor, id, metadata)
    BY <1>6 DEF CreateAssetActs, e
  <2>2. d.assets[id] = Missing
    BY <1>1 DEF IInv, FreshIds
  <2>3. new = old
    BY <1>2, <2>1, <2>2 DEF AssetCreated
  <2> QED
    BY <1>3, <2>3
<1>7. CASE MintAssetActs(c, actor, d) \/ ModifyAssetActs(c, actor, d)
  <2>1. PICK asset, record : Owns(d, actor, asset) /\ e.assets = [d.assets EXCEPT ![asset] = record]
    BY <1>7 DEF MintAssetActs, ModifyAssetActs, Minted, Modified, e
  <2>2. new = old
    BY <1>2, <1>4, <2>1 DEF Owns
  <2> QED
    BY SMTT(30), <1>3, <2>2
<1>8. CASE BurnAssetActs(c, actor, d)
  <2>1. PICK asset \in AssetIDs, value \in Nat : Burned(d, e, actor, asset, value)
    BY <1>8 DEF BurnAssetActs, e
  <2>2. CASE a = asset
    <3>1. new = [old EXCEPT !.supply = old.supply - value]
      BY <1>2, <2>1, <2>2 DEF Burned
    <3>2. new.owner = old.owner /\ new.supply = old.supply - value
      BY <1>3, <3>1 DEF Asset
    <3>3. value <= old.supply /\ old.supply - value \in Amount
      BY <1>3, <2>1, <2>2, StorageAssumption DEF Burned, Asset, Amount
    <3>4. new \in Asset
      BY <1>3, <3>1, <3>3 DEF Asset
    <3> QED
      BY <1>3, <3>2, <3>4, MissingAssumption
  <2>3. CASE a # asset
    BY <1>2, <1>3, <2>1, <2>3 DEF Burned
  <2> QED
    BY <2>2, <2>3
<1>9. CASE ExportAssetActs(c, actor, d)
  <2>1. PICK x \in ExportRequest : SentHome(d, e, actor, x) \/ SentAway(d, e, actor, x)
    BY <1>9 DEF ExportAssetActs, e
  <2>2. CASE SentHome(d, e, actor, x)
    <3>1. PICK rest : e.assets = [d.assets EXCEPT ![x.asset] = rest]
      BY <2>2 DEF SentHome
    <3>2. d.assets[x.asset].warp /\ d.assets[x.asset] # Missing /\ x.asset \in AssetIDs
      BY <2>2, MissingAssumption DEF SentHome, ExportRequest
    <3>3. x.asset \in ImportedIDs
      BY <1>1, <3>2 DEF IInv, Sound, WarpOK, WarpRecordOK
    <3>4. x.asset # a
      BY <3>3, StorageAssumption
    <3> QED
      BY <1>2, <1>3, <3>1, <3>4
  <2>3. CASE SentAway(d, e, actor, x)
    BY <1>3, <2>3 DEF SentAway
  <2> QED
    BY <2>1, <2>2, <2>3
<1>10. CASE ImportAssetActs(c, actor, d)
  <2>1. PICK m \in sent : \E mid :
          /\ IF m.return THEN CameHome(d, mid, actor, m) ELSE Arrived(d, mid, actor, m)
          /\ e = mid \/ Swapped(mid, e, actor, m)
    BY <1>10 DEF ImportAssetActs, e
  <2>2. PICK mid :
          /\ IF m.return THEN CameHome(d, mid, actor, m) ELSE Arrived(d, mid, actor, m)
          /\ e = mid \/ Swapped(mid, e, actor, m)
    BY <2>1
  <2>3. e.assets = mid.assets
    BY <2>2 DEF Swapped, OnlyBalances
  <2>4. CASE m.return
    BY <1>3, <2>2, <2>3, <2>4 DEF CameHome
  <2>5. CASE ~m.return
    <3> DEFINE i == ImportedAssetID(m.asset, m.src)
    <3>1. PICK record : mid.assets = [d.assets EXCEPT ![i] = record]
      BY <2>2, <2>5 DEF Arrived
    <3>2. m.asset \in LocalIDs /\ m.src \in Chains
      BY DEF IInv, MessageOK, Message
    <3>3. i # a
      BY <3>2, StorageAssumption DEF ImportedAssetID, ImportedIDs
    <3> QED
      BY <1>2, <1>3, <2>3, <3>1, <3>3
  <2> QED
    BY <2>4, <2>5
<1>11. CASE \/ TransferActs(c, actor, d)  \/ CreateOrderActs(c, actor, d)
            \/ FillOrderActs(c, actor, d) \/ CloseOrderActs(c, actor, d)
  <2>1. e.assets = d.assets
    BY ZenonT(30), <1>11 DEF TransferActs, CreateOrderActs, FillOrderActs, CloseOrderActs,
         Transferred, Offered, Filled, TakenBack, OnlyBalances, e
  <2> QED
    BY <1>5, <2>1
<1> QED
  BY <1>6, <1>7, <1>8, <1>9, <1>10, <1>11 DEF Acts

\* Whoever gives up an asset gives it up for good: nobody owns, mints or
\* modifies it again, neither after imports nor after a creation.
THEOREM RevokedForGood == Spec => RevocationIsFinal
<1>1. IInv /\ [Next]_vars => Revoked
  <2> SUFFICES ASSUME IInv, [Next]_vars, NEW x \in Chains, NEW a \in LocalIDs
               PROVE  Settles(db[x].assets[a], db'[x].assets[a])
    BY DEF Revoked, Settles
  <2>1. db[x].assets[a] \in Asset \cup {Missing}
    BY DEF IInv, TypeOK, DB, AssetIDs
  <2>2. Settles(db[x].assets[a], db[x].assets[a])
    BY <2>1, StorageAssumption DEF Settles, Asset, Amount
  <2>3. CASE db'[x].assets = db[x].assets
    BY <2>2, <2>3
  <2>4. CASE db'[x].assets # db[x].assets
    <3>1. PICK c \in Chains, actor \in Accounts, kind \in ActionKinds : Transacts(c, actor, kind)
      BY <2>4, Outcome DEF Quiet
    <3>2. x = c
      BY <2>4, <3>1 DEF Transacts, Step
    <3>3. PICK d : Paid(c, d) /\ Acts(c, actor, kind, d)
      BY <2>4, <3>1, <3>2 DEF Transacts, Idle, OnlyBalances
    <3>4. d.assets = db[c].assets
      BY <3>3 DEF Paid, OnlyBalances
    <3> QED
      BY <3>2, <3>3, <3>4, ActsSettle
  <2> QED
    BY <2>3, <2>4
<1> QED
  BY <1>1, Invariance, PTL DEF Spec, RevocationIsFinal

-----------------------------------------------------------------------------
\* OrdersTradeFairly.

\* So many blocks, divided into blocks, are so many.
LEMMA MulDiv ==
  ASSUME NEW k \in Nat, NEW b \in Nat \ {0}
  PROVE  (b * k) \div b = k
BY SMT

\* Prices do not depend on the order of the factors.
LEMMA MulSwap ==
  ASSUME NEW a \in Nat, NEW b \in Nat, NEW c \in Nat
  PROVE  (a * b) * c = (c * a) * b
BY SMT

\* A fill buys so many whole blocks and pays for exactly these, also when it is
\* larger than the order and its input is cut.
LEMMA FillBlocks ==
  ASSUME NEW o \in Order, WellFormedOrder(o), NEW v \in Amount,
         v % o.inTick = 0, Wanted(o, v) # 0
  PROVE  \E k \in Nat \ {0} :
           /\ FillInput(o, v) = k * o.inTick /\ FillOutput(o, v) = o.outTick * k
           /\ FillOutput(o, v) <= o.remaining
           /\ RemainingOrder(o, v) =
                IF FillOutput(o, v) = o.remaining THEN Missing
                ELSE [o EXCEPT !.remaining = o.remaining - FillOutput(o, v)]
<1> DEFINE i == o.inTick
           t == o.outTick
           n == v \div i
           q == o.remaining \div t
           w == t * n
           over == (w - o.remaining) \div t
<1>1. /\ i \in Nat \ {0} /\ t \in Nat \ {0} /\ v \in Nat
      /\ o.remaining \in Nat \ {0} /\ o.remaining % t = 0
  BY StorageAssumption DEF Order, Amount, WellFormedOrder
<1>2. /\ Wanted(o, v) = w
      /\ FillInput(o, v) = IF w > o.remaining THEN v - over * i ELSE v
      /\ FillOutput(o, v) = IF w > o.remaining THEN o.remaining ELSE w
      /\ RemainingOrder(o, v) = IF w >= o.remaining THEN Missing
                                ELSE [o EXCEPT !.remaining = o.remaining - w]
  BY DEF Wanted, FillInput, FillOutput, RemainingOrder
<1>3. n \in Nat /\ v = i * n
  BY <1>1, DivBound, ModDiv
<1>4. q \in Nat /\ o.remaining = t * q
  BY <1>1, DivBound, ModDiv
<1>5. w = t * n /\ over = (w - o.remaining) \div t
  OBVIOUS
<1>6. w \in Nat /\ w # 0
  BY <1>1, <1>2, <1>3
<1> HIDE DEF n, q, i, t, w, over
<1>7. CASE w > o.remaining
  <2>1. t * q <= t * n
    BY <1>4, <1>5, <1>6, <1>1, <1>7
  <2>2. q <= n
    BY <1>1, <1>3, <1>4, <2>1, MulCancel
  <2>3. n - q \in Nat /\ w - o.remaining = t * (n - q)
    BY <1>1, <1>3, <1>4, <1>5, <2>2, MulDist
  <2>4. over = n - q
    BY <1>1, <1>5, <2>3, MulDiv
  <2>5. v - over * i = i * q
    <3>1. over * i = i * (n - q)
      BY <1>1, <2>3, <2>4
    <3>2. i * n - i * q = i * (n - q)
      BY <1>1, <1>3, <1>4, MulDist
    <3> DEFINE x == i * n
               y == i * q
               z == i * (n - q)
    <3>3. x \in Nat /\ y \in Nat /\ z \in Nat
      BY <1>1, <1>3, <1>4, <2>3
    <3>4. v = x /\ over * i = z /\ x - y = z
      BY <1>3, <3>1, <3>2
    <3> HIDE DEF x, y, z
    <3>5. v - over * i = y
      BY <3>3, <3>4
    <3> QED
      BY <3>5 DEF y
  <2>6. q # 0
    BY <1>1, <1>4
  <2>7. FillInput(o, v) = q * i /\ FillOutput(o, v) = t * q /\ FillOutput(o, v) = o.remaining
    BY <1>1, <1>2, <1>4, <1>7, <2>5
  <2>8. RemainingOrder(o, v) = Missing
    BY <1>1, <1>2, <1>6, <1>7
  <2> QED
    BY <1>1, <1>4, <2>6, <2>7, <2>8 DEF i, t
<1>8. CASE ~(w > o.remaining)
  <2>1. n # 0
    BY <1>1, <1>5, <1>6
  <2>2. FillInput(o, v) = n * i /\ FillOutput(o, v) = t * n
    BY <1>1, <1>2, <1>3, <1>5, <1>8
  <2>3. FillOutput(o, v) = w /\ w <= o.remaining
    BY <1>1, <1>2, <1>6, <1>8
  <2>4. RemainingOrder(o, v) = IF w = o.remaining THEN Missing
                               ELSE [o EXCEPT !.remaining = o.remaining - w]
    BY <1>1, <1>2, <1>6, <1>8
  <2> QED
    BY <1>3, <2>1, <2>2, <2>3, <2>4 DEF i, t
<1> QED
  BY <1>7, <1>8

\* An order that is closed by its owner or sold at its price.
Trades(c, old, new) ==
  IF new = Missing
  THEN Closed(c, old) \/ SoldAtPrice(c, old, old.remaining)
  ELSE /\ new = [old EXCEPT !.remaining = new.remaining]
       /\ new.remaining < old.remaining
       /\ SoldAtPrice(c, old, old.remaining - new.remaining)

\* A close gives the owner the remainder.
LEMMA CloseTrades ==
  ASSUME IInv, NEW c \in Chains, NEW actor \in Accounts, Step(c, actor, "CloseOrder"),
         NEW d, Paid(c, d), NEW id \in TxIDs, TakenBack(d, db'[c], actor, id),
         NEW old, old = d.orders[id]
  PROVE  Closed(c, old)
<1>1. /\ old \in Order /\ old.owner = actor /\ old.out \in AssetIDs /\ actor \in PublicKeys
      /\ old.remaining \in Int
  BY StorageAssumption DEF TakenBack, Order, PublicKeys, Amount
<1>2. GetBalance(d, actor, old.out) \in Int
  BY <1>1 DEF Paid
<1>3. GetBalance(db'[c], actor, old.out)
        = GetBalance(d, actor, old.out) + At(actor, old.out, actor, old.out, old.remaining)
  BY <1>1 DEF TakenBack
<1>4. Net(c, actor, old.out) = GetBalance(db'[c], actor, old.out) - GetBalance(d, actor, old.out)
  BY <1>1 DEF Paid
<1> DEFINE n == Net(c, actor, old.out)
<1>5. n = old.remaining
  BY <1>1, <1>2, <1>3, <1>4 DEF At
<1> HIDE DEF n
<1> QED
  BY <1>1, <1>5 DEF Closed, Step, n

\* A fill sells a part of the order at its price.
LEMMA FillTrades ==
  ASSUME IInv, NEW c \in Chains, NEW actor \in Accounts, Step(c, actor, "FillOrder"),
         NEW d, Paid(c, d), NEW id \in TxIDs, NEW value \in Amount,
         Filled(d, db'[c], actor, id, value), NEW old, old = d.orders[id]
  PROVE  /\ FillOutput(old, value) \in Nat \ {0}
         /\ SoldAtPrice(c, old, FillOutput(old, value))
<1> DEFINE e    == db'[c]
           sold == FillOutput(old, value)
           paid == FillInput(old, value)
           in   == old.in
           out  == old.out
           owner == old.owner
<1>1. /\ old \in Order /\ WellFormedOrder(old)
      /\ value % old.inTick = 0 /\ Wanted(old, value) # 0
      /\ paid \in Nat \ {0} /\ sold \in Nat \ {0}
  BY DEF Filled
<1>2. \A q \in PublicKeys, b \in AssetIDs :
        GetBalance(e, q, b) = GetBalance(d, q, b)
          + At(q, b, actor, in, -paid) + At(q, b, owner, in, paid)
          + At(q, b, actor, out, sold)
  BY DEF Filled
<1>3. /\ in \in AssetIDs /\ out \in AssetIDs /\ in # out
      /\ owner \in PublicKeys /\ actor \in PublicKeys
      /\ old.inTick \in Nat /\ old.outTick \in Nat \ {0}
  BY <1>1, StorageAssumption DEF Order, WellFormedOrder, PublicKeys, Amount
<1>4. PICK k \in Nat \ {0} : paid = k * old.inTick /\ sold = old.outTick * k
  BY <1>1, FillBlocks
<1> HIDE DEF e, sold, paid, in, out, owner
<1>5. /\ (sold \div old.outTick) * old.inTick = paid
      /\ paid * old.outTick = sold * old.inTick
  BY <1>3, <1>4, MulDiv, MulSwap
<1>6. \A q \in PublicKeys, b \in AssetIDs :
        /\ GetBalance(d, q, b) \in Int
        /\ Net(c, q, b) = GetBalance(e, q, b) - GetBalance(d, q, b)
  BY DEF Paid, e
<1>7. \A q \in PublicKeys, b \in AssetIDs :
        Net(c, q, b) = At(q, b, actor, in, -paid) + At(q, b, owner, in, paid)
                         + At(q, b, actor, out, sold)
  BY <1>1, <1>2, <1>6 DEF At
<1>8. Net(c, actor, out) = sold
  BY <1>1, <1>3, <1>7 DEF At
<1>9. CASE actor = owner
  <2>1. Net(c, actor, in) = 0
    BY <1>1, <1>3, <1>7, <1>9 DEF At
  <2> QED
    BY <1>1, <1>5, <1>8, <1>9, <2>1 DEF SoldAtPrice, Step, sold, in, out, owner
<1>10. CASE actor # owner
  <2>1. Net(c, actor, in) = -paid
    BY <1>1, <1>3, <1>7, <1>10 DEF At
  <2>2. Net(c, owner, in) = paid
    BY <1>1, <1>3, <1>7, <1>10 DEF At
  <2> QED
    BY <1>1, <1>5, <1>8, <1>10, <2>1, <2>2 DEF SoldAtPrice, Step, sold, in, out, owner
<1> QED
  BY <1>9, <1>10

\* An action that changes an open order closes it or sells of it.
LEMMA ActsTrade ==
  ASSUME IInv, NEW c \in Chains, NEW actor \in Accounts, NEW kind, Step(c, actor, kind),
         NEW d, Paid(c, d), Acts(c, actor, kind, d), NEW id \in TxIDs,
         NEW old, old = d.orders[id], NEW new, new = db'[c].orders[id],
         old # Missing, new # old
  PROVE  Trades(c, old, new)
<1> DEFINE e == db'[c]
<1>1. d.orders \in [TxIDs -> Order \cup {Missing}] /\ d.orders = db[c].orders
  BY DEF Paid, DB, OnlyBalances
<1>2. CASE CreateOrderActs(c, actor, d)
  <2>1. PICK x \in TxIDs \ used : \E record : e.orders = [d.orders EXCEPT ![x] = record]
    BY SMTT(30), <1>2 DEF CreateOrderActs, Offered
  <2>2. d.orders[x] = Missing
    BY <1>1 DEF IInv, FreshIds
  <2> QED
    BY <1>1, <2>1, <2>2
<1>3. CASE kind = "CloseOrder" /\ CloseOrderActs(c, actor, d)
  <2>1. PICK x \in TxIDs : TakenBack(d, e, actor, x)
    BY <1>3 DEF CloseOrderActs
  <2>2. x = id /\ new = Missing
    BY <1>1, <2>1 DEF TakenBack
  <2> QED
    BY <1>3, <2>1, <2>2, CloseTrades DEF Trades
<1>4. CASE kind = "FillOrder" /\ FillOrderActs(c, actor, d)
  <2>1. PICK x \in TxIDs, value \in Amount : Filled(d, e, actor, x, value)
    BY <1>4 DEF FillOrderActs
  <2>2. e.orders = [d.orders EXCEPT ![x] = RemainingOrder(d.orders[x], value)]
    BY <2>1 DEF Filled
  <2>3. x = id /\ new = RemainingOrder(old, value)
    BY <1>1, <2>2
  <2> DEFINE sold == FillOutput(old, value)
  <2>4. sold \in Nat \ {0} /\ SoldAtPrice(c, old, sold)
    BY <1>4, <2>1, <2>3, FillTrades
  <2>5. /\ old \in Order /\ WellFormedOrder(old)
        /\ value % old.inTick = 0 /\ Wanted(old, value) # 0
    BY <2>1, <2>3 DEF Filled
  <2>6. /\ sold <= old.remaining
        /\ new = IF sold = old.remaining THEN Missing
                 ELSE [old EXCEPT !.remaining = old.remaining - sold]
    BY <2>3, <2>5, FillBlocks
  <2>7. old.remaining \in Nat
    BY <2>5, StorageAssumption DEF Order, Amount
  <2> HIDE DEF sold
  <2>8. CASE sold = old.remaining
    BY <2>4, <2>6, <2>8 DEF Trades
  <2>9. CASE sold # old.remaining
    <3>1. new = [old EXCEPT !.remaining = old.remaining - sold]
      BY <2>6, <2>9
    <3>2. new.remaining = old.remaining - sold
      BY <2>5, <3>1 DEF Order
    <3>3. old.remaining - sold \in Amount
      BY <2>4, <2>5, <2>6, <2>7, StorageAssumption DEF Order, Amount
    <3>4. new \in Order
      BY <2>5, <3>1, <3>3 DEF Order
    <3>5. new.remaining < old.remaining /\ old.remaining - new.remaining = sold
      BY <2>4, <2>7, <3>2
    <3> QED
      BY <2>4, <3>1, <3>2, <3>4, <3>5, MissingAssumption DEF Trades
  <2> QED
    BY <2>8, <2>9
<1>5. CASE e.orders = d.orders
  BY <1>5
<1>6. CASE \/ TransferActs(c, actor, d)    \/ CreateAssetActs(c, actor, d)
           \/ MintAssetActs(c, actor, d)   \/ BurnAssetActs(c, actor, d)
           \/ ModifyAssetActs(c, actor, d) \/ ExportAssetActs(c, actor, d)
           \/ ImportAssetActs(c, actor, d)
  <2>1. e.orders = d.orders
    BY ZenonT(30), <1>6 DEF TransferActs, CreateAssetActs, MintAssetActs, BurnAssetActs, ModifyAssetActs,
         ExportAssetActs, ImportAssetActs, Transferred, AssetCreated, Minted, Burned, Modified,
         SentHome, SentAway, CameHome, Arrived, Swapped, OnlyBalances
  <2> QED
    BY <1>5, <2>1
<1> QED
  BY <1>2, <1>3, <1>4, <1>6 DEF Acts

\* An open order is closed by its owner, who gets the remainder back, or sold
\* at exactly its price, in whole blocks, and the owner is paid by the buyer.
THEOREM OrdersTradeAtTheirPrice == Spec => OrdersTradeFairly
<1>1. IInv /\ [Next]_vars => FairTrade
  <2> SUFFICES ASSUME IInv, [Next]_vars, NEW x \in Chains, NEW id \in TxIDs,
                      NEW old, old = db[x].orders[id], NEW new, new = db'[x].orders[id],
                      old # Missing, new # old
               PROVE  Trades(x, old, new)
    BY DEF FairTrade, Trades
  <2>1. PICK c \in Chains, actor \in Accounts, kind \in ActionKinds : Transacts(c, actor, kind)
    BY Outcome DEF Quiet
  <2>2. x = c
    BY <2>1 DEF Transacts, Step
  <2>3. PICK d : Paid(c, d) /\ Acts(c, actor, kind, d)
    BY <2>1, <2>2 DEF Transacts, Idle, OnlyBalances
  <2>4. d.orders = db[c].orders
    BY <2>3 DEF Paid, OnlyBalances
  <2> QED
    BY <2>1, <2>2, <2>3, <2>4, ActsTrade DEF Transacts
<1> QED
  BY <1>1, Invariance, PTL DEF Spec, OrdersTradeFairly

-----------------------------------------------------------------------------
\* OrdersFollowMarket: what the refinement maps a step to.

\* What the signers can offer meets the assumption of Market.
LEMMA OffersAreOrders == Observation!MarketAssumption
<1>1. ASSUME NEW o \in ObservedOffers
      PROVE  /\ o \in Order
             /\ o.outTick > 0 /\ o.remaining > 0 /\ o.remaining % o.outTick = 0
  BY Inputs DEF ObservedOffers, WellFormedOrder, Order
<1> QED
  BY <1>1 DEF Observation!MarketAssumption, Observation!Order, Order,
     Observation!AssetIDs, AssetIDs, Observation!LocalIDs, LocalIDs,
     Observation!ImportedIDs, ImportedIDs, Observation!Amount, Amount,
     Observation!PublicKeys, PublicKeys

\* A genesis lists no orders.
LEMMA InitObserved == Init => Observation!MarketInit
<1> SUFFICES ASSUME Init PROVE Observation!MarketInit
  OBVIOUS
<1>1. db[Observed].orders = [id \in TxIDs |-> Missing] /\ used = {}
  BY ObservedAssumption DEF Init, Load
<1> QED
  BY <1>1 DEF Observation!MarketInit

\* A fill is a sale, a close a close, a creation a creation with an offer the
\* signers can make, and nothing else touches the orders.
LEMMA ActsObserved ==
  ASSUME IInv, NEW actor \in Accounts, NEW kind, NEW d,
         Paid(Observed, d), Acts(Observed, actor, kind, d)
  PROVE  Observation!MarketNext
<1> DEFINE c == Observed
           old == db[Observed].orders
           new == db'[Observed].orders
<1>1. /\ c \in Chains /\ d.orders \in [TxIDs -> Order \cup {Missing}] /\ d.orders = old
  BY ObservedAssumption DEF Paid, DB, OnlyBalances
<1>2. CASE CreateOrderActs(c, actor, d)
  <2>1. PICK id \in TxIDs \ used, in \in Named, out \in Named, inTick \in Ticks,
             outTick \in Ticks, supply \in Values :
          /\ Offered(d, db'[c], actor, id, in, inTick, out, outTick, supply)
          /\ used' = used \cup {id}
    BY <1>2 DEF CreateOrderActs
  <2> DEFINE offer == [in |-> in, inTick |-> inTick, out |-> out, outTick |-> outTick,
                       remaining |-> supply, owner |-> actor]
  <2>2. /\ inTick \in Nat /\ outTick \in Nat /\ supply \in Nat
    BY Inputs, StorageAssumption DEF Amount
  <2>3. WellFormedOrder(offer)
    BY <2>1, <2>2 DEF Offered, WellFormedOrder
  <2>4. offer \in ObservedOffers
    BY <2>3 DEF ObservedOffers
  <2>5. new = [old EXCEPT ![id] = offer]
    BY <1>1, <2>1 DEF Offered
  <2> HIDE DEF offer
  <2>6. Observation!Create(id, offer)
    BY <2>1, <2>5 DEF Observation!Create
  <2> QED
    BY <2>1, <2>4, <2>6 DEF Observation!MarketNext
<1>3. CASE CloseOrderActs(c, actor, d)
  <2>1. PICK id \in TxIDs : TakenBack(d, db'[c], actor, id)
    BY <1>3 DEF CloseOrderActs
  <2>2. old[id] # Missing /\ new = [old EXCEPT ![id] = Missing]
    BY <1>1, <2>1, MissingAssumption DEF TakenBack
  <2>3. used' = used
    BY <1>3 DEF CloseOrderActs
  <2>4. Observation!Close(id)
    BY <2>2, <2>3 DEF Observation!Close, Observation!Open
  <2> QED
    BY <2>4 DEF Observation!MarketNext
<1>4. CASE FillOrderActs(c, actor, d)
  <2>1. PICK id \in TxIDs, value \in Amount : Filled(d, db'[c], actor, id, value)
    BY <1>4 DEF FillOrderActs
  <2> DEFINE o == old[id]
             sold == FillOutput(o, value)
  <2>2. /\ o \in Order /\ WellFormedOrder(o) /\ o # Missing
        /\ value % o.inTick = 0 /\ Wanted(o, value) # 0
        /\ sold \in Nat \ {0}
        /\ new = [old EXCEPT ![id] = RemainingOrder(o, value)]
    BY <1>1, <2>1, MissingAssumption DEF Filled
  <2> HIDE DEF o
  <2>3. PICK k \in Nat \ {0} :
          /\ sold = o.outTick * k /\ sold <= o.remaining
          /\ RemainingOrder(o, value) =
               IF sold = o.remaining THEN Missing
               ELSE [o EXCEPT !.remaining = o.remaining - sold]
    BY <2>2, FillBlocks
  <2>4. o.outTick \in Nat \ {0} /\ o.remaining \in Amount /\ o.remaining \in Nat
    BY <2>2, StorageAssumption DEF Order, WellFormedOrder, Amount
  <2> HIDE DEF sold
  <2>5. sold % o.outTick = 0
    BY <2>3, <2>4, ModMul
  <2>6. sold \in Amount /\ 0 < sold
    BY <2>2, <2>3, <2>4, StorageAssumption DEF Amount
  <2>7. used' = used
    BY <1>4 DEF FillOrderActs
  <2>8. Observation!Left(o, sold) = RemainingOrder(o, value)
    BY <2>3 DEF Observation!Left
  <2>9. Observation!Sell(id, sold)
    BY <2>2, <2>3, <2>5, <2>6, <2>7, <2>8 DEF Observation!Sell, Observation!Open, o
  <2> QED
    BY <2>6, <2>9 DEF Observation!MarketNext, Observation!Amount, Amount
<1>5. CASE \/ TransferActs(c, actor, d)    \/ CreateAssetActs(c, actor, d)
           \/ MintAssetActs(c, actor, d)   \/ BurnAssetActs(c, actor, d)
           \/ ModifyAssetActs(c, actor, d) \/ ExportAssetActs(c, actor, d)
           \/ ImportAssetActs(c, actor, d)
  <2>1. new = d.orders
    BY ZenonT(30), <1>5 DEF TransferActs, CreateAssetActs, MintAssetActs, BurnAssetActs, ModifyAssetActs,
         ExportAssetActs, ImportAssetActs, Transferred, AssetCreated, Minted, Burned, Modified,
         SentHome, SentAway, CameHome, Arrived, Swapped, OnlyBalances
  <2>2. used \subseteq used'
    BY <1>5 DEF TransferActs, CreateAssetActs, MintAssetActs, BurnAssetActs, ModifyAssetActs,
         ExportAssetActs, ImportAssetActs
  <2> QED
    BY <1>1, <2>1, <2>2 DEF Observation!MarketNext, Observation!Other
<1> QED
  BY <1>2, <1>3, <1>4, <1>5 DEF Acts

\* Transactions on other chains use up ids and leave the orders alone.
LEMMA ActsUse ==
  ASSUME NEW c, NEW actor, NEW kind, NEW d, Acts(c, actor, kind, d)
  PROVE  used \subseteq used'
BY DEF Acts, TransferActs, CreateAssetActs, MintAssetActs, BurnAssetActs, ModifyAssetActs,
   CreateOrderActs, FillOrderActs, CloseOrderActs, ExportAssetActs, ImportAssetActs

\* The orders of a chain are created, sold and closed as Market promises,
\* whatever happens on the other chains and to everything else.
THEOREM OrdersImplementMarket == Spec => OrdersFollowMarket
<1>1. IInv /\ [Next]_vars =>
        [Observation!MarketNext]_<<db[Observed].orders, used>>
  <2> SUFFICES ASSUME IInv, [Next]_vars
               PROVE  \/ Observation!MarketNext
                      \/ UNCHANGED <<db[Observed].orders, used>>
    OBVIOUS
  <2>1. CASE Quiet
    BY <2>1 DEF Quiet
  <2>2. CASE ~Quiet
    <3>1. PICK c \in Chains, actor \in Accounts, kind \in ActionKinds : Transacts(c, actor, kind)
      BY <2>2, Outcome
    <3>2. CASE c = Observed /\ \E d : Paid(c, d) /\ Acts(c, actor, kind, d)
      BY <3>2, ActsObserved
    <3>3. CASE c # Observed \/ Idle(c)
      <4>1. db'[Observed].orders = db[Observed].orders
        BY <3>1, <3>3, ObservedAssumption DEF Transacts, Step, Idle, OnlyBalances
      <4>2. used \subseteq used'
        BY <3>1, ActsUse DEF Transacts
      <4> QED
        BY <4>1, <4>2 DEF Observation!MarketNext, Observation!Other
    <3> QED
      BY <3>1, <3>2, <3>3 DEF Transacts
  <2> QED
    BY <2>1, <2>2
<1> QED
  BY <1>1, InitObserved, Invariance, PTL
    DEF Spec, OrdersFollowMarket, Observation!MarketSpec

-----------------------------------------------------------------------------
\* The bridge.

\* A message that moves asset a between its home and the chain away.
Travels(home, away, a, m) ==
  /\ m.asset = a
  /\ IF m.return THEN m.src = away /\ m.dest = home
                 ELSE m.src = home /\ m.dest = away

Carried(m) == m.value + m.reward

\* What a message takes along: on the loan at home when it leaves, off the
\* supply away when it returns.
Share(home, away, a, m) == IF Travels(home, away, a, m) THEN Carried(m) ELSE 0

\* What OnTheWay adds up.
Cargo(home, away, a, msgs, arrived) ==
  [m \in msgs |->
     IF m \notin arrived[m.dest] /\ Travels(home, away, a, m) THEN Carried(m) ELSE 0]

\* A message carries a number.
LEMMA CarriedType ==
  ASSUME NEW m \in Message
  PROVE  Carried(m) \in Nat /\ m.value \in Nat /\ m.reward \in Nat
BY StorageAssumption DEF Message, Amount, Carried

\* OnTheWay is the sum of the cargo.
LEMMA OnTheWayIsCargo ==
  ASSUME NEW home, NEW away, NEW a
  PROVE  /\ OnTheWay(home, away, a) = Total(Cargo(home, away, a, sent, received))
         /\ OnTheWay(home, away, a)' = Total(Cargo(home, away, a, sent', received'))
<1>1. \A m \in sent : m \in Pending <=> m \notin received[m.dest]
  BY DEF Pending
<1>2. \A m \in sent' : m \in Pending' <=> m \notin received'[m.dest]
  BY DEF Pending
<1>3. [m \in sent |->
           IF /\ m \in Pending /\ m.asset = a
              /\ IF m.return THEN m.src = away /\ m.dest = home
                             ELSE m.src = home /\ m.dest = away
           THEN m.value + m.reward ELSE 0] = Cargo(home, away, a, sent, received)
  BY <1>1 DEF Cargo, Travels, Carried
<1>4. [m \in sent' |->
           IF /\ m \in Pending' /\ m.asset = a
              /\ IF m.return THEN m.src = away /\ m.dest = home
                             ELSE m.src = home /\ m.dest = away
           THEN m.value + m.reward ELSE 0] = Cargo(home, away, a, sent', received')
  BY <1>2 DEF Cargo, Travels, Carried
<1> QED
  BY <1>3, <1>4 DEF OnTheWay

\* The cargo of finitely many messages is a number.
LEMMA CargoType ==
  ASSUME NEW home, NEW away, NEW a, NEW msgs \in SUBSET Message, IsFiniteSet(msgs),
         NEW arrived
  PROVE  /\ Cargo(home, away, a, msgs, arrived) \in [msgs -> Nat]
         /\ Total(Cargo(home, away, a, msgs, arrived)) \in Nat
<1> DEFINE f == Cargo(home, away, a, msgs, arrived)
<1>1. f \in [msgs -> Nat]
  BY CarriedType DEF Cargo
<1> HIDE DEF f
<1>2. Total(f) \in Nat
  BY <1>1, CoinsFinite
<1> QED
  BY <1>1, <1>2 DEF f

\* A message that is sent adds what it carries.
LEMMA CargoSent ==
  ASSUME NEW home, NEW away, NEW a, NEW msgs \in SUBSET Message, IsFiniteSet(msgs),
         NEW arrived, NEW m \in Message, m \notin msgs, m \notin arrived[m.dest]
  PROVE  Total(Cargo(home, away, a, msgs \cup {m}, arrived))
           = Total(Cargo(home, away, a, msgs, arrived))
               + Share(home, away, a, m)
<1> DEFINE f == Cargo(home, away, a, msgs, arrived)
           g == Cargo(home, away, a, msgs \cup {m}, arrived)
<1>1. f \in [msgs -> Nat]
  BY CargoType
<1>2. g \in [msgs \cup {m} -> Nat]
  BY CarriedType DEF Cargo
<1>3. \A n \in msgs : g[n] = f[n]
  BY DEF Cargo
<1>4. g[m] = Share(home, away, a, m)
  BY DEF Cargo, Share
<1> HIDE DEF f, g
<1>5. Total(g) = Total(f) + g[m]
  BY <1>1, <1>2, <1>3, TotalExtend
<1> QED
  BY <1>4, <1>5 DEF f, g

Landed(arrived, m) == [arrived EXCEPT ![m.dest] = arrived[m.dest] \cup {m}]

\* A message that is imported takes what it carried.
LEMMA CargoArrived ==
  ASSUME NEW home, NEW away, NEW a, NEW msgs \in SUBSET Message, IsFiniteSet(msgs),
         NEW arrived \in [Chains -> SUBSET Message],
         NEW m \in msgs, m \notin arrived[m.dest]
  PROVE  Total(Cargo(home, away, a, msgs, Landed(arrived, m)))
             + Share(home, away, a, m)
           = Total(Cargo(home, away, a, msgs, arrived))
<1> DEFINE after == Landed(arrived, m)
           f == Cargo(home, away, a, msgs, arrived)
           g == Cargo(home, away, a, msgs, after)
<1>1. f \in [msgs -> Nat]
  BY CargoType
<1>2. m.dest \in Chains /\ \A n \in msgs : n.dest \in Chains
  BY DEF Message
<1>3. m \in after[m.dest] /\ \A n \in msgs : n # m => (n \in after[n.dest] <=> n \in arrived[n.dest])
  BY <1>2 DEF Landed
<1>4. g = [f EXCEPT ![m] = 0]
  BY <1>3 DEF Cargo
<1>5. f[m] = Share(home, away, a, m)
  BY DEF Cargo, Share
<1>6. Total(g) \in Nat /\ Total(f) \in Nat
  BY CargoType
<1> HIDE DEF f, g
<1>7. Total(Put(f, m, 0)) + f[m] = Total(f) + 0
  BY <1>1, TotalUpdate
<1> QED
  BY <1>4, <1>5, <1>6, <1>7 DEF Put, f, g

\* The inductive invariant of the bridge: a message is sent once, under the id
\* of its transaction, for otherwise sending it again would leave the pending
\* messages as they are; a chain only imports what was sent, for otherwise a
\* message could be imported before it is sent.
BridgeInv ==
  /\ IsFiniteSet(sent)
  /\ \A m \in sent : m.txID \in used /\ m.value # 0
  /\ \A c \in Chains : received[c] \subseteq sent
  /\ LoansBackImports

\* What backs the imports of one asset by one chain.
Backed(home, away, a) ==
  Supply(db[away], ImportedAssetID(a, home)) + OnTheWay(home, away, a)
    <= GetLoan(db[home], a, away)

\* The quantities of the bridge are numbers.
LEMMA BridgeTypes ==
  ASSUME IInv, IInv', IsFiniteSet(sent), IsFiniteSet(sent'),
         NEW home \in Chains, NEW away \in Chains, NEW a \in LocalIDs
  PROVE  /\ ImportedAssetID(a, home) \in ImportedIDs /\ ImportedAssetID(a, home) \in AssetIDs
         /\ a \in AssetIDs
         /\ Supply(db[away], ImportedAssetID(a, home)) \in Nat
         /\ Supply(db'[away], ImportedAssetID(a, home)) \in Nat
         /\ OnTheWay(home, away, a) \in Nat /\ OnTheWay(home, away, a)' \in Nat
         /\ GetLoan(db[home], a, away) \in Nat /\ GetLoan(db'[home], a, away) \in Nat
<1>1. /\ ImportedAssetID(a, home) \in ImportedIDs /\ ImportedAssetID(a, home) \in AssetIDs
      /\ a \in AssetIDs
  BY DEF ImportedAssetID, ImportedIDs, AssetIDs
<1>2. \A x \in Chains : db[x] \in DB /\ db'[x] \in DB
  BY DEF IInv, TypeOK
<1>3. sent \in SUBSET Message /\ sent' \in SUBSET Message
  BY DEF IInv, TypeOK
<1>4. OnTheWay(home, away, a) \in Nat /\ OnTheWay(home, away, a)' \in Nat
  BY <1>3, OnTheWayIsCargo, CargoType
<1>5. \A d \in DB : Supply(d, ImportedAssetID(a, home)) \in Nat /\ GetLoan(d, a, away) \in Nat
  BY <1>1, GoneType, GetLoanType, StorageAssumption DEF Amount
<1> QED
  BY <1>1, <1>2, <1>4, <1>5

\* A genesis lends and sends nothing.
LEMMA InitBridgeInv == Init => BridgeInv
<1> SUFFICES ASSUME Init PROVE BridgeInv
  OBVIOUS
<1>1. sent = {} /\ received = [c \in Chains |-> {}]
  BY DEF Init
<1>2. IsFiniteSet(sent)
  BY <1>1, FS_EmptySet
<1>3. ASSUME NEW home \in Chains, NEW away \in Chains, NEW a \in LocalIDs
      PROVE  Backed(home, away, a)
  <2> DEFINE i == ImportedAssetID(a, home)
  <2>1. i \in AssetIDs /\ i # Native
    BY StorageAssumption DEF ImportedAssetID, ImportedIDs, AssetIDs, LocalIDs
  <2>2. Supply(db[away], i) = 0
    BY <2>1 DEF Init, Load, Supply, SupplyOf
  <2>3. GetLoan(db[home], a, away) = 0
    BY DEF Init, Load, GetLoan, ValueOf, AssetIDs
  <2>4. Total(Cargo(home, away, a, sent, received)) = 0
    <3> DEFINE f == Cargo(home, away, a, sent, received)
    <3>1. f \in [sent -> Nat] /\ \A x \in sent : f[x] = 0
      BY <1>1 DEF Cargo
    <3> HIDE DEF f
    <3> QED
      BY <3>1, TotalZero DEF f
  <2>5. OnTheWay(home, away, a) = 0
    BY <2>4, OnTheWayIsCargo
  <2> QED
    BY <2>2, <2>3, <2>5 DEF Backed
<1> QED
  BY <1>1, <1>2, <1>3 DEF BridgeInv, LoansBackImports, Backed

\* Nothing is lent or repaid and no imported asset grows.
Aside(d, e) ==
  /\ \A i \in ImportedIDs : Supply(e, i) <= Supply(d, i)
  /\ \A b \in AssetIDs, z \in Chains : GetLoan(e, b, z) = GetLoan(d, b, z)

\* The actions that are not of the bridge: only what was created on the chain is
\* minted, an imported asset can be burnt.
LEMMA ActsAside ==
  ASSUME IInv, NEW c \in Chains, NEW actor \in Accounts, NEW d, Paid(c, d),
         \/ TransferActs(c, actor, d)    \/ CreateAssetActs(c, actor, d)
         \/ MintAssetActs(c, actor, d)   \/ BurnAssetActs(c, actor, d)
         \/ ModifyAssetActs(c, actor, d) \/ CreateOrderActs(c, actor, d)
         \/ FillOrderActs(c, actor, d)   \/ CloseOrderActs(c, actor, d)
  PROVE  Aside(d, db'[c]) /\ sent' = sent /\ received' = received
<1> DEFINE e == db'[c]
<1>1. /\ d \in DB /\ d.assets = db[c].assets
      /\ d.assets \in [AssetIDs -> Asset \cup {Missing}] /\ ImportedIDs \subseteq AssetIDs
  BY DEF Paid, DB, OnlyBalances, AssetIDs
<1>2. \A i \in ImportedIDs : d.assets[i] # Missing => d.assets[i].warp
  BY <1>1 DEF IInv, Sound, WarpOK, WarpRecordOK
<1>3. \A i \in AssetIDs : Supply(d, i) \in Nat
  BY <1>1, GoneType
<1> HIDE DEF e
<1>4. sent' = sent /\ received' = received
  BY DEF TransferActs, CreateAssetActs, MintAssetActs, BurnAssetActs, ModifyAssetActs,
     CreateOrderActs, FillOrderActs, CloseOrderActs
<1>5. e.loans = d.loans
  BY ZenonT(30) DEF TransferActs, CreateAssetActs, MintAssetActs, BurnAssetActs, ModifyAssetActs,
     CreateOrderActs, FillOrderActs, CloseOrderActs, Transferred, AssetCreated, Minted,
     Burned, Modified, Offered, Filled, TakenBack, OnlyBalances, e
<1>6. ASSUME NEW i \in ImportedIDs PROVE Supply(e, i) <= Supply(d, i)
  <2>1. CASE e.assets[i] = d.assets[i]
    BY <1>1, <1>3, <2>1 DEF Supply
  <2>2. CASE \/ TransferActs(c, actor, d)  \/ CreateOrderActs(c, actor, d)
             \/ FillOrderActs(c, actor, d) \/ CloseOrderActs(c, actor, d)
    <3>1. e.assets = d.assets
      BY ZenonT(30), <2>2 DEF TransferActs, CreateOrderActs, FillOrderActs, CloseOrderActs,
         Transferred, Offered, Filled, TakenBack, OnlyBalances, e
    <3> QED
      BY <2>1, <3>1
  <2>3. CASE CreateAssetActs(c, actor, d)
    <3>1. PICK id \in TxIDs : \E record : e.assets = [d.assets EXCEPT ![id] = record]
      BY <2>3 DEF CreateAssetActs, AssetCreated, e
    <3>2. id # i
      BY StorageAssumption DEF LocalIDs
    <3> QED
      BY <1>1, <2>1, <3>1, <3>2
  <2>4. CASE MintAssetActs(c, actor, d) \/ ModifyAssetActs(c, actor, d)
    <3>1. PICK asset, record : Owns(d, actor, asset) /\ e.assets = [d.assets EXCEPT ![asset] = record]
      BY <2>4 DEF MintAssetActs, ModifyAssetActs, Minted, Modified, e
    <3>2. d.assets[asset] # Missing /\ ~d.assets[asset].warp
      BY <3>1, MissingAssumption DEF Owns
    <3>3. asset # i
      BY <1>2, <3>2
    <3>4. e.assets[i] = d.assets[i]
      BY <1>1, <3>1, <3>3
    <3> QED
      BY <2>1, <3>4
  <2>5. CASE BurnAssetActs(c, actor, d)
    <3>1. PICK asset \in AssetIDs, value \in Nat : Burned(d, e, actor, asset, value)
      BY <2>5 DEF BurnAssetActs, e
    <3> DEFINE record == [d.assets[asset] EXCEPT !.supply = d.assets[asset].supply - value]
    <3>2. e.assets = [d.assets EXCEPT ![asset] = record]
      BY <3>1 DEF Burned
    <3>3. /\ d.assets[asset] \in Asset /\ d.assets[asset].supply \in Nat
          /\ value <= d.assets[asset].supply
          /\ record.supply = d.assets[asset].supply - value
      BY <3>1, StorageAssumption DEF Burned, Asset, Amount
    <3> HIDE DEF record
    <3>4. CASE asset = i
      <4>1. e.assets[i] = record
        BY <1>1, <3>2, <3>4
      <4>2. SupplyOf(record) <= record.supply
        BY <3>3 DEF SupplyOf
      <4>3. Supply(d, i) = d.assets[asset].supply
        BY <3>3, <3>4, MissingAssumption DEF Supply, SupplyOf
      <4>4. SupplyOf(record) \in Int
        BY <3>3 DEF SupplyOf
      <4> QED
        BY <3>3, <4>1, <4>2, <4>3, <4>4 DEF Supply
    <3>5. CASE asset # i
      BY <1>1, <2>1, <3>2, <3>5
    <3> QED
      BY <3>4, <3>5
  <2> QED
    BY <2>2, <2>3, <2>4, <2>5
<1> QED
  BY <1>4, <1>5, <1>6 DEF Aside, GetLoan, e

\* What leaves the bridge aside keeps it.
LEMMA AsideKeeps ==
  ASSUME IInv, IInv', BridgeInv, NEW c \in Chains, NEW actor, NEW kind,
         Step(c, actor, kind), Aside(db[c], db'[c]),
         used \subseteq used', sent' = sent, received' = received
  PROVE  BridgeInv'
<1>1. ASSUME NEW home \in Chains, NEW away \in Chains, NEW a \in LocalIDs
      PROVE  Backed(home, away, a)'
  <2> DEFINE i == ImportedAssetID(a, home)
  <2>1. /\ i \in ImportedIDs /\ a \in AssetIDs
        /\ Supply(db[away], i) \in Nat /\ Supply(db'[away], i) \in Nat
        /\ OnTheWay(home, away, a) \in Nat
        /\ GetLoan(db[home], a, away) \in Nat
    BY BridgeTypes DEF BridgeInv
  <2>2. Backed(home, away, a)
    BY DEF BridgeInv, LoansBackImports, Backed
  <2>3. OnTheWay(home, away, a)' = OnTheWay(home, away, a)
    BY OnTheWayIsCargo
  <2>4. Supply(db'[away], i) <= Supply(db[away], i)
    BY <2>1 DEF Step, Aside
  <2>5. GetLoan(db'[home], a, away) = GetLoan(db[home], a, away)
    BY <2>1 DEF Step, Aside
  <2>6. Supply(db'[away], i) + OnTheWay(home, away, a)' <= GetLoan(db'[home], a, away)
    BY <2>1, <2>2, <2>3, <2>4, <2>5 DEF Backed
  <2> QED
    BY <2>6 DEF Backed
<1>2. LoansBackImports'
  BY <1>1 DEF LoansBackImports, Backed
<1> QED
  BY <1>2 DEF BridgeInv

\* An export lends what the message carries, or retires it.
LEMMA ExportFlow ==
  ASSUME IInv, IInv', NEW c \in Chains, NEW actor \in Accounts, NEW kind,
         Step(c, actor, kind), NEW d, Paid(c, d),
         NEW id, NEW x \in ExportRequest, NEW m, m = WarpTransfer(d, c, id, x), m \in Message,
         IF x.return THEN SentHome(d, db'[c], actor, x) ELSE SentAway(d, db'[c], actor, x),
         NEW home \in Chains, NEW away \in Chains, NEW a \in LocalIDs
  PROVE  \E n, k \in Nat :
           /\ n + k = Share(home, away, a, m)
           /\ GetLoan(db'[home], a, away) = GetLoan(db[home], a, away) + n
           /\ Supply(db'[away], ImportedAssetID(a, home)) + k
                = Supply(db[away], ImportedAssetID(a, home))
<1> DEFINE i == ImportedAssetID(a, home)
           e == db'[c]
<1>1. /\ m.src = c /\ m.dest = x.destination /\ m.return = x.return
      /\ m.value = x.value /\ m.reward = x.reward
      /\ m.asset = IF x.return THEN d.assets[x.asset].metadata[1] ELSE x.asset
  BY DEF WarpTransfer
<1>2. /\ i \in ImportedIDs /\ i \in AssetIDs /\ a \in AssetIDs /\ i = <<a, home>>
      /\ \A y \in Chains : /\ Supply(db[y], i) \in Nat /\ Supply(db'[y], i) \in Nat
                           /\ GetLoan(db[y], a, away) \in Nat
  <2>1. i \in ImportedIDs /\ i \in AssetIDs /\ a \in AssetIDs /\ i = <<a, home>>
    BY DEF ImportedAssetID, ImportedIDs, AssetIDs
  <2>2. \A y \in Chains : db[y] \in DB /\ db'[y] \in DB
    BY DEF IInv, TypeOK
  <2>3. \A f \in DB : Supply(f, i) \in Nat /\ GetLoan(f, a, away) \in Nat
    BY <2>1, GoneType, GetLoanType, StorageAssumption DEF Amount
  <2> QED
    BY <2>1, <2>2, <2>3
<1>3. /\ Carried(m) \in Nat /\ m.value \in Nat /\ m.reward \in Nat
      /\ Carried(m) = m.value + m.reward
      /\ Share(home, away, a, m) \in Nat
  BY CarriedType DEF Carried, Share
<1>4. /\ Supply(d, i) = Supply(db[c], i) /\ GetLoan(d, a, away) = GetLoan(db[c], a, away)
      /\ d.assets \in [AssetIDs -> Asset \cup {Missing}]
      /\ d.assets = db[c].assets
  <2>1. d \in DB /\ d.assets = db[c].assets /\ d.loans = db[c].loans
    BY DEF Paid, OnlyBalances
  <2>2. d.assets \in [AssetIDs -> Asset \cup {Missing}]
    BY <2>1 DEF DB
  <2> QED
    BY <2>1, <2>2 DEF Supply, GetLoan
<1>5. x.asset \in AssetIDs /\ x.return \in BOOLEAN /\ x.destination \in Chains
  BY DEF ExportRequest
<1>6. \A asset \in AssetIDs : d.assets[asset] # Missing =>
        /\ d.assets[asset].warp <=> asset \in ImportedIDs
        /\ d.assets[asset].warp => d.assets[asset].metadata = asset
  BY <1>4 DEF IInv, Sound, WarpOK, WarpRecordOK
<1> DEFINE s == Share(home, away, a, m)
<1> HIDE DEF i, e
<1>7. CASE x.return
  <2>1. SentHome(d, e, actor, x)
    BY <1>7 DEF e
  <2>2. /\ d.assets[x.asset] \in Asset /\ d.assets[x.asset] # Missing /\ d.assets[x.asset].warp
        /\ d.assets[x.asset].metadata[2] = x.destination
        /\ e.loans = d.loans
    BY <2>1, MissingAssumption DEF SentHome
  <2>3. x.asset \in ImportedIDs /\ d.assets[x.asset].metadata = x.asset
    BY <1>5, <1>6, <2>2
  <2>4. x.asset = <<m.asset, m.dest>>
    BY <1>1, <1>7, <2>2, <2>3 DEF ImportedIDs
  <2>5. Travels(home, away, a, m) <=> away = c /\ x.asset = i
    <3>1. m.return /\ m.src = c
      BY <1>1, <1>7
    <3>2. Travels(home, away, a, m) <=> m.asset = a /\ c = away /\ m.dest = home
      BY Zenon, <3>1 DEF Travels
    <3>3. x.asset = i <=> m.asset = a /\ m.dest = home
      BY <1>2, <2>4
    <3> QED
      BY <3>2, <3>3
  <2>6. PICK rest : /\ e.assets = [d.assets EXCEPT ![x.asset] = rest]
                    /\ SupplyOf(rest) = d.assets[x.asset].supply + (-(x.value + x.reward))
    BY <2>1 DEF SentHome
  <2>7. Supply(d, x.asset) = d.assets[x.asset].supply
    BY <2>2 DEF Supply, SupplyOf
  <2>8. Supply(e, x.asset) = Supply(d, x.asset) + (-Carried(m))
    BY <1>1, <1>3, <1>4, <1>5, <2>6, <2>7 DEF Supply
  <2>9. \A y : y \in AssetIDs /\ y # x.asset => Supply(e, y) = Supply(d, y)
    BY <1>4, <2>6 DEF Supply
  <2>10. Supply(db'[away], i) + s = Supply(db[away], i)
    <3>1. CASE away = c
      BY <1>2, <1>3, <1>4, <2>5, <2>8, <2>9, <3>1 DEF e, Share
    <3>2. CASE away # c
      BY <1>2, <2>5, <3>2 DEF Step, Share
    <3> QED
      BY <3>1, <3>2
  <2>11. GetLoan(db'[home], a, away) = GetLoan(db[home], a, away)
    BY <1>4, <2>2 DEF GetLoan, Step, e
  <2>12. GetLoan(db'[home], a, away) = GetLoan(db[home], a, away) + 0
    BY <1>2, <2>11
  <2>13. 0 \in Nat /\ s \in Nat /\ 0 + s = Share(home, away, a, m)
    BY <1>3
  <2> HIDE DEF s
  <2> QED
    BY <2>10, <2>12, <2>13 DEF i
<1>8. CASE ~x.return
  <2>1. SentAway(d, e, actor, x)
    BY <1>8 DEF e
  <2>2. /\ d.assets[x.asset] \in Asset /\ d.assets[x.asset] # Missing /\ ~d.assets[x.asset].warp
        /\ e.assets = d.assets
    BY <2>1, MissingAssumption DEF SentAway
  <2>3. m.asset = x.asset
    BY <1>1, <1>8
  <2>4. GetLoan(e, a, away) = GetLoan(d, a, away)
          + At(a, away, x.asset, x.destination, x.value)
          + At(a, away, x.asset, x.destination, x.reward)
    BY <1>2, <2>1 DEF SentAway
  <2>5. Travels(home, away, a, m) <=> home = c /\ a = x.asset /\ away = x.destination
    BY <1>1, <1>8, <2>3 DEF Travels
  <2>6. GetLoan(db'[home], a, away) = GetLoan(db[home], a, away) + s
    <3>1. CASE home = c
      BY <1>1, <1>2, <1>3, <1>4, <2>4, <2>5, <3>1 DEF At, Share, e
    <3>2. CASE home # c
      BY <1>2, <2>5, <3>2 DEF Step, Share
    <3> QED
      BY <3>1, <3>2
  <2>7. Supply(db'[away], i) = Supply(db[away], i)
    BY <1>4, <2>2 DEF Supply, Step, e
  <2>8. Supply(db'[away], i) + 0 = Supply(db[away], i)
    BY <1>2, <2>7
  <2>9. 0 \in Nat /\ s \in Nat /\ s + 0 = Share(home, away, a, m)
    BY <1>3
  <2> HIDE DEF s
  <2> QED
    BY <2>6, <2>8, <2>9 DEF i
<1> QED
  BY <1>5, <1>7, <1>8

\* An import repays what the message carries, or mints it.
LEMMA ImportFlow ==
  ASSUME IInv, IInv', NEW c \in Chains, NEW actor \in Accounts, NEW kind,
         Step(c, actor, kind), NEW d, Paid(c, d),
         NEW m \in Message, m.dest = c, NEW mid,
         IF m.return THEN CameHome(d, mid, actor, m) ELSE Arrived(d, mid, actor, m),
         db'[c] = mid \/ Swapped(mid, db'[c], actor, m),
         NEW home \in Chains, NEW away \in Chains, NEW a \in LocalIDs
  PROVE  \E n, k \in Nat :
           /\ n + k = Share(home, away, a, m)
           /\ GetLoan(db'[home], a, away) + n = GetLoan(db[home], a, away)
           /\ Supply(db'[away], ImportedAssetID(a, home))
                = Supply(db[away], ImportedAssetID(a, home)) + k
<1> DEFINE i == ImportedAssetID(a, home)
           j == ImportedAssetID(m.asset, m.src)
           e == db'[c]
<1>1. /\ i \in AssetIDs /\ a \in AssetIDs /\ i = <<a, home>>
      /\ j \in AssetIDs /\ j = <<m.asset, m.src>>
      /\ m.asset \in LocalIDs /\ m.asset \in AssetIDs /\ m.src \in Chains
      /\ m.return \in BOOLEAN
  BY DEF ImportedAssetID, ImportedIDs, AssetIDs, Message
<1>2. \A y \in Chains : /\ Supply(db[y], i) \in Nat /\ Supply(db'[y], i) \in Nat
                        /\ GetLoan(db[y], a, away) \in Nat
  <2>1. \A y \in Chains : db[y] \in DB /\ db'[y] \in DB
    BY DEF IInv, TypeOK
  <2>2. \A f \in DB : Supply(f, i) \in Nat /\ GetLoan(f, a, away) \in Nat
    BY <1>1, GoneType, GetLoanType, StorageAssumption DEF Amount
  <2> QED
    BY <2>1, <2>2
<1>3. /\ Carried(m) \in Nat /\ m.value \in Nat /\ m.reward \in Nat
      /\ Carried(m) = m.value + m.reward
      /\ Share(home, away, a, m) \in Nat
  BY CarriedType DEF Carried, Share
<1>4. /\ Supply(d, i) = Supply(db[c], i) /\ GetLoan(d, a, away) = GetLoan(db[c], a, away)
      /\ d.assets \in [AssetIDs -> Asset \cup {Missing}]
  <2>1. d \in DB /\ d.assets = db[c].assets /\ d.loans = db[c].loans
    BY DEF Paid, OnlyBalances
  <2>2. d.assets \in [AssetIDs -> Asset \cup {Missing}]
    BY <2>1 DEF DB
  <2> QED
    BY <2>1, <2>2 DEF Supply, GetLoan
<1>5. e.assets = mid.assets /\ e.loans = mid.loans
  BY DEF Swapped, OnlyBalances
<1> DEFINE s == Share(home, away, a, m)
<1> HIDE DEF i, j, e
<1>6. CASE m.return
  <2>1. CameHome(d, mid, actor, m)
    BY <1>6
  <2>2. GetLoan(mid, a, away) = GetLoan(d, a, away)
          + At(a, away, m.asset, m.src, -m.value) + At(a, away, m.asset, m.src, -m.reward)
    BY <1>1, <2>1 DEF CameHome
  <2>3. GetLoan(e, a, away) = GetLoan(mid, a, away)
    BY <1>5 DEF GetLoan
  <2>4. Travels(home, away, a, m) <=> home = c /\ a = m.asset /\ away = m.src
    BY <1>6 DEF Travels
  <2>5. GetLoan(db'[home], a, away) + s = GetLoan(db[home], a, away)
    <3>1. CASE home = c
      BY <1>2, <1>3, <1>4, <2>2, <2>3, <2>4, <3>1 DEF At, Share, e
    <3>2. CASE home # c
      BY <1>2, <2>4, <3>2 DEF Step, Share
    <3> QED
      BY <3>1, <3>2
  <2>6. e.assets = d.assets
    BY <1>5, <2>1 DEF CameHome
  <2>7. Supply(db'[away], i) = Supply(db[away], i) + 0
    BY <1>2, <1>4, <2>6 DEF Supply, Step, e
  <2>8. 0 \in Nat /\ s \in Nat /\ s + 0 = Share(home, away, a, m)
    BY <1>3
  <2> HIDE DEF s
  <2> QED
    BY <2>5, <2>7, <2>8 DEF i
<1>7. CASE ~m.return
  <2>1. Arrived(d, mid, actor, m)
    BY <1>7
  <2>2. PICK record : /\ mid.assets = [d.assets EXCEPT ![j] = record]
                      /\ SupplyOf(record) = SupplyOf(d.assets[j]) + m.value + m.reward
    BY <2>1 DEF Arrived, j
  <2>3. Travels(home, away, a, m) <=> away = c /\ i = j
    BY <1>1, <1>7 DEF Travels
  <2>4. Supply(e, j) = Supply(d, j) + m.value + m.reward
    BY <1>1, <1>4, <1>5, <2>2 DEF Supply
  <2>5. i # j => Supply(e, i) = Supply(d, i)
    BY <1>1, <1>4, <1>5, <2>2 DEF Supply
  <2>6. Supply(db'[away], i) = Supply(db[away], i) + s
    <3>1. CASE away = c
      BY <1>2, <1>3, <1>4, <2>3, <2>4, <2>5, <3>1 DEF Share, e
    <3>2. CASE away # c
      BY <1>2, <2>3, <3>2 DEF Step, Share
    <3> QED
      BY <3>1, <3>2
  <2>7. e.loans = d.loans
    BY <1>5, <2>1 DEF Arrived
  <2>8. GetLoan(db'[home], a, away) = GetLoan(db[home], a, away)
    BY <1>4, <2>7 DEF GetLoan, Step, e
  <2>9. GetLoan(db'[home], a, away) + 0 = GetLoan(db[home], a, away)
    BY <1>2, <2>8
  <2>10. 0 \in Nat /\ s \in Nat /\ 0 + s = Share(home, away, a, m)
    BY <1>3
  <2> HIDE DEF s
  <2> QED
    BY <2>6, <2>9, <2>10 DEF i
<1> QED
  BY <1>1, <1>6, <1>7

\* An export keeps the bridge: what it sends it lends or takes from an import.
LEMMA ExportKeeps ==
  ASSUME IInv, IInv', BridgeInv, NEW c \in Chains, NEW actor \in Accounts, NEW kind,
         Step(c, actor, kind), NEW d, Paid(c, d), ExportAssetActs(c, actor, d)
  PROVE  BridgeInv'
<1>1. PICK id \in TxIDs \ used, x \in ExportRequest : \E m :
        /\ m = WarpTransfer(d, c, id, x) /\ MessageOK(m) /\ x.value # 0
        /\ used' = used \cup {id} /\ sent' = sent \cup {m}
        /\ IF x.return THEN SentHome(d, db'[c], actor, x)
                       ELSE SentAway(d, db'[c], actor, x)
  BY DEF ExportAssetActs
<1>2. PICK m :
        /\ m = WarpTransfer(d, c, id, x) /\ MessageOK(m) /\ x.value # 0
        /\ used' = used \cup {id} /\ sent' = sent \cup {m}
        /\ IF x.return THEN SentHome(d, db'[c], actor, x)
                       ELSE SentAway(d, db'[c], actor, x)
  BY <1>1
<1>3. m.txID = id /\ m.value = x.value /\ m \in Message /\ m.dest \in Chains
  BY <1>2 DEF WarpTransfer, MessageOK, Message
<1>4. m \notin sent /\ m \notin received[m.dest] /\ received' = received
  BY <1>3 DEF BridgeInv, ExportAssetActs
<1>5. sent \in SUBSET Message /\ IsFiniteSet(sent) /\ IsFiniteSet(sent')
  BY <1>2, FS_AddElement DEF IInv, TypeOK, BridgeInv
<1>6. \A n \in sent' : n.txID \in used' /\ n.value # 0
  BY <1>2, <1>3 DEF BridgeInv
<1>7. \A y \in Chains : received'[y] \subseteq sent'
  BY <1>2, <1>4 DEF BridgeInv
<1>8. ASSUME NEW home \in Chains, NEW away \in Chains, NEW a \in LocalIDs
      PROVE  Backed(home, away, a)'
  <2> DEFINE i == ImportedAssetID(a, home)
             s == Share(home, away, a, m)
  <2>1. /\ Supply(db[away], i) \in Nat /\ Supply(db'[away], i) \in Nat
        /\ OnTheWay(home, away, a) \in Nat
        /\ GetLoan(db[home], a, away) \in Nat
    BY <1>5, BridgeTypes
  <2>2. Backed(home, away, a)
    BY DEF BridgeInv, LoansBackImports, Backed
  <2>3. OnTheWay(home, away, a)' = OnTheWay(home, away, a) + s
    BY <1>2, <1>3, <1>4, <1>5, CargoSent, OnTheWayIsCargo
  <2>4. PICK n \in Nat, k \in Nat :
          /\ n + k = s
          /\ GetLoan(db'[home], a, away) = GetLoan(db[home], a, away) + n
          /\ Supply(db'[away], i) + k = Supply(db[away], i)
    BY <1>2, <1>3, ExportFlow
  <2> HIDE DEF s
  <2>5. Supply(db'[away], i) + OnTheWay(home, away, a)' <= GetLoan(db'[home], a, away)
    BY <2>1, <2>2, <2>3, <2>4 DEF Backed
  <2> QED
    BY <2>5 DEF Backed
<1>9. LoansBackImports'
  BY <1>8 DEF LoansBackImports, Backed
<1> QED
  BY <1>5, <1>6, <1>7, <1>9 DEF BridgeInv

\* An import keeps the bridge: what it repays or mints was on its way.
LEMMA ImportKeeps ==
  ASSUME IInv, IInv', BridgeInv, NEW c \in Chains, NEW actor \in Accounts, NEW kind,
         Step(c, actor, kind), NEW d, Paid(c, d), ImportAssetActs(c, actor, d)
  PROVE  BridgeInv'
<1>1. PICK m \in sent : \E mid :
        /\ m.dest = c /\ m \notin received[c]
        /\ received' = [received EXCEPT ![c] = received[c] \cup {m}]
        /\ IF m.return THEN CameHome(d, mid, actor, m) ELSE Arrived(d, mid, actor, m)
        /\ db'[c] = mid \/ Swapped(mid, db'[c], actor, m)
  BY DEF ImportAssetActs
<1>2. PICK mid :
        /\ m.dest = c /\ m \notin received[c]
        /\ received' = [received EXCEPT ![c] = received[c] \cup {m}]
        /\ IF m.return THEN CameHome(d, mid, actor, m) ELSE Arrived(d, mid, actor, m)
        /\ db'[c] = mid \/ Swapped(mid, db'[c], actor, m)
  BY <1>1
<1>3. /\ sent \in SUBSET Message /\ IsFiniteSet(sent) /\ sent' = sent /\ used' = used
      /\ received \in [Chains -> SUBSET Message] /\ m \in Message
  BY DEF IInv, TypeOK, BridgeInv, ImportAssetActs
<1>4. \A n \in sent' : n.txID \in used' /\ n.value # 0
  BY <1>3 DEF BridgeInv
<1>5. \A y \in Chains : received'[y] \subseteq sent'
  BY <1>2, <1>3 DEF BridgeInv
<1>6. ASSUME NEW home \in Chains, NEW away \in Chains, NEW a \in LocalIDs
      PROVE  Backed(home, away, a)'
  <2> DEFINE i == ImportedAssetID(a, home)
             s == Share(home, away, a, m)
  <2>1. /\ Supply(db[away], i) \in Nat /\ Supply(db'[away], i) \in Nat
        /\ OnTheWay(home, away, a) \in Nat /\ OnTheWay(home, away, a)' \in Nat
        /\ GetLoan(db[home], a, away) \in Nat /\ GetLoan(db'[home], a, away) \in Nat
    BY <1>3, BridgeTypes
  <2>2. Backed(home, away, a)
    BY DEF BridgeInv, LoansBackImports, Backed
  <2>3. OnTheWay(home, away, a)' + s = OnTheWay(home, away, a)
    <3>1. received' = Landed(received, m) /\ m \notin received[m.dest]
      BY <1>2 DEF Landed
    <3>2. Total(Cargo(home, away, a, sent, Landed(received, m))) + Share(home, away, a, m)
            = Total(Cargo(home, away, a, sent, received))
      BY <1>3, <3>1, CargoArrived
    <3> QED
      BY <1>3, <3>1, <3>2, OnTheWayIsCargo
  <2>4. PICK n \in Nat, k \in Nat :
          /\ n + k = s
          /\ GetLoan(db'[home], a, away) + n = GetLoan(db[home], a, away)
          /\ Supply(db'[away], i) = Supply(db[away], i) + k
    BY <1>2, <1>3, ImportFlow
  <2> HIDE DEF s
  <2>5. Supply(db'[away], i) + OnTheWay(home, away, a)' <= GetLoan(db'[home], a, away)
    BY <2>1, <2>2, <2>3, <2>4 DEF Backed
  <2> QED
    BY <2>5 DEF Backed
<1>7. LoansBackImports'
  BY <1>6 DEF LoansBackImports, Backed
<1> QED
  BY <1>3, <1>4, <1>5, <1>7 DEF BridgeInv

\* Every step keeps the bridge.
LEMMA NextBridgeInv == IInv /\ IInv' /\ BridgeInv /\ [Next]_vars => BridgeInv'
<1> SUFFICES ASSUME IInv, IInv', BridgeInv, [Next]_vars PROVE BridgeInv'
  OBVIOUS
<1>1. CASE Quiet
  <2>1. ASSUME NEW home \in Chains, NEW away \in Chains, NEW a \in LocalIDs
        PROVE  Backed(home, away, a)'
    <3>1. OnTheWay(home, away, a)' = OnTheWay(home, away, a)
      BY <1>1, OnTheWayIsCargo DEF Quiet
    <3> QED
      BY <1>1, <3>1 DEF Quiet, BridgeInv, LoansBackImports, Backed
  <2>2. LoansBackImports'
    BY <2>1 DEF LoansBackImports, Backed
  <2> QED
    BY <1>1, <2>2 DEF Quiet, BridgeInv
<1>2. CASE ~Quiet
  <2>1. PICK c \in Chains, actor \in Accounts, kind \in ActionKinds : Transacts(c, actor, kind)
    BY <1>2, Outcome
  <2>2. Step(c, actor, kind)
    BY <2>1 DEF Transacts
  <2>3. ASSUME NEW e, NEW f, e.assets = f.assets, e.loans = f.loans
        PROVE  \A i, z : Supply(e, i) = Supply(f, i) /\ GetLoan(e, i, z) = GetLoan(f, i, z)
    BY <2>3 DEF Supply, GetLoan
  <2>4. \A i \in AssetIDs : Supply(db[c], i) \in Nat
    BY GoneType DEF IInv, TypeOK
  <2>5. CASE Idle(c) /\ used \subseteq used' /\ UNCHANGED <<sent, received>>
    <3>1. Aside(db[c], db'[c])
      BY <2>3, <2>4, <2>5 DEF Idle, OnlyBalances, Aside, AssetIDs
    <3> QED
      BY <2>2, <2>5, <3>1, AsideKeeps
  <2>6. ASSUME NEW d, Paid(c, d), Acts(c, actor, kind, d) PROVE BridgeInv'
    <3>1. CASE ExportAssetActs(c, actor, d)
      BY <2>2, <2>6, <3>1, ExportKeeps
    <3>2. CASE ImportAssetActs(c, actor, d)
      BY <2>2, <2>6, <3>2, ImportKeeps
    <3>3. CASE ~ExportAssetActs(c, actor, d) /\ ~ImportAssetActs(c, actor, d)
      <4>1. Aside(d, db'[c]) /\ sent' = sent /\ received' = received
        BY <2>6, <3>3, ActsAside DEF Acts
      <4>2. \A i, z : Supply(d, i) = Supply(db[c], i) /\ GetLoan(d, i, z) = GetLoan(db[c], i, z)
        BY <2>3, <2>6 DEF Paid, OnlyBalances
      <4>3. Aside(db[c], db'[c])
        BY <4>1, <4>2 DEF Aside
      <4>4. used \subseteq used'
        BY <2>6, ActsUse
      <4> QED
        BY <2>2, <4>1, <4>3, <4>4, AsideKeeps
    <3> QED
      BY <3>1, <3>2, <3>3
  <2> QED
    BY <2>1, <2>5, <2>6 DEF Transacts
<1> QED
  BY <1>1, <1>2

\* The two invariants together.
THEOREM BridgeInvariance == Spec => [](IInv /\ BridgeInv)
<1>1. Init => IInv /\ BridgeInv
  BY InitIInv, InitBridgeInv
<1>2. IInv /\ BridgeInv /\ [Next]_vars => (IInv /\ BridgeInv)'
  BY NextIInv, NextBridgeInv
<1> QED
  BY <1>1, <1>2, PTL DEF Spec

\* Every unit of an imported asset, on the chain it was imported to or on its
\* way, is backed by the loan at home, whatever is burnt, returned or sent on
\* meanwhile: the bridge never mints money.
THEOREM ImportsStayBacked == Spec => []LoansBackImports
<1>1. BridgeInv => LoansBackImports
  BY DEF BridgeInv
<1> QED
  BY <1>1, BridgeInvariance, PTL

-----------------------------------------------------------------------------
\* NoMessageStuck.

\* Nothing is gone that did not exist.
LEMMA Reserves ==
  ASSUME IInv, NEW c \in Chains
  PROVE  db[c] \in DB /\ Sound(Zeros(c), db[c]) /\ \A a \in AssetIDs : Gone(db[c], a) >= 0
<1>1. fees[c] \in Nat /\ GenesisLost(c) \in Nat
  BY GenesisLostType DEF IInv, TypeOK
<1>2. Sound(Zeros(c), db[c]) /\ db[c] \in DB
  BY DEF IInv, Sound
<1> QED
  BY <1>1, <1>2 DEF IInv, Conservation

\* What is gone of an asset fits on top of any balance of it, for what is held
\* and what is gone is not more than exists.
LEMMA GoneFits ==
  ASSUME NEW d \in DB, NEW pk \in PublicKeys, NEW a \in AssetIDs, NEW amount \in Nat,
         amount <= Gone(d, a)
  PROVE  GetBalance(d, pk, a) + amount <= MaxUint64
<1>1. Holdings(d, a) \in [PublicKeys -> Nat] /\ IsFiniteSet(PublicKeys)
  BY SummandsType, PublicKeysFinite
<1>2. Holdings(d, a)[pk] <= Total(Holdings(d, a))
  BY <1>1, TotalBound
<1>3. GetBalance(d, pk, a) <= Held(d, a) /\ GetBalance(d, pk, a) \in Nat
  BY <1>1, <1>2 DEF Held, Holdings
<1>4. Supply(d, a) <= MaxUint64
  BY StorageAssumption DEF Supply, SupplyOf, DB, Asset, Amount
<1>5. /\ Supply(d, a) \in Nat
      /\ Held(d, a) \in Nat /\ Locked(d, a) \in Nat /\ Lent(d, a) \in Nat
  BY GoneType
<1>6. Held(d, a) + amount <= Supply(d, a)
  BY <1>5 DEF Gone
<1> QED
  BY <1>3, <1>4, <1>5, <1>6, StorageAssumption

\* So it can be credited, and then as much less is gone.
LEMMA Creditable ==
  ASSUME NEW s \in Run, s.ok, NEW pk \in PublicKeys, NEW a \in AssetIDs,
         NEW amount \in Nat, amount <= Gone(s.db, a)
  PROVE  /\ AddBalance(s, pk, a, amount) \in Run /\ AddBalance(s, pk, a, amount).ok
         /\ OnlyBalances(s.db, AddBalance(s, pk, a, amount).db)
         /\ Gone(AddBalance(s, pk, a, amount).db, a) = Gone(s.db, a) - amount
<1> DEFINE r   == AddBalance(s, pk, a, amount)
           new == GetBalance(s.db, pk, a) + amount
<1>1. /\ r = AddBalance(s, pk, a, amount) /\ new = GetBalance(s.db, pk, a) + amount
      /\ s.ok => amount \in Nat
  OBVIOUS
<1>2. s.db \in DB
  BY DEF Run
<1>3. new <= MaxUint64
  BY <1>2, GoneFits
<1> HIDE DEF r, new
<1>4. /\ r \in Run
      /\ s.ok /\ new <= MaxUint64 => r.ok
      /\ r.db = IF r.ok THEN SetBal(s.db, <<pk, a>>, new) ELSE s.db
  BY <1>1, AddBalanceRun
<1>5. OnlyBalances(s.db, r.db)
  BY <1>1, AddBalanceEntry
<1>6. Moves(s.db, r.db, a, -amount)
  BY <1>1, <1>3, <1>4, AddBalanceFlow
<1>7. Gone(r.db, a) = Gone(s.db, a) + (-amount) /\ Gone(s.db, a) \in Int
  BY <1>2, <1>6, GoneType DEF Moves
<1>8. r \in Run /\ r.ok /\ Gone(r.db, a) = Gone(s.db, a) - amount
  BY <1>3, <1>4, <1>7
<1> QED
  BY <1>1, <1>5, <1>8

\* What is lent can be repaid, and then as much more is gone.
LEMMA Repayable ==
  ASSUME NEW s \in Run, s.ok, NEW a \in AssetIDs, NEW dest \in Chains,
         NEW amount \in Nat, amount <= GetLoan(s.db, a, dest)
  PROVE  /\ SubLoan(s, a, dest, amount) \in Run /\ SubLoan(s, a, dest, amount).ok
         /\ GetLoan(SubLoan(s, a, dest, amount).db, a, dest) = GetLoan(s.db, a, dest) - amount
         /\ Gone(SubLoan(s, a, dest, amount).db, a) = Gone(s.db, a) + amount
<1> DEFINE r == SubLoan(s, a, dest, amount)
<1>1. /\ r = SubLoan(s, a, dest, amount)
      /\ s.ok => amount \in Nat
  OBVIOUS
<1>2. s.db \in DB
  BY DEF Run
<1>3. GetLoan(s.db, a, dest) \in Int
  BY <1>2, GetLoanType, StorageAssumption DEF Amount
<1> HIDE DEF r
<1>4. /\ r \in Run
      /\ s.ok /\ amount <= GetLoan(s.db, a, dest) => r.ok
      /\ r.ok => \A b \in AssetIDs, z \in Chains :
                   GetLoan(r.db, b, z) = GetLoan(s.db, b, z) + At(b, z, a, dest, -amount)
  BY <1>1, SubLoanEntry
<1>5. Moves(s.db, r.db, a, amount)
  BY <1>1, <1>4, SubLoanFlow
<1>6. Gone(r.db, a) = Gone(s.db, a) + amount
  BY <1>5 DEF Moves
<1>7. GetLoan(r.db, a, dest) = GetLoan(s.db, a, dest) - amount
  BY <1>3, <1>4 DEF At
<1> QED
  BY <1>1, <1>4, <1>6, <1>7

\* What comes home finds its loan, and what was repaid fits into the balances.
LEMMA ReturnSucceeds ==
  ASSUME NEW s \in Run, s.ok, NEW actor \in PublicKeys, NEW m \in Message,
         Gone(s.db, m.asset) >= 0, Carried(m) <= GetLoan(s.db, m.asset, m.src)
  PROVE  ImportReturn(s, actor, m).ok /\ ImportReturn(s, actor, m) \in Run
<1> DEFINE a        == m.asset
           value    == m.value
           owed     == m.reward
           repaid   == SubLoan(s, a, m.src, value)
           credited == AddBalance(repaid, m.to, a, value)
           reward   == SubLoan(credited, a, m.src, owed)
<1>1. ImportReturn(s, actor, m)
        = IF owed > 0 THEN AddBalance(reward, actor, a, owed) ELSE credited
  BY DEF ImportReturn
<1>2. /\ value \in Nat /\ owed \in Nat /\ a \in AssetIDs /\ m.src \in Chains
      /\ m.to \in PublicKeys /\ Carried(m) = value + owed
  BY StorageAssumption DEF Message, Amount, AssetIDs, Carried
<1>3. Gone(s.db, a) \in Int /\ GetLoan(s.db, a, m.src) \in Int /\ s.db \in DB
  BY <1>2, GoneType, GetLoanType, StorageAssumption DEF Run, Amount
<1>4. /\ Gone(s.db, a) >= 0 /\ value + owed <= GetLoan(s.db, a, m.src)
  BY <1>2
<1> HIDE DEF a, value, owed
<1>5. value <= GetLoan(s.db, a, m.src)
  BY <1>2, <1>3, <1>4
<1>6. /\ repaid \in Run /\ repaid.ok
      /\ GetLoan(repaid.db, a, m.src) = GetLoan(s.db, a, m.src) - value
      /\ Gone(repaid.db, a) = Gone(s.db, a) + value
  BY <1>2, <1>5, Repayable
<1> HIDE DEF repaid
<1>7. value <= Gone(repaid.db, a)
  BY <1>2, <1>3, <1>4, <1>6
<1>8. /\ credited \in Run /\ credited.ok /\ OnlyBalances(repaid.db, credited.db)
      /\ Gone(credited.db, a) = Gone(repaid.db, a) - value
  BY <1>2, <1>6, <1>7, Creditable
<1> HIDE DEF credited
<1>9. /\ Gone(credited.db, a) = Gone(s.db, a)
      /\ GetLoan(credited.db, a, m.src) = GetLoan(s.db, a, m.src) - value
  <2>1. GetLoan(credited.db, a, m.src) = GetLoan(repaid.db, a, m.src)
    BY <1>8 DEF OnlyBalances, GetLoan
  <2> QED
    BY <1>2, <1>3, <1>6, <1>8, <2>1
<1>10. owed <= GetLoan(credited.db, a, m.src)
  BY <1>2, <1>3, <1>4, <1>9
<1>11. /\ reward \in Run /\ reward.ok
       /\ Gone(reward.db, a) = Gone(credited.db, a) + owed
  BY <1>2, <1>8, <1>10, Repayable
<1> HIDE DEF reward
<1>12. owed <= Gone(reward.db, a)
  BY <1>2, <1>3, <1>4, <1>9, <1>11
<1>13. AddBalance(reward, actor, a, owed) \in Run /\ AddBalance(reward, actor, a, owed).ok
  BY <1>2, <1>11, <1>12, Creditable
<1> QED
  BY <1>1, <1>8, <1>13

\* What arrives from another chain fits into the supply of its import, and what
\* is minted fits into the balances.
LEMMA MintSucceeds ==
  ASSUME NEW s \in Run, s.ok, NEW actor \in PublicKeys, NEW m \in Message,
         NEW i, i = ImportedAssetID(m.asset, m.src), WarpOK(s.db), Gone(s.db, i) >= 0,
         Supply(s.db, i) + Carried(m) <= MaxUint64
  PROVE  ImportMint(s, actor, m).ok /\ ImportMint(s, actor, m) \in Run
<1> DEFINE a        == s.db.assets[i]
           t        == Touch(s, AssetKey(i))
           found    == Require(t, a = Missing \/ a.warp)
           before   == IF a = Missing THEN 0 ELSE a.supply
           supply   == before + m.value + m.reward
           fits     == Require(found, supply <= MaxUint64)
           record   == [metadata |-> IF a = Missing
                                     THEN ImportedAssetMetadata(m.asset, m.src)
                                     ELSE a.metadata,
                        supply |-> supply, owner |-> EmptyKey, warp |-> TRUE]
           minted   == SetAsset(fits, i, record)
           credited == AddBalance(minted, m.to, i, m.value)
<1>1. ImportMint(s, actor, m)
        = IF m.reward > 0 THEN AddBalance(credited, actor, i, m.reward) ELSE credited
  BY DEF ImportMint
<1>2. /\ m.value \in Nat /\ m.reward \in Nat /\ m.to \in PublicKeys
      /\ Carried(m) = m.value + m.reward
  BY StorageAssumption DEF Message, Amount, Carried
<1>3. /\ i \in ImportedIDs /\ i \in AssetIDs /\ s.db \in DB
      /\ ImportedAssetMetadata(m.asset, m.src) = i
  BY DEF Message, ImportedAssetID, ImportedAssetMetadata, ImportedIDs, AssetIDs, Run
<1>4. t \in Run /\ t.ok /\ t.db = s.db
  BY <1>3, AssetKeyType, TouchRun
<1>5. a \in Asset \cup {Missing} /\ (a = Missing \/ a.warp)
  BY <1>3 DEF DB, WarpOK, WarpRecordOK
<1>6. before = Supply(s.db, i) /\ Supply(s.db, i) \in Nat /\ Gone(s.db, i) \in Int
  BY <1>3, GoneType DEF Supply, SupplyOf
<1> HIDE DEF t, a
<1>7. /\ found \in Run /\ found.db = s.db /\ found.ok
  BY <1>4, <1>5 DEF Require, Run
<1> HIDE DEF found, before
<1>8. supply <= MaxUint64 /\ supply \in Amount /\ supply = before + Carried(m)
  BY <1>2, <1>6, StorageAssumption DEF Amount
<1> HIDE DEF supply
<1>9. fits \in Run /\ fits.db = s.db /\ fits.ok
  BY <1>7, <1>8 DEF Require, Run
<1> HIDE DEF fits
<1>10. record \in Asset /\ record.supply = supply
  <2>1. record.metadata \in Metadata \cup ImportedIDs
    BY <1>3, <1>5 DEF Asset
  <2> QED
    BY <1>8, <2>1 DEF Asset, PublicKeys
<1> HIDE DEF record
<1>11. SupplyOf(record) = supply /\ SupplyOf(fits.db.assets[i]) = before
  BY <1>6, <1>9, <1>10, MissingAssumption DEF SupplyOf, Supply
<1> DEFINE amount == supply - before
<1>12. /\ amount = Carried(m) /\ amount = SupplyOf(record) - SupplyOf(fits.db.assets[i])
       /\ record \in Asset \cup {Missing} /\ minted = SetAsset(fits, i, record)
  BY <1>2, <1>6, <1>8, <1>10, <1>11
<1> HIDE DEF minted, amount
<1>13. minted \in Run /\ minted.ok
  BY <1>3, <1>9, <1>12, SetAssetRun
<1>14. Moves(fits.db, minted.db, i, amount)
  BY <1>3, <1>9, <1>12, <1>13, SetAssetFlow
<1>15. Gone(minted.db, i) = Gone(s.db, i) + Carried(m)
  BY <1>3, <1>9, <1>12, <1>14 DEF Moves
<1>16. m.value <= Gone(minted.db, i)
  BY <1>2, <1>6, <1>15
<1>17. /\ credited \in Run /\ credited.ok
       /\ Gone(credited.db, i) = Gone(minted.db, i) - m.value
  BY <1>2, <1>3, <1>13, <1>16, Creditable
<1> HIDE DEF credited
<1>18. m.reward <= Gone(credited.db, i)
  BY <1>2, <1>6, <1>15, <1>17
<1>19. AddBalance(credited, actor, i, m.reward) \in Run
         /\ AddBalance(credited, actor, i, m.reward).ok
  BY <1>2, <1>3, <1>17, <1>18, Creditable
<1> QED
  BY <1>1, <1>17, <1>19

\* A pending message is on its way.
LEMMA PendingTravels ==
  ASSUME IInv, IsFiniteSet(sent), NEW m \in Pending, NEW home, NEW away,
         Travels(home, away, m.asset, m)
  PROVE  Carried(m) <= OnTheWay(home, away, m.asset)
<1> DEFINE f == Cargo(home, away, m.asset, sent, received)
<1>1. sent \in SUBSET Message /\ m \in sent /\ m \notin received[m.dest]
  BY DEF IInv, TypeOK, Pending
<1>2. f \in [sent -> Nat]
  BY <1>1, CargoType
<1>3. f[m] = Carried(m)
  BY <1>1 DEF Cargo
<1> HIDE DEF f
<1>4. f[m] <= Total(f)
  BY <1>1, <1>2, TotalBound
<1> QED
  BY <1>3, <1>4, OnTheWayIsCargo DEF f

\* The import of a pending message succeeds but for its swap.
LEMMA PendingArrives ==
  ASSUME IInv, BridgeInv, NEW m \in Pending, NEW actor \in Accounts,
         NEW s \in Run, s.ok, s.db = db[m.dest],
         NEW imported, imported = IF m.return THEN ImportReturn(s, actor, m)
                                              ELSE ImportMint(s, actor, m)
  PROVE  imported \in Run /\ imported.ok
<1> DEFINE c == m.dest
           d == db[c]
<1>1. /\ m \in Message /\ m \in sent /\ m.value # 0 /\ m \notin received[m.dest]
      /\ IsFiniteSet(sent)
  BY DEF IInv, TypeOK, Pending, BridgeInv
<1>2. /\ c \in Chains /\ m.src \in Chains /\ m.asset \in LocalIDs /\ m.asset \in AssetIDs
      /\ m.return \in BOOLEAN /\ actor \in PublicKeys
  BY <1>1 DEF Message, AssetIDs, PublicKeys
<1>3. d \in DB /\ Sound(Zeros(c), d)
  BY <1>2 DEF IInv, Sound
<1>6. s \in Run /\ s.ok /\ s.db = d
  OBVIOUS
<1>7. \A a \in AssetIDs : Gone(d, a) >= 0
  BY <1>2, Reserves
<1>8. \A x \in DB, b \in AssetIDs, z \in Chains :
        Supply(x, b) \in Nat /\ GetLoan(x, b, z) \in Nat /\ GetLoan(x, b, z) <= MaxUint64
  BY GoneType, GetLoanType, StorageAssumption DEF Amount
<1>9. Carried(m) \in Nat
  BY <1>1, CarriedType
<1>10. \A y \in Chains : db[y] \in DB
  BY DEF IInv, TypeOK
<1>11. sent \in SUBSET Message
  BY DEF IInv, TypeOK
<1>12. imported.ok /\ imported \in Run
  <2>1. CASE m.return
    <3>1. Travels(c, m.src, m.asset, m)
      BY <2>1 DEF Travels
    <3>2. Carried(m) <= OnTheWay(c, m.src, m.asset)
      BY <1>1, <3>1, PendingTravels
    <3>3. Backed(c, m.src, m.asset)
      BY <1>2 DEF BridgeInv, LoansBackImports, Backed
    <3>4. ImportedAssetID(m.asset, c) \in AssetIDs
      BY <1>2 DEF ImportedAssetID, ImportedIDs, AssetIDs
    <3>5. OnTheWay(c, m.src, m.asset) \in Nat
      BY <1>1, <1>11, OnTheWayIsCargo, CargoType
    <3>6. Supply(db[m.src], ImportedAssetID(m.asset, c)) \in Nat
           /\ GetLoan(d, m.asset, m.src) \in Nat
      BY <1>2, <1>8, <1>10, <3>4
    <3>7. Carried(m) <= GetLoan(d, m.asset, m.src)
      BY <1>9, <3>2, <3>3, <3>5, <3>6 DEF Backed
    <3> HIDE DEF c, d
    <3>8. ImportReturn(s, actor, m).ok /\ ImportReturn(s, actor, m) \in Run
      BY <1>1, <1>2, <1>6, <1>7, <3>7, ReturnSucceeds
    <3> QED
      BY <2>1, <3>8
  <2>2. CASE ~m.return
    <3> DEFINE i == ImportedAssetID(m.asset, m.src)
    <3>1. Travels(m.src, c, m.asset, m)
      BY <2>2 DEF Travels
    <3>2. Carried(m) <= OnTheWay(m.src, c, m.asset)
      BY <1>1, <3>1, PendingTravels
    <3>3. Backed(m.src, c, m.asset)
      BY <1>2 DEF BridgeInv, LoansBackImports, Backed
    <3>4. i \in AssetIDs /\ i = ImportedAssetID(m.asset, m.src)
      BY <1>2 DEF ImportedAssetID, ImportedIDs, AssetIDs
    <3>5. OnTheWay(m.src, c, m.asset) \in Nat
      BY <1>1, <1>11, OnTheWayIsCargo, CargoType
    <3>6. /\ Supply(d, i) \in Nat
          /\ GetLoan(db[m.src], m.asset, c) \in Nat
          /\ GetLoan(db[m.src], m.asset, c) <= MaxUint64
      BY <1>2, <1>8, <1>10, <3>4
    <3>7. Supply(d, i) + Carried(m) <= MaxUint64
      BY <1>9, <3>2, <3>3, <3>5, <3>6, StorageAssumption DEF Backed
    <3>8. WarpOK(d) /\ Gone(d, i) >= 0
      BY <1>3, <1>7, <3>4 DEF Sound
    <3> HIDE DEF c, d, i
    <3>9. ImportMint(s, actor, m).ok /\ ImportMint(s, actor, m) \in Run
      BY <1>1, <1>2, <1>6, <3>4, <3>7, <3>8, MintSucceeds
    <3> QED
      BY <2>2, <3>9
  <2> QED
    BY <2>1, <2>2
<1> QED
  BY <1>12

\* An import that does not fill the swap succeeds once the swap has expired.
LEMMA PendingSucceeds ==
  ASSUME IInv, BridgeInv, NEW m \in Pending, NEW actor \in Accounts
  PROVE  ExecuteImportAsset(Begin(db[m.dest]), actor, m, FALSE, m.swapExpiry, TRUE).ok
<1> DEFINE s == Begin(db[m.dest])
           valid == Require(s, TRUE /\ m.value # 0)
           imported == IF m.return THEN ImportReturn(valid, actor, m)
                                   ELSE ImportMint(valid, actor, m)
<1>1. m \in Message /\ m.value # 0 /\ m.dest \in Chains /\ m.swapExpiry \in Nat
  BY TokenVMAssumption DEF IInv, TypeOK, Pending, BridgeInv, Message, Time
<1>2. db[m.dest] \in DB
  BY <1>1, Reserves
<1>3. ExecuteImportAsset(s, actor, m, FALSE, m.swapExpiry, TRUE)
        = IF m.swapIn = 0 THEN imported ELSE Require(imported, m.swapExpiry <= m.swapExpiry)
  BY DEF ExecuteImportAsset
<1>4. s \in Run /\ s.ok /\ s.db = db[m.dest]
  BY <1>2 DEF Begin, Run
<1> HIDE DEF s
<1>5. valid \in Run /\ valid.ok /\ valid.db = db[m.dest]
  BY <1>1, <1>4 DEF Require, Run
<1> HIDE DEF valid
<1>6. imported \in Run /\ imported.ok
  BY <1>5, PendingArrives
<1> HIDE DEF imported
<1>7. Require(imported, m.swapExpiry <= m.swapExpiry).ok
  BY <1>1, <1>6 DEF Require, Run
<1>8. ExecuteImportAsset(s, actor, m, FALSE, m.swapExpiry, TRUE).ok
  BY <1>3, <1>6, <1>7
<1> QED
  BY <1>8 DEF s

\* Nothing that was sent is ever stuck: its loan covers it, its supply and every
\* balance have room for it, and an expired swap binds nobody.
THEOREM MessagesArrive == Spec => []NoMessageStuck
<1>1. IInv /\ BridgeInv => NoMessageStuck
  BY PendingSucceeds DEF NoMessageStuck
<1> QED
  BY <1>1, BridgeInvariance, PTL
-----------------------------------------------------------------------------
\* PromptsSuffice.

\* What is held and lent of an asset exists.
LEMMA HeldAndLent ==
  ASSUME NEW d \in DB, NEW pk \in PublicKeys, NEW a \in AssetIDs, NEW dest \in Chains,
         Gone(d, a) >= 0
  PROVE  /\ GetBalance(d, pk, a) \in Nat /\ GetLoan(d, a, dest) \in Nat
         /\ GetBalance(d, pk, a) + GetLoan(d, a, dest) <= Supply(d, a)
         /\ Supply(d, a) \in Nat /\ Supply(d, a) <= MaxUint64
<1>1. /\ Holdings(d, a) \in [PublicKeys -> Nat] /\ IsFiniteSet(PublicKeys)
      /\ Loans(d, a) \in [Chains -> Nat] /\ IsFiniteSet(Chains)
  BY SummandsType, PublicKeysFinite, StorageAssumption
<1>2. Holdings(d, a)[pk] <= Total(Holdings(d, a))
  BY <1>1, TotalBound
<1>3. Loans(d, a)[dest] <= Total(Loans(d, a))
  BY <1>1, TotalBound
<1>4. GetBalance(d, pk, a) <= Held(d, a) /\ GetBalance(d, pk, a) \in Nat
  BY <1>1, <1>2 DEF Held, Holdings
<1>5. GetLoan(d, a, dest) <= Lent(d, a) /\ GetLoan(d, a, dest) \in Nat
  BY <1>1, <1>3 DEF Lent, Loans
<1>6. Supply(d, a) <= MaxUint64
  BY StorageAssumption DEF Supply, SupplyOf, DB, Asset, Amount
<1>7. /\ Supply(d, a) \in Nat
      /\ Held(d, a) \in Nat /\ Locked(d, a) \in Nat /\ Lent(d, a) \in Nat
  BY GoneType
<1>8. Held(d, a) + Lent(d, a) <= Supply(d, a)
  BY <1>7 DEF Gone
<1> HIDE DEF Holdings, Loans
<1> QED
  BY <1>4, <1>5, <1>6, <1>7, <1>8, StorageAssumption

\* The entry of a payment, and what is gone after it.
Pays(d, e, pk, a, amount) ==
  /\ OnlyBalances(d, e)
  /\ \A q \in PublicKeys, b \in AssetIDs :
       GetBalance(e, q, b) = GetBalance(d, q, b) + At(q, b, pk, a, amount)
  /\ Moves(d, e, a, -amount)

\* What an account has can be taken from it.
LEMMA Debitable ==
  ASSUME NEW s \in Run, s.ok, NEW pk \in PublicKeys, NEW a \in AssetIDs,
         NEW amount \in Nat, amount <= GetBalance(s.db, pk, a),
         NEW r, r = SubBalance(s, pk, a, amount)
  PROVE  r \in Run /\ r.ok /\ Pays(s.db, r.db, pk, a, -amount)
<1>1. r.ok
  <2> DEFINE old == GetBalance(s.db, pk, a)
             new == IF old = amount THEN Missing ELSE old - amount
  <2>1. old = GetBalance(s.db, pk, a) /\ new = IF old = amount THEN Missing ELSE old - amount
    OBVIOUS
  <2> HIDE DEF old, new
  <2>3. s.ok => amount \in Nat
    OBVIOUS
  <2>2. /\ s.ok /\ amount <= old => r.ok
        /\ r.db = IF r.ok THEN SetBal(s.db, <<pk, a>>, new) ELSE s.db
    BY <2>1, <2>3, SubBalanceRun
  <2> QED
    BY <2>1, <2>2
<1>2. Moves(s.db, r.db, a, amount)
  BY <1>1, SubBalanceFlow
<1>3. -(-amount) = amount
  OBVIOUS
<1> QED
  BY <1>1, <1>2, <1>3, SubBalanceEntry DEF Pays

\* An account can be credited with what fits.
LEMMA Fitting ==
  ASSUME NEW s \in Run, s.ok, NEW pk \in PublicKeys, NEW a \in AssetIDs,
         NEW amount \in Nat, GetBalance(s.db, pk, a) + amount <= MaxUint64,
         NEW r, r = AddBalance(s, pk, a, amount)
  PROVE  r \in Run /\ r.ok /\ Pays(s.db, r.db, pk, a, amount)
<1>1. r.ok
  <2> DEFINE new == GetBalance(s.db, pk, a) + amount
  <2>1. new = GetBalance(s.db, pk, a) + amount
    OBVIOUS
  <2> HIDE DEF new
  <2>3. s.ok => amount \in Nat
    OBVIOUS
  <2>2. /\ s.ok /\ new <= MaxUint64 => r.ok
        /\ r.db = IF r.ok THEN SetBal(s.db, <<pk, a>>, new) ELSE s.db
    BY <2>1, <2>3, AddBalanceRun
  <2> QED
    BY <2>1, <2>2
<1>2. Moves(s.db, r.db, a, -amount)
  BY <1>1, AddBalanceFlow
<1> QED
  BY <1>1, <1>2, AddBalanceEntry DEF Pays

\* What is gone fits.
LEMMA Recoverable ==
  ASSUME NEW s \in Run, s.ok, NEW pk \in PublicKeys, NEW a \in AssetIDs,
         NEW amount \in Nat, amount <= Gone(s.db, a),
         NEW r, r = AddBalance(s, pk, a, amount)
  PROVE  r \in Run /\ r.ok /\ Pays(s.db, r.db, pk, a, amount)
<1>1. s.db \in DB
  BY DEF Run
<1> QED
  BY <1>1, GoneFits, Fitting

\* A transfer moves what the sender has.
LEMMA TransferAllowed ==
  ASSUME NEW s \in Run, s.ok, NEW actor \in PublicKeys, NEW to \in PublicKeys,
         NEW asset \in AssetIDs, NEW value \in Nat \ {0},
         value <= GetBalance(s.db, actor, asset), Gone(s.db, asset) >= 0
  PROVE  ExecuteTransfer(s, actor, to, asset, value).ok
<1> DEFINE valid   == Require(s, value # 0)
           debited == SubBalance(valid, actor, asset, value)
           r       == AddBalance(debited, to, asset, value)
<1>1. ExecuteTransfer(s, actor, to, asset, value) = r
  BY DEF ExecuteTransfer
<1>2. valid \in Run /\ valid.ok /\ valid.db = s.db
  BY DEF Require, Run
<1> HIDE DEF valid
<1>3. debited \in Run /\ debited.ok /\ Pays(s.db, debited.db, actor, asset, -value)
  BY <1>2, Debitable
<1> HIDE DEF debited
<1>4. Gone(debited.db, asset) = Gone(s.db, asset) + value /\ Gone(s.db, asset) \in Int
  BY <1>3, GoneType DEF Pays, Moves, Run
<1>5. value <= Gone(debited.db, asset)
  BY <1>4
<1> HIDE DEF r
<1>6. r.ok
  BY <1>3, <1>5, Recoverable DEF r
<1> QED
  BY <1>1, <1>6

\* The owner of an asset mints what its supply has room for.
LEMMA MintAllowed ==
  ASSUME NEW s \in Run, s.ok, NEW actor, NEW to \in PublicKeys,
         NEW asset \in AssetIDs, asset # Native, NEW value \in Nat \ {0},
         NEW a, a = s.db.assets[asset], a # Missing, ~a.warp, a.owner = actor,
         value <= MaxUint64 - a.supply, Gone(s.db, asset) >= 0
  PROVE  ExecuteMintAsset(s, actor, to, asset, value).ok
<1> DEFINE valid  == Require(s, asset # Native /\ value # 0)
           t      == Touch(valid, AssetKey(asset))
           owned  == Require(t, a # Missing /\ ~a.warp /\ a.owner = actor)
           fits   == Require(owned, a.supply + value <= MaxUint64)
           record == [a EXCEPT !.supply = a.supply + value]
           minted == SetAsset(fits, asset, record)
           r      == AddBalance(minted, to, asset, value)
<1>1. valid \in Run /\ valid.ok /\ valid.db = s.db
  BY DEF Require, Run
<1>2. ExecuteMintAsset(s, actor, to, asset, value) = r
  BY <1>1 DEF ExecuteMintAsset, RequireAssetOwner
<1> HIDE DEF valid
<1>3. t \in Run /\ t.ok /\ t.db = s.db
  BY <1>1, AssetKeyType, TouchRun
<1> HIDE DEF t
<1>4. owned \in Run /\ owned.ok /\ owned.db = s.db
  BY <1>3 DEF Require, Run
<1> HIDE DEF owned
<1>5. a \in Asset /\ a.supply \in Nat /\ s.db \in DB
  BY StorageAssumption DEF Run, DB, Asset, Amount
<1>6. a.supply + value <= MaxUint64 /\ a.supply + value \in Amount
  BY <1>5, StorageAssumption DEF Amount
<1>7. fits \in Run /\ fits.ok /\ fits.db = s.db
  BY <1>4, <1>6 DEF Require, Run
<1> HIDE DEF fits
<1>8. record \in Asset /\ record.supply = a.supply + value
  BY <1>5, <1>6 DEF Asset
<1> HIDE DEF record
<1>9. SupplyOf(record) - SupplyOf(fits.db.assets[asset]) = value
  BY <1>5, <1>7, <1>8, MissingAssumption DEF SupplyOf
<1>10. /\ minted = SetAsset(fits, asset, record)
       /\ record \in Asset \cup {Missing}
       /\ value = SupplyOf(record) - SupplyOf(fits.db.assets[asset])
  BY <1>8, <1>9
<1> HIDE DEF minted
<1>11. minted \in Run /\ minted.ok
  BY <1>7, <1>10, SetAssetRun
<1>12. Moves(fits.db, minted.db, asset, value)
  BY <1>7, <1>10, <1>11, SetAssetFlow
<1>13. Gone(s.db, asset) \in Int
  BY <1>5, GoneType
<1>14. value <= Gone(minted.db, asset)
  BY <1>7, <1>12, <1>13 DEF Moves
<1> HIDE DEF r
<1>15. r.ok
  BY <1>11, <1>14, Recoverable DEF r
<1> QED
  BY <1>2, <1>15

\* Who has what an order offers may create it.
LEMMA OrderAllowed ==
  ASSUME NEW s \in Run, s.ok, NEW actor \in PublicKeys, NEW id \in TxIDs,
         NEW in \in AssetIDs, NEW out \in AssetIDs, in # out,
         NEW inTick \in Amount \ {0}, NEW outTick \in Amount \ {0},
         NEW supply \in Amount \ {0}, supply % outTick = 0,
         supply <= GetBalance(s.db, actor, out)
  PROVE  ExecuteCreateOrder(s, actor, id, in, inTick, out, outTick, supply).ok
<1> DEFINE valid  == Require(s, /\ in # out
                                /\ inTick # 0 /\ outTick # 0 /\ supply # 0
                                /\ supply % outTick = 0)
           locked == SubBalance(valid, actor, out, supply)
           record == [in |-> in, inTick |-> inTick, out |-> out, outTick |-> outTick,
                      remaining |-> supply, owner |-> actor]
           r      == SetOrder(locked, id, record)
<1>1. ExecuteCreateOrder(s, actor, id, in, inTick, out, outTick, supply) = r
  BY DEF ExecuteCreateOrder
<1>2. valid \in Run /\ valid.ok /\ valid.db = s.db
  BY DEF Require, Run
<1> HIDE DEF valid
<1>3. supply \in Nat
  BY StorageAssumption DEF Amount
<1>4. locked \in Run /\ locked.ok
  BY <1>2, <1>3, Debitable
<1>5. record \in Order
  BY DEF Order
<1> HIDE DEF locked, record, r
<1>6. r.ok
  BY <1>4, <1>5, SetOrderBalances DEF r
<1> QED
  BY <1>1, <1>6

\* A fill of whole blocks the order has and the buyer can pay.
LEMMA FillAllowed ==
  ASSUME NEW Z, NEW d, Sound(Z, d), NEW actor \in PublicKeys, NEW id \in TxIDs,
         NEW o, o = d.orders[id], o # Missing, NEW value \in Amount \ {0},
         value % o.inTick = 0, Wanted(o, value) <= o.remaining,
         value <= GetBalance(d, actor, o.in),
         Gone(d, o.in) >= 0, Gone(d, o.out) >= 0
  PROVE  ExecuteFillOrder(Begin(d), actor, id, o.owner, o.in, o.out, value).ok
<1> DEFINE s        == Begin(d)
           input    == FillInput(o, value)
           output   == FillOutput(o, value)
           rest     == RemainingOrder(o, value)
           t        == Touch(s, OrderKey(id))
           matched  == Require(t, /\ o # Missing /\ o.owner = o.owner
                                  /\ o.in = o.in /\ o.out = o.out)
           aligned  == Require(matched, value # 0 /\ value % o.inTick = 0)
           priced   == Require(aligned, /\ Wanted(o, value) <= MaxUint64
                                        /\ Wanted(o, value) # 0
                                        /\ input # 0)
           debited  == SubBalance(priced, actor, o.in, input)
           proceeds == AddBalance(debited, o.owner, o.in, input)
           credited == AddBalance(proceeds, actor, o.out, output)
           r        == SetOrder(credited, id, rest)
<1>1. /\ d \in DB /\ o \in Order /\ WellFormedOrder(o)
      /\ o.owner \in PublicKeys /\ o.in \in AssetIDs /\ o.out \in AssetIDs
  BY DEF Sound, OrdersOK, DB, Order
<1>2. s \in Run /\ s.ok /\ s.db = d
  BY <1>1 DEF Begin, Run
<1>3. ExecuteFillOrder(s, actor, id, o.owner, o.in, o.out, value) = r
  BY <1>2 DEF ExecuteFillOrder
<1> HIDE DEF s
<1>4. /\ o.inTick \in Nat \ {0} /\ o.outTick \in Nat \ {0}
      /\ o.remaining \in Nat /\ o.remaining <= MaxUint64 /\ value \in Nat \ {0}
  BY <1>1, StorageAssumption DEF Order, Amount, WellFormedOrder
<1>5. Wanted(o, value) \in Nat \ {0} /\ Wanted(o, value) <= MaxUint64
  <2> DEFINE n == value \div o.inTick
  <2>1. n \in Nat \ {0}
    BY <1>4
  <2>2. o.outTick * n \in Nat \ {0}
    BY <1>4, <2>1
  <2>3. Wanted(o, value) = o.outTick * n
    BY DEF Wanted
  <2> HIDE DEF n
  <2> QED
    BY <1>4, <2>2, <2>3, StorageAssumption
<1>6. input = value /\ output = Wanted(o, value)
  BY <1>4, <1>5 DEF FillInput, FillOutput
<1>7. rest \in Order \cup {Missing}
  BY <1>1, <1>4, <1>5, <1>6, FillAmounts
<1> HIDE DEF input, output, rest
<1>8. t \in Run /\ t.ok /\ t.db = d
  BY <1>2, OrderKeyType, TouchRun
<1> HIDE DEF t
<1>9. matched \in Run /\ matched.ok /\ matched.db = d
  BY <1>8 DEF Require, Run
<1> HIDE DEF matched
<1>10. aligned \in Run /\ aligned.ok /\ aligned.db = d
  BY <1>9 DEF Require, Run
<1> HIDE DEF aligned
<1>11. priced \in Run /\ priced.ok /\ priced.db = d
  <2>1. Wanted(o, value) <= MaxUint64 /\ Wanted(o, value) # 0 /\ input # 0
    BY <1>4, <1>5, <1>6
  <2> QED
    BY <1>10, <2>1 DEF Require, Run
<1> HIDE DEF priced
<1>12. debited \in Run /\ debited.ok /\ Pays(d, debited.db, actor, o.in, -input)
  BY <1>1, <1>4, <1>6, <1>11, Debitable
<1> HIDE DEF debited
<1>13. Gone(debited.db, o.in) = Gone(d, o.in) + input /\ Gone(d, o.in) \in Int
  BY <1>1, <1>4, <1>6, <1>12, GoneType DEF Pays, Moves
<1>14. input <= Gone(debited.db, o.in)
  BY <1>4, <1>6, <1>13
<1>15. /\ proceeds \in Run /\ proceeds.ok
       /\ Pays(debited.db, proceeds.db, o.owner, o.in, input)
  BY <1>1, <1>4, <1>6, <1>12, <1>14, Recoverable
<1> HIDE DEF proceeds
<1>16. GetBalance(proceeds.db, actor, o.out) = GetBalance(d, actor, o.out)
  <2>1. o.in # o.out /\ GetBalance(d, actor, o.out) \in Nat
    BY <1>1, GetBalanceType, StorageAssumption DEF WellFormedOrder, Amount
  <2>2. GetBalance(debited.db, actor, o.out) = GetBalance(d, actor, o.out) + 0
    BY <1>1, <1>12, <2>1 DEF Pays, At
  <2>3. GetBalance(proceeds.db, actor, o.out) = GetBalance(debited.db, actor, o.out) + 0
    BY <1>1, <1>15, <2>1 DEF Pays, At
  <2> QED
    BY <2>1, <2>2, <2>3
<1>17. GetBalance(proceeds.db, actor, o.out) + output <= MaxUint64
  <2>1. GetBalance(d, actor, o.out) + o.remaining <= MaxUint64
    BY <1>1, OrderFits
  <2>2. GetBalance(d, actor, o.out) \in Nat
    BY <1>1, GetBalanceType, StorageAssumption DEF Amount
  <2> QED
    BY <1>4, <1>5, <1>6, <1>16, <2>1, <2>2, StorageAssumption
<1>18. credited \in Run /\ credited.ok
  BY <1>1, <1>5, <1>6, <1>15, <1>17, Fitting
<1> HIDE DEF credited, r
<1>19. r.ok
  BY <1>7, <1>18, SetOrderBalances DEF r
<1> QED
  BY <1>3, <1>19 DEF s

\* A loan can grow as long as it fits.
LEMMA Lendable ==
  ASSUME NEW s \in Run, s.ok, NEW a \in AssetIDs, NEW dest \in Chains,
         NEW amount \in Nat, GetLoan(s.db, a, dest) + amount <= MaxUint64,
         NEW r, r = AddLoan(s, a, dest, amount)
  PROVE  /\ r \in Run /\ r.ok /\ OnlyLoans(s.db, r.db)
         /\ GetLoan(r.db, a, dest) = GetLoan(s.db, a, dest) + amount
<1>1. r.ok
  <2> DEFINE new == GetLoan(s.db, a, dest) + amount
  <2>1. new = GetLoan(s.db, a, dest) + amount
    OBVIOUS
  <2> HIDE DEF new
  <2>2. s.ok => amount \in Nat
    OBVIOUS
  <2>3. /\ s.ok /\ new <= MaxUint64 => r.ok
        /\ r.db = IF r.ok THEN SetLoan(s.db, <<a, dest>>, new) ELSE s.db
    BY <2>1, <2>2, AddLoanRun
  <2> QED
    BY <2>1, <2>3
<1>2. /\ r \in Run
      /\ OnlyLoans(s.db, r.db)
      /\ r.ok => \A b \in AssetIDs, z \in Chains :
                   GetLoan(r.db, b, z) = GetLoan(s.db, b, z) + At(b, z, a, dest, amount)
  BY AddLoanEntry
<1> QED
  BY <1>1, <1>2 DEF At

\* Who has the value and the reward may lend them to another chain.
LEMMA LendAllowed ==
  ASSUME NEW s \in Run, s.ok, NEW actor \in PublicKeys, NEW e \in ExportRequest,
         NEW a, a = s.db.assets[e.asset], a # Missing, ~a.warp,
         e.value + e.reward <= GetBalance(s.db, actor, e.asset), Gone(s.db, e.asset) >= 0
  PROVE  Lend(s, actor, e) \in Run /\ Lend(s, actor, e).ok
<1> DEFINE i       == e.asset
           z       == e.destination
           v       == e.value
           w       == e.reward
           t       == Touch(s, AssetKey(i))
           local   == Require(t, a # Missing /\ ~a.warp)
           lent    == AddLoan(local, i, z, v)
           debited == SubBalance(lent, actor, i, v)
           reward  == AddLoan(debited, i, z, w)
           r       == SubBalance(reward, actor, i, w)
<1>1. Lend(s, actor, e) = IF w > 0 THEN r ELSE debited
  BY DEF Lend
<1>2. /\ i \in AssetIDs /\ z \in Chains /\ v \in Nat /\ w \in Nat /\ s.db \in DB
      /\ v + w <= GetBalance(s.db, actor, i) /\ Gone(s.db, i) >= 0
  BY StorageAssumption DEF ExportRequest, Amount, Run
<1> DEFINE bal  == GetBalance(s.db, actor, i)
           loan == GetLoan(s.db, i, z)
<1>3. bal \in Nat /\ loan \in Nat /\ v + w <= bal /\ bal + loan <= MaxUint64
  <2>1. /\ bal \in Nat /\ loan \in Nat /\ bal + loan <= Supply(s.db, i)
        /\ Supply(s.db, i) \in Nat /\ Supply(s.db, i) <= MaxUint64
    BY <1>2, HeldAndLent
  <2> QED
    BY <1>2, <2>1, StorageAssumption
<1>4. t \in Run /\ t.ok /\ t.db = s.db
  BY <1>2, AssetKeyType, TouchRun
<1> HIDE DEF i, z, v, w, t
<1>5. local \in Run /\ local.ok /\ local.db = s.db
  BY <1>4 DEF Require, Run
<1> HIDE DEF local, bal, loan
<1>6. loan + v <= MaxUint64 /\ loan + v + w <= MaxUint64
  BY <1>2, <1>3, StorageAssumption
<1>7. /\ lent \in Run /\ lent.ok /\ OnlyLoans(s.db, lent.db)
      /\ GetLoan(lent.db, i, z) = loan + v
  BY <1>2, <1>5, <1>6, Lendable DEF loan
<1> HIDE DEF lent
<1>8. GetBalance(lent.db, actor, i) = bal
  BY <1>7 DEF OnlyLoans, GetBalance, bal
<1>9. v <= GetBalance(lent.db, actor, i)
  BY <1>2, <1>3, <1>8
<1>10. debited \in Run /\ debited.ok /\ Pays(lent.db, debited.db, actor, i, -v)
  BY <1>2, <1>7, <1>9, Debitable
<1> HIDE DEF debited
<1>11. /\ GetBalance(debited.db, actor, i) = bal - v
       /\ GetLoan(debited.db, i, z) = loan + v
  <2>1. GetBalance(debited.db, actor, i) = GetBalance(lent.db, actor, i) + (-v)
    BY <1>2, <1>10 DEF Pays, At
  <2>2. GetLoan(debited.db, i, z) = GetLoan(lent.db, i, z)
    BY <1>10 DEF Pays, OnlyBalances, GetLoan
  <2> QED
    BY <1>2, <1>3, <1>7, <1>8, <2>1, <2>2
<1>12. GetLoan(debited.db, i, z) + w <= MaxUint64
  BY <1>6, <1>11
<1>13. reward \in Run /\ reward.ok /\ OnlyLoans(debited.db, reward.db)
  BY <1>2, <1>10, <1>12, Lendable
<1> HIDE DEF reward
<1>14. w <= GetBalance(reward.db, actor, i)
  <2>1. GetBalance(reward.db, actor, i) = GetBalance(debited.db, actor, i)
    BY <1>13 DEF OnlyLoans, GetBalance
  <2> QED
    BY <1>2, <1>3, <1>11, <2>1
<1>15. r \in Run /\ r.ok
  BY <1>2, <1>13, <1>14, Debitable
<1> QED
  BY <1>1, <1>10, <1>15

\* Writing or deleting an asset leaves the balances alone.
LEMMA SetAssetBalances ==
  ASSUME NEW s \in Run, NEW asset \in AssetIDs, NEW record,
         s.ok => record \in Asset \cup {Missing},
         NEW r, r = SetAsset(s, asset, record)
  PROVE  r \in Run /\ r.ok = s.ok /\ (r.ok => r.db.bal = s.db.bal)
<1>1. /\ r \in Run /\ r.ok = s.ok /\ (~r.ok => r = s)
      /\ r.ok => /\ r.db.assets = [s.db.assets EXCEPT ![asset] = record]
                 /\ r.db.bal = s.db.bal
                 /\ r.db.orders = s.db.orders
                 /\ r.db.loans = s.db.loans
      /\ r.keys \subseteq s.keys \cup {AssetKey(asset)}
  BY SetAssetRun
<1> QED
  BY <1>1

\* Who has the value and the reward of an imported asset may return them.
LEMMA RetireAllowed ==
  ASSUME NEW s \in Run, s.ok, NEW actor \in PublicKeys, NEW e \in ExportRequest,
         NEW a, a = s.db.assets[e.asset], a # Missing, a.warp,
         a.metadata[2] = e.destination,
         e.value + e.reward <= GetBalance(s.db, actor, e.asset), Gone(s.db, e.asset) >= 0
  PROVE  Retire(s, actor, e) \in Run /\ Retire(s, actor, e).ok
<1> DEFINE i       == e.asset
           v       == e.value
           w       == e.reward
           t       == Touch(s, AssetKey(i))
           home    == Require(t, a # Missing /\ a.warp /\ a.metadata[2] = e.destination)
           covered == Require(home, v + w <= a.supply)
           supply  == a.supply - v - w
           rest    == IF supply > 0
                      THEN [a EXCEPT !.supply = supply, !.owner = EmptyKey]
                      ELSE Missing
           retired == SetAsset(covered, i, rest)
           debited == SubBalance(retired, actor, i, v)
           r       == SubBalance(debited, actor, i, w)
<1>1. Retire(s, actor, e) = IF w > 0 THEN r ELSE debited
  BY DEF Retire
<1>2. /\ i \in AssetIDs /\ e.destination \in Chains /\ v \in Nat /\ w \in Nat /\ s.db \in DB
      /\ v + w <= GetBalance(s.db, actor, i) /\ Gone(s.db, i) >= 0 /\ a = s.db.assets[i]
  BY StorageAssumption DEF ExportRequest, Amount, Run
<1> HIDE DEF i, v, w
<1>3. a \in Asset /\ a.supply \in Nat /\ a.supply <= MaxUint64 /\ Supply(s.db, i) = a.supply
  BY <1>2, StorageAssumption DEF DB, Asset, Amount, Supply, SupplyOf
<1> DEFINE bal == GetBalance(s.db, actor, i)
<1>4. bal \in Nat /\ v + w <= bal /\ bal <= a.supply
  <2>1. /\ bal \in Nat /\ GetLoan(s.db, i, e.destination) \in Nat
        /\ bal + GetLoan(s.db, i, e.destination) <= Supply(s.db, i)
    BY <1>2, HeldAndLent
  <2> QED
    BY <1>2, <1>3, <2>1
<1>5. t \in Run /\ t.ok /\ t.db = s.db
  BY <1>2, AssetKeyType, TouchRun
<1> HIDE DEF t
<1>6. home \in Run /\ home.ok /\ home.db = s.db
  BY <1>5 DEF Require, Run
<1> HIDE DEF home, bal
<1>7. v + w <= a.supply
  BY <1>2, <1>3, <1>4
<1>8. covered \in Run /\ covered.ok /\ covered.db = s.db
  BY <1>6, <1>7 DEF Require, Run
<1> HIDE DEF covered
<1>9. rest \in Asset \cup {Missing}
  <2>1. supply > 0 => supply \in Amount
    BY <1>2, <1>3, StorageAssumption DEF Amount
  <2> HIDE DEF supply
  <2>2. EmptyKey \in PublicKeys
    BY DEF PublicKeys
  <2> QED
    BY <1>3, <2>1, <2>2 DEF Asset
<1> HIDE DEF rest
<1>10. retired \in Run /\ retired.ok /\ retired.db.bal = s.db.bal
  <2>1. retired = SetAsset(covered, i, rest)
    OBVIOUS
  <2> HIDE DEF retired, debited, r, supply
  <2>2. i \in AssetIDs /\ (covered.ok => rest \in Asset \cup {Missing})
    BY <1>2, <1>9
  <2>3. covered \in Run /\ covered.ok /\ covered.db = s.db
    BY <1>8
  <2>4. retired.ok
    BY <2>1, <2>2, <2>3, SetAssetBalances
  <2>5. retired \in Run
    BY <2>1, <2>2, <2>3, SetAssetBalances
  <2>6. retired.db.bal = covered.db.bal
    BY <2>1, <2>2, <2>3, <2>4, SetAssetBalances
  <2> QED
    BY <2>3, <2>4, <2>5, <2>6
<1> HIDE DEF retired
<1>11. GetBalance(retired.db, actor, i) = bal
  BY <1>10 DEF GetBalance, bal
<1>12. v <= GetBalance(retired.db, actor, i)
  BY <1>2, <1>4, <1>11
<1>13. debited \in Run /\ debited.ok /\ Pays(retired.db, debited.db, actor, i, -v)
  BY <1>2, <1>10, <1>12, Debitable
<1> HIDE DEF debited
<1>14. w <= GetBalance(debited.db, actor, i)
  <2>1. GetBalance(debited.db, actor, i) = GetBalance(retired.db, actor, i) + (-v)
    BY <1>2, <1>13 DEF Pays, At
  <2> QED
    BY <1>2, <1>4, <1>11, <2>1
<1>15. r \in Run /\ r.ok
  BY <1>2, <1>13, <1>14, Debitable
<1> QED
  BY <1>1, <1>13, <1>15

\* What the recipient got he can sell, to whoever has the price.
LEMMA SwapAllowed ==
  ASSUME NEW s \in Run, s.ok, NEW actor \in PublicKeys, NEW m \in Message,
         \A b \in AssetIDs : Gone(s.db, b) >= 0,
         m.swapIn <= GetBalance(s.db, m.to, AssetIn(m)),
         m.swapOut <= GetBalance(s.db, actor, m.assetOut)
  PROVE  FillSwap(s, actor, m).ok
<1> DEFINE i      == AssetIn(m)
           o      == m.assetOut
           x      == m.swapIn
           y      == m.swapOut
           taken  == SubBalance(s, m.to, i, x)
           sold   == AddBalance(taken, actor, i, x)
           bought == SubBalance(sold, actor, o, y)
           r      == AddBalance(bought, m.to, o, y)
<1>1. FillSwap(s, actor, m) = r
  BY DEF FillSwap
<1>2. /\ i \in AssetIDs /\ o \in AssetIDs /\ x \in Nat /\ y \in Nat /\ m.to \in PublicKeys
      /\ s.db \in DB
  BY StorageAssumption
     DEF Message, Amount, AssetIn, ImportedAssetID, ImportedIDs, AssetIDs, Run
<1>3. /\ x <= GetBalance(s.db, m.to, i) /\ y <= GetBalance(s.db, actor, o)
      /\ \A b \in AssetIDs : Gone(s.db, b) >= 0 /\ Gone(s.db, b) \in Int
      /\ \A q \in PublicKeys, b \in AssetIDs : GetBalance(s.db, q, b) \in Nat
  BY <1>2, GoneType, GetBalanceType, StorageAssumption DEF Amount
<1> HIDE DEF i, o, x, y
<1>4. taken \in Run /\ taken.ok /\ Pays(s.db, taken.db, m.to, i, -x)
  BY <1>2, <1>3, Debitable
<1> HIDE DEF taken
<1>5. /\ Gone(taken.db, i) = Gone(s.db, i) + x
      /\ \A b \in AssetIDs : b # i => Gone(taken.db, b) = Gone(s.db, b)
  BY <1>2, <1>3, <1>4 DEF Pays, Moves
<1>6. x <= Gone(taken.db, i)
  BY <1>2, <1>3, <1>5
<1>7. sold \in Run /\ sold.ok /\ Pays(taken.db, sold.db, actor, i, x)
  BY <1>2, <1>4, <1>6, Recoverable
<1> HIDE DEF sold
<1>8. \A b \in AssetIDs : Gone(sold.db, b) = Gone(s.db, b)
  BY <1>2, <1>3, <1>5, <1>7 DEF Pays, Moves
<1>9. y <= GetBalance(sold.db, actor, o)
  <2>1. /\ GetBalance(taken.db, actor, o) = GetBalance(s.db, actor, o) + At(actor, o, m.to, i, -x)
        /\ GetBalance(sold.db, actor, o) = GetBalance(taken.db, actor, o) + At(actor, o, actor, i, x)
    BY <1>2, <1>4, <1>7 DEF Pays
  <2>2. GetBalance(s.db, actor, o) \in Nat
    BY <1>2, <1>3
  <2>3. CASE o = i
    <3>1. At(actor, o, actor, i, x) = x /\ At(actor, o, m.to, i, -x) \in {0, -x}
      BY <2>3 DEF At
    <3> QED
      BY <1>2, <1>3, <2>1, <2>2, <3>1
  <2>4. CASE o # i
    <3>1. At(actor, o, actor, i, x) = 0 /\ At(actor, o, m.to, i, -x) = 0
      BY <2>4 DEF At
    <3> QED
      BY <1>2, <1>3, <2>1, <2>2, <3>1
  <2> QED
    BY <2>3, <2>4
<1>10. bought \in Run /\ bought.ok /\ Pays(sold.db, bought.db, actor, o, -y)
  BY <1>2, <1>7, <1>9, Debitable
<1> HIDE DEF bought
<1>11. y <= Gone(bought.db, o)
  <2>1. Gone(bought.db, o) = Gone(sold.db, o) + y
    BY <1>2, <1>10 DEF Pays, Moves
  <2> QED
    BY <1>2, <1>3, <1>8, <2>1
<1>12. r.ok
  BY <1>2, <1>10, <1>11, Recoverable
<1> QED
  BY <1>1, <1>12

\* What an import takes from the books it puts back, and it pays the recipient
\* the value.
LEMMA ImportPays ==
  ASSUME NEW Z, NEW s, GoodRun(Z, s), s.ok, NEW actor \in PublicKeys, NEW m \in Message, m.value # 0,
         \A b \in AssetIDs : Gone(s.db, b) >= 0,
         NEW r, r = IF m.return THEN ImportReturn(s, actor, m) ELSE ImportMint(s, actor, m),
         r.ok
  PROVE  /\ \A b \in AssetIDs : Gone(r.db, b) >= 0
         /\ m.value <= GetBalance(r.db, m.to, AssetIn(m))
         /\ \A b \in AssetIDs : GetBalance(s.db, actor, b) <= GetBalance(r.db, actor, b)
<1> DEFINE i == AssetIn(m)
<1>1. /\ m.value \in Nat /\ m.reward \in Nat /\ m.to \in PublicKeys /\ i \in AssetIDs
      /\ m.return \in BOOLEAN /\ s \in Run /\ s.db \in DB
  BY StorageAssumption
     DEF Message, Amount, AssetIn, ImportedAssetID, ImportedIDs, AssetIDs, GoodRun, Run
<1>2. Effect(s, r, {})
  BY ImportReturnGood, ImportMintGood
<1>3. \A b \in AssetIDs : Gone(r.db, b) = Gone(s.db, b)
  BY <1>2 DEF Effect, Conserves
<1>4. \A q \in PublicKeys, b \in AssetIDs :
        GetBalance(r.db, q, b) = GetBalance(s.db, q, b)
          + At(q, b, m.to, i, m.value) + At(q, b, actor, i, m.reward)
  <2>1. CASE m.return
    <3>1. i = m.asset
      BY <2>1 DEF AssetIn
    <3>2. CameHome(s.db, r.db, actor, m)
      BY <1>1, <2>1, ImportReturnEntry
    <3> HIDE DEF i
    <3> QED
      BY <3>1, <3>2 DEF CameHome
  <2>2. CASE ~m.return
    <3>1. i = ImportedAssetID(m.asset, m.src)
      BY <2>2 DEF AssetIn
    <3>2. Arrived(s.db, r.db, actor, m)
      BY <1>1, <2>2, ImportMintEntry
    <3> HIDE DEF i
    <3> QED
      BY <3>1, <3>2 DEF Arrived
  <2> QED
    BY <1>1, <2>1, <2>2
<1> HIDE DEF i
<1>5. \A q \in PublicKeys, b \in AssetIDs :
        /\ GetBalance(s.db, q, b) \in Nat
        /\ At(q, b, m.to, i, m.value) \in Nat
        /\ At(q, b, actor, i, m.reward) \in Nat
  BY <1>1, GetBalanceType, StorageAssumption DEF Amount, At
<1>6. At(m.to, i, m.to, i, m.value) = m.value
  BY DEF At
<1>7. m.value <= GetBalance(r.db, m.to, i)
  <2>1. GetBalance(r.db, m.to, i) = GetBalance(s.db, m.to, i)
          + At(m.to, i, m.to, i, m.value) + At(m.to, i, actor, i, m.reward)
    BY <1>1, <1>4
  <2>2. GetBalance(s.db, m.to, i) \in Nat /\ At(m.to, i, actor, i, m.reward) \in Nat
    BY <1>1, <1>5
  <2> QED
    BY <1>1, <1>6, <2>1, <2>2
<1>8. \A b \in AssetIDs : GetBalance(s.db, actor, b) <= GetBalance(r.db, actor, b)
  <2> SUFFICES ASSUME NEW b \in AssetIDs
               PROVE  GetBalance(s.db, actor, b) <= GetBalance(r.db, actor, b)
    OBVIOUS
  <2>1. GetBalance(r.db, actor, b) = GetBalance(s.db, actor, b)
          + At(actor, b, m.to, i, m.value) + At(actor, b, actor, i, m.reward)
    BY <1>4
  <2>2. /\ GetBalance(s.db, actor, b) \in Nat
        /\ At(actor, b, m.to, i, m.value) \in Nat
        /\ At(actor, b, actor, i, m.reward) \in Nat
    BY <1>5
  <2> QED
    BY <2>1, <2>2
<1> QED
  BY <1>3, <1>7, <1>8 DEF i

\* An import the command lets through succeeds: an expired swap binds nobody, and
\* who fills one has its price.
LEMMA ImportsAllowed ==
  ASSUME IInv, BridgeInv, NEW actor \in Accounts
  PROVE  ImportsSucceed(actor)
<1> SUFFICES ASSUME NEW m \in Pending, NEW fill \in BOOLEAN, ImportPrompts(m, fill, now),
                    fill => GetBalance(db[m.dest], actor, m.assetOut) >= m.swapOut
             PROVE  ExecuteImportAsset(Begin(db[m.dest]), actor, m, fill, now, TRUE).ok
  BY DEF ImportsSucceed
<1> DEFINE d        == db[m.dest]
           s        == Begin(d)
           valid    == Require(s, TRUE /\ m.value # 0)
           imported == IF m.return THEN ImportReturn(valid, actor, m)
                                   ELSE ImportMint(valid, actor, m)
<1>1. /\ m \in Message /\ m.value # 0 /\ m.dest \in Chains /\ MessageOK(m)
  BY DEF IInv, TypeOK, Pending, BridgeInv, Message
<1>2. d \in DB /\ Sound(Zeros(m.dest), d) /\ \A b \in AssetIDs : Gone(d, b) >= 0
  BY <1>1, Reserves
<1>3. ExecuteImportAsset(s, actor, m, fill, now, TRUE)
        = IF m.swapIn = 0 THEN imported
          ELSE IF fill    THEN FillSwap(imported, actor, m)
          ELSE Require(imported, m.swapExpiry <= now)
  BY DEF ExecuteImportAsset
<1>4. s \in Run /\ s.ok /\ s.db = d
  BY <1>2 DEF Begin, Run
<1> HIDE DEF s
<1>5. /\ valid \in Run /\ valid.ok /\ valid.db = d
      /\ GoodRun(Zeros(m.dest), valid)
  BY <1>1, <1>2, <1>4 DEF Require, Run, GoodRun
<1> HIDE DEF valid
<1>6. imported \in Run /\ imported.ok
  BY <1>5, PendingArrives
<1>7. /\ actor \in PublicKeys /\ m.assetOut \in AssetIDs
      /\ m.value \in Nat /\ m.swapIn \in Nat /\ m.swapOut \in Nat /\ m.swapIn <= m.value
  BY <1>1, Inputs, StorageAssumption DEF MessageOK, ValidSwapParams, Message, Amount
<1>8. /\ \A b \in AssetIDs : Gone(imported.db, b) >= 0
      /\ m.value <= GetBalance(imported.db, m.to, AssetIn(m))
      /\ \A b \in AssetIDs : GetBalance(d, actor, b) <= GetBalance(imported.db, actor, b)
  <2>1. imported = IF m.return THEN ImportReturn(valid, actor, m)
                               ELSE ImportMint(valid, actor, m)
    OBVIOUS
  <2> HIDE DEF imported, d
  <2> QED
    BY <1>1, <1>2, <1>5, <1>6, <1>7, <2>1, ImportPays
<1> HIDE DEF imported
<1>9. CASE fill
  <2>1. GetBalance(imported.db, m.to, AssetIn(m)) \in Nat
        /\ GetBalance(imported.db, actor, m.assetOut) \in Nat /\ GetBalance(d, actor, m.assetOut) \in Nat
    <3>1. AssetIn(m) \in AssetIDs /\ m.to \in PublicKeys /\ imported.db \in DB
      BY <1>1, <1>6 DEF AssetIn, Message, ImportedAssetID, ImportedIDs, AssetIDs, Run
    <3> QED
      BY <1>2, <1>7, <3>1, GetBalanceType, StorageAssumption DEF Amount
  <2>2. /\ m.swapIn <= GetBalance(imported.db, m.to, AssetIn(m))
        /\ m.swapOut <= GetBalance(imported.db, actor, m.assetOut)
    <3>1. m.swapOut <= GetBalance(d, actor, m.assetOut)
      BY <1>7, <1>9, <2>1
    <3>2. GetBalance(d, actor, m.assetOut) <= GetBalance(imported.db, actor, m.assetOut)
      BY <1>7, <1>8
    <3> QED
      BY <1>7, <1>8, <2>1, <3>1, <3>2
  <2>3. FillSwap(imported, actor, m).ok
    BY <1>1, <1>6, <1>7, <1>8, <2>2, SwapAllowed
  <2> QED
    BY <1>3, <1>6, <1>9, <2>3 DEF s
<1>10. CASE ~fill
  <2>1. m.swapExpiry <= now
    BY <1>10 DEF ImportPrompts
  <2>2. Require(imported, m.swapExpiry <= now).ok
    BY <1>6, <2>1 DEF Require, Run
  <2> QED
    BY <1>3, <1>6, <1>10, <2>2 DEF s
<1> QED
  BY <1>9, <1>10

\* A balance the command shows is one the chain knows.
LEMMA Shown ==
  ASSUME NEW d \in DB, NEW actor \in PublicKeys, NEW a \in AssetIDs,
         ShownBalance(d, actor, a) # 0
  PROVE  /\ Known(d, a) /\ ShownBalance(d, actor, a) = GetBalance(d, actor, a)
         /\ GetBalance(d, actor, a) \in Nat \ {0}
<1>1. GetBalance(d, actor, a) \in Nat
  BY GetBalanceType, StorageAssumption DEF Amount
<1> QED
  BY <1>1 DEF ShownBalance

\* A transfer or a mint the command lets through succeeds.
LEMMA SpendingAllowed ==
  ASSUME IInv, NEW c \in Chains, NEW actor \in Accounts
  PROVE  SpendingSucceeds(c, actor)
<1> DEFINE d == db[c]
           s == Begin(d)
<1>1. d \in DB /\ Sound(Zeros(c), d) /\ \A b \in AssetIDs : Gone(d, b) >= 0
  BY Reserves
<1>2. s \in Run /\ s.ok /\ s.db = d
  BY <1>1 DEF Begin, Run
<1> SUFFICES ASSUME NEW asset \in Named, NEW value \in Positive, NEW to \in Recipients
             PROVE  /\ TransferPrompts(d, actor, asset, value) =>
                         ExecuteTransfer(s, actor, to, asset, value).ok
                    /\ MintPrompts(d, actor, asset, value) =>
                         ExecuteMintAsset(s, actor, to, asset, value).ok
  BY DEF SpendingSucceeds
<1> HIDE DEF s, d
<1>3. /\ actor \in PublicKeys /\ to \in PublicKeys /\ asset \in AssetIDs
      /\ value \in Nat \ {0} /\ value \in Amount
  BY Inputs, StorageAssumption DEF Positive, Amount
<1>4. ASSUME TransferPrompts(d, actor, asset, value)
      PROVE  ExecuteTransfer(s, actor, to, asset, value).ok
  <2>1. ShownBalance(d, actor, asset) # 0 /\ value <= ShownBalance(d, actor, asset)
    BY <1>4 DEF TransferPrompts, PromptAmount
  <2>2. value <= GetBalance(d, actor, asset)
    BY <1>1, <1>3, <2>1, Shown
  <2> QED
    BY <1>1, <1>2, <1>3, <2>2, TransferAllowed
<1>5. ASSUME MintPrompts(d, actor, asset, value)
      PROVE  ExecuteMintAsset(s, actor, to, asset, value).ok
  <2> DEFINE a == d.assets[asset]
  <2>1. /\ asset # Native /\ a # Missing /\ ~a.warp /\ a.owner = actor
        /\ value <= MaxUint64 - a.supply /\ a = s.db.assets[asset]
    BY <1>2, <1>5 DEF MintPrompts, PromptAmount
  <2> HIDE DEF a
  <2> QED
    BY <1>1, <1>2, <1>3, <2>1, MintAllowed
<1> QED
  BY <1>4, <1>5

\* An order the command lets through is created, and a fill is executed.
LEMMA OrdersAllowed ==
  ASSUME IInv, NEW c \in Chains, NEW actor \in Accounts
  PROVE  OrdersSucceed(c, actor)
<1> DEFINE d == db[c]
           s == Begin(d)
<1>1. d \in DB /\ Sound(Zeros(c), d) /\ \A b \in AssetIDs : Gone(d, b) >= 0
  BY Reserves
<1>2. s \in Run /\ s.ok /\ s.db = d /\ s = Begin(d)
  BY <1>1 DEF Begin, Run
<1>3. ASSUME NEW in \in Named, NEW out \in Named, NEW inTick \in Ticks \ {0},
             NEW outTick \in Ticks \ {0}, NEW supply \in Positive, NEW id \in TxIDs,
             in # out, CreateOrderPrompts(d, actor, in, inTick, out, outTick, supply)
      PROVE  ExecuteCreateOrder(s, actor, id, in, inTick, out, outTick, supply).ok
  <2> HIDE DEF s, d
  <2>1. /\ actor \in PublicKeys /\ in \in AssetIDs /\ out \in AssetIDs
        /\ inTick \in Amount \ {0} /\ outTick \in Amount \ {0} /\ supply \in Amount \ {0}
    BY Inputs DEF Positive
  <2>2. /\ ShownBalance(d, actor, out) # 0 /\ supply <= ShownBalance(d, actor, out)
        /\ supply % outTick = 0
    BY <1>3 DEF CreateOrderPrompts, PromptAmount
  <2>3. supply <= GetBalance(d, actor, out)
    BY <1>1, <2>1, <2>2, Shown
  <2> QED
    BY <1>2, <1>3, <2>1, <2>2, <2>3, OrderAllowed
<1>4. ASSUME NEW id \in TxIDs, NEW value \in Positive, NEW order, order = d.orders[id],
             order # Missing, FillOrderPrompts(d, actor, id, value),
             Wanted(order, value) <= MaxUint64
      PROVE  ExecuteFillOrder(s, actor, id, order.owner, order.in, order.out, value).ok
  <2> HIDE DEF s, d
  <2>1. actor \in PublicKeys /\ value \in Amount \ {0} /\ value \in Nat
    BY Inputs, StorageAssumption DEF Positive, Amount
  <2>2. /\ order \in Order /\ WellFormedOrder(order)
        /\ order.in \in AssetIDs /\ order.out \in AssetIDs
    BY <1>1, <1>4 DEF Sound, OrdersOK, DB, Order
  <2>3. /\ ShownBalance(d, actor, order.in) # 0
        /\ value <= ShownBalance(d, actor, order.in)
        /\ value % order.inTick = 0
        /\ Wanted(order, value) % (MaxUint64 + 1) <= order.remaining
    BY <1>4 DEF FillOrderPrompts, PromptAmount, Wanted
  <2>4. value <= GetBalance(d, actor, order.in)
    BY <1>1, <2>1, <2>2, <2>3, Shown
  <2>5. Wanted(order, value) \in Nat
    <3>1. order.inTick \in Nat \ {0} /\ order.outTick \in Nat
      BY <2>2, StorageAssumption DEF Order, Amount, WellFormedOrder
    <3>2. value \div order.inTick \in Nat
      BY <2>1, <3>1
    <3> QED
      BY <3>1, <3>2 DEF Wanted
  <2>6. \A x, n \in Nat : x <= n => x % (n + 1) = x
    OBVIOUS
  <2>7. Wanted(order, value) <= order.remaining
    BY <1>4, <2>3, <2>5, <2>6, StorageAssumption
  <2> QED
    BY <1>1, <1>2, <1>4, <2>1, <2>2, <2>3, <2>4, <2>7, FillAllowed
<1> QED
  BY <1>3, <1>4 DEF OrdersSucceed

\* An export the command lets through moves the amounts: what is on its way
\* home is an asset of the chain it goes to, and anything else is an asset of
\* this chain.  It fails when, and only when, the message does not fit.
LEMMA ExportsAllowed ==
  ASSUME IInv, NEW c \in Chains, NEW actor \in Accounts
  PROVE  ExportsSucceed(c, actor)
<1> DEFINE d == db[c]
           s == Begin(d)
<1>1. d \in DB /\ Sound(Zeros(c), d) /\ \A b \in AssetIDs : Gone(d, b) >= 0
  BY Reserves
<1>2. s \in Run /\ s.ok /\ s.db = d /\ s = Begin(d)
  BY <1>1 DEF Begin, Run
<1> SUFFICES ASSUME NEW e \in Exports, e.value > 0, NoSwap(e) \/ Swap(e),
                    ExportPrompts(d, c, actor, e)
             PROVE  /\ ValidSwapParams(e.value, e.swapIn, e.assetOut, e.swapOut, e.swapExpiry)
                    /\ ExecuteExportAsset(s, actor, e).ok <=> Marshals(e)
  BY DEF ExportsSucceed, SensibleExports
<1> HIDE DEF s, d
<1>3. /\ e \in ExportRequest /\ actor \in PublicKeys /\ e.asset \in AssetIDs
      /\ e.value \in Nat \ {0} /\ e.reward \in Nat /\ e.swapIn \in Nat /\ e.swapOut \in Nat
      /\ e.return \in BOOLEAN /\ e.destination \in Chains /\ e.swapExpiry \in Int
  BY ExportsType, Inputs, StorageAssumption, TokenVMAssumption DEF ExportRequest, Amount
<1> DEFINE a   == d.assets[e.asset]
           bal == ShownBalance(d, actor, e.asset)
<1>4. /\ bal # 0 /\ e.value <= bal /\ e.reward <= bal - e.value /\ e.swapIn <= e.value
      /\ e.return = Imported(d, e.asset)
      /\ e.return => e.destination = a.metadata[2]
  BY DEF ExportPrompts, PromptAmount
<1>5. /\ Known(d, e.asset) /\ bal = GetBalance(d, actor, e.asset) /\ bal \in Nat \ {0}
  BY <1>1, <1>3, <1>4, Shown
<1>6. ValidSwapParams(e.value, e.swapIn, e.assetOut, e.swapOut, e.swapExpiry)
  BY <1>3, <1>4 DEF ValidSwapParams, NoSwap, Swap
<1>7. a # Missing
  <2>1. CASE a = Missing
    <3>1. Supply(d, e.asset) = 0
      BY <2>1 DEF Supply, SupplyOf
    <3>2. GetBalance(d, actor, e.asset) + GetLoan(d, e.asset, c) <= Supply(d, e.asset)
          /\ GetLoan(d, e.asset, c) \in Nat
      BY <1>1, <1>3, HeldAndLent
    <3> HIDE DEF bal
    <3> QED
      BY <1>5, <3>1, <3>2
  <2> QED
    BY <2>1
<1>8. a.warp = e.return
  <2>1. /\ a \in Asset /\ a.warp \in BOOLEAN /\ (a.warp <=> e.asset \in ImportedIDs)
    BY <1>1, <1>3, <1>7 DEF Sound, WarpOK, WarpRecordOK, DB, Asset
  <2>2. Native \notin ImportedIDs
    BY StorageAssumption DEF LocalIDs
  <2> QED
    BY <1>3, <1>4, <1>7, <2>1, <2>2 DEF Imported
<1>9. e.value + e.reward <= GetBalance(d, actor, e.asset) /\ Gone(d, e.asset) >= 0
  <2> HIDE DEF bal
  <2> QED
    BY <1>1, <1>3, <1>4, <1>5
<1> DEFINE valid == Require(s, e.value # 0)
<1>10. ExecuteExportAsset(s, actor, e) = IF e.return THEN ExportReturn(valid, actor, e)
                                                     ELSE ExportLoan(valid, actor, e)
  BY DEF ExecuteExportAsset
<1>11. valid \in Run /\ valid.ok /\ valid.db = d
  BY <1>2, <1>3 DEF Require, Run
<1>12. a = valid.db.assets[e.asset]
  BY <1>11
<1> HIDE DEF valid, a
<1> DEFINE moved == IF e.return THEN Retire(valid, actor, e) ELSE Lend(valid, actor, e)
<1>13. moved \in Run /\ moved.ok
  <2>1. CASE e.return
    BY <1>3, <1>4, <1>7, <1>8, <1>9, <1>11, <1>12, <2>1, RetireAllowed
  <2>2. CASE ~e.return
    BY <1>3, <1>7, <1>8, <1>9, <1>11, <1>12, <2>2, LendAllowed
  <2> QED
    BY <1>3, <2>1, <2>2
<1>14. ExecuteExportAsset(s, actor, e) = Require(moved, Marshals(e))
  BY <1>10 DEF ExportReturn, ExportLoan
<1> HIDE DEF moved
<1>15. ExecuteExportAsset(s, actor, e).ok <=> Marshals(e)
  BY <1>13, <1>14, RequireRun
<1> QED
  BY <1>6, <1>15

\* What a command of the token CLI lets through, the chain accepts: the commands
\* look at a balance only, and what is held, locked and lent of an asset never
\* exceeds its supply, so the supply, the loan and the credit of the other side
\* have room for whatever the balance covers.  What it refuses is exactly the
\* export whose message does not fit, the one that uses every option.
THEOREM PromptsAreEnough == Spec => []PromptsSuffice
<1>1. IInv /\ BridgeInv => PromptsSuffice
  BY ImportsAllowed, SpendingAllowed, OrdersAllowed, ExportsAllowed DEF PromptsSuffice
<1> QED
  BY <1>1, BridgeInvariance, PTL
=============================================================================
