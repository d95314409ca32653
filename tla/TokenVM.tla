------------------------------ MODULE TokenVM -------------------------------
(***************************************************************************)
(* A network of tokenvm chains that execute transactions and exchange warp *)
(* messages.                                                               *)
(*                                                                         *)
(* Each step but Tick is one transaction on one chain, executed the way    *)
(* the hypersdk calls the code of this repository: the signer is charged   *)
(* the largest fee the action can cost (auth/ed25519.go), the action is    *)
(* executed (Actions), its writes are rolled back when it fails, and what  *)
(* it did not use of the fee is refunded.                                  *)
(***************************************************************************)
EXTENDS Actions, Genesis, Books

CONSTANTS
  Recipients, \* the keys they send to
  Kinds,      \* the actions the signers submit
  Named,      \* the assets they write in them
  Values,     \* the amounts they write in them
  Ticks,      \* the inTick and outTick they write in orders
  Rewards,    \* the rewards they offer to whoever imports
  Swaps,      \* the swaps they ask for: [swapIn, assetOut, swapOut, swapExpiry];
              \* -1 stands for the times before 1970, which are negative
  BaseFee,    \* unit price * (base, auth and action units)
  TradeFee,   \* unit price * tradeSucceededPrice
  MaxTime     \* bound on the clock

ASSUME TokenVMAssumption ==
  /\ Recipients \subseteq PublicKeys /\ Named \subseteq AssetIDs
  /\ Values \subseteq Amount /\ Ticks \subseteq Amount /\ Rewards \subseteq Amount
  /\ Swaps \subseteq [swapIn : Amount, assetOut : AssetIDs, swapOut : Amount,
                      swapExpiry : -1 .. MaxTime]
  /\ BaseFee \in Nat /\ TradeFee \in Nat /\ MaxTime \in Nat
  /\ Chains # {}

VARIABLES
  db,        \* per chain, its state
  used,      \* ids of the transactions that created something
  sent,      \* warp messages of accepted exports
  received,  \* per chain, the warp messages it imported
  fees,      \* per chain, the fees charged so far (nobody gets them)
  undeclared,\* state keys an action touched and had not declared
  last,      \* the last transaction: chain, signer, action, success
  now        \* the timestamp of the blocks

vars == <<db, used, sent, received, fees, undeclared, last, now>>

Time == 0 .. MaxTime

Message ==
  [src : Chains, dest : Chains, txID : TxIDs, to : PublicKeys,
   asset : LocalIDs, value : Amount, return : BOOLEAN, reward : Amount,
   swapIn : Amount, assetOut : AssetIDs, swapOut : Amount, swapExpiry : Time]

ActionKinds ==
  {"Transfer", "CreateAsset", "MintAsset", "BurnAsset", "ModifyAsset",
   "CreateOrder", "FillOrder", "CloseOrder", "ExportAsset", "ImportAsset"}

Receipt == [chain : Chains, actor : PublicKeys, kind : ActionKinds \cup {"Genesis"},
            ok : BOOLEAN]

Init ==
  /\ GenesisLoads
  /\ db = [c \in Chains |-> Load(c)]
  /\ used = {}
  /\ sent = {}
  /\ received = [c \in Chains |-> {}]
  /\ fees = [c \in Chains |-> 0]
  /\ undeclared = {}
  /\ last = [chain |-> CHOOSE c \in Chains : TRUE, actor |-> EmptyKey,
             kind |-> "Genesis", ok |-> TRUE]
  /\ now = 0

-----------------------------------------------------------------------------
\* auth/ed25519.go

\* A transaction whose signer cannot pay the largest fee is not included.
CanDeduct(d, signer, amount) == amount <= GetBalance(d, signer, Native)

Deduct(s, signer, amount) == SubBalance(s, signer, Native, amount)

\* The chain calls Refund only when there is something to refund.
Refund(s, signer, amount) ==
  IF amount > 0 THEN AddBalance(s, signer, Native, amount) ELSE s

AuthKeys(signer) == {BalanceKey(signer, Native)}

-----------------------------------------------------------------------------
\* A transaction.  charged is the run after the fee, run the run after the
\* action, refund what a failed action leaves of the fee.

Charged(c, actor, fee) == Deduct(Begin(db[c]), actor, fee)

Include(c, actor, kind, fee, refund, run, declared) ==
  LET failed == Refund(Charged(c, actor, fee), actor, refund)
      final  == IF run.ok THEN run ELSE failed
  IN  /\ CanDeduct(db[c], actor, fee)
      /\ db' = [db EXCEPT ![c] = final.db]
      /\ fees' = [fees EXCEPT ![c] = @ + fee - (IF run.ok THEN 0 ELSE refund)]
      /\ undeclared' = undeclared \cup (run.keys \ (declared \cup AuthKeys(actor)))
      /\ last' = [chain |-> c, actor |-> actor, kind |-> kind, ok |-> run.ok]
      /\ now' = now

Transfer(c, actor) ==
  /\ "Transfer" \in Kinds
  /\ \E to \in Recipients, asset \in Named, value \in Values :
       Include(c, actor, "Transfer", BaseFee, 0,
               ExecuteTransfer(Charged(c, actor, BaseFee), actor, to, asset, value),
               TransferKeys(actor, to, asset))
  /\ UNCHANGED <<used, sent, received>>

CreateAsset(c, actor) ==
  /\ "CreateAsset" \in Kinds
  /\ \E id \in TxIDs \ used, metadata \in Metadata :
       /\ Include(c, actor, "CreateAsset", BaseFee, 0,
                  ExecuteCreateAsset(Charged(c, actor, BaseFee), actor, id, metadata),
                  CreateAssetKeys(id))
       /\ used' = used \cup {id}
  /\ UNCHANGED <<sent, received>>

\* Unmarshal refuses to mint to the empty key.
MintAsset(c, actor) ==
  /\ "MintAsset" \in Kinds
  /\ \E to \in Accounts, asset \in Named, value \in Values :
       Include(c, actor, "MintAsset", BaseFee, 0,
               ExecuteMintAsset(Charged(c, actor, BaseFee), actor, to, asset, value),
               MintAssetKeys(to, asset))
  /\ UNCHANGED <<used, sent, received>>

BurnAsset(c, actor) ==
  /\ "BurnAsset" \in Kinds
  /\ \E asset \in Named, value \in Values :
       Include(c, actor, "BurnAsset", BaseFee, 0,
               ExecuteBurnAsset(Charged(c, actor, BaseFee), actor, asset, value),
               BurnAssetKeys(actor, asset))
  /\ UNCHANGED <<used, sent, received>>

\* An empty owner revokes ownership.
ModifyAsset(c, actor) ==
  /\ "ModifyAsset" \in Kinds
  /\ \E asset \in Named, owner \in PublicKeys, metadata \in Metadata :
       Include(c, actor, "ModifyAsset", BaseFee, 0,
               ExecuteModifyAsset(Charged(c, actor, BaseFee), actor, asset, owner, metadata),
               ModifyAssetKeys(asset))
  /\ UNCHANGED <<used, sent, received>>

\* An id is spent only when the transaction created something: ids of failed
\* transactions leave no trace in the state.
CreateOrder(c, actor) ==
  /\ "CreateOrder" \in Kinds
  /\ \E id \in TxIDs \ used, in, out \in Named, inTick, outTick \in Ticks,
        supply \in Values :
       LET run == ExecuteCreateOrder(Charged(c, actor, BaseFee), actor, id,
                                     in, inTick, out, outTick, supply)
       IN  /\ Include(c, actor, "CreateOrder", BaseFee, 0, run,
                      CreateOrderKeys(actor, id, out))
           /\ used' = IF run.ok THEN used \cup {id} ELSE used
  /\ UNCHANGED <<sent, received>>

\* The only action that costs less than its largest fee when it fails.
FillOrder(c, actor) ==
  /\ "FillOrder" \in Kinds
  /\ \E id \in TxIDs, owner \in Accounts, in, out \in Named, value \in Values :
       Include(c, actor, "FillOrder", BaseFee + TradeFee, TradeFee,
               ExecuteFillOrder(Charged(c, actor, BaseFee + TradeFee), actor, id,
                                owner, in, out, value),
               FillOrderKeys(actor, id, owner, in, out))
  /\ UNCHANGED <<used, sent, received>>

CloseOrder(c, actor) ==
  /\ "CloseOrder" \in Kinds
  /\ \E id \in TxIDs, out \in Named :
       Include(c, actor, "CloseOrder", BaseFee, 0,
               ExecuteCloseOrder(Charged(c, actor, BaseFee), actor, id, out),
               CloseOrderKeys(actor, id, out))
  /\ UNCHANGED <<used, sent, received>>

Exports ==
  {[to |-> to, asset |-> asset, value |-> value, return |-> return,
    reward |-> reward, swapIn |-> swap.swapIn, assetOut |-> swap.assetOut,
    swapOut |-> swap.swapOut, swapExpiry |-> swap.swapExpiry,
    destination |-> destination] :
     to \in Recipients, asset \in Named, value \in Values, return \in BOOLEAN,
     reward \in Rewards, swap \in Swaps, destination \in Chains}

ExportAsset(c, actor) ==
  /\ "ExportAsset" \in Kinds
  /\ \E id \in TxIDs \ used, e \in Exports :
       LET charged == Charged(c, actor, BaseFee)
           run     == ExecuteExportAsset(charged, actor, e)
       IN  /\ ValidSwapParams(e.value, e.swapIn, e.assetOut, e.swapOut, e.swapExpiry)
           /\ Include(c, actor, "ExportAsset", BaseFee, 0, run,
                      ExportAssetKeys(actor, e))
           /\ used' = IF run.ok THEN used \cup {id} ELSE used
           /\ sent' = IF run.ok
                      THEN sent \cup {WarpTransfer(charged.db, c, id, e)}
                      ELSE sent
  /\ UNCHANGED received

\* The chain verifies a message that is addressed to it and that it has not
\* imported, and remembers it when the import succeeds.  Unmarshal refuses
\* to fill where there is no swap.
ImportAsset(c, actor) ==
  /\ "ImportAsset" \in Kinds
  /\ \E m \in sent, fill \in BOOLEAN :
       LET verified == m.dest = c /\ m \notin received[c]
           run == ExecuteImportAsset(Charged(c, actor, BaseFee), actor, m, fill,
                                     now, verified)
       IN  /\ fill => m.swapIn > 0
           /\ Include(c, actor, "ImportAsset", BaseFee, 0, run,
                      ImportAssetKeys(actor, m, fill))
           /\ received' = IF run.ok
                          THEN [received EXCEPT ![c] = @ \cup {m}]
                          ELSE received
  /\ UNCHANGED <<used, sent>>

Tick ==
  /\ now < MaxTime
  /\ now' = now + 1
  /\ UNCHANGED <<db, used, sent, received, fees, undeclared, last>>

Next ==
  \/ \E c \in Chains, actor \in Accounts :
       \/ Transfer(c, actor)    \/ CreateAsset(c, actor) \/ MintAsset(c, actor)
       \/ BurnAsset(c, actor)   \/ ModifyAsset(c, actor) \/ CreateOrder(c, actor)
       \/ FillOrder(c, actor)   \/ CloseOrder(c, actor)
       \/ ExportAsset(c, actor) \/ ImportAsset(c, actor)
  \/ Tick

Spec == Init /\ [][Next]_vars

-----------------------------------------------------------------------------
\* Every variable holds values of its kind.
TypeOK ==
  /\ db \in [Chains -> DB]
  /\ used \in SUBSET TxIDs
  /\ sent \in SUBSET Message
  /\ received \in [Chains -> SUBSET Message]
  /\ fees \in [Chains -> Nat]
  /\ undeclared \in SUBSET StateKey
  /\ last \in Receipt
  /\ now \in Time

\* What every open order looks like, whatever was created, filled in part or
\* closed before: two different assets, prices without a zero (FillOrder
\* divides by inTick and outTick), and a remainder that is a positive number
\* of whole blocks, so that a fill never has to round.
WellFormedOrder(o) ==
  /\ o.in # o.out
  /\ o.inTick > 0 /\ o.outTick > 0
  /\ o.remaining > 0 /\ o.remaining % o.outTick = 0
  /\ o.owner \in Accounts

OrdersWellFormed ==
  \A c \in Chains, id \in TxIDs :
    db[c].orders[id] # Missing => WellFormedOrder(db[c].orders[id])

\* An asset is a warp asset exactly when its id is derived from an asset of
\* another chain, and then its metadata names that asset and that chain
\* (ImportAsset: a conflicting asset "should not be possible").
WarpAssetsIdentified ==
  \A c \in Chains, a \in AssetIDs :
    LET asset == db[c].assets[a]
    IN  asset # Missing => /\ asset.warp <=> a \in ImportedIDs
                           /\ asset.warp => asset.metadata = a

\* Everything of an asset is in somebody's balance, locked in an order, lent
\* to another chain or, for the native asset, spent as a fee; what does not
\* exist is held by nobody.  This is why the subtraction of BurnAsset
\* "should never fail" and why no credit overflows.
Conservation ==
  \A c \in Chains, a \in AssetIDs :
    Gone(db[c], a) = IF a = Native THEN fees[c] + GenesisLost(c) ELSE 0

\* No record of a zero amount stays in the state: SubBalance and SubLoan
\* remove what reaches 0, and nothing ever adds 0.  The only ones there ever
\* are come from the genesis, whose Load stores allocations of zero as well.
NoEmptyRecords ==
  \A c \in Chains :
    /\ \A pk \in PublicKeys, a \in AssetIDs :
         db[c].bal[<<pk, a>>] = 0 => a = Native /\ GenesisBalance(c, pk) = 0
    /\ \A k \in AssetIDs \X Chains : db[c].loans[k] # 0

\* The owner of an order can always take back what is left in it.
OrdersCanBeClosed ==
  \A c \in Chains, id \in TxIDs :
    LET o == db[c].orders[id]
    IN  o # Missing =>
          ExecuteCloseOrder(Begin(db[c]), o.owner, id, o.out).ok

\* Every handler declares in StateKeys every key it reads or writes; the
\* chain locks and prefetches nothing else.
OnlyDeclaredKeys == undeclared = {}

-----------------------------------------------------------------------------
\* What one step does to a balance, the fee of the signer left aside.
Net(c, pk, a) ==
  GetBalance(db'[c], pk, a) - GetBalance(db[c], pk, a)
    + (IF a = Native /\ pk = last'.actor THEN fees'[c] - fees[c] ELSE 0)

\* Whatever happens to an open order is a close by its owner, who gets the
\* remainder back, or a sale at exactly the price of the order: the buyer
\* gets what the order loses and the owner what the buyer pays, with
\* paid / sold = inTick / outTick, also when the fill is larger than the
\* order and its input is cut.
Closed(c, o) ==
  /\ last'.kind = "CloseOrder" /\ last'.actor = o.owner
  /\ Net(c, o.owner, o.out) = o.remaining

SoldAtPrice(c, o, sold) ==
  LET buyer == last'.actor
      paid  == (sold \div o.outTick) * o.inTick
  IN  /\ last'.kind = "FillOrder"
      /\ paid * o.outTick = sold * o.inTick /\ paid > 0
      /\ Net(c, buyer, o.out) = sold
      /\ IF buyer = o.owner
         THEN Net(c, buyer, o.in) = 0
         ELSE Net(c, buyer, o.in) = -paid /\ Net(c, o.owner, o.in) = paid

FairTrade ==
  \A c \in Chains, id \in TxIDs :
    LET old == db[c].orders[id]
        new == db'[c].orders[id]
    IN  old # Missing /\ new # old =>
          IF new = Missing
          THEN Closed(c, old) \/ SoldAtPrice(c, old, old.remaining)
          ELSE /\ new = [old EXCEPT !.remaining = new.remaining]
               /\ new.remaining < old.remaining
               /\ SoldAtPrice(c, old, old.remaining - new.remaining)

OrdersTradeFairly == [][FairTrade]_vars

\* A transaction never takes anything from anybody but its signer: not from
\* the recipient whose swap an import fills, not from the owner of an order.
SignerPays ==
  \A c \in Chains, pk \in PublicKeys, a \in AssetIDs :
    GetBalance(db'[c], pk, a) < GetBalance(db[c], pk, a) =>
      last'.chain = c /\ last'.actor = pk

OnlySignerPays == [][SignerPays]_vars

\* Ownership given up stays given up: the supply of an asset nobody owns
\* never grows and nobody owns it again.
Revoked ==
  \A c \in Chains, a \in LocalIDs :
    LET old == db[c].assets[a]
        new == db'[c].assets[a]
    IN  old # Missing /\ old.owner = EmptyKey =>
          new # Missing /\ new.owner = EmptyKey /\ new.supply <= old.supply

RevocationIsFinal == [][Revoked]_vars

-----------------------------------------------------------------------------
\* Warp messages that were accepted where they were sent and are not imported.
Pending == {m \in sent : m \notin received[m.dest]}

\* What is on its way between the home of asset a and another chain.
OnTheWay(home, away, a) ==
  Total([m \in sent |->
           IF /\ m \in Pending /\ m.asset = a
              /\ IF m.return THEN m.src = away /\ m.dest = home
                             ELSE m.src = home /\ m.dest = away
           THEN m.value + m.reward ELSE 0])

\* Every unit of an imported asset, on the other chain or on its way, is
\* backed by a unit of the loan at home.
LoansBackImports ==
  \A home, away \in Chains, a \in LocalIDs :
    Supply(db[away], ImportedAssetID(a, home)) + OnTheWay(home, away, a)
      <= GetLoan(db[home], a, away)

\* A message is never stuck: once its swap has expired, anybody can import it
\* without filling the swap, and it succeeds.
NoMessageStuck ==
  \A m \in Pending, actor \in Accounts :
    ExecuteImportAsset(Begin(db[m.dest]), actor, m, FALSE, m.swapExpiry, TRUE).ok

\* warp_transfer.go: SwapExpiry "is the unix timestamp at which the swap
\* becomes invalid": an import in a block of that time or later leaves the
\* recipient the whole value.
NotSwapped ==
  \A c \in Chains : \A m \in received'[c] \ received[c] :
    m.swapIn > 0 /\ m.swapExpiry <= now /\ m.to # last'.actor =>
      GetBalance(db'[c], m.to, AssetIn(m))
        = GetBalance(db[c], m.to, AssetIn(m)) + m.value

ExpiredSwapsAreNotFilled == [][NotSwapped]_vars
=============================================================================
