------------------------------ MODULE Actions -------------------------------
(***************************************************************************)
(* The Execute method of the ten actions of a tokenvm chain                *)
(* (tokenvm/actions/*.go), each as an operator from a run to a run, and    *)
(* the state keys each action declares in advance.                         *)
(*                                                                         *)
(* Execute never undoes anything: when a run fails its db holds the writes *)
(* done before the error, and it is the chain that rolls them back.        *)
(***************************************************************************)
EXTENDS Storage

-----------------------------------------------------------------------------
\* transfer.go

ExecuteTransfer(s, actor, to, asset, value) ==
  LET valid   == Require(s, value # 0)
      debited == SubBalance(valid, actor, asset, value)
  IN  AddBalance(debited, to, asset, value)

TransferKeys(actor, to, asset) ==
  {BalanceKey(actor, asset), BalanceKey(to, asset)}

-----------------------------------------------------------------------------
\* create_asset.go, mint_asset.go, burn_asset.go, modify_asset.go

ExecuteCreateAsset(s, actor, id, metadata) ==
  SetAsset(s, id, [metadata |-> metadata, supply |-> 0,
                   owner |-> actor, warp |-> FALSE])

CreateAssetKeys(id) == {AssetKey(id)}

\* Mutant: an asset without an owner is everybody's.
RequireOwnerIfAny(s, actor, asset) ==
  LET a == s.db.assets[asset]
  IN  Require(Touch(s, AssetKey(asset)),
              a # Missing /\ ~a.warp /\ a.owner \in {actor, EmptyKey})

\* What MintAsset and ModifyAsset check: the asset is known, was created on
\* this chain and is owned by the actor.
RequireAssetOwner(s, actor, asset) ==
  LET a == s.db.assets[asset]
  IN  Require(Touch(s, AssetKey(asset)),
              a # Missing /\ ~a.warp /\ a.owner = actor)

\* Mutant: the supply is added up without an overflow check.
MintUnchecked(s, actor, to, asset, value) ==
  LET owned == RequireAssetOwner(Require(s, asset # Native /\ value # 0), actor, asset)
      a     == s.db.assets[asset]
  IN  SetAsset(owned, asset, [a EXCEPT !.supply = a.supply + value])

ExecuteMintAsset(s, actor, to, asset, value) ==
  LET valid  == Require(s, asset # Native /\ value # 0)
      owned  == RequireAssetOwner(valid, actor, asset)
      a      == s.db.assets[asset]
      fits   == Require(owned, a.supply + value <= MaxUint64)
      minted == SetAsset(fits, asset, [a EXCEPT !.supply = a.supply + value])
  IN  AddBalance(minted, to, asset, value)

\* Mutant: the recipient is forgotten.
MintKeysWithoutRecipient(to, asset) == {AssetKey(asset)}

MintAssetKeys(to, asset) == {AssetKey(asset), BalanceKey(to, asset)}

\* Mutant: the supply is not reduced.
BurnBalanceOnly(s, actor, asset, value) ==
  SubBalance(Require(s, value # 0), actor, asset, value)

\* The asset stays on record when its supply reaches 0.
ExecuteBurnAsset(s, actor, asset, value) ==
  LET valid   == Require(s, value # 0)
      debited == SubBalance(valid, actor, asset, value)
      a       == debited.db.assets[asset]
      found   == Require(Touch(debited, AssetKey(asset)),
                         a # Missing /\ value <= a.supply)
  IN  SetAsset(found, asset, [a EXCEPT !.supply = a.supply - value])

BurnAssetKeys(actor, asset) == {AssetKey(asset), BalanceKey(actor, asset)}

ExecuteModifyAsset(s, actor, asset, owner, metadata) ==
  LET valid == Require(s, asset # Native)
      owned == RequireAssetOwner(valid, actor, asset)
      a     == s.db.assets[asset]
  IN  SetAsset(owned, asset, [a EXCEPT !.owner = owner, !.metadata = metadata])

ModifyAssetKeys(asset) == {AssetKey(asset)}

-----------------------------------------------------------------------------
\* create_order.go

ExecuteCreateOrder(s, actor, id, in, inTick, out, outTick, supply) ==
  LET valid  == Require(s, /\ in # out
                           /\ inTick # 0 /\ outTick # 0 /\ supply # 0
                           /\ supply % outTick = 0)
      locked == SubBalance(valid, actor, out, supply)
  IN  SetOrder(locked, id,
               [in |-> in, inTick |-> inTick, out |-> out, outTick |-> outTick,
                remaining |-> supply, owner |-> actor])

CreateOrderKeys(actor, id, out) == {BalanceKey(actor, out), OrderKey(id)}

-----------------------------------------------------------------------------
\* fill_order.go

\* What a fill of value takes from the buyer (input) and from the order
\* (output).  A fill larger than the order takes what remains and pays for
\* the blocks it gets.  blocksOver * inTick never exceeds value, so the
\* subtraction does not wrap.
\* Mutant: the two halves of the price are swapped.
WantedAtInversePrice(order, value) == order.inTick * (value \div order.outTick)

Wanted(order, value) == order.outTick * (value \div order.inTick)

\* Mutant: the buyer pays for what the order does not have.
FillInputUncut(order, value) == value

FillInput(order, value) ==
  LET blocksOver == (Wanted(order, value) - order.remaining) \div order.outTick
  IN  IF Wanted(order, value) > order.remaining
      THEN value - blocksOver * order.inTick
      ELSE value

\* Mutant: the buyer gets what the order does not have.
FillOutputUncut(order, value) == Wanted(order, value)

FillOutput(order, value) ==
  IF Wanted(order, value) > order.remaining THEN order.remaining
                                            ELSE Wanted(order, value)

\* Mutant: an order filled exactly stays open with nothing in it.
RemainingOrderKept(order, value) ==
  IF Wanted(order, value) > order.remaining
  THEN Missing
  ELSE [order EXCEPT !.remaining = order.remaining - Wanted(order, value)]

\* What is left of the order; an order of which nothing is left is deleted.
RemainingOrder(order, value) ==
  IF Wanted(order, value) >= order.remaining
  THEN Missing
  ELSE [order EXCEPT !.remaining = order.remaining - Wanted(order, value)]

ExecuteFillOrder(s, actor, id, owner, in, out, value) ==
  LET order    == s.db.orders[id]
      matched  == Require(Touch(s, OrderKey(id)),
                          /\ order # Missing /\ order.owner = owner
                          /\ order.in = in /\ order.out = out)
      aligned  == Require(matched, value # 0 /\ value % order.inTick = 0)
      priced   == Require(aligned, /\ Wanted(order, value) <= MaxUint64
                                   /\ Wanted(order, value) # 0
                                   /\ FillInput(order, value) # 0)
      debited  == SubBalance(priced, actor, in, FillInput(order, value))
      proceeds == AddBalance(debited, owner, in, FillInput(order, value))
      credited == AddBalance(proceeds, actor, out, FillOutput(order, value))
  IN  SetOrder(credited, id, RemainingOrder(order, value))

FillOrderKeys(actor, id, owner, in, out) ==
  {OrderKey(id), BalanceKey(owner, in), BalanceKey(actor, in),
   BalanceKey(actor, out)}

-----------------------------------------------------------------------------
\* close_order.go

\* Mutant: the refund is asked for in the asset the order buys.
CloseComparesIn(s, actor, id, out) ==
  LET order   == s.db.orders[id]
      matched == Require(Touch(s, OrderKey(id)),
                         order # Missing /\ order.owner = actor /\ order.in = out)
  IN  AddBalance(SetOrder(matched, id, Missing), actor, out, order.remaining)

ExecuteCloseOrder(s, actor, id, out) ==
  LET order   == s.db.orders[id]
      matched == Require(Touch(s, OrderKey(id)),
                         /\ order # Missing
                         /\ order.owner = actor /\ order.out = out)
      deleted == SetOrder(matched, id, Missing)
  IN  AddBalance(deleted, actor, out, order.remaining)

CloseOrderKeys(actor, id, out) == {OrderKey(id), BalanceKey(actor, out)}

-----------------------------------------------------------------------------
\* export_asset.go, warp_transfer.go

\* Mutant: a swap may ask for more than the message carries.
SwapParamsUnbounded(value, swapIn, assetOut, swapOut, swapExpiry) ==
  /\ swapExpiry >= 0
  /\ IF swapIn > 0
     THEN swapOut # 0
     ELSE assetOut = Native /\ swapOut = 0 /\ swapExpiry = 0

\* What UnmarshalExportAsset and UnmarshalWarpTransfer let through.
ValidSwapParams(value, swapIn, assetOut, swapOut, swapExpiry) ==
  /\ swapExpiry >= 0
  /\ swapIn <= value
  /\ IF swapIn > 0
     THEN swapOut # 0
     ELSE assetOut = Native /\ swapOut = 0 /\ swapExpiry = 0

\* Marshal writes the message into WarpTransferSize bytes: the fields, all of
\* them, and no room for the set of the optional fields that come with it.  An
\* optional field of zero is left out, and any one of them makes the room.
Marshals(e) ==
  \/ 0 \in {e.reward, e.swapIn, e.swapOut, e.swapExpiry}
  \/ e.assetOut = Native

\* Take what is sent home out of the sender's balance and out of the supply.
\* The asset is deleted when nothing is left of it.
Retire(s, actor, e) ==
  LET a        == s.db.assets[e.asset]
      home     == Require(Touch(s, AssetKey(e.asset)),
                          a # Missing /\ a.warp /\ a.metadata[2] = e.destination)
      covered  == Require(home, e.value + e.reward <= a.supply)
      supply   == a.supply - e.value - e.reward
      rest     == IF supply > 0
                  THEN [a EXCEPT !.supply = supply, !.owner = EmptyKey]
                  ELSE Missing
      retired  == SetAsset(covered, e.asset, rest)
      debited  == SubBalance(retired, actor, e.asset, e.value)
  IN  IF e.reward > 0 THEN SubBalance(debited, actor, e.asset, e.reward)
                      ELSE debited

\* Mutant: the loan leaves the reward out.
LendWithoutReward(s, actor, e) ==
  LET a     == s.db.assets[e.asset]
      local == Require(Touch(s, AssetKey(e.asset)), a # Missing /\ ~a.warp)
      lent  == AddLoan(local, e.asset, e.destination, e.value)
  IN  SubBalance(lent, actor, e.asset, e.value + e.reward)

\* Mutant: the sender keeps the reward.
LendKeepingReward(s, actor, e) ==
  LET a     == s.db.assets[e.asset]
      local == Require(Touch(s, AssetKey(e.asset)), a # Missing /\ ~a.warp)
      lent  == AddLoan(local, e.asset, e.destination, e.value + e.reward)
  IN  SubBalance(lent, actor, e.asset, e.value)

\* Take an asset of this chain out of the sender's balance and into the loan
\* to the other chain.
Lend(s, actor, e) ==
  LET a       == s.db.assets[e.asset]
      local   == Require(Touch(s, AssetKey(e.asset)), a # Missing /\ ~a.warp)
      lent    == AddLoan(local, e.asset, e.destination, e.value)
      debited == SubBalance(lent, actor, e.asset, e.value)
      reward  == AddLoan(debited, e.asset, e.destination, e.reward)
  IN  IF e.reward > 0 THEN SubBalance(reward, actor, e.asset, e.reward)
                      ELSE debited

\* Both handlers marshal the message last, and fail when it does not fit.
ExportReturn(s, actor, e) == Require(Retire(s, actor, e), Marshals(e))

ExportLoan(s, actor, e) == Require(Lend(s, actor, e), Marshals(e))

\* e.destination is a chain: Unmarshal refuses the empty id.
ExecuteExportAsset(s, actor, e) ==
  LET valid == Require(s, e.value # 0)
  IN  IF e.return THEN ExportReturn(valid, actor, e)
                  ELSE ExportLoan(valid, actor, e)

ExportAssetKeys(actor, e) ==
  {AssetKey(e.asset), BalanceKey(actor, e.asset)}
    \cup (IF e.return THEN {} ELSE {LoanKey(e.asset, e.destination)})

\* The warp message of an export that succeeded, which it fits.  The chain adds the source.
WarpTransfer(d, src, id, e) ==
  [src |-> src, dest |-> e.destination, txID |-> id, to |-> e.to,
   asset |-> IF e.return THEN d.assets[e.asset].metadata[1] ELSE e.asset,
   value |-> e.value, return |-> e.return, reward |-> e.reward,
   swapIn |-> e.swapIn, assetOut |-> e.assetOut, swapOut |-> e.swapOut,
   swapExpiry |-> e.swapExpiry]

-----------------------------------------------------------------------------
\* import_asset.go: m is a warp transfer as delivered by the message.

AssetIn(m) == IF m.return THEN m.asset ELSE ImportedAssetID(m.asset, m.src)

ImportMint(s, actor, m) ==
  LET asset   == ImportedAssetID(m.asset, m.src)
      a       == s.db.assets[asset]
      found   == Require(Touch(s, AssetKey(asset)), a = Missing \/ a.warp)
      before  == IF a = Missing THEN 0 ELSE a.supply
      supply  == before + m.value + m.reward
      fits    == Require(found, supply <= MaxUint64)
      minted  == SetAsset(fits, asset,
                   [metadata |-> IF a = Missing
                                 THEN ImportedAssetMetadata(m.asset, m.src)
                                 ELSE a.metadata,
                    supply |-> supply, owner |-> EmptyKey, warp |-> TRUE])
      credited == AddBalance(minted, m.to, asset, m.value)
  IN  IF m.reward > 0 THEN AddBalance(credited, actor, asset, m.reward)
                      ELSE credited

\* Mutant: the loan to this chain is repaid, not the loan to the sender.
ReturnToWrongLoan(s, actor, m) ==
  LET repaid == SubLoan(s, m.asset, m.dest, m.value + m.reward)
  IN  AddBalance(AddBalance(repaid, m.to, m.asset, m.value), actor, m.asset, m.reward)

ImportReturn(s, actor, m) ==
  LET repaid   == SubLoan(s, m.asset, m.src, m.value)
      credited == AddBalance(repaid, m.to, m.asset, m.value)
      reward   == SubLoan(credited, m.asset, m.src, m.reward)
  IN  IF m.reward > 0 THEN AddBalance(reward, actor, m.asset, m.reward)
                      ELSE credited

\* The actor fills the swap the message asks for.
FillSwap(s, actor, m) ==
  LET taken  == SubBalance(s, m.to, AssetIn(m), m.swapIn)
      sold   == AddBalance(taken, actor, AssetIn(m), m.swapIn)
      bought == SubBalance(sold, actor, m.assetOut, m.swapOut)
  IN  AddBalance(bought, m.to, m.assetOut, m.swapOut)

\* Mutant: the swap binds at its expiry, too.
ImportAfterExpiry(s, actor, m, fill, t, warpVerified) ==
  LET valid    == Require(s, warpVerified /\ m.value # 0)
      imported == IF m.return THEN ImportReturn(valid, actor, m)
                              ELSE ImportMint(valid, actor, m)
  IN  IF m.swapIn = 0 THEN imported
      ELSE IF fill    THEN FillSwap(imported, actor, m)
      ELSE Require(imported, m.swapExpiry < t)

\* t is the timestamp of the block.
ExecuteImportAsset(s, actor, m, fill, t, warpVerified) ==
  LET valid    == Require(s, warpVerified /\ m.value # 0)
      imported == IF m.return THEN ImportReturn(valid, actor, m)
                              ELSE ImportMint(valid, actor, m)
  IN  IF m.swapIn = 0 THEN imported
      ELSE IF fill    THEN FillSwap(imported, actor, m)
      ELSE Require(imported, m.swapExpiry <= t)

\* Mutant: the keys of the swap are forgotten.
ImportKeysWithoutSwap(actor, m, fill) ==
  (IF m.return THEN {LoanKey(m.asset, m.src)} ELSE {AssetKey(AssetIn(m))})
    \cup {BalanceKey(m.to, AssetIn(m))}
    \cup (IF m.reward > 0 THEN {BalanceKey(actor, AssetIn(m))} ELSE {})

ImportAssetKeys(actor, m, fill) ==
  (IF m.return THEN {LoanKey(m.asset, m.src)} ELSE {AssetKey(AssetIn(m))})
    \cup {BalanceKey(m.to, AssetIn(m))}
    \cup (IF m.reward > 0 THEN {BalanceKey(actor, AssetIn(m))} ELSE {})
    \cup (IF fill /\ m.swapIn > 0
          THEN {BalanceKey(actor, m.assetOut), BalanceKey(actor, AssetIn(m)),
                BalanceKey(m.to, m.assetOut)}
          ELSE {})
=============================================================================
