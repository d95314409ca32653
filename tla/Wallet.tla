------------------------------- MODULE Wallet -------------------------------
(***************************************************************************)
(* The commands of the token CLI that submit a transaction                 *)
(* (cmd/token-cli/cmd/action.go).  Each reads the chain, asks for the      *)
(* fields of an action, and refuses inputs by conditions of its own before *)
(* the chain sees anything.  Here is which inputs come through; the keys   *)
(* it asks for are any, and what it prints is left out.                    *)
(***************************************************************************)
EXTENDS TokenVM

-----------------------------------------------------------------------------
\* utils.go

Known(d, asset) == asset = Native \/ d.assets[asset] # Missing

\* What getAssetInfo returns as balance: nothing of an asset that is unknown.
ShownBalance(d, actor, asset) ==
  IF Known(d, asset) THEN GetBalance(d, actor, asset) ELSE 0

\* It also tells an asset of another chain from one of this chain.
Imported(d, asset) ==
  asset # Native /\ d.assets[asset] # Missing /\ d.assets[asset].warp

\* promptAmount refuses more than a limit, and accepts zero.
PromptAmount(amount, limit) == amount <= limit

-----------------------------------------------------------------------------
\* action.go.  A command ends before it asks for an amount when the balance it
\* would spend of is zero.

TransferPrompts(d, actor, asset, value) ==
  LET balance == ShownBalance(d, actor, asset)
  IN  balance # 0 /\ PromptAmount(value, balance)

MintPrompts(d, actor, asset, value) ==
  LET a == d.assets[asset]
  IN  /\ asset # Native
      /\ a # Missing /\ ~a.warp /\ a.owner = actor
      /\ PromptAmount(value, MaxUint64 - a.supply)

\* Mutant: the supply need not be a multiple of the tick.
CreateOrderAnySupply(d, actor, in, inTick, out, outTick, supply) ==
  LET balance == ShownBalance(d, actor, out)
  IN  /\ Known(d, in) /\ balance # 0
      /\ PromptAmount(inTick, MaxUint64) /\ PromptAmount(outTick, MaxUint64)
      /\ PromptAmount(supply, balance)

\* The command divides by outTick, which it accepts when it is zero.
CreateOrderPrompts(d, actor, in, inTick, out, outTick, supply) ==
  LET balance == ShownBalance(d, actor, out)
  IN  /\ Known(d, in) /\ balance # 0
      /\ PromptAmount(inTick, MaxUint64) /\ PromptAmount(outTick, MaxUint64)
      /\ PromptAmount(supply, balance) /\ supply % outTick = 0

\* The order is chosen from a list; its product with the ticks may wrap around.
FillOrderPrompts(d, actor, id, value) ==
  LET order   == d.orders[id]
      balance == ShownBalance(d, actor, order.in)
      output  == order.outTick * (value \div order.inTick)
  IN  /\ order # Missing
      /\ balance # 0
      /\ PromptAmount(value, balance) /\ value % order.inTick = 0
      /\ output % (MaxUint64 + 1) <= order.remaining

\* Mutant: the reward may be as much as the balance.
ExportPromptsWholeReward(d, c, actor, e) ==
  LET balance == ShownBalance(d, actor, e.asset)
  IN  /\ balance # 0
      /\ PromptAmount(e.value, balance) /\ PromptAmount(e.reward, balance)
      /\ e.return = Imported(d, e.asset)
      /\ IF e.return THEN e.destination = d.assets[e.asset].metadata[2]
                     ELSE e.destination # c
      /\ PromptAmount(e.swapIn, e.value)

\* An asset of another chain goes back to it, an asset of this one to another
\* chain the user has stored.
ExportPrompts(d, c, actor, e) ==
  LET balance == ShownBalance(d, actor, e.asset)
  IN  /\ balance # 0
      /\ PromptAmount(e.value, balance) /\ PromptAmount(e.reward, balance - e.value)
      /\ e.return = Imported(d, e.asset)
      /\ IF e.return THEN e.destination = d.assets[e.asset].metadata[2]
                     ELSE e.destination # c
      /\ PromptAmount(e.swapIn, e.value)

\* performImport: who does not fill a swap must wait until it has expired.
ImportPrompts(m, fill, t) ==
  IF fill THEN m.swapIn > 0 ELSE m.swapExpiry <= t

-----------------------------------------------------------------------------
\* The user answers sensibly: no amount is zero, no order asks for what it
\* sells, no product wraps around, a swap offers and asks for something and ends
\* after 1970, and who fills it has what it asks for.
\* The prompts see to none of these.

Positive == Values \ {0}

SpendingSucceeds(c, actor) ==
  \A asset \in Named, value \in Positive, to \in Recipients :
    /\ TransferPrompts(db[c], actor, asset, value) =>
         ExecuteTransfer(Begin(db[c]), actor, to, asset, value).ok
    /\ MintPrompts(db[c], actor, asset, value) =>
         ExecuteMintAsset(Begin(db[c]), actor, to, asset, value).ok

OrdersSucceed(c, actor) ==
  /\ \A in, out \in Named, inTick, outTick \in Ticks \ {0}, supply \in Positive, id \in TxIDs :
       in # out /\ CreateOrderPrompts(db[c], actor, in, inTick, out, outTick, supply) =>
         ExecuteCreateOrder(Begin(db[c]), actor, id, in, inTick, out, outTick, supply).ok
  /\ \A id \in TxIDs, value \in Positive :
       LET order == db[c].orders[id]
       IN  /\ order # Missing
           /\ FillOrderPrompts(db[c], actor, id, value)
           /\ Wanted(order, value) <= MaxUint64
           => ExecuteFillOrder(Begin(db[c]), actor, id, order.owner,
                               order.in, order.out, value).ok

\* What the command submits when the user wants no swap.
NoSwap(e) ==
  e.swapIn = 0 /\ e.assetOut = Native /\ e.swapOut = 0 /\ e.swapExpiry = 0

Swap(e) ==
  e.swapIn > 0 /\ e.swapOut > 0 /\ e.swapExpiry >= 0

SensibleExports(c, actor) ==
  {e \in Exports : /\ e.value > 0 /\ (NoSwap(e) \/ Swap(e))
                   /\ ExportPrompts(db[c], c, actor, e)}

\* The handler refuses the exports whose message does not fit, and no others.
ExportsSucceed(c, actor) ==
  \A e \in SensibleExports(c, actor) :
    /\ ValidSwapParams(e.value, e.swapIn, e.assetOut, e.swapOut, e.swapExpiry)
    /\ ExecuteExportAsset(Begin(db[c]), actor, e).ok <=> Marshals(e)

ImportsSucceed(actor) ==
  \A m \in Pending, fill \in BOOLEAN :
    /\ ImportPrompts(m, fill, now)
    /\ fill => GetBalance(db[m.dest], actor, m.assetOut) >= m.swapOut
    => ExecuteImportAsset(Begin(db[m.dest]), actor, m, fill, now, TRUE).ok

\* What a command has let through is not refused by the chain, as long as the
\* state is the one it has read and the fee is left aside: the commands test
\* less than the handlers (a balance where the handler also needs the supply,
\* a loan or the credit of somebody else to fit), and the books make up for
\* the difference.  The exception is an export that uses every option.
PromptsSuffice ==
  \A actor \in Accounts :
    /\ ImportsSucceed(actor)
    /\ \A c \in Chains :
         /\ SpendingSucceeds(c, actor)
         /\ OrdersSucceed(c, actor)
         /\ ExportsSucceed(c, actor)
=============================================================================
