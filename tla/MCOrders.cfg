\* One chain, a created asset and the native one, and the three order actions.
\* The orders of a chain as the abstract market sees them, too.
SPECIFICATION Spec
CONSTANTS
  alice = alice
  bob = bob
  c1 = c1
  c2 = c2
  Accounts = {alice, bob}
  EmptyKey = EmptyKey
  Native = Native
  TxIDs = {t1, t2}
  Chains = {c1}
  Metadata = {meta}
  MaxUint64 = 4
  Missing = Missing
  Allocations <- MCAllocations
  Recipients = {alice, bob, EmptyKey}
  Kinds = {"CreateAsset", "MintAsset", "CreateOrder", "FillOrder", "CloseOrder"}
  Named <- MCLocalIDs
  Values = {1, 2, 3}
  Ticks = {1, 2}
  Rewards = {0}
  Swaps <- MCNoSwap
  BaseFee = 0
  TradeFee = 0
  MaxTime = 0
  Observed = c1
SYMMETRY MCSymmetry
INVARIANTS
  TypeOK
  OrdersWellFormed
  Conservation
  OrdersCanBeClosed
  PromptsSuffice
PROPERTIES
  OrdersTradeFairly
  OrdersFollowMarket
CHECK_DEADLOCK FALSE
