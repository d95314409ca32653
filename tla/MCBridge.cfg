\* Two chains: the native asset of the first is lent to the second, burned
\* there, and returned, with and without a reward for whoever imports.
SPECIFICATION Spec
CONSTANTS
  alice = alice
  bob = bob
  c1 = c1
  c2 = c2
  Accounts = {alice, bob}
  EmptyKey = EmptyKey
  Native = Native
  TxIDs = {t1, t2, t3}
  Chains = {c1, c2}
  Metadata = {meta}
  MaxUint64 = 3
  Missing = Missing
  Allocations <- MCAllocations
  Recipients = {bob}
  Kinds = {"ExportAsset", "ImportAsset", "BurnAsset"}
  Named <- MCBridged
  Values = {1}
  Ticks = {1}
  Rewards = {0, 1}
  Swaps <- MCNoSwap
  BaseFee = 0
  TradeFee = 0
  MaxTime = 0
SYMMETRY MCSymmetry
INVARIANTS
  Conservation
  WarpAssetsIdentified
  LoansBackImports
  NoMessageStuck
CHECK_DEADLOCK FALSE
