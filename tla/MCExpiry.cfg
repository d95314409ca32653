\* The comment on SwapExpiry against what an import does.
SPECIFICATION Spec
CONSTANTS
  alice = alice
  bob = bob
  c1 = c1
  c2 = c2
  Accounts = {alice, bob}
  EmptyKey = EmptyKey
  Native = Native
  TxIDs = {t1, t2}
  Chains = {c1, c2}
  Metadata = {meta}
  MaxUint64 = 3
  Missing = Missing
  Allocations <- MCSwapAllocations
  Recipients = {alice}
  Kinds = {"ExportAsset", "ImportAsset"}
  Named <- MCBridged
  Values = {1, 2}
  Ticks = {1}
  Rewards = {0, 1}
  Swaps <- MCSwaps
  BaseFee = 0
  TradeFee = 0
  MaxTime = 1
SYMMETRY MCSymmetry
PROPERTIES
  ExpiredSwapsAreNotFilled
CHECK_DEADLOCK FALSE
