\* One chain whose genesis lists an address twice; every action costs a fee, a
\* successful fill costs more; assets are minted, burned, handed on and revoked.
SPECIFICATION Spec
CONSTANTS
  alice = alice
  bob = bob
  c1 = c1
  c2 = c2
  Accounts = {alice, bob}
  EmptyKey = EmptyKey
  Native = Native
  TxIDs = {t1, t2}
  Chains = {c1}
  Metadata = {meta}
  MaxUint64 = 8
  Missing = Missing
  Allocations <- MCDuplicateAllocations
  Recipients = {alice, bob, EmptyKey}
  Kinds = {"Transfer", "CreateAsset", "MintAsset", "BurnAsset", "ModifyAsset",
           "CreateOrder", "FillOrder"}
  Named <- MCLocalIDs
  Values = {0, 1, 2}
  Ticks = {1}
  Rewards = {0}
  Swaps <- MCNoSwap
  BaseFee = 1
  TradeFee = 1
  MaxTime = 0
SYMMETRY MCSymmetry
INVARIANTS
  Conservation
  NoEmptyRecords
  OnlyDeclaredKeys
PROPERTIES
  RevocationIsFinal
CHECK_DEADLOCK FALSE
