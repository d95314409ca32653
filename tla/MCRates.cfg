\* Three orders at three rates, and requests.
SPECIFICATION Spec
CONSTANTS
  alice = alice
  c1 = c1
  Accounts = {alice}
  EmptyKey = EmptyKey
  Native = Native
  TxIDs = {t1, t2, t3}
  Chains = {c1}
  Metadata = {meta}
  MaxUint64 = 2
  Missing = Missing
  Offers <- MCRates
  TrackedPairs <- MCPairs
  TrackAll = FALSE
  MaxHeap = TRUE
  Asked <- MCPairs
  OrdersToSend = 3
  MaxBlock = 1
  MaxRestarts = 0
SYMMETRY MCSymmetry
INVARIANTS
  RatesInOrder
CHECK_DEADLOCK FALSE
