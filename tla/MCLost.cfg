\* An order, and a restart.
SPECIFICATION Spec
CONSTANTS
  alice = alice
  c1 = c1
  Accounts = {alice}
  EmptyKey = EmptyKey
  Native = Native
  TxIDs = {t1}
  Chains = {c1}
  Metadata = {meta}
  MaxUint64 = 2
  Missing = Missing
  Offers <- MCOffers
  TrackedPairs <- MCPairs
  TrackAll = FALSE
  MaxHeap = FALSE
  Asked <- MCNoPairs
  OrdersToSend = 2
  MaxBlock = 2
  MaxRestarts = 1
INVARIANTS
  BookTracksAllOpenOrders
CHECK_DEADLOCK FALSE
