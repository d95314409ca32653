\* Two orders, a node that tracks every pair, and a restart.
SPECIFICATION Spec
CONSTANTS
  alice = alice
  c1 = c1
  Accounts = {alice}
  EmptyKey = EmptyKey
  Native = Native
  TxIDs = {t1, t2}
  Chains = {c1}
  Metadata = {meta}
  MaxUint64 = 2
  Missing = Missing
  Offers <- MCOneOffer
  TrackedPairs <- MCNoPairs
  TrackAll = TRUE
  MaxHeap = TRUE
  Asked <- MCNoPairs
  OrdersToSend = 2
  MaxBlock = 2
  MaxRestarts = 1
INVARIANTS
  BookAgrees
  FoundOrdersAreListed
PROPERTIES
  OrdersAreFound
CHECK_DEADLOCK FALSE
