\* Two orders, a node that tracks one pair, and requests.
SPECIFICATION Spec
CONSTANTS
  alice = alice
  c1 = c1
  Accounts = {alice}
  EmptyKey = EmptyKey
  Native = Native
  TxIDs = {t1, t2}
  Chains = {c1}
  Metadata = {meta}
  MaxUint64 = 2
  Missing = Missing
  Offers <- MCOffers
  TrackedPairs <- MCPairs
  TrackAll = FALSE
  MaxHeap = FALSE
  Asked <- MCPairs
  OrdersToSend = 2
  MaxBlock = 2
  MaxRestarts = 0
SYMMETRY MCSymmetry
INVARIANTS
  TypeOK
  IndexMatchesHeaps
  BookAgrees
  RepliesLagOnly
CHECK_DEADLOCK FALSE
