\* Two accounts send through one client, to one another or to a key outside,
\* until a signal; transactions may be dropped, the connection may fail, and
\* the local balance of an account can wrap around.  The command ends.
CONSTANTS
  Accounts = {a1, a2}
  Clients = {c1}
  Others = {o1}
  TxsPerAccount = 1
  MaxTxBacklog = 0
  FeePerTx = 1
  Fee = 1
  ReturnFees = {1}
  Balance = 6
  MaxUint64 = 7
  MaxFailures = 1
  MaxSignals = 1
CHECK_DEADLOCK FALSE
SPECIFICATION FairSpec
INVARIANTS
  TypeOK
  OutstandingIsUnanswered
  BacklogBounded
  BalancesAreCovered
  RefusedReturnsAreExplained
PROPERTIES
  SignalEndsCommand
