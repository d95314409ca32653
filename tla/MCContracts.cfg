\* Every contract in turn, with the accounts each of them needs.
CONSTANTS
  Contracts = {"degen", "insurance", "copy", "factory", "vesting", "coop", "events",
               "spo", "my", "evm", "assessment"}
  User = alice
  Other = bob
  Operator = operator
  Factory = factory
  ZeroAddress = zero
  Users = {alice, bob}
  Address <- MCAddress
  MaxUint <- MCMaxUint
  Amounts <- MCAmounts
  Approvers <- MCApprovers
  Customers <- MCCustomers
  Types <- MCTypes
  Fee <- MCFee
  Fees <- MCFees
  MaxTime <- MCMaxTime
  Deployer = alice
  Store = operator
  Price <- MCPrice
  Insurer = operator
  NoType = ""
  Period = 2
  Admin = operator
  Length <- MCLength
  VestingYears = {1}
  Year = 1
  MaxLoans = 2
  Creator = alice
  InitBalance = 2
  Numbers <- MCNumbers
  MaxCalls = 3
\* A contract only acts when it is called: at the last block time, with the
\* whole supply minted, no call of the factory succeeds any more.
CHECK_DEADLOCK FALSE
SPECIFICATION Spec
INVARIANT TypeOK
INVARIANT ValidMeansSubscribed
INVARIANT CompensationIsTheFee
INVARIANT MembersAreRecorded
INVARIANT CashIsExplained
PROPERTY TokenBooks
PROPERTY AllowancesAreRespected
PROPERTY SettledStaysSettled
