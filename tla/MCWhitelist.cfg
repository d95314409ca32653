\* The vesting token: members who were never whitelisted withdraw.
CONSTANTS
  Contracts = {"vesting"}
  User = alice
  Other = bob
  Operator = operator
  Factory = factory
  ZeroAddress = zero
  Users = {alice, bob}
  Address <- MCAddress
  MaxUint <- MCMaxUint
  Amounts <- MCAmounts
  Approvers <- MCApprovers
  Customers <- MCCustomers
  Types <- MCTypes
  Fee <- MCFee
  Fees <- MCFees
  MaxTime <- MCMaxTime
  Deployer = alice
  Store = operator
  Price <- MCPrice
  Insurer = operator
  NoType = ""
  Period = 2
  Admin = operator
  Length <- MCLength
  VestingYears = {1}
  Year = 1
  MaxLoans = 2
  Creator = alice
  InitBalance = 2
  Numbers <- MCNumbers
  MaxCalls = 3
SPECIFICATION Spec
PROPERTY OnlyWhitelistedWithdraw
