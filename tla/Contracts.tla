------------------------------ MODULE Contracts -----------------------------
(***************************************************************************)
(* Every contract.  The contracts do not call one another (the factory's   *)
(* insurance is part of its module), so each behaviour deploys one of them *)
(* and the variables of the others are idle.  The insurances are instances *)
(* of the module that has the theorems about them.                         *)
(***************************************************************************)
EXTENDS Naturals, Sequences

CONSTANTS
  Contracts,    \* the contracts that are deployed
  ZeroAddress,
  \* by instance, what its module says of them:
  Address, MaxUint, Amounts, Approvers, Customers, Types, Fee, Fees, MaxTime,
  \* the Degen token, the insurances with their factory, the vesting token:
  Deployer, Store, Price, Insurer, NoType, Period, Factory, Users,
  Admin, Length, VestingYears, Year,
  \* the loan systems, MyERC20Token, the assessment contract:
  MaxLoans, Creator, InitBalance, Numbers, MaxCalls

VARIABLES
  contract,
  token, sender, owner,
  now, insuranceFee, registered, insuranceType, subscribed, stopTime, feePaid, claim,
  deployed, user,
  stakeholderTypes, vestingPeriod, tokenAmount, members, stakeholderType,
  whitelistStatus, vestingStopTime,
  balances, debts, coopAccount, loans, funds, lent,
  totalSupply, allowed,
  balance, square, factorial, paidIn, charged, results

policyVars == <<insuranceFee, registered, insuranceType, subscribed, stopTime, feePaid, claim>>
factoryVars == <<deployed, user>>
memberVars == <<stakeholderTypes, vestingPeriod, tokenAmount, members, stakeholderType,
                whitelistStatus, vestingStopTime>>
loanVars == <<debts, coopAccount, loans, funds, lent>>
smallVars == <<totalSupply, allowed>>
accountVars == <<balance, square, factorial, paidIn, charged, results>>
vars == <<contract, token, sender, owner, now, policyVars, factoryVars, memberVars,
          balances, loanVars, smallVars, accountVars>>

Nobody == {ZeroAddress}
-----------------------------------------------------------------------------
\* Named, so that TLC looks them up once.
DegenAddress == Address["degen"]
DegenMaxUint == MaxUint["degen"]
DegenAmounts == Amounts["degen"]
DegenApprovers == Approvers["degen"]
InsuranceAddress == Address["insurance"]
InsuranceMaxUint == MaxUint["insurance"]
InsuranceAmounts == Amounts["insurance"]
InsuranceTypes == Types["insurance"]
InsuranceCustomers == Customers["insurance"]
InsuranceFees == Fees["insurance"]

D == INSTANCE Degen WITH
  Address <- DegenAddress, MaxUint <- DegenMaxUint, Amounts <- DegenAmounts,
  Approvers <- DegenApprovers

I == INSTANCE Insurance_proofs WITH
  Address <- InsuranceAddress, MaxUint <- InsuranceMaxUint, Amounts <- InsuranceAmounts,
  Approvers <- Approvers["insurance"], Customers <- InsuranceCustomers, Types <- InsuranceTypes,
  Fee <- Fee["insurance"], Fees <- InsuranceFees, MaxTime <- MaxTime["insurance"]

C == INSTANCE Insurance_proofs WITH
  Address <- Address["copy"], MaxUint <- MaxUint["copy"], Amounts <- Amounts["copy"],
  Approvers <- Approvers["copy"], Customers <- Customers["copy"], Types <- Types["copy"],
  Fee <- Fee["copy"], Fees <- Fees["copy"], MaxTime <- MaxTime["copy"]

F == INSTANCE Insurance_proofs WITH
  Address <- Address["factory"], MaxUint <- MaxUint["factory"], Amounts <- Amounts["factory"],
  Approvers <- Approvers["factory"], Customers <- Customers["factory"], Types <- Types["factory"],
  Fee <- Fee["factory"], Fees <- Fees["factory"], MaxTime <- MaxTime["factory"]

V == INSTANCE Vesting WITH
  Address <- Address["vesting"], MaxUint <- MaxUint["vesting"], Amounts <- Amounts["vesting"],
  Approvers <- Approvers["vesting"], Types <- Types["vesting"], MaxTime <- MaxTime["vesting"]

L == INSTANCE LoanSystem WITH
  Address <- Address["loans"], MaxUint <- MaxUint["loans"], Amounts <- Amounts["loans"],
  Unset <- ZeroAddress

S == INSTANCE SmallTokens WITH
  Address <- Address["small"], MaxUint <- MaxUint["small"], Amounts <- Amounts["small"]

A == INSTANCE Assessment WITH MaxUint <- MaxUint["assessment"]

ASSUME ContractsAssumption ==
  /\ D!DegenAssumption /\ D!ERC20Assumption
  /\ I!InsuranceAssumption /\ I!ERC20Assumption
  /\ C!InsuranceAssumption /\ C!ERC20Assumption
  /\ F!FactoryAssumption /\ F!InsuranceAssumption /\ F!ERC20Assumption
  /\ V!VestingAssumption /\ V!ERC20Assumption
  /\ L!LoanAssumption
  /\ S!SmallTokensAssumption
  /\ A!AssessmentAssumption
-----------------------------------------------------------------------------
\* What belongs to the contracts that are not deployed.
NoPolicy ==
  /\ insuranceFee = 0 /\ registered = 0 /\ insuranceType = 0 /\ subscribed = 0
  /\ stopTime = 0 /\ feePaid = 0 /\ claim = 0
NoFactory == deployed = 0 /\ user = 0
NoMembers ==
  /\ stakeholderTypes = 0 /\ vestingPeriod = 0 /\ tokenAmount = 0 /\ members = 0
  /\ stakeholderType = 0 /\ whitelistStatus = 0 /\ vestingStopTime = 0
NoLoans == debts = 0 /\ coopAccount = 0 /\ loans = 0 /\ funds = 0 /\ lent = 0
NoSmall == totalSupply = 0 /\ allowed = 0
NoAccount ==
  /\ balance = 0 /\ square = 0 /\ factorial = 0
  /\ paidIn = 0 /\ charged = 0 /\ results = 0

Insurances == {"insurance", "copy", "factory"}
Inheriting == Insurances \cup {"degen", "vesting"}
LoanSystems == {"coop", "events"}
Small == {"spo", "my", "evm"}

Init ==
  /\ contract \in Contracts
  /\ \/ contract = "degen" /\ D!Init
     \/ contract = "insurance" /\ I!Init /\ I!FixedFees
     \/ contract = "copy" /\ C!Init /\ C!NoFees
     \/ contract = "factory" /\ F!FactoryInit
     \/ contract = "vesting" /\ V!Init
     \/ contract \in LoanSystems /\ L!Init
     \/ contract \in {"spo", "evm"} /\ S!InitWith(0)
     \/ contract = "my" /\ S!InitWith(MaxUint["small"])
     \/ contract = "assessment" /\ A!Init
  /\ contract \notin Inheriting => token = 0
  /\ contract \notin Inheriting \cup Small => sender = 0
  /\ contract # "degen" => owner = 0
  /\ contract \notin Insurances \cup {"vesting"} => now = 0
  /\ contract \notin Insurances => NoPolicy
  /\ contract # "factory" => NoFactory
  /\ contract # "vesting" => NoMembers
  /\ contract \notin LoanSystems \cup Small => balances = 0
  /\ contract \notin LoanSystems => NoLoans
  /\ contract \notin Small => NoSmall
  /\ contract # "assessment" => NoAccount

Next ==
  /\ UNCHANGED contract
  /\ \/ contract = "degen" /\ D!Next
     \/ contract = "insurance" /\ I!Next
     \/ contract = "copy" /\ C!CopyNext
     \/ contract = "factory" /\ F!FactoryNext
     \/ contract = "vesting" /\ V!Next
     \/ contract = "coop" /\ L!CoopNext
     \/ contract = "events" /\ L!EventNext
     \/ contract = "spo" /\ S!SpoNext
     \/ contract = "my" /\ S!MyNext
     \/ contract = "evm" /\ S!EvmNext
     \/ contract = "assessment" /\ A!Next
  /\ contract \notin Inheriting => UNCHANGED token
  /\ contract \notin Inheriting \cup Small => UNCHANGED sender
  /\ contract # "degen" => UNCHANGED owner
  /\ contract \notin Insurances \cup {"vesting"} => UNCHANGED now
  /\ contract \notin Insurances => UNCHANGED policyVars
  /\ contract # "factory" => UNCHANGED factoryVars
  /\ contract # "vesting" => UNCHANGED memberVars
  /\ contract \notin LoanSystems \cup Small => UNCHANGED balances
  /\ contract \notin LoanSystems => UNCHANGED loanVars
  /\ contract \notin Small => UNCHANGED smallVars
  /\ contract # "assessment" => UNCHANGED accountVars

Spec == Init /\ [][Next]_vars
-----------------------------------------------------------------------------
\* The type invariant of whichever contract is deployed: checked and unchecked
\* arithmetic stays in the range of uint256.
TypeOK ==
  /\ contract = "degen" => D!TypeOK
  /\ contract = "insurance" => I!TypeOK
  /\ contract = "copy" => C!TypeOK
  /\ contract = "factory" => F!TypeOK
  /\ contract = "vesting" => V!TypeOK
  /\ contract \in LoanSystems => L!TypeOK
  /\ contract \in Small => S!TypeOK

\* isSubscriptionValid and the flag of the subscription agree in both versions
\* of the insurance: what still runs was not ended.
ValidMeansSubscribed ==
  /\ contract = "insurance" => I!ValidMeansSubscribed
  /\ contract = "copy" => C!ValidMeansSubscribed
  /\ contract = "factory" => F!ValidMeansSubscribed

\* With fixed fees payCompensation pays the fee of the running subscription,
\* through the factory too, and nothing once the subscription was ended.
CompensationIsTheFee ==
  /\ contract = "insurance" => I!CompensationIsTheFee
  /\ contract = "factory" => F!CompensationIsTheFee

\* registerMember never registers an address twice, and the two copies of a
\* member's whitelist status agree as far as the first withdrawal allows.
MembersAreRecorded ==
  contract = "vesting" => V!MembersAreDistinct /\ V!WhitelistIsRecorded

\* Cash is accounted for.  In both loan contracts an account has what it put
\* in, plus what it owes, minus what it has lent, and what is owed is what was
\* lent; in the assessment contract each computation costs one fee.
CashIsExplained ==
  /\ contract \in LoanSystems => L!CashIsExplained /\ L!DebtsAreLent
  /\ contract = "assessment" => A!ResultsArePaidFor

\* The books of every token, inherited or written from scratch, implement the
\* abstract token: they mint to one account, burn of one or move between two,
\* and the supply, which bounds the code's unchecked additions, stays the sum.
TokenBooks ==
  [][/\ contract = "degen" => D!BooksStep
     /\ contract = "insurance" => I!BooksStep
     /\ contract = "copy" => C!BooksStep
     /\ contract = "factory" => F!BooksStep
     /\ contract = "vesting" => V!BooksStep
     /\ contract \in Small => S!BooksStep]_vars

\* A balance falls in the call of somebody else only within the allowance its
\* holder gave him, which is used up by as much: in the Degen token, where
\* contract functions spend on the caller's behalf, and in that of the subnet.
\* Nobody's allowance over Degen tokens grows without their holder.
AllowancesAreRespected ==
  [][/\ contract = "degen" => D!SpendingIsAllowed /\ D!OnlyHoldersAllow
     /\ contract = "evm" => S!SpendingIsAllowed]_vars

\* What is settled stays settled: a renounced Degen token is never minted
\* again and never has an owner again, a registered member's vesting does not
\* change and his whitelist status is lost in his own calls only, and
\* requestLoan lends to nobody in debt.
SettledStaysSettled ==
  [][/\ contract = "degen" => D!RenouncedIsFinal
     /\ contract = "vesting" => V!VestingIsSettled /\ V!StatusIsTheMembersToLose
     /\ contract = "coop" => L!OneLoanAtATime]_vars

\* The comments of transferTokens (mydapptoken.sol): apart from the admin only
\* who is whitelisted withdraws tokens with it.
OnlyWhitelistedWithdraw == [][contract = "vesting" => V!OnlyWhitelistedWithdraw]_vars
=============================================================================
