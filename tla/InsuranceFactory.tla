-------------------------- MODULE InsuranceFactory --------------------------
(***************************************************************************)
(* The factory in front of an insurance contract (InsuranceFactory.sol).   *)
(* The contract it calls sees one customer, the factory, whoever the user  *)
(* is that called it.  One deployed contract stands for the list.          *)
(***************************************************************************)
EXTENDS Insurance

CONSTANTS
  Factory,  \* the address of the factory contract
  Users     \* the accounts that call it

FactoryAssumption == Factory \in Account /\ Users \subseteq Account

VARIABLES
  deployed,  \* _insuranceList has a contract
  user       \* the account that sent the last transaction

factoryVars == <<vars, deployed, user>>

FactoryInit == Init /\ FixedFees /\ deployed = FALSE /\ user \in Users

CreateInsurance(u) ==
  /\ ~deployed
  /\ deployed' = TRUE
  /\ user' = u
  /\ UNCHANGED vars

Forward(u) == deployed /\ user' = u /\ UNCHANGED deployed

GetSomeTokens(u, n) == Forward(u) /\ GetTokens(Factory, n)

GetSubscription(u, t) == Forward(u) /\ SubscribeForInsurance(Factory, t)

ClaimCompensation(u) == Forward(u) /\ PayCompensation(Factory)

FactoryNext ==
  \/ \E u \in Users :
       \/ CreateInsurance(u)
       \/ \E n \in Amounts : GetSomeTokens(u, n)
       \/ \E t \in Types : GetSubscription(u, t)
       \/ ClaimCompensation(u)
  \/ deployed /\ Tick /\ UNCHANGED <<deployed, user>>

FactorySpec == FactoryInit /\ [][FactoryNext]_factoryVars
=============================================================================
