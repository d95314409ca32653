----------------------------- MODULE Insurance ------------------------------
(***************************************************************************)
(* Insurance paid for in tokens (DeFiInsurance): a customer subscribes for *)
(* a period, may be compensated from the insurer's account while it lasts, *)
(* and ends the subscription after it.  Insurance.sol has fixed fees;      *)
(* Copy_Insurance.sol, the version the test suite deploys, lets the types  *)
(* be registered and removed.                                              *)
(***************************************************************************)
EXTENDS ERC20_proofs

CONSTANTS
  Insurer,    \* insurerAddress
  Customers,  \* the accounts that call the insurance functions
  Types,      \* names of insurance types, also of types nobody defined
  NoType,     \* the empty name, which is a name like the others
  Fee,        \* the fees set by the constructor of Insurance.sol
  Fees,       \* the fees given to setInsuranceType
  Period,     \* thirty days
  MaxTime     \* the last block time of the model

InsuranceAssumption ==
  /\ Insurer \in Account
  /\ Customers \subseteq Account
  /\ NoType \in Types
  /\ Fee \in [Types -> Uint] /\ Fee[NoType] = 0
  /\ Fees \subseteq Uint
  /\ Period \in Nat \ {0}
  /\ MaxTime \in Nat \ {0}

VARIABLES
  now,            \* block.timestamp
  insuranceFee,
  registered,     \* the registered types of Copy_Insurance.sol
  insuranceType,  \* addressInsuranceType
  subscribed,     \* userSubscribed, which addressSubscribed repeats
  stopTime,       \* insuranceStopTime; the start is a Period earlier
  feePaid,        \* history: the fee paid for the running subscription
  claim           \* history: what the last transaction paid as compensation

policy == <<insuranceType, subscribed, stopTime, feePaid>>
types == <<insuranceFee, registered>>
vars == <<token, sender, now, types, policy, claim>>

NoClaim == [to |-> ZeroAddress, amount |-> 0]

Init ==
  /\ token = EmptyLedger
  /\ sender = Insurer
  /\ now = 1
  /\ registered = {}
  /\ insuranceType = [a \in Account |-> NoType]
  /\ subscribed = [a \in Account |-> FALSE]
  /\ stopTime = [a \in Account |-> 0]
  /\ feePaid = [a \in Account |-> 0]
  /\ claim = NoClaim

FixedFees == insuranceFee = Fee
NoFees == insuranceFee = [t \in Types |-> 0]

GetTokens(s, n) ==
  /\ Call(s, CanMint(token, s, n), Minted(token, s, n))
  /\ claim' = NoClaim
  /\ UNCHANGED <<now, types, policy>>

SubscribeForInsurance(s, t) ==
  /\ ~subscribed[s]
  /\ Call(s, CanPay(token, s, Insurer, insuranceFee[t]),
             Paid(token, s, Insurer, insuranceFee[t]))
  /\ subscribed' = [subscribed EXCEPT ![s] = TRUE]
  /\ insuranceType' = [insuranceType EXCEPT ![s] = t]
  /\ stopTime' = [stopTime EXCEPT ![s] = now + Period]
  /\ feePaid' = [feePaid EXCEPT ![s] = insuranceFee[t]]
  /\ claim' = NoClaim
  /\ UNCHANGED <<now, types>>

IsSubscriptionValid(a) == now < stopTime[a]

\* Mutant: a subscription can be ended while it runs.
EndEarly(s) ==
  /\ subscribed[s]
  /\ subscribed' = [subscribed EXCEPT ![s] = FALSE]
  /\ insuranceType' = [insuranceType EXCEPT ![s] = NoType]
  /\ feePaid' = [feePaid EXCEPT ![s] = 0]
  /\ sender' = s
  /\ claim' = NoClaim
  /\ UNCHANGED <<token, now, types, stopTime>>

\* Mutant: the type of the subscription is not forgotten.
EndKeepingType(s) ==
  /\ subscribed[s]
  /\ now >= stopTime[s]
  /\ subscribed' = [subscribed EXCEPT ![s] = FALSE]
  /\ feePaid' = [feePaid EXCEPT ![s] = 0]
  /\ sender' = s
  /\ claim' = NoClaim
  /\ UNCHANGED <<token, now, types, stopTime, insuranceType>>

EndSubscription(s) ==
  /\ subscribed[s]
  /\ now >= stopTime[s]
  /\ subscribed' = [subscribed EXCEPT ![s] = FALSE]
  /\ insuranceType' = [insuranceType EXCEPT ![s] = NoType]
  /\ feePaid' = [feePaid EXCEPT ![s] = 0]
  /\ sender' = s
  /\ claim' = NoClaim
  /\ UNCHANGED <<token, now, types, stopTime>>

\* The allowance given to the caller is not what the transfer uses: it stays.
PayCompensation(s) ==
  LET amount   == insuranceFee[insuranceType[s]]
      approved == Approved(token, Insurer, s, amount)
  IN  /\ now <= stopTime[s]
      /\ Call(s, CanApprove(Insurer, s) /\ CanMove(approved, Insurer, s, amount),
                 Moved(approved, Insurer, s, amount))
      /\ claim' = [to |-> s, amount |-> amount]
      /\ UNCHANGED <<now, types, policy>>

Inherited(s) ==
  /\ InheritedCall(s)
  /\ claim' = NoClaim
  /\ UNCHANGED <<now, types, policy>>

\* A later block.
Tick ==
  /\ now < MaxTime
  /\ now' = now + 1
  /\ claim' = NoClaim
  /\ UNCHANGED <<token, sender, types, policy>>

CustomerCall(s) ==
  \/ \E n \in Amounts : GetTokens(s, n)
  \/ EndSubscription(s)
  \/ PayCompensation(s)

Next ==
  \/ Tick
  \/ \E s \in Account : Inherited(s)
  \/ \E s \in Customers :
       \/ CustomerCall(s)
       \/ \E t \in Types : SubscribeForInsurance(s, t)

Spec == Init /\ FixedFees /\ [][Next]_vars
-----------------------------------------------------------------------------
\* Copy_Insurance.sol: anybody registers and removes types.
SetInsuranceType(s, t, fee) ==
  /\ t \notin registered
  /\ registered' = registered \cup {t}
  /\ insuranceFee' = [insuranceFee EXCEPT ![t] = fee]
  /\ sender' = s
  /\ claim' = NoClaim
  /\ UNCHANGED <<token, now, policy>>

RemoveInsuranceType(s, t) ==
  /\ t \in registered
  /\ registered' = registered \ {t}
  /\ insuranceFee' = [insuranceFee EXCEPT ![t] = 0]
  /\ sender' = s
  /\ claim' = NoClaim
  /\ UNCHANGED <<token, now, policy>>

CopyNext ==
  \/ Tick
  \/ \E s \in Account : Inherited(s)
  \/ \E s \in Customers :
       \/ CustomerCall(s)
       \/ \E t \in Types :
            \/ t \in registered /\ SubscribeForInsurance(s, t)
            \/ RemoveInsuranceType(s, t)
            \/ \E fee \in Fees : SetInsuranceType(s, t, fee)

CopySpec == Init /\ NoFees /\ [][CopyNext]_vars
-----------------------------------------------------------------------------
TypeOK ==
  /\ token \in Ledger
  /\ now \in 1 .. MaxTime
  /\ insuranceFee \in [Types -> Uint]
  /\ registered \subseteq Types
  /\ insuranceType \in [Account -> Types]
  /\ subscribed \in [Account -> BOOLEAN]
  /\ stopTime \in [Account -> 0 .. MaxTime + Period]

\* What the two functions that say whether somebody is insured, one by the
\* clock and one by the flag, must agree on: a subscription whose time runs
\* has not been ended.
ValidMeansSubscribed ==
  \A a \in Account : IsSubscriptionValid(a) => subscribed[a]

\* A compensation is the fee the customer paid for the subscription that
\* runs, and nothing for somebody whose subscription was ended, also at the
\* very stop time, when a subscription can be ended and still be claimed.
CompensationIsTheFee ==
  claim # NoClaim => claim.amount = feePaid[claim.to]
=============================================================================
