-------------------------- MODULE Insurance_proofs --------------------------
(***************************************************************************)
(* The insurance contracts for every number of customers, types, fees and  *)
(* blocks: both versions and the factory keep a sound ledger, what still   *)
(* runs was not ended, and with fixed fees a compensation is the fee that  *)
(* was paid.                                                               *)
(***************************************************************************)
EXTENDS InsuranceFactory

\* What both versions keep.
InsuranceInv == LedgerOK(token) /\ TypeOK /\ ValidMeansSubscribed

\* What fixed fees add: an ended subscription has the type without a name,
\* whose fee is nothing, like what is recorded as paid for it.  Only then is
\* what payCompensation reads long after it was paid still what was paid.
FeesInv ==
  /\ FixedFees
  /\ feePaid \in [Account -> Uint]
  /\ \A a \in Account : feePaid[a] = Fee[insuranceType[a]]
  /\ claim = NoClaim \/ (claim.to \in Account /\ claim.amount = feePaid[claim.to])

\* The steps of the version with fixed fees, of which the factory takes some,
\* and those of the copy.
InsuranceStep ==
  \/ Tick
  \/ \E s \in Account :
       \/ Inherited(s)
       \/ CustomerCall(s)
       \/ \E t \in Types : SubscribeForInsurance(s, t)

CopyStep ==
  \/ InsuranceStep
  \/ \E s \in Account, t \in Types :
       \/ RemoveInsuranceType(s, t)
       \/ \E fee \in Fees : SetInsuranceType(s, t, fee)

-----------------------------------------------------------------------------
\* A new contract has a sound ledger and no subscriptions.
LEMMA InsuranceStarts ==
  ASSUME ERC20Assumption, InsuranceAssumption, Init, FixedFees \/ NoFees
  PROVE  InsuranceInv
<1>1. LedgerOK(token)
  BY EmptyLedgerOK DEF Init
<1>2. 0 \in Uint /\ NoType \in Types /\ Period \in Nat /\ MaxTime \in Nat /\ MaxTime >= 1
  BY DEF ERC20Assumption, InsuranceAssumption, Uint
<1>3. insuranceFee \in [Types -> Uint]
  BY <1>2 DEF FixedFees, NoFees, InsuranceAssumption
<1>4. now \in 1 .. MaxTime /\ stopTime \in [Account -> 0 .. MaxTime + Period]
  BY <1>2 DEF Init
<1>5. TypeOK
  BY <1>1, <1>2, <1>3, <1>4 DEF Init, TypeOK, LedgerOK
<1>6. ValidMeansSubscribed
  BY DEF Init, ValidMeansSubscribed, IsSubscriptionValid
<1> QED
  BY <1>1, <1>5, <1>6 DEF InsuranceInv

LEMMA FeesStart ==
  ASSUME ERC20Assumption, InsuranceAssumption, Init, FixedFees
  PROVE  FeesInv
<1>1. 0 \in Uint /\ NoType \in Types /\ Fee[NoType] = 0
  BY DEF ERC20Assumption, InsuranceAssumption, Uint
<1> QED
  BY <1>1 DEF Init, FeesInv

\* A compensation moves tokens, whatever becomes of the allowance.
LEMMA CompensationOK ==
  ASSUME ERC20Assumption, InsuranceAssumption, InsuranceInv, NEW s \in Account,
         PayCompensation(s)
  PROVE  LedgerOK(token') /\ BooksStep
<1> DEFINE amount   == insuranceFee[insuranceType[s]]
           approved == Approved(token, Insurer, s, amount)
<1>1. s \in Address /\ Insurer \in Address /\ amount \in Uint /\ LedgerOK(token)
  BY DEF InsuranceInv, TypeOK, InsuranceAssumption, Account
<1>2. approved.balances[Insurer] >= amount /\ token' = Moved(approved, Insurer, s, amount)
  BY DEF PayCompensation, Call, CanMove
<1> HIDE DEF amount
<1>3. LedgerOK(approved) /\ SameBooks(token, approved)
  BY <1>1, ApprovedOK
<1> HIDE DEF approved
<1>4. LedgerOK(token') /\ Moving(approved, token', Insurer, s, amount)
  BY <1>1, <1>2, <1>3, MovedOK
<1>5. Books!Move(Insurer, s, amount)
  BY <1>3, <1>4 DEF Moving, SameBooks, Books!Move
<1> QED
  BY <1>1, <1>4, <1>5 DEF BooksStep, Books!TokenNext, Uint, Books!Uint

\* Every step keeps the ledger sound and is a step of the books.
LEMMA InsuranceBooks ==
  ASSUME ERC20Assumption, InsuranceAssumption, InsuranceInv, CopyStep
  PROVE  LedgerOK(token') /\ BooksStep
<1>1. LedgerOK(token) /\ Account \subseteq Address /\ Insurer \in Address /\ Amounts \subseteq Uint
  BY DEF InsuranceInv, InsuranceAssumption, Account, ERC20Assumption
<1>2. CASE token' = token
  BY <1>1, <1>2 DEF BooksStep
<1>3. ASSUME NEW s \in Account, InheritedCall(s) PROVE LedgerOK(token') /\ BooksStep
  BY <1>1, <1>3, InheritedOK, CallBooks DEF CallOK
<1>4. ASSUME NEW s \in Account, NEW n \in Amounts, GetTokens(s, n)
      PROVE  LedgerOK(token') /\ BooksStep
  <2>1. MintingOK(s)
    BY <1>1, <1>4, MintOK DEF GetTokens
  <2> QED
    BY <2>1, CallBooks DEF MintingOK
<1>5. ASSUME NEW s \in Account, NEW t \in Types, SubscribeForInsurance(s, t)
      PROVE  LedgerOK(token') /\ BooksStep
  <2>1. insuranceFee[t] \in Uint
    BY DEF InsuranceInv, TypeOK
  <2>2. CallOK(s)
    BY <1>1, <1>5, <2>1, PayOK DEF SubscribeForInsurance
  <2> QED
    BY <2>2, CallBooks DEF CallOK
<1>6. ASSUME NEW s \in Account, PayCompensation(s) PROVE LedgerOK(token') /\ BooksStep
  BY <1>6, CompensationOK
<1> QED
  BY <1>2, <1>3, <1>4, <1>5, <1>6
     DEF CopyStep, InsuranceStep, CustomerCall, Inherited, Tick, EndSubscription,
         RemoveInsuranceType, SetInsuranceType

\* Every step keeps the types, and what still runs subscribed.
LEMMA InsuranceKept ==
  ASSUME ERC20Assumption, InsuranceAssumption, InsuranceInv, CopyStep
  PROVE  InsuranceInv'
<1>1. LedgerOK(token') /\ token' \in Ledger
  BY InsuranceBooks DEF LedgerOK
<1>2. /\ now \in 1 .. MaxTime /\ insuranceFee \in [Types -> Uint]
      /\ registered \subseteq Types /\ insuranceType \in [Account -> Types]
      /\ subscribed \in [Account -> BOOLEAN]
      /\ stopTime \in [Account -> 0 .. MaxTime + Period]
      /\ \A a \in Account : now < stopTime[a] => subscribed[a]
  BY DEF InsuranceInv, TypeOK, ValidMeansSubscribed, IsSubscriptionValid
<1>3. /\ MaxTime \in Nat /\ Period \in Nat /\ NoType \in Types /\ Fees \subseteq Uint
      /\ 0 \in Uint
  BY DEF InsuranceAssumption, ERC20Assumption, Uint
<1>4. \A a \in Account : stopTime[a] \in Nat
  BY <1>2, <1>3
<1>5. SUFFICES TypeOK' /\ \A a \in Account : now' < stopTime'[a] => subscribed'[a]
  BY <1>1 DEF InsuranceInv, ValidMeansSubscribed, IsSubscriptionValid
<1>6. CASE UNCHANGED <<now, types, policy>>
  BY <1>1, <1>2, <1>6 DEF TypeOK, types, policy
<1>7. CASE Tick
  <2>1. now' = now + 1 /\ now < MaxTime /\ UNCHANGED <<types, policy>>
    BY <1>7 DEF Tick
  <2>2. now' \in 1 .. MaxTime /\ now \in Nat
    BY <1>2, <1>3, <2>1
  <2>3. \A a \in Account : now' < stopTime[a] => now < stopTime[a]
    BY <1>4, <2>1, <2>2
  <2> QED
    BY <1>1, <1>2, <2>1, <2>2, <2>3 DEF TypeOK, types, policy
<1>8. ASSUME NEW s \in Account, NEW t \in Types, SubscribeForInsurance(s, t)
      PROVE  TypeOK' /\ \A a \in Account : now' < stopTime'[a] => subscribed'[a]
  <2>1. /\ subscribed' = [subscribed EXCEPT ![s] = TRUE]
        /\ insuranceType' = [insuranceType EXCEPT ![s] = t]
        /\ stopTime' = [stopTime EXCEPT ![s] = now + Period]
        /\ UNCHANGED <<now, insuranceFee, registered>>
    BY <1>8 DEF SubscribeForInsurance, types
  <2>2. now + Period \in 0 .. MaxTime + Period
    BY <1>2, <1>3
  <2>3. stopTime' \in [Account -> 0 .. MaxTime + Period]
    BY <1>2, <2>1, <2>2
  <2>4. TypeOK'
    BY <1>1, <1>2, <2>1, <2>3 DEF TypeOK
  <2> QED
    BY <1>2, <2>1, <2>4
<1>9. ASSUME NEW s \in Account, EndSubscription(s)
      PROVE  TypeOK' /\ \A a \in Account : now' < stopTime'[a] => subscribed'[a]
  <2>1. /\ now >= stopTime[s]
        /\ subscribed' = [subscribed EXCEPT ![s] = FALSE]
        /\ insuranceType' = [insuranceType EXCEPT ![s] = NoType]
        /\ UNCHANGED <<now, insuranceFee, registered, stopTime>>
    BY <1>9 DEF EndSubscription, types
  <2>2. TypeOK'
    BY <1>1, <1>2, <1>3, <2>1 DEF TypeOK
  <2>3. ~(now < stopTime[s])
    BY <1>2, <1>4, <2>1
  <2> QED
    BY <1>2, <2>1, <2>2, <2>3
<1>10. ASSUME NEW s \in Account, NEW t \in Types, NEW fee \in Fees,
              SetInsuranceType(s, t, fee)
       PROVE  TypeOK' /\ \A a \in Account : now' < stopTime'[a] => subscribed'[a]
  <2>1. /\ registered' \subseteq Types /\ insuranceFee' \in [Types -> Uint]
        /\ UNCHANGED <<now, policy>>
    BY <1>2, <1>3, <1>10 DEF SetInsuranceType
  <2> QED
    BY <1>1, <1>2, <2>1 DEF TypeOK, policy
<1>11. ASSUME NEW s \in Account, NEW t \in Types, RemoveInsuranceType(s, t)
       PROVE  TypeOK' /\ \A a \in Account : now' < stopTime'[a] => subscribed'[a]
  <2>1. /\ registered' \subseteq Types /\ insuranceFee' \in [Types -> Uint]
        /\ UNCHANGED <<now, policy>>
    BY <1>2, <1>3, <1>11 DEF RemoveInsuranceType
  <2> QED
    BY <1>1, <1>2, <2>1 DEF TypeOK, policy
<1> QED
  BY <1>6, <1>7, <1>8, <1>9, <1>10, <1>11
     DEF CopyStep, InsuranceStep, CustomerCall, Inherited, GetTokens, PayCompensation

\* With fixed fees every step keeps what is recorded as paid equal to the fee
\* of the type, and what it pays as compensation is that.
LEMMA FeesKept ==
  ASSUME ERC20Assumption, InsuranceAssumption, InsuranceInv, FeesInv, InsuranceStep
  PROVE  FeesInv'
<1>1. /\ insuranceFee = Fee /\ Fee \in [Types -> Uint] /\ Fee[NoType] = 0
      /\ NoType \in Types /\ insuranceType \in [Account -> Types] /\ 0 \in Uint
      /\ feePaid \in [Account -> Uint]
      /\ \A a \in Account : feePaid[a] = Fee[insuranceType[a]]
  BY DEF InsuranceInv, TypeOK, FeesInv, FixedFees, InsuranceAssumption, ERC20Assumption, Uint
<1>2. insuranceFee' = Fee
  BY <1>1 DEF InsuranceStep, Tick, Inherited, CustomerCall, GetTokens, EndSubscription,
              PayCompensation, SubscribeForInsurance, types
<1>3. CASE claim' = NoClaim /\ UNCHANGED policy
  BY <1>1, <1>2, <1>3 DEF FeesInv, FixedFees, policy
<1>4. ASSUME NEW s \in Account, PayCompensation(s) PROVE FeesInv'
  <2>1. /\ claim' = [to |-> s, amount |-> insuranceFee[insuranceType[s]]]
        /\ UNCHANGED <<insuranceType, feePaid>>
    BY <1>4 DEF PayCompensation, policy
  <2>2. claim'.to = s /\ claim'.amount = feePaid[s]
    BY <1>1, <2>1
  <2> QED
    BY <1>1, <1>2, <2>1, <2>2 DEF FeesInv, FixedFees
<1>5. ASSUME NEW s \in Account, NEW t \in Types,
             /\ insuranceType' = [insuranceType EXCEPT ![s] = t]
             /\ feePaid' = [feePaid EXCEPT ![s] = Fee[t]]
             /\ claim' = NoClaim
      PROVE  FeesInv'
  BY <1>1, <1>2, <1>5 DEF FeesInv, FixedFees
<1>6. ASSUME NEW s \in Account, NEW t \in Types, SubscribeForInsurance(s, t) PROVE FeesInv'
  BY <1>1, <1>5, <1>6 DEF SubscribeForInsurance
<1>7. ASSUME NEW s \in Account, EndSubscription(s) PROVE FeesInv'
  BY <1>1, <1>5, <1>7 DEF EndSubscription
<1> QED
  BY <1>3, <1>4, <1>6, <1>7
     DEF InsuranceStep, Tick, Inherited, CustomerCall, GetTokens

\* What the fees say of a compensation.
LEMMA FeesExplain ==
  ASSUME FeesInv
  PROVE  CompensationIsTheFee
BY DEF FeesInv, CompensationIsTheFee

-----------------------------------------------------------------------------
\* The three specifications take these steps.
LEMMA InsuranceSteps ==
  ASSUME InsuranceAssumption
  PROVE  /\ Next => InsuranceStep
         /\ CopyNext => CopyStep
         /\ FactoryAssumption /\ FactoryNext => InsuranceStep \/ UNCHANGED vars
<1>1. Customers \subseteq Account
  BY DEF InsuranceAssumption
<1>2. Next => InsuranceStep
  BY <1>1 DEF Next, InsuranceStep
<1>3. CopyNext => CopyStep
  BY <1>1 DEF CopyNext, CopyStep, InsuranceStep
<1>4. FactoryAssumption /\ FactoryNext => InsuranceStep \/ UNCHANGED vars
  BY DEF FactoryAssumption, FactoryNext, CreateInsurance, GetSomeTokens, GetSubscription,
         ClaimCompensation, InsuranceStep, CustomerCall
<1> QED
  BY <1>2, <1>3, <1>4

\* A step that changes nothing keeps everything.
LEMMA InsuranceIdle ==
  ASSUME UNCHANGED vars
  PROVE  /\ InsuranceInv => InsuranceInv'
         /\ FeesInv => FeesInv'
         /\ BooksStep
BY DEF vars, types, policy, InsuranceInv, TypeOK, ValidMeansSubscribed, IsSubscriptionValid,
       FeesInv, FixedFees, BooksStep

\* Insurance.sol for every fee, period and number of customers: the ledger is
\* consistent and implements the abstract token, who is insured by the clock is
\* so by the flag, and a compensation is the fee of the running subscription.
THEOREM InsuranceIsSound ==
  ASSUME ERC20Assumption, InsuranceAssumption
  PROVE  Spec => /\ [](TypeOK /\ SupplyIsSum /\ ValidMeansSubscribed /\ CompensationIsTheFee)
                 /\ Books!TokenSpec
<1>1. Init /\ FixedFees => InsuranceInv /\ FeesInv /\ Books!TokenInit
  BY InsuranceStarts, FeesStart, LedgerBooks DEF InsuranceInv
<1>2. InsuranceInv /\ FeesInv /\ [Next]_vars => (InsuranceInv /\ FeesInv)' /\ BooksStep
  BY InsuranceSteps, InsuranceKept, FeesKept, InsuranceBooks, InsuranceIdle DEF CopyStep
<1>3. InsuranceInv /\ FeesInv =>
        TypeOK /\ SupplyIsSum /\ ValidMeansSubscribed /\ CompensationIsTheFee
  BY FeesExplain DEF InsuranceInv, LedgerOK, SupplyIsSum
<1> QED
  BY <1>1, <1>2, <1>3, PTL DEF Spec, Books!TokenSpec, BooksStep

\* So are Copy_Insurance.sol, whose fees change, apart from what it pays as
\* compensation,
THEOREM CopyIsSound ==
  ASSUME ERC20Assumption, InsuranceAssumption
  PROVE  CopySpec => [](TypeOK /\ SupplyIsSum /\ ValidMeansSubscribed) /\ Books!TokenSpec
<1>1. Init /\ NoFees => InsuranceInv /\ Books!TokenInit
  BY InsuranceStarts, LedgerBooks DEF InsuranceInv
<1>2. InsuranceInv /\ [CopyNext]_vars => InsuranceInv' /\ BooksStep
  BY InsuranceSteps, InsuranceKept, InsuranceBooks, InsuranceIdle
<1>3. InsuranceInv => TypeOK /\ SupplyIsSum /\ ValidMeansSubscribed
  BY DEF InsuranceInv, LedgerOK, SupplyIsSum
<1> QED
  BY <1>1, <1>2, <1>3, PTL DEF CopySpec, Books!TokenSpec, BooksStep

\* and the insurance behind InsuranceFactory.sol, for which all users are one
\* customer.
THEOREM FactoryIsSound ==
  ASSUME ERC20Assumption, InsuranceAssumption, FactoryAssumption
  PROVE  FactorySpec =>
           /\ [](TypeOK /\ SupplyIsSum /\ ValidMeansSubscribed /\ CompensationIsTheFee)
           /\ Books!TokenSpec
<1>1. FactoryInit => InsuranceInv /\ FeesInv /\ Books!TokenInit
  BY InsuranceStarts, FeesStart, LedgerBooks DEF InsuranceInv, FactoryInit
<1>2. InsuranceInv /\ FeesInv /\ [FactoryNext]_factoryVars
        => (InsuranceInv /\ FeesInv)' /\ BooksStep
  BY InsuranceSteps, InsuranceKept, FeesKept, InsuranceBooks, InsuranceIdle
     DEF CopyStep, factoryVars
<1>3. InsuranceInv /\ FeesInv =>
        TypeOK /\ SupplyIsSum /\ ValidMeansSubscribed /\ CompensationIsTheFee
  BY FeesExplain DEF InsuranceInv, LedgerOK, SupplyIsSum
<1> QED
  BY <1>1, <1>2, <1>3, PTL DEF FactorySpec, Books!TokenSpec, BooksStep
=============================================================================
