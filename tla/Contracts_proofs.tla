-------------------------- MODULE Contracts_proofs --------------------------
(***************************************************************************)
(* The contracts for every set of accounts, every width of the integers    *)
(* and every choice of fees, prices and periods: first what each contract  *)
(* keeps, one after the other, then the properties of whichever contract   *)
(* is deployed.  The insurances have a module of theorems of their own.    *)
(***************************************************************************)
EXTENDS Contracts, SequenceTheorems, TLAPS

-----------------------------------------------------------------------------
\* The Degen token.

DegenInv ==
  D!LedgerOK(token) /\ sender \in D!Account /\ owner \in DegenAddress

\* The constructor leaves a sound ledger.
LEMMA DegenStarts == ASSUME D!Init PROVE DegenInv
<1>1. D!LedgerOK(token)
  BY D!EmptyLedgerOK, ContractsAssumption DEF D!Init
<1> QED
  BY <1>1, ContractsAssumption DEF DegenInv, D!Init, D!DegenAssumption, D!Account

\* The contract's own functions pay, burn, and mint for the owner.
LEMMA TokenCallOK ==
  ASSUME D!LedgerOK(token), NEW s \in D!Account, D!TokenCall(s)
  PROVE  D!CallOK(s) \/ (D!MintingOK(s) /\ D!OnlyOwner(s))
<1>1. /\ D!ERC20Assumption /\ D!DegenAssumption /\ s \in DegenAddress
      /\ DegenAmounts \subseteq D!Uint
  BY ContractsAssumption DEF D!Account, D!ERC20Assumption
<1>2. ASSUME NEW n \in DegenAmounts, D!BurnTokens(s, n) PROVE D!CallOK(s)
  <2> DEFINE v == D!Approved(token, s, s, n)
  <2>1. /\ D!CanSpend(v, s, s, n) /\ D!CanBurn(D!Spent(v, s, s, n), s, n)
        /\ token' = D!Burned(D!Spent(v, s, s, n), s, n) /\ sender' = s
    BY <1>2 DEF D!BurnTokens, D!Call
  <2>2. D!LedgerOK(v) /\ D!SameBooks(token, v)
    BY <1>1, D!ApprovedOK
  <2>3. D!OwnAllowances(token, v, s)
    BY <1>1, D!LedgerType DEF D!Approved, D!OwnAllowances
  <2> HIDE DEF v
  <2>4. /\ D!LedgerOK(token') /\ D!Burning(v, token', s, n)
        /\ D!AllowanceUsed(v, token', s, s, n)
    BY <1>1, <2>1, <2>2, D!BurnedFromOK
  <2>5. v.allowances \in [DegenAddress -> [DegenAddress -> D!Uint]]
    BY <1>1, <2>2, D!LedgerType
  <2>6. D!OwnAllowances(v, token', s)
    BY <2>4, <2>5 DEF D!AllowanceUsed, D!OwnAllowances
  <2>7. D!Burning(token, token', s, n) /\ D!OwnAllowances(token, token', s)
    BY <2>2, <2>3, <2>4, <2>6 DEF D!SameBooks, D!Burning, D!OwnAllowances
  <2> QED
    BY <1>1, <2>1, <2>4, <2>7 DEF D!CallOK, D!OwnCall
<1>3. ASSUME NEW n \in DegenAmounts, NEW a \in DegenAddress, D!Mint(s, a, n)
      PROVE  D!MintingOK(s) /\ D!OnlyOwner(s)
  BY <1>1, <1>3, D!MintOK DEF D!Mint
<1>4. ASSUME NEW n \in DegenAmounts, NEW a \in DegenAddress, D!TransferTokens(s, a, n)
      PROVE  D!CallOK(s)
  BY <1>1, <1>4, D!PayOK DEF D!TransferTokens
<1>5. ASSUME NEW option \in 0 .. 4, D!RedeemTokens(s, option) PROVE D!CallOK(s)
  <2>1. Price[option] \in D!Uint /\ Store \in DegenAddress
    BY <1>1, <1>5 DEF D!RedeemTokens, D!DegenAssumption, D!Account
  <2> QED
    BY <1>1, <1>5, <2>1, D!PayOK DEF D!RedeemTokens
<1> QED
  BY <1>2, <1>3, <1>4, <1>5 DEF D!TokenCall

\* Every step is a call on the token, a change of the owner, or nothing.
LEMMA DegenSteps ==
  ASSUME DegenInv, D!Next
  PROVE  \/ \E s \in D!Account : D!CallOK(s) /\ owner' = owner
         \/ \E s \in D!Account : D!MintingOK(s) /\ D!OnlyOwner(s) /\ owner' = owner
         \/ \E s \in D!Account :
              /\ token' = token /\ sender' = s /\ D!OnlyOwner(s)
              /\ owner' \in DegenAddress
<1>1. D!LedgerOK(token) /\ D!ERC20Assumption
  BY ContractsAssumption DEF DegenInv
<1>2. ASSUME NEW s \in D!Account, owner' = owner,
             D!InheritedCall(s) \/ D!BurningCall(s) \/ D!TokenCall(s)
      PROVE  D!CallOK(s) \/ (D!MintingOK(s) /\ D!OnlyOwner(s))
  BY <1>1, <1>2, D!InheritedOK, D!BurningOK, TokenCallOK
<1>3. ASSUME NEW s \in D!Account, D!OwnershipCall(s)
      PROVE  /\ token' = token /\ sender' = s /\ D!OnlyOwner(s)
             /\ owner' \in DegenAddress
  BY <1>1, <1>3 DEF D!OwnershipCall, D!RenounceOwnership, D!TransferOwnership,
                    D!ERC20Assumption
<1> QED
  BY <1>2, <1>3 DEF D!Next

\* Every step keeps the ledger sound and is a step of the books.
LEMMA DegenKept == ASSUME DegenInv, D!Next PROVE DegenInv' /\ D!BooksStep
<1>1. ASSUME NEW s \in D!Account, D!CallOK(s) \/ D!MintingOK(s), owner' = owner
      PROVE  DegenInv' /\ D!BooksStep
  BY <1>1, D!CallBooks DEF DegenInv, D!CallOK, D!MintingOK, D!LedgerOK
<1>2. ASSUME NEW s \in D!Account, token' = token, sender' = s, owner' \in DegenAddress
      PROVE  DegenInv' /\ D!BooksStep
  BY <1>2 DEF DegenInv, D!LedgerOK, D!BooksStep
<1> QED
  BY <1>1, <1>2, DegenSteps

\* Nobody spends more than he was allowed, and nobody's allowance grows
\* without him.
LEMMA DegenAllowances ==
  ASSUME DegenInv, D!Next
  PROVE  D!SpendingIsAllowed /\ D!OnlyHoldersAllow
<1>1. D!LedgerOK(token) /\ D!ERC20Assumption
  BY ContractsAssumption DEF DegenInv
<1>2. ASSUME NEW s \in D!Account, D!CallOK(s) \/ D!MintingOK(s)
      PROVE  D!SpendingIsAllowed /\ D!OnlyHoldersAllow
  BY <1>1, <1>2, D!CallAllowances DEF D!SpendingIsAllowed, D!OnlyHoldersAllow
<1>3. CASE token' = token
  <2>1. ASSUME NEW x \in D!Account, NEW y \in DegenAddress
        PROVE  /\ ~(token.balances[x] - token.balances[x] > 0)
               /\ ~(token.allowances[x][y] > token.allowances[x][y])
    <3>1. token.balances[x] \in D!Uint /\ token.allowances[x][y] \in D!Uint
      BY <1>1, D!LedgerType DEF D!Account
    <3>2. \A n \in D!Uint : n \in Int
      BY <1>1 DEF D!Uint
    <3> QED
      BY <3>1, <3>2
  <2> QED
    BY <1>3, <2>1 DEF D!SpendingIsAllowed, D!OnlyHoldersAllow, D!Account
<1> QED
  BY <1>2, <1>3, DegenSteps

\* Without an owner nothing is minted and nobody becomes the owner.
LEMMA DegenRenounced == ASSUME DegenInv, D!Next PROVE D!RenouncedIsFinal
<1>1. D!LedgerOK(token) /\ D!ERC20Assumption
  BY ContractsAssumption DEF DegenInv
<1>2. ASSUME NEW s \in D!Account, owner = ZeroAddress PROVE ~D!OnlyOwner(s)
  BY <1>2 DEF D!OnlyOwner, D!Account
<1>3. ASSUME NEW s \in D!Account, D!CallOK(s)
      PROVE  token'.totalSupply <= token.totalSupply
  BY <1>1, <1>3, D!CallSupply
<1> QED
  BY <1>2, <1>3, DegenSteps DEF D!RenouncedIsFinal
-----------------------------------------------------------------------------
\* The vesting token.

VestingInv ==
  /\ V!LedgerOK(token) /\ V!TypeOK
  /\ V!MembersAreDistinct /\ V!WhitelistIsRecorded

\* At the start there are no members.
LEMMA VestingStarts == ASSUME V!Init PROVE VestingInv
<1>1. /\ V!ERC20Assumption /\ V!VestingAssumption
      /\ 0 \in V!Uint /\ MaxTime["vesting"] \in Nat /\ MaxTime["vesting"] >= 1
  BY ContractsAssumption DEF V!ERC20Assumption, V!Uint, V!VestingAssumption
<1>2. V!LedgerOK(token)
  BY <1>1, V!EmptyLedgerOK DEF V!Init
<1>3. now \in 1 .. MaxTime["vesting"]
  <2>1. now = 1
    BY DEF V!Init
  <2> QED
    BY <1>1, <2>1
<1>4. members = <<>> /\ stakeholderTypes = <<>>
  BY DEF V!Init
<1>5. /\ members \in Seq([memberAddr : V!Account, whitelisted : BOOLEAN])
      /\ stakeholderTypes \in Seq(Types["vesting"])
  BY <1>4
<1>6. /\ vestingPeriod \in [Types["vesting"] -> V!Uint]
      /\ tokenAmount \in [Types["vesting"] -> V!Uint]
      /\ vestingStopTime \in [Address["vesting"] -> V!Uint]
  <2>1. /\ vestingPeriod = [t \in Types["vesting"] |-> 0]
        /\ tokenAmount = [t \in Types["vesting"] |-> 0]
        /\ vestingStopTime = [a \in Address["vesting"] |-> 0]
    BY DEF V!Init
  <2> QED
    BY <1>1, <2>1
<1>7. /\ stakeholderType \in [Address["vesting"] -> Types["vesting"] \cup {""}]
      /\ whitelistStatus \in [Address["vesting"] -> BOOLEAN]
  BY Zenon DEF V!Init
<1>8. V!TypeOK
  BY <1>2, <1>3, <1>5, <1>6, <1>7 DEF V!TypeOK, V!LedgerOK
<1>9. \A a \in Address["vesting"] : ~whitelistStatus[a]
  BY DEF V!Init
<1>10. V!MembersAreDistinct /\ V!WhitelistIsRecorded
  BY <1>4, <1>9 DEF V!MembersAreDistinct, V!WhitelistIsRecorded
<1> QED
  BY <1>2, <1>8, <1>10 DEF VestingInv

\* Every call of the token keeps the ledger sound and is a step of the books.
LEMMA VestingBooks ==
  ASSUME VestingInv, V!Next
  PROVE  V!LedgerOK(token') /\ V!BooksStep
<1>1. /\ V!LedgerOK(token) /\ V!ERC20Assumption /\ Amounts["vesting"] \subseteq V!Uint
  BY ContractsAssumption DEF VestingInv, V!ERC20Assumption
<1>2. CASE token' = token
  BY <1>1, <1>2 DEF V!BooksStep
<1>3. ASSUME NEW s \in V!Account, V!InheritedCall(s) \/ V!BurningCall(s)
      PROVE  V!LedgerOK(token') /\ V!BooksStep
  BY <1>1, <1>3, V!InheritedOK, V!BurningOK, V!CallBooks DEF V!CallOK
<1>4. ASSUME NEW s \in V!Account, NEW a \in Address["vesting"], NEW n \in Amounts["vesting"],
             V!TransferTokens(s, a, n)
      PROVE  V!LedgerOK(token') /\ V!BooksStep
  <2>1. V!CallOK(s)
    BY <1>1, <1>4, V!PayOK DEF V!TransferTokens
  <2> QED
    BY <2>1, V!CallBooks DEF V!CallOK
<1>5. ASSUME NEW s \in V!Account, NEW a \in Address["vesting"], NEW t \in Types["vesting"],
             V!RegisterMember(s, a, t)
      PROVE  V!LedgerOK(token') /\ V!BooksStep
  <2>1. tokenAmount[t] \in V!Uint
    BY DEF VestingInv, V!TypeOK
  <2>2. V!MintingOK(s)
    BY <1>1, <1>5, <2>1, V!MintOK DEF V!RegisterMember
  <2> QED
    BY <2>2, V!CallBooks DEF V!MintingOK
<1> QED
  BY <1>2, <1>3, <1>4, <1>5
     DEF V!Next, V!Tick, V!AdminCall, V!WhitelistStakeholders, V!SetMembershipStatus

\* A registration adds a member who was none, without a whitelist status.
LEMMA RegisterKept ==
  ASSUME VestingInv, NEW s \in V!Account, NEW a \in Address["vesting"],
         NEW t \in Types["vesting"], V!RegisterMember(s, a, t), V!LedgerOK(token')
  PROVE  VestingInv' /\ V!VestingIsSettled
<1> DEFINE new  == [memberAddr |-> a, whitelisted |-> FALSE]
           stop == now + Year * vestingPeriod[t]
<1>1. /\ V!TypeOK /\ V!MembersAreDistinct /\ V!WhitelistIsRecorded
  BY DEF VestingInv
<1>2. /\ ~V!Registered(a) /\ stop <= MaxUint["vesting"]
      /\ V!CanMint(token, a, tokenAmount[t])
      /\ members' = Append(members, new)
      /\ stakeholderType' = [stakeholderType EXCEPT ![a] = t]
      /\ whitelistStatus' = [whitelistStatus EXCEPT ![a] = FALSE]
      /\ vestingStopTime' = [vestingStopTime EXCEPT ![a] = stop]
      /\ UNCHANGED <<now, stakeholderTypes, vestingPeriod, tokenAmount>>
  BY DEF V!RegisterMember, V!setup, V!Call
<1>3. a \in V!Account
  BY <1>2 DEF V!CanMint, V!Account
<1>4. members \in Seq([memberAddr : V!Account, whitelisted : BOOLEAN])
  BY <1>1 DEF V!TypeOK
<1>5. new \in [memberAddr : V!Account, whitelisted : BOOLEAN]
  BY <1>3
<1>6. stop \in V!Uint
  <2>1. now \in 1 .. MaxTime["vesting"] /\ vestingPeriod[t] \in 0 .. MaxUint["vesting"]
    BY <1>1 DEF V!TypeOK, V!Uint
  <2>2. Year \in Nat /\ MaxUint["vesting"] \in Nat /\ MaxTime["vesting"] \in Nat
    BY ContractsAssumption DEF V!VestingAssumption, V!ERC20Assumption
  <2>3. now \in Nat /\ vestingPeriod[t] \in Nat
    BY <2>1, <2>2
  <2>4. Year * vestingPeriod[t] \in Nat
    BY <2>2, <2>3
  <2> QED
    BY <1>2, <2>2, <2>3, <2>4 DEF V!Uint
<1> HIDE DEF new, stop
<1>7. /\ members' \in Seq([memberAddr : V!Account, whitelisted : BOOLEAN])
      /\ Len(members') = Len(members) + 1 /\ Len(members) \in Nat
      /\ DOMAIN members = 1 .. Len(members) /\ DOMAIN members' = 1 .. Len(members) + 1
      /\ \A i \in DOMAIN members : members'[i] = members[i]
      /\ members'[Len(members) + 1] = new
  BY <1>2, <1>4, <1>5
<1>8. V!TypeOK'
  BY <1>1, <1>2, <1>6, <1>7 DEF V!TypeOK, V!LedgerOK
<1>9. new.memberAddr = a
  BY DEF new
<1>10. \A i \in DOMAIN members : members[i].memberAddr # a
  BY <1>2 DEF V!Registered
<1>11. V!MembersAreDistinct'
  <2>1. ASSUME NEW i \in DOMAIN members', NEW j \in DOMAIN members',
               members'[i].memberAddr = members'[j].memberAddr
        PROVE  i = j
    <3>1. CASE i \in DOMAIN members /\ j \in DOMAIN members
      BY <1>1, <1>7, <2>1, <3>1 DEF V!MembersAreDistinct
    <3>2. CASE i = Len(members) + 1 /\ j \in DOMAIN members
      BY <1>7, <1>9, <1>10, <2>1, <3>2
    <3>3. CASE j = Len(members) + 1 /\ i \in DOMAIN members
      BY <1>7, <1>9, <1>10, <2>1, <3>3
    <3>4. \A k \in DOMAIN members' : k \in DOMAIN members \/ k = Len(members) + 1
      BY <1>7
    <3> QED
      BY <3>1, <3>2, <3>3, <3>4
  <2> QED
    BY <2>1 DEF V!MembersAreDistinct
<1>12. V!WhitelistIsRecorded'
  <2>1. ASSUME NEW b \in Address["vesting"], whitelistStatus'[b]
        PROVE  /\ \E i \in DOMAIN members' :
                    members'[i] = [memberAddr |-> b, whitelisted |-> TRUE]
               /\ \E i \in DOMAIN stakeholderTypes' :
                    stakeholderTypes'[i] = stakeholderType'[b]
    <3>1. whitelistStatus[b] /\ b # a
      BY <1>1, <1>2, <2>1 DEF V!TypeOK
    <3>2. /\ \E i \in DOMAIN members :
               members[i] = [memberAddr |-> b, whitelisted |-> TRUE]
          /\ \E i \in DOMAIN stakeholderTypes : stakeholderTypes[i] = stakeholderType[b]
      BY <1>1, <3>1 DEF V!WhitelistIsRecorded, V!Defined
    <3>3. stakeholderType'[b] = stakeholderType[b]
      BY <1>1, <1>2, <3>1 DEF V!TypeOK
    <3>4. DOMAIN members \subseteq DOMAIN members'
      BY <1>7
    <3> QED
      BY <1>2, <1>7, <3>2, <3>3, <3>4
  <2> QED
    BY <2>1 DEF V!WhitelistIsRecorded, V!Defined
<1>13. V!VestingIsSettled
  <2>1. ASSUME NEW b \in Address["vesting"], V!Registered(b)
        PROVE  vestingStopTime'[b] = vestingStopTime[b] /\ stakeholderType'[b] = stakeholderType[b]
    BY <1>1, <1>2, <2>1 DEF V!TypeOK
  <2> QED
    BY <2>1 DEF V!VestingIsSettled
<1> QED
  BY <1>8, <1>11, <1>12, <1>13 DEF VestingInv
\* A type that is whitelisted marks its members in both copies.
LEMMA WhitelistKept ==
  ASSUME VestingInv, NEW s \in V!Account, NEW t \in Types["vesting"],
         V!WhitelistStakeholders(s, t)
  PROVE  VestingInv'
<1>1. V!TypeOK /\ V!MembersAreDistinct /\ V!WhitelistIsRecorded
  BY DEF VestingInv
<1>2. /\ V!IsStakeholderTypeValid(t)
      /\ whitelistStatus' =
           [a \in Address["vesting"] |->
              whitelistStatus[a] \/ (V!Registered(a) /\ stakeholderType[a] = t)]
      /\ members' =
           [i \in DOMAIN members |->
              [members[i] EXCEPT !.whitelisted =
                 @ \/ stakeholderType[members[i].memberAddr] = t]]
      /\ UNCHANGED <<token, now, stakeholderTypes, vestingPeriod, tokenAmount,
                     stakeholderType, vestingStopTime>>
  BY DEF V!WhitelistStakeholders, V!setup
<1>3. /\ members \in [1 .. Len(members) -> [memberAddr : V!Account, whitelisted : BOOLEAN]]
      /\ DOMAIN members = 1 .. Len(members) /\ Len(members) \in Nat
  <2> DEFINE records == [memberAddr : V!Account, whitelisted : BOOLEAN]
  <2>1. members \in Seq(records)
    BY <1>1 DEF V!TypeOK
  <2> HIDE DEF records
  <2>2. /\ members \in [1 .. Len(members) -> records]
        /\ DOMAIN members = 1 .. Len(members) /\ Len(members) \in Nat
    BY <2>1
  <2> QED
    BY <2>2 DEF records
<1>4. ASSUME NEW i \in DOMAIN members
      PROVE  /\ members'[i] \in [memberAddr : V!Account, whitelisted : BOOLEAN]
             /\ members'[i].memberAddr = members[i].memberAddr
             /\ members'[i].whitelisted =
                  (members[i].whitelisted \/ stakeholderType[members[i].memberAddr] = t)
  <2> DEFINE m == members[i]
             also == stakeholderType[m.memberAddr] = t
  <2>1. m \in [memberAddr : V!Account, whitelisted : BOOLEAN]
    BY <1>3
  <2>2. members'[i] = [m EXCEPT !.whitelisted = (m.whitelisted \/ also)]
    BY <1>2
  <2>3. also \in BOOLEAN
    OBVIOUS
  <2> HIDE DEF m, also
  <2>4. m.whitelisted \in BOOLEAN
    BY <2>1
  <2>5. (m.whitelisted \/ also) \in BOOLEAN
    BY <2>3, <2>4
  <2>6. /\ members'[i] \in [memberAddr : V!Account, whitelisted : BOOLEAN]
        /\ members'[i].memberAddr = m.memberAddr
        /\ members'[i].whitelisted = (m.whitelisted \/ also)
    BY <2>1, <2>2, <2>5
  <2> QED
    BY <2>6 DEF m, also
<1>5. members' \in Seq([memberAddr : V!Account, whitelisted : BOOLEAN])
  <2> DEFINE records == [memberAddr : V!Account, whitelisted : BOOLEAN]
             mark(i) == [members[i] EXCEPT !.whitelisted =
                           @ \/ stakeholderType[members[i].memberAddr] = t]
  <2>1. members' = [i \in DOMAIN members |-> mark(i)]
    BY <1>2
  <2>2. \A i \in DOMAIN members : members'[i] \in records
    BY <1>4
  <2> HIDE DEF mark, records
  <2>3. members' \in [1 .. Len(members) -> records]
    BY <1>3, <2>1, <2>2
  <2>4. members' \in Seq(records)
    BY <1>3, <2>3, IsASeq
  <2> QED
    BY <2>4 DEF records
<1>6. DOMAIN members' = DOMAIN members
  BY <1>2
<1>7. whitelistStatus' \in [Address["vesting"] -> BOOLEAN]
  BY <1>2
<1>8. V!TypeOK'
  BY <1>1, <1>2, <1>5, <1>7 DEF V!TypeOK
<1>9. V!MembersAreDistinct'
  BY <1>1, <1>4, <1>6 DEF V!MembersAreDistinct
<1>10. V!WhitelistIsRecorded'
  <2>1. ASSUME NEW a \in Address["vesting"], whitelistStatus'[a]
        PROVE  /\ \E i \in DOMAIN members' :
                    members'[i] = [memberAddr |-> a, whitelisted |-> TRUE]
               /\ \E i \in DOMAIN stakeholderTypes :
                    stakeholderTypes[i] = stakeholderType[a]
    <3>1. CASE whitelistStatus[a]
      <4>1. /\ \E i \in DOMAIN members :
                 members[i] = [memberAddr |-> a, whitelisted |-> TRUE]
            /\ \E i \in DOMAIN stakeholderTypes : stakeholderTypes[i] = stakeholderType[a]
        BY <1>1, <3>1 DEF V!WhitelistIsRecorded, V!Defined
      <4>2. PICK i \in DOMAIN members :
              members[i] = [memberAddr |-> a, whitelisted |-> TRUE]
        BY <4>1
      <4>3. members'[i] = [memberAddr |-> a, whitelisted |-> TRUE]
        <5>1. members[i].memberAddr = a /\ members[i].whitelisted = TRUE
          BY <4>2
        <5>2. members'[i].memberAddr = a /\ members'[i].whitelisted = TRUE
          BY <1>4, <5>1
        <5> QED
          BY <1>4, <5>2
      <4> QED
        BY <1>6, <4>1, <4>3
    <3>2. CASE V!Registered(a) /\ stakeholderType[a] = t
      <4>1. PICK i \in DOMAIN members : members[i].memberAddr = a
        BY <3>2 DEF V!Registered
      <4>2. members'[i].memberAddr = a /\ members'[i].whitelisted = TRUE
        BY <1>4, <3>2, <4>1
      <4>3. members'[i] = [memberAddr |-> a, whitelisted |-> TRUE]
        BY <1>4, <4>2
      <4>4. \E j \in DOMAIN stakeholderTypes : stakeholderTypes[j] = t
        BY <1>2 DEF V!IsStakeholderTypeValid
      <4> QED
        BY <1>6, <3>2, <4>3, <4>4
    <3> QED
      BY <1>2, <2>1, <3>1, <3>2
  <2> QED
    BY <1>2, <2>1 DEF V!WhitelistIsRecorded, V!Defined
<1> QED
  BY <1>1, <1>2, <1>8, <1>9, <1>10 DEF VestingInv

\* A new type of stakeholders leaves those that are defined.
LEMMA MembershipKept ==
  ASSUME VestingInv, NEW s \in V!Account, NEW t \in Types["vesting"],
         NEW period \in VestingYears, NEW n \in Amounts["vesting"],
         V!SetMembershipStatus(s, t, period, n)
  PROVE  VestingInv'
<1>1. V!TypeOK /\ V!MembersAreDistinct /\ V!WhitelistIsRecorded
  BY DEF VestingInv
<1>2. /\ stakeholderTypes' = Append(stakeholderTypes, t)
      /\ vestingPeriod' = [vestingPeriod EXCEPT ![t] = period]
      /\ tokenAmount' = [tokenAmount EXCEPT ![t] = n]
      /\ UNCHANGED <<token, now, members, stakeholderType, vestingStopTime, whitelistStatus>>
  BY DEF V!SetMembershipStatus, V!membership
<1>3. period \in V!Uint /\ n \in V!Uint
  BY ContractsAssumption DEF V!VestingAssumption, V!ERC20Assumption
<1>4. stakeholderTypes \in Seq(Types["vesting"])
  BY <1>1 DEF V!TypeOK
<1>5. /\ stakeholderTypes' \in Seq(Types["vesting"])
      /\ DOMAIN stakeholderTypes \subseteq DOMAIN stakeholderTypes'
      /\ \A i \in DOMAIN stakeholderTypes : stakeholderTypes'[i] = stakeholderTypes[i]
  BY <1>2, <1>4
<1>6. V!TypeOK'
  BY <1>1, <1>2, <1>3, <1>5 DEF V!TypeOK
<1>7. V!MembersAreDistinct' /\ V!WhitelistIsRecorded'
  BY <1>1, <1>2, <1>5 DEF V!MembersAreDistinct, V!WhitelistIsRecorded, V!Defined
<1> QED
  BY <1>1, <1>2, <1>6, <1>7 DEF VestingInv

\* A withdrawal takes a whitelist status away, and the other calls and the
\* clock leave the members alone.
LEMMA WithdrawalKept ==
  ASSUME VestingInv, V!LedgerOK(token'), now' \in 1 .. MaxTime["vesting"],
         UNCHANGED <<stakeholderTypes, vestingPeriod, tokenAmount, members,
                     stakeholderType, vestingStopTime>>,
         whitelistStatus' = whitelistStatus
           \/ \E s \in V!Account : whitelistStatus' = [whitelistStatus EXCEPT ![s] = FALSE]
  PROVE  VestingInv'
<1>1. V!TypeOK /\ V!MembersAreDistinct /\ V!WhitelistIsRecorded
  BY DEF VestingInv
<1>2. /\ whitelistStatus' \in [Address["vesting"] -> BOOLEAN]
      /\ \A a \in Address["vesting"] : whitelistStatus'[a] => whitelistStatus[a]
  BY <1>1 DEF V!TypeOK
<1>3. V!TypeOK'
  BY <1>1, <1>2 DEF V!TypeOK, V!LedgerOK
<1>4. V!MembersAreDistinct' /\ V!WhitelistIsRecorded'
  BY <1>1, <1>2 DEF V!MembersAreDistinct, V!WhitelistIsRecorded, V!Defined
<1> QED
  BY <1>3, <1>4 DEF VestingInv

\* Every step keeps the members, and what was settled for them.
LEMMA VestingKept ==
  ASSUME VestingInv, V!Next
  PROVE  VestingInv' /\ V!BooksStep /\ V!VestingIsSettled
<1>1. V!LedgerOK(token') /\ V!BooksStep
  BY VestingBooks
<1>2. now \in 1 .. MaxTime["vesting"] /\ MaxTime["vesting"] \in Nat
  <2>1. now \in 1 .. MaxTime["vesting"]
    BY DEF VestingInv, V!TypeOK
  <2>2. MaxTime["vesting"] \in Nat
    BY ContractsAssumption DEF V!VestingAssumption
  <2> QED
    BY <2>1, <2>2
<1>3. UNCHANGED <<stakeholderType, vestingStopTime>> => V!VestingIsSettled
  BY DEF V!VestingIsSettled
<1>4. CASE V!Tick
  <2>1. now' \in 1 .. MaxTime["vesting"]
    BY <1>2, <1>4 DEF V!Tick
  <2> QED
    BY <1>1, <1>3, <1>4, <2>1, WithdrawalKept DEF V!Tick, V!setup, V!membership
<1>5. ASSUME NEW s \in V!Account, V!AdminCall(s) PROVE VestingInv' /\ V!VestingIsSettled
  BY <1>1, <1>3, <1>5, RegisterKept, WhitelistKept, MembershipKept
     DEF V!AdminCall, V!WhitelistStakeholders, V!SetMembershipStatus, V!membership
<1>6. ASSUME NEW s \in V!Account, NEW a \in Address["vesting"], NEW n \in Amounts["vesting"],
             V!TransferTokens(s, a, n)
      PROVE  VestingInv' /\ V!VestingIsSettled
  BY <1>1, <1>2, <1>3, <1>6, WithdrawalKept DEF V!TransferTokens, V!setup, V!membership
<1>7. CASE UNCHANGED <<now, stakeholderTypes, vestingPeriod, tokenAmount, members,
                       stakeholderType, vestingStopTime, whitelistStatus>>
  BY <1>1, <1>2, <1>3, <1>7, WithdrawalKept
<1> QED
  BY <1>1, <1>4, <1>5, <1>6, <1>7 DEF V!Next, V!setup, V!membership

\* Only the one who withdraws loses his whitelist status: registrations find
\* nobody who has one, because who has one is on record as a member.
LEMMA StatusKept ==
  ASSUME VestingInv, V!Next
  PROVE  V!StatusIsTheMembersToLose
<1>1. /\ whitelistStatus \in [Address["vesting"] -> BOOLEAN]
      /\ V!WhitelistIsRecorded
  BY DEF VestingInv, V!TypeOK
<1>2. CASE UNCHANGED whitelistStatus
  BY <1>2 DEF V!StatusIsTheMembersToLose
<1>3. ASSUME NEW s \in V!Account, NEW t \in Types["vesting"], V!WhitelistStakeholders(s, t)
      PROVE  V!StatusIsTheMembersToLose
  BY <1>1, <1>3 DEF V!WhitelistStakeholders, V!StatusIsTheMembersToLose
<1>4. ASSUME NEW s \in V!Account, NEW a \in Address["vesting"], NEW t \in Types["vesting"],
             V!RegisterMember(s, a, t)
      PROVE  V!StatusIsTheMembersToLose
  <2>1. /\ ~V!Registered(a)
        /\ whitelistStatus' = [whitelistStatus EXCEPT ![a] = FALSE]
    BY <1>4 DEF V!RegisterMember
  <2>2. ASSUME whitelistStatus[a] PROVE FALSE
    <3>1. PICK i \in DOMAIN members : members[i] = [memberAddr |-> a, whitelisted |-> TRUE]
      BY <1>1, <2>2 DEF V!WhitelistIsRecorded
    <3>2. members[i].memberAddr = a
      BY <3>1
    <3> QED
      BY <2>1, <3>2 DEF V!Registered
  <2>3. \A b \in Address["vesting"] : whitelistStatus[b] => whitelistStatus'[b]
    BY <1>1, <2>1, <2>2
  <2> QED
    BY <2>3 DEF V!StatusIsTheMembersToLose
<1>5. ASSUME NEW s \in V!Account, NEW a \in Address["vesting"], NEW n \in Amounts["vesting"],
             V!TransferTokens(s, a, n)
      PROVE  V!StatusIsTheMembersToLose
  <2>1. /\ sender' = s
        /\ whitelistStatus' =
             IF s = Admin THEN whitelistStatus ELSE [whitelistStatus EXCEPT ![s] = FALSE]
    BY <1>5 DEF V!TransferTokens, V!Call
  <2>2. CASE s = Admin
    BY <1>2, <2>1, <2>2
  <2>3. CASE s # Admin
    BY <1>1, <2>1, <2>3 DEF V!StatusIsTheMembersToLose
  <2> QED
    BY <2>2, <2>3
<1>6. ASSUME NEW s \in V!Account, V!AdminCall(s) PROVE V!StatusIsTheMembersToLose
  BY <1>2, <1>3, <1>4, <1>6 DEF V!AdminCall, V!SetMembershipStatus
<1> QED
  BY <1>2, <1>5, <1>6 DEF V!Next, V!Tick

-----------------------------------------------------------------------------
\* The loan contracts.

\* The cash and the debts need the types: the arithmetic is that of functions.
LoanInv == L!TypeOK /\ L!CashIsExplained /\ L!DebtsAreLent

\* At the start there is no cash, no debt and no loan.
LEMMA LoanStarts == ASSUME L!Init PROVE LoanInv
<1>1. L!TypeOK /\ L!CashIsExplained
  BY ContractsAssumption
     DEF L!LoanAssumption, L!Init, L!Zero, L!TypeOK, L!CashIsExplained, L!Uint
<1>2. debts = lent
  BY DEF L!Init
<1>3. L!DebtsAreLent
  BY <1>2 DEF L!DebtsAreLent
<1> QED
  BY <1>1, <1>3 DEF LoanInv

\* A function whose values were found in range has its type.
LEMMA RangeType ==
  ASSUME NEW f \in [Address["loans"] -> Int], L!InRange(f)
  PROVE  f \in [Address["loans"] -> L!Uint]
BY DEF L!InRange

\* Every function of either contract explains what it does to the cash.
LEMMA CashKept ==
  ASSUME LoanInv, NEW a \in Address["loans"], NEW n \in Amounts["loans"],
         \/ L!Deposit(a, n)
         \/ L!Withdraw(a, n)
         \/ \E c \in Address["loans"] : L!DisburseLoan(c, a, n) \/ L!RepayLoanTo(a, c, n)
  PROVE  L!TypeOK' /\ L!CashIsExplained'
<1>1. n \in Int /\ -n \in Int /\ n \in Nat /\ n \in L!Uint
      /\ MaxUint["loans"] \in Nat /\ MaxLoans \in Nat
  BY ContractsAssumption DEF L!LoanAssumption, L!Uint
<1>2. /\ balances \in [Address["loans"] -> L!Uint] /\ balances \in [Address["loans"] -> Int]
      /\ debts \in [Address["loans"] -> L!Uint] /\ debts \in [Address["loans"] -> Int]
      /\ coopAccount \in Address["loans"] /\ loans \in 0 .. MaxLoans
      /\ funds \in [Address["loans"] -> Int] /\ lent \in [Address["loans"] -> Int]
      /\ \A x \in Address["loans"] : balances[x] = funds[x] + debts[x] - lent[x]
  BY <1>1 DEF LoanInv, L!TypeOK, L!CashIsExplained, L!Uint
<1>3. CASE L!Deposit(a, n)
  <2>1. /\ balances' = L!Change(balances, a, n) /\ L!InRange(balances')
        /\ funds' = L!Change(funds, a, n)
        /\ debts' = debts /\ coopAccount' = coopAccount
        /\ loans' = loans /\ lent' = lent
    BY <1>3 DEF L!Deposit
  <2>2. /\ balances' \in [Address["loans"] -> Int]
        /\ \A x \in Address["loans"] : balances'[x] = IF x = a THEN balances[x] + n ELSE balances[x]
    BY <1>1, <1>2, <2>1 DEF L!Change
  <2>3. /\ funds' \in [Address["loans"] -> Int]
        /\ \A x \in Address["loans"] : funds'[x] = IF x = a THEN funds[x] + n ELSE funds[x]
    BY <1>1, <1>2, <2>1 DEF L!Change
  <2>4. balances' \in [Address["loans"] -> L!Uint]
    BY <2>1, <2>2, RangeType
  <2>5. L!TypeOK'
    BY <1>2, <2>1, <2>3, <2>4 DEF L!TypeOK
  <2>6. ASSUME NEW x \in Address["loans"] PROVE balances'[x] = funds'[x] + debts'[x] - lent'[x]
    <3>1. balances[x] \in Int /\ funds[x] \in Int /\ debts[x] \in Int /\ lent[x] \in Int
      BY <1>2
    <3> QED
      BY <1>1, <1>2, <2>1, <2>2, <2>3, <3>1
  <2> QED
    BY <2>5, <2>6 DEF L!CashIsExplained
<1>4. CASE L!Withdraw(a, n)
  <2>1. /\ balances[a] >= n
        /\ balances' = L!Change(balances, a, -n)
        /\ funds' = L!Change(funds, a, -n)
        /\ debts' = debts /\ coopAccount' = coopAccount
        /\ loans' = loans /\ lent' = lent
    BY <1>4 DEF L!Withdraw
  <2>2. /\ balances' \in [Address["loans"] -> Int]
        /\ \A x \in Address["loans"] : balances'[x] = IF x = a THEN balances[x] + (-n) ELSE balances[x]
    BY <1>1, <1>2, <2>1 DEF L!Change
  <2>3. /\ funds' \in [Address["loans"] -> Int]
        /\ \A x \in Address["loans"] : funds'[x] = IF x = a THEN funds[x] + (-n) ELSE funds[x]
    BY <1>1, <1>2, <2>1 DEF L!Change
  <2>4. balances' \in [Address["loans"] -> L!Uint]
    <3>1. \A x \in Address["loans"] : balances'[x] \in L!Uint
      BY SMTT(30), <1>1, <1>2, <2>1, <2>2 DEF L!Uint
    <3> QED
      BY <2>2, <3>1
  <2>5. L!TypeOK'
    BY <1>2, <2>1, <2>3, <2>4 DEF L!TypeOK
  <2>6. ASSUME NEW x \in Address["loans"] PROVE balances'[x] = funds'[x] + debts'[x] - lent'[x]
    <3>1. balances[x] \in Int /\ funds[x] \in Int /\ debts[x] \in Int /\ lent[x] \in Int
      BY <1>2
    <3> QED
      BY <1>1, <1>2, <2>1, <2>2, <2>3, <3>1
  <2> QED
    BY <2>5, <2>6 DEF L!CashIsExplained
<1>5. ASSUME NEW c \in Address["loans"], L!DisburseLoan(c, a, n)
      PROVE  L!TypeOK' /\ L!CashIsExplained'
  <2> DEFINE paid == L!Change(balances, c, -n)
  <2>1. /\ loans < MaxLoans
        /\ balances' = L!Change(paid, a, n) /\ L!InRange(balances')
        /\ debts' = L!Change(debts, a, n) /\ L!InRange(debts')
        /\ loans' = loans + 1
        /\ lent' = L!Change(lent, c, n)
        /\ coopAccount' = coopAccount /\ funds' = funds
    BY <1>5 DEF L!DisburseLoan
  <2>2. /\ paid \in [Address["loans"] -> Int]
        /\ \A x \in Address["loans"] : paid[x] = IF x = c THEN balances[x] + (-n) ELSE balances[x]
    BY <1>1, <1>2 DEF L!Change
  <2> HIDE DEF paid
  <2>3. /\ balances' \in [Address["loans"] -> Int]
        /\ \A x \in Address["loans"] : balances'[x] = IF x = a THEN paid[x] + n ELSE paid[x]
    BY <1>1, <2>1, <2>2 DEF L!Change
  <2>4. /\ debts' \in [Address["loans"] -> Int]
        /\ \A x \in Address["loans"] : debts'[x] = IF x = a THEN debts[x] + n ELSE debts[x]
    BY <1>1, <1>2, <2>1 DEF L!Change
  <2>5. /\ lent' \in [Address["loans"] -> Int]
        /\ \A x \in Address["loans"] : lent'[x] = IF x = c THEN lent[x] + n ELSE lent[x]
    BY <1>1, <1>2, <2>1 DEF L!Change
  <2>6. balances' \in [Address["loans"] -> L!Uint] /\ debts' \in [Address["loans"] -> L!Uint]
    BY <2>1, <2>3, <2>4, RangeType
  <2>7. loans' \in 0 .. MaxLoans
    BY <1>1, <1>2, <2>1
  <2>8. L!TypeOK'
    BY <1>2, <2>1, <2>5, <2>6, <2>7 DEF L!TypeOK
  <2>9. ASSUME NEW x \in Address["loans"] PROVE balances'[x] = funds'[x] + debts'[x] - lent'[x]
    <3>1. balances[x] \in Int /\ funds[x] \in Int /\ debts[x] \in Int /\ lent[x] \in Int
      BY <1>2
    <3>2. balances'[x] = balances[x] + (IF x = c THEN -n ELSE 0) + (IF x = a THEN n ELSE 0)
      BY <1>1, <2>2, <2>3, <3>1
    <3> QED
      BY <1>1, <1>2, <2>1, <2>4, <2>5, <3>1, <3>2
  <2> QED
    BY <2>8, <2>9 DEF L!CashIsExplained
<1>6. ASSUME NEW c \in Address["loans"], L!RepayLoanTo(a, c, n)
      PROVE  L!TypeOK' /\ L!CashIsExplained'
  <2> DEFINE paid == L!Change(balances, a, -n)
  <2>1. /\ debts[a] >= n
        /\ balances' = L!Change(paid, c, n) /\ L!InRange(balances')
        /\ debts' = L!Change(debts, a, -n)
        /\ lent' = L!Change(lent, c, -n)
        /\ coopAccount' = coopAccount /\ loans' = loans /\ funds' = funds
    BY <1>6 DEF L!RepayLoanTo
  <2>2. /\ paid \in [Address["loans"] -> Int]
        /\ \A x \in Address["loans"] : paid[x] = IF x = a THEN balances[x] + (-n) ELSE balances[x]
    BY <1>1, <1>2 DEF L!Change
  <2> HIDE DEF paid
  <2>3. /\ balances' \in [Address["loans"] -> Int]
        /\ \A x \in Address["loans"] : balances'[x] = IF x = c THEN paid[x] + n ELSE paid[x]
    BY <1>1, <2>1, <2>2 DEF L!Change
  <2>4. /\ debts' \in [Address["loans"] -> Int]
        /\ \A x \in Address["loans"] : debts'[x] = IF x = a THEN debts[x] + (-n) ELSE debts[x]
    BY <1>1, <1>2, <2>1 DEF L!Change
  <2>5. /\ lent' \in [Address["loans"] -> Int]
        /\ \A x \in Address["loans"] : lent'[x] = IF x = c THEN lent[x] + (-n) ELSE lent[x]
    BY <1>1, <1>2, <2>1 DEF L!Change
  <2>6. balances' \in [Address["loans"] -> L!Uint]
    BY <2>1, <2>3, RangeType
  <2>7. debts' \in [Address["loans"] -> L!Uint]
    <3>1. \A x \in Address["loans"] : debts'[x] \in L!Uint
      BY <1>1, <1>2, <2>1, <2>4 DEF L!Uint
    <3> QED
      BY <2>4, <3>1
  <2>8. L!TypeOK'
    BY <1>2, <2>1, <2>5, <2>6, <2>7 DEF L!TypeOK
  <2>9. ASSUME NEW x \in Address["loans"] PROVE balances'[x] = funds'[x] + debts'[x] - lent'[x]
    <3>1. balances[x] \in Int /\ funds[x] \in Int /\ debts[x] \in Int /\ lent[x] \in Int
      BY <1>2
    <3>2. balances'[x] = balances[x] + (IF x = a THEN -n ELSE 0) + (IF x = c THEN n ELSE 0)
      BY <1>1, <2>2, <2>3, <3>1
    <3> QED
      BY <1>1, <1>2, <2>1, <2>4, <2>5, <3>1, <3>2
  <2> QED
    BY <2>8, <2>9 DEF L!CashIsExplained
<1> QED
  BY <1>3, <1>4, <1>5, <1>6

\* What one account is given or loses is what all accounts together gain or
\* lose, above zero and below.
LEMMA SumChange ==
  ASSUME NEW f \in [Address["loans"] -> Int], NEW a \in Address["loans"], NEW n \in Int
  PROVE  L!SumOver(L!Change(f, a, n)) = L!SumOver(f) + n
<1> DEFINE accounts == Address["loans"]
           above == L!Positive(f)
           below == L!Negative(f)
           up == IF f[a] + n > 0 THEN f[a] + n ELSE 0
           down == IF f[a] + n < 0 THEN -(f[a] + n) ELSE 0
<1>1. L!IsFiniteSet(accounts) /\ a \in accounts
  BY ContractsAssumption DEF L!LoanAssumption
<1>2. f[a] \in Int /\ up \in Nat /\ down \in Nat /\ up - down = f[a] + n
  OBVIOUS
<1>3. above \in [accounts -> Nat] /\ below \in [accounts -> Nat]
  BY DEF L!Positive, L!Negative
<1>4. above[a] \in Nat /\ below[a] \in Nat /\ above[a] - below[a] = f[a]
  BY <1>1, <1>2 DEF L!Positive, L!Negative
<1>5. L!Positive(L!Change(f, a, n)) = L!Put(above, a, up)
  BY <1>1 DEF L!Positive, L!Change, L!Put
<1>6. L!Negative(L!Change(f, a, n)) = L!Put(below, a, down)
  BY <1>1 DEF L!Negative, L!Change, L!Put
<1>7. L!SumOver(f) = L!Total(above) - L!Total(below)
  BY DEF L!SumOver
<1>8. L!SumOver(L!Change(f, a, n)) = L!Total(L!Put(above, a, up)) - L!Total(L!Put(below, a, down))
  BY <1>5, <1>6 DEF L!SumOver
<1> HIDE DEF accounts, above, below, up, down
<1>9. /\ L!Total(above) \in Nat /\ L!Total(below) \in Nat
      /\ L!Put(above, a, up) \in [accounts -> Nat]
      /\ L!Put(below, a, down) \in [accounts -> Nat]
  BY <1>1, <1>2, <1>3, L!CoinsFinite DEF L!Put
<1>10. L!Total(L!Put(above, a, up)) \in Nat /\ L!Total(L!Put(below, a, down)) \in Nat
  BY <1>1, <1>9, L!CoinsFinite
<1>11. /\ L!Total(L!Put(above, a, up)) + above[a] = L!Total(above) + up
       /\ L!Total(L!Put(below, a, down)) + below[a] = L!Total(below) + down
  BY <1>1, <1>2, <1>3, L!TotalUpdate
<1> QED
  BY <1>2, <1>4, <1>7, <1>8, <1>9, <1>10, <1>11

\* A loan adds to the debts what it adds to what is lent, and a repayment
\* takes the same from both, whoever gets it.
LEMMA DebtsKept ==
  ASSUME LoanInv, NEW a \in Address["loans"], NEW n \in Amounts["loans"],
         \/ L!Deposit(a, n)
         \/ L!Withdraw(a, n)
         \/ \E c \in Address["loans"] : L!DisburseLoan(c, a, n) \/ L!RepayLoanTo(a, c, n)
  PROVE  L!DebtsAreLent'
<1>1. n \in Int /\ -n \in Int
  BY ContractsAssumption DEF L!LoanAssumption
<1>2. debts \in [Address["loans"] -> Int] /\ lent \in [Address["loans"] -> Int]
  BY ContractsAssumption DEF LoanInv, L!TypeOK, L!Uint, L!LoanAssumption
<1>3. L!SumOver(debts) = L!SumOver(lent)
  BY DEF LoanInv, L!DebtsAreLent
<1>4. ASSUME UNCHANGED <<debts, lent>> PROVE L!SumOver(debts') = L!SumOver(lent')
  BY <1>3, <1>4
<1>5. ASSUME NEW c \in Address["loans"], NEW k \in Int,
             debts' = L!Change(debts, a, k), lent' = L!Change(lent, c, k)
      PROVE  L!SumOver(debts') = L!SumOver(lent')
  BY <1>2, <1>3, <1>5, SumChange
<1>6. L!SumOver(debts') = L!SumOver(lent')
  BY <1>1, <1>4, <1>5 DEF L!Deposit, L!Withdraw, L!DisburseLoan, L!RepayLoanTo
<1> QED
  BY <1>6 DEF L!DebtsAreLent, L!SumOver, L!Positive, L!Negative

\* Every function of either contract keeps the books.
LEMMA LoanKept ==
  ASSUME LoanInv, NEW a \in Address["loans"], NEW n \in Amounts["loans"],
         \/ L!Deposit(a, n)
         \/ L!Withdraw(a, n)
         \/ \E c \in Address["loans"] : L!DisburseLoan(c, a, n) \/ L!RepayLoanTo(a, c, n)
  PROVE  LoanInv'
BY CashKept, DebtsKept DEF LoanInv

\* Choosing another cooperative account changes no account's cash.
LEMMA CoopAccountKept ==
  ASSUME LoanInv, NEW c \in Address["loans"], L!SetCoopAccount(c)
  PROVE  LoanInv'
<1>1. L!TypeOK' /\ L!CashIsExplained'
  BY DEF LoanInv, L!TypeOK, L!CashIsExplained, L!SetCoopAccount
<1>2. L!DebtsAreLent'
  BY DEF LoanInv, L!DebtsAreLent, L!SetCoopAccount, L!SumOver, L!Positive, L!Negative
<1> QED
  BY <1>1, <1>2 DEF LoanInv

\* With one settable account, who owes something is lent nothing.
LEMMA CoopKept == ASSUME LoanInv, L!CoopNext PROVE LoanInv' /\ L!OneLoanAtATime
<1>1. coopAccount \in Address["loans"]
  BY DEF LoanInv, L!TypeOK
<1>2. \A x \in Address["loans"] : debts[x] \in Int
  BY ContractsAssumption DEF LoanInv, L!TypeOK, L!Uint, L!LoanAssumption
<1>3. debts \in [Address["loans"] -> L!Uint]
  BY DEF LoanInv, L!TypeOK
<1>4. ASSUME debts' = debts PROVE L!OneLoanAtATime
  BY <1>2, <1>4 DEF L!OneLoanAtATime
<1>5. ASSUME NEW a \in Address["loans"], L!SetCoopAccount(a)
      PROVE  LoanInv' /\ L!OneLoanAtATime
  BY <1>4, <1>5, CoopAccountKept DEF L!SetCoopAccount
<1>6. ASSUME NEW a \in Address["loans"], NEW n \in Amounts["loans"], L!Deposit(a, n) \/ L!Withdraw(a, n)
      PROVE  LoanInv' /\ L!OneLoanAtATime
  BY <1>4, <1>6, LoanKept DEF L!Deposit, L!Withdraw
<1>7. ASSUME NEW a \in Address["loans"], NEW n \in Amounts["loans"], L!RequestLoan(a, n)
      PROVE  LoanInv' /\ L!OneLoanAtATime
  <2>1. LoanInv'
    BY <1>1, <1>7, LoanKept DEF L!RequestLoan
  <2>2. debts[a] = 0 /\ debts' = [debts EXCEPT ![a] = @ + n]
    BY <1>7 DEF L!RequestLoan, L!DisburseLoan, L!Change
  <2>3. L!OneLoanAtATime
    BY <1>2, <1>3, <2>2 DEF L!OneLoanAtATime
  <2> QED
    BY <2>1, <2>3
<1>8. ASSUME NEW a \in Address["loans"], NEW n \in Amounts["loans"], L!RepayLoan(a, n)
      PROVE  LoanInv' /\ L!OneLoanAtATime
  <2>1. LoanInv'
    BY <1>1, <1>8, LoanKept DEF L!RepayLoan
  <2>2. debts' = [debts EXCEPT ![a] = @ + (-n)] /\ n \in Nat
    BY <1>8, ContractsAssumption DEF L!RepayLoan, L!RepayLoanTo, L!Change, L!LoanAssumption
  <2>3. L!OneLoanAtATime
    BY <1>2, <1>3, <2>2 DEF L!OneLoanAtATime
  <2> QED
    BY <2>1, <2>3
<1> QED
  BY <1>5, <1>6, <1>7, <1>8 DEF L!CoopNext

\* The same books when any account lends to any other.
LEMMA EventKept == ASSUME LoanInv, L!EventNext PROVE LoanInv'
BY LoanKept DEF L!EventNext, L!WithdrawSome

-----------------------------------------------------------------------------
\* The tokens written from scratch.

SmallInv == S!TypeOK /\ totalSupply = S!Total(balances)

\* Either constructor gives everything to the creator.
LEMMA SmallStarts ==
  ASSUME NEW n \in S!Uint, S!InitWith(n)
  PROVE  S!TypeOK
<1>1. Creator \in Address["small"] /\ 0 \in S!Uint
  BY ContractsAssumption DEF S!SmallTokensAssumption, S!Uint
<1> QED
  BY <1>1 DEF S!InitWith, S!TypeOK, S!Zero

\* Minting and burning book the supply with the balance.
LEMMA MintOrBurnKept ==
  ASSUME S!TypeOK, NEW s \in Address["small"], NEW a \in Address["small"], NEW n \in S!Uint,
         S!MintOrBurn(s, a, n) \/ S!MintOrBurn(s, a, -n)
  PROVE  S!TypeOK' /\ S!BooksStep
<1>1. /\ MaxUint["small"] \in Nat /\ n \in Int /\ n >= 0
      /\ balances \in [Address["small"] -> S!Uint] /\ totalSupply \in S!Uint
      /\ balances[a] \in Int /\ totalSupply \in Int
      /\ allowed \in [Address["small"] -> [Address["small"] -> S!Uint]]
  BY ContractsAssumption DEF S!TypeOK, S!Uint, S!SmallTokensAssumption
<1>2. CASE S!MintOrBurn(s, a, n)
  <2>1. /\ balances' = [balances EXCEPT ![a] = @ + n] /\ totalSupply' = totalSupply + n
        /\ \A x \in Address["small"] : balances'[x] \in S!Uint
        /\ totalSupply' \in S!Uint /\ allowed' = allowed
    BY <1>2 DEF S!MintOrBurn, S!Booked, S!Change
  <2>2. balances' \in [Address["small"] -> S!Uint]
    BY <1>1, <2>1
  <2>3. S!Books!MintTo(a, n)
    BY <1>1, <2>1 DEF S!Books!MintTo, S!Uint
  <2> QED
    BY <1>1, <2>1, <2>2, <2>3 DEF S!TypeOK, S!BooksStep, S!Books!TokenNext, S!Books!Uint, S!Uint
<1>3. CASE S!MintOrBurn(s, a, -n)
  <2>1. /\ balances' = [balances EXCEPT ![a] = @ + (-n)] /\ totalSupply' = totalSupply + (-n)
        /\ \A x \in Address["small"] : balances'[x] \in S!Uint
        /\ totalSupply' \in S!Uint /\ allowed' = allowed
    BY <1>3 DEF S!MintOrBurn, S!Booked, S!Change
  <2>2. balances' \in [Address["small"] -> S!Uint]
    BY <1>1, <2>1
  <2>3. balances'[a] = balances[a] - n /\ balances'[a] \in S!Uint
    BY <1>1, <2>1
  <2>4. totalSupply' = totalSupply - n /\ balances[a] + (-n) = balances[a] - n
    BY <1>1, <2>1
  <2>5. n <= balances[a]
    BY <1>1, <2>3 DEF S!Uint
  <2>6. balances' = [balances EXCEPT ![a] = @ - n]
    BY <2>1, <2>4
  <2>7. S!Books!BurnOf(a, n)
    BY <2>4, <2>5, <2>6 DEF S!Books!BurnOf
  <2> QED
    BY <1>1, <2>1, <2>2, <2>7 DEF S!TypeOK, S!BooksStep, S!Books!TokenNext, S!Books!Uint, S!Uint
<1> QED
  BY <1>2, <1>3

\* What a movement does to each balance, in either order of the two changes.
LEMMA MoveValues ==
  ASSUME NEW f \in [Address["small"] -> Int], NEW a \in Address["small"],
         NEW b \in Address["small"], NEW n \in Int
  PROVE  /\ S!Change(S!Change(f, b, n), a, -n) = S!Books!Moved(f, a, b, n)
         /\ S!Move(f, a, b, n) = S!Books!Moved(f, a, b, n)
         /\ S!Books!Moved(f, a, b, n) \in [Address["small"] -> Int]
         /\ \A x \in Address["small"] :
              S!Books!Moved(f, a, b, n)[x] =
                f[x] + (IF x = b THEN n ELSE 0) - (IF x = a THEN n ELSE 0)
<1> DEFINE g == S!Change(S!Change(f, b, n), a, -n)
           h == S!Books!Moved(f, a, b, n)
           k == S!Move(f, a, b, n)
           value(x) == f[x] + (IF x = b THEN n ELSE 0) - (IF x = a THEN n ELSE 0)
<1>1. \A x \in Address["small"] : f[x] \in Int /\ -n \in Int
  OBVIOUS
<1>2. g \in [Address["small"] -> Int] /\ \A x \in Address["small"] : g[x] = value(x)
  BY <1>1 DEF S!Change
<1>3. h \in [Address["small"] -> Int] /\ \A x \in Address["small"] : h[x] = value(x)
  BY <1>1 DEF S!Books!Moved
<1>4. k \in [Address["small"] -> Int] /\ \A x \in Address["small"] : k[x] = value(x)
  BY <1>1 DEF S!Move, S!Change
<1> HIDE DEF g, h, k, value
<1>5. g = h /\ k = h
  BY <1>2, <1>3, <1>4
<1> QED
  BY <1>3, <1>5 DEF g, h, k, value

\* A transfer, with the allowances as they are or in range anyway.
LEMMA MoveKept ==
  ASSUME S!TypeOK, NEW a \in Address["small"], NEW b \in Address["small"], NEW n \in S!Uint,
         balances' = S!Books!Moved(balances, a, b, n),
         \A x \in Address["small"] : balances'[x] \in S!Uint,
         balances[a] >= n, totalSupply' = totalSupply,
         allowed' \in [Address["small"] -> [Address["small"] -> S!Uint]]
  PROVE  S!TypeOK' /\ S!BooksStep
<1>1. balances \in [Address["small"] -> Int] /\ balances[a] \in Int /\ n \in Int
  BY ContractsAssumption DEF S!TypeOK, S!Uint, S!SmallTokensAssumption
<1>2. balances' \in [Address["small"] -> S!Uint]
  <2>1. balances' \in [Address["small"] -> Int]
    BY <1>1, MoveValues
  <2> QED
    BY <2>1
<1>3. n <= balances[a]
  BY <1>1
<1>4. S!Books!Move(a, b, n)
  BY <1>3 DEF S!Books!Move
<1> QED
  BY <1>2, <1>4 DEF S!TypeOK, S!BooksStep, S!Books!TokenNext, S!Books!Uint, S!Uint

\* The transfer of the two tokens that have one.
LEMMA TransferKept ==
  ASSUME S!TypeOK, NEW s \in Address["small"], NEW a \in Address["small"], NEW n \in S!Uint,
         S!Transfer(s, a, n)
  PROVE  S!TypeOK' /\ S!BooksStep
<1>1. /\ balances' = S!Move(balances, s, a, n)
      /\ \A x \in Address["small"] : balances'[x] \in S!Uint
      /\ balances[s] >= n /\ totalSupply' = totalSupply /\ allowed' = allowed
  BY DEF S!Transfer, S!Booked
<1>2. balances \in [Address["small"] -> Int] /\ n \in Int
  BY ContractsAssumption DEF S!TypeOK, S!Uint, S!SmallTokensAssumption
<1>3. balances' = S!Books!Moved(balances, s, a, n)
  BY <1>1, <1>2, MoveValues
<1>4. allowed' \in [Address["small"] -> [Address["small"] -> S!Uint]]
  BY <1>1 DEF S!TypeOK
<1> QED
  BY <1>1, <1>3, <1>4, MoveKept

\* An approval moves nothing.
LEMMA ApproveKept ==
  ASSUME S!TypeOK, NEW s \in Address["small"], NEW a \in Address["small"], NEW n \in S!Uint,
         S!Approve(s, a, n)
  PROVE  S!TypeOK' /\ S!BooksStep /\ UNCHANGED balances
BY DEF S!Approve, S!TypeOK, S!BooksStep

\* The transferFrom that looks at no allowance keeps the books all the same.
LEMMA MyTransferFromKept ==
  ASSUME S!TypeOK, NEW s \in Address["small"], NEW a \in Address["small"],
         NEW b \in Address["small"], NEW n \in S!Uint, S!MyTransferFrom(s, a, b, n)
  PROVE  S!TypeOK' /\ S!BooksStep
<1>1. /\ balances' = S!Change(S!Change(balances, b, n), a, -n)
      /\ \A x \in Address["small"] : balances'[x] \in S!Uint
      /\ balances[a] >= n /\ totalSupply' = totalSupply /\ allowed' = allowed
  BY DEF S!MyTransferFrom, S!Booked
<1>2. balances \in [Address["small"] -> Int] /\ n \in Int
  BY ContractsAssumption DEF S!TypeOK, S!Uint, S!SmallTokensAssumption
<1>3. balances' = S!Books!Moved(balances, a, b, n)
  BY <1>1, <1>2, MoveValues
<1>4. allowed' \in [Address["small"] -> [Address["small"] -> S!Uint]]
  BY <1>1 DEF S!TypeOK
<1> QED
  BY <1>1, <1>3, <1>4, MoveKept

\* The transferFrom of the subnet uses an allowance up by what it takes.
LEMMA TransferFromKept ==
  ASSUME S!TypeOK, NEW s \in Address["small"], NEW a \in Address["small"],
         NEW b \in Address["small"], NEW n \in S!Uint, S!TransferFrom(s, a, b, n)
  PROVE  S!TypeOK' /\ S!BooksStep /\ S!SpendingIsAllowed
<1>1. /\ balances' = S!Move(balances, a, b, n)
      /\ \A x \in Address["small"] : balances'[x] \in S!Uint
      /\ balances[a] >= n /\ totalSupply' = totalSupply /\ sender' = s
      /\ allowed' = [allowed EXCEPT ![a][s] = @ - n] /\ allowed[a][s] >= n
  BY DEF S!TransferFrom, S!Booked
<1>2. /\ balances \in [Address["small"] -> Int] /\ n \in Int
      /\ \A x \in Address["small"] : balances[x] \in Int
      /\ MaxUint["small"] \in Nat /\ n \in S!Uint /\ S!Uint \subseteq Int
      /\ allowed \in [Address["small"] -> [Address["small"] -> S!Uint]]
      /\ allowed[a] \in [Address["small"] -> S!Uint] /\ allowed[a][s] \in S!Uint
  BY ContractsAssumption DEF S!TypeOK, S!Uint, S!SmallTokensAssumption
<1>3. balances' = S!Books!Moved(balances, a, b, n)
  BY <1>1, <1>2, MoveValues
<1>4. allowed[a][s] - n \in S!Uint
  BY <1>1, <1>2 DEF S!Uint
<1>5. allowed' \in [Address["small"] -> [Address["small"] -> S!Uint]]
  BY <1>1, <1>2, <1>4
<1>6. S!TypeOK' /\ S!BooksStep
  BY <1>1, <1>3, <1>5, MoveKept
<1>7. allowed'[a][s] = allowed[a][s] - n
  BY <1>1, <1>2
<1>8. ASSUME NEW x \in Address["small"], balances[x] - balances'[x] > 0
      PROVE  x = a /\ balances[x] - balances'[x] = n
  <2>1. balances'[x] = balances[x] - (IF x = a THEN n ELSE 0) + (IF x = b THEN n ELSE 0)
    <3>1. S!Books!Moved(balances, a, b, n)[x]
            = balances[x] + (IF x = b THEN n ELSE 0) - (IF x = a THEN n ELSE 0)
      <4>1. balances \in [Address["small"] -> Int] /\ n \in Int
        BY <1>2
      <4>2. balances[x] \in Int /\ balances[a] \in Int /\ balances[b] \in Int
        BY <4>1
      <4> QED
        BY <4>1, <4>2 DEF S!Books!Moved
    <3>2. balances[x] \in Int /\ n \in Int
      BY <1>2
    <3> QED
      BY <1>3, <3>1, <3>2
  <2>2. balances[x] \in Int /\ n >= 0
    BY <1>2 DEF S!Uint
  <2> QED
    BY <1>2, <1>8, <2>1, <2>2
<1>9. S!SpendingIsAllowed
  BY <1>1, <1>7, <1>8 DEF S!SpendingIsAllowed
<1> QED
  BY <1>6, <1>9

\* What a caller takes of his own balance needs no allowance.
LEMMA OwnBalance ==
  ASSUME S!TypeOK, NEW s \in Address["small"], sender' = s,
         \A x \in Address["small"] \ {s} : balances'[x] >= balances[x],
         \A x \in Address["small"] : balances'[x] \in S!Uint
  PROVE  S!SpendingIsAllowed
<1>1. \A x \in Address["small"] : balances[x] \in Int /\ balances'[x] \in Int
  BY ContractsAssumption DEF S!TypeOK, S!Uint, S!SmallTokensAssumption
<1> QED
  BY <1>1 DEF S!SpendingIsAllowed

\* The books in step keep the supply the sum of the balances.
LEMMA SupplyKept ==
  ASSUME S!TypeOK, S!TypeOK', S!BooksStep, totalSupply = S!Total(balances)
  PROVE  totalSupply' = S!Total(balances')
<1> DEFINE accounts == Address["small"]
<1>1. /\ S!IsFiniteSet(accounts) /\ S!Uint \subseteq Nat
      /\ balances \in [accounts -> Nat] /\ balances' \in [accounts -> Nat]
      /\ totalSupply \in Nat /\ totalSupply' \in Nat
  BY ContractsAssumption DEF S!SmallTokensAssumption, S!TypeOK, S!Uint
<1>2. \A a \in accounts : balances[a] \in Nat /\ balances'[a] \in Nat
  BY <1>1
<1>3. S!Total(balances) \in Nat /\ S!Total(balances') \in Nat
  BY <1>1, S!CoinsFinite
<1> HIDE DEF accounts
<1>4. ASSUME NEW a \in accounts, NEW n \in Nat, S!Books!MintTo(a, n)
      PROVE  totalSupply' = S!Total(balances')
  <2>1. balances' = S!Put(balances, a, balances[a] + n) /\ totalSupply' = totalSupply + n
    BY <1>4 DEF S!Books!MintTo, S!Put
  <2>2. S!Total(S!Put(balances, a, balances[a] + n)) + balances[a]
          = S!Total(balances) + (balances[a] + n)
    BY <1>1, <1>2, S!TotalUpdate
  <2> QED
    BY <1>2, <1>3, <2>1, <2>2
<1>5. ASSUME NEW a \in accounts, NEW n \in Nat, S!Books!BurnOf(a, n)
      PROVE  totalSupply' = S!Total(balances')
  <2>1. /\ balances' = S!Put(balances, a, balances[a] - n) /\ totalSupply' = totalSupply - n
        /\ n <= balances[a]
    BY <1>5 DEF S!Books!BurnOf, S!Put
  <2>2. balances[a] - n \in Nat
    BY <1>2, <2>1
  <2>3. S!Total(S!Put(balances, a, balances[a] - n)) + balances[a]
          = S!Total(balances) + (balances[a] - n)
    BY <1>1, <2>2, S!TotalUpdate
  <2> QED
    BY <1>2, <1>3, <2>1, <2>3
<1>6. ASSUME NEW a \in accounts, NEW b \in accounts, NEW n \in Nat, S!Books!Move(a, b, n)
      PROVE  totalSupply' = S!Total(balances')
  <2> DEFINE taken == S!Put(balances, a, balances[a] - n)
             given == S!Put(taken, b, taken[b] + n)
  <2>1. balances' = given /\ totalSupply' = totalSupply /\ n <= balances[a]
    BY <1>6 DEF S!Books!Move, S!Books!Moved, S!Put
  <2>2. balances[a] - n \in Nat
    BY <1>2, <2>1
  <2>3. taken \in [accounts -> Nat]
    BY <1>1, <2>2 DEF S!Put
  <2>4. S!Total(taken) + balances[a] = S!Total(balances) + (balances[a] - n)
    BY <1>1, <2>2, S!TotalUpdate
  <2> HIDE DEF taken
  <2>5. taken[b] \in Nat /\ taken[b] + n \in Nat
    BY <2>3
  <2>6. S!Total(given) + taken[b] = S!Total(taken) + (taken[b] + n)
    BY <1>1, <2>3, <2>5, S!TotalUpdate
  <2>7. S!Total(taken) \in Nat
    BY <1>1, <2>3, S!CoinsFinite
  <2> HIDE DEF given
  <2>8. S!Total(balances') = S!Total(given)
    BY <2>1
  <2> QED
    BY <1>2, <1>3, <2>1, <2>4, <2>5, <2>6, <2>7, <2>8
<1>7. CASE UNCHANGED <<balances, totalSupply>>
  BY <1>7
<1>8. CASE S!Books!TokenNext
  <2>1. S!Books!Uint \subseteq Nat /\ Address["small"] = accounts
    BY <1>1 DEF S!Books!Uint, S!Uint, accounts
  <2> QED
    BY <1>4, <1>5, <1>6, <1>8, <2>1 DEF S!Books!TokenNext
<1> QED
  BY <1>7, <1>8 DEF S!BooksStep

\* The creator's balance is the whole supply.
LEMMA SupplyStarts ==
  ASSUME NEW n \in S!Uint, S!InitWith(n)
  PROVE  totalSupply = S!Total(balances)
<1> DEFINE accounts == Address["small"]
           zero == S!Zero
<1>1. S!IsFiniteSet(accounts) /\ Creator \in accounts /\ n \in Nat
  BY ContractsAssumption DEF S!SmallTokensAssumption, S!Uint
<1>2. zero \in [accounts -> Nat] /\ \A a \in accounts : zero[a] = 0
  BY DEF S!Zero
<1>3. balances = S!Put(zero, Creator, n) /\ totalSupply = n
  BY DEF S!InitWith, S!Put
<1> HIDE DEF accounts, zero
<1>4. S!Total(zero) = 0
  BY <1>2, S!TotalZero
<1>5. S!Total(S!Put(zero, Creator, n)) + zero[Creator] = S!Total(zero) + n
  BY <1>1, <1>2, S!TotalUpdate
<1>6. S!Put(zero, Creator, n) \in [accounts -> Nat]
  BY <1>1, <1>2 DEF S!Put
<1>7. S!Total(S!Put(zero, Creator, n)) \in Nat
  BY <1>1, <1>6, S!CoinsFinite
<1> QED
  BY <1>1, <1>2, <1>3, <1>4, <1>5, <1>7

\* SpoToken: anybody changes the books, but never out of step.
LEMMA SpoKept == ASSUME S!TypeOK, S!SpoNext PROVE S!TypeOK' /\ S!BooksStep
<1>1. Amounts["small"] \subseteq S!Uint
  BY ContractsAssumption DEF S!SmallTokensAssumption
<1>2. ASSUME NEW s \in Address["small"], NEW a \in Address["small"], NEW n \in Amounts["small"],
             S!MintOrBurn(s, a, n) \/ S!MintOrBurn(s, a, -n)
      PROVE  S!TypeOK' /\ S!BooksStep
  BY <1>1, <1>2, MintOrBurnKept
<1>3. ASSUME NEW s, S!Booked(s, balances, totalSupply), UNCHANGED allowed
      PROVE  S!TypeOK' /\ S!BooksStep
  BY <1>3 DEF S!Booked, S!TypeOK, S!BooksStep
<1> QED
  BY <1>2, <1>3 DEF S!SpoNext, S!SpoBurn

\* MyERC20Token: a fixed supply that is moved and burned.
LEMMA MyKept == ASSUME S!TypeOK, S!MyNext PROVE S!TypeOK' /\ S!BooksStep
<1>1. Amounts["small"] \subseteq S!Uint
  BY ContractsAssumption DEF S!SmallTokensAssumption
<1>2. ASSUME NEW s \in Address["small"], NEW a \in Address["small"], NEW n \in Amounts["small"],
             S!MintOrBurn(s, a, -n)
      PROVE  S!TypeOK' /\ S!BooksStep
  BY <1>1, <1>2, MintOrBurnKept
<1> QED
  BY <1>1, <1>2, TransferKept, ApproveKept, MyTransferFromKept DEF S!MyNext

\* The token of the subnet, where others spend only what they are allowed.
LEMMA EvmKept ==
  ASSUME S!TypeOK, S!EvmNext
  PROVE  S!TypeOK' /\ S!BooksStep /\ S!SpendingIsAllowed
<1>1. /\ Amounts["small"] \subseteq S!Uint /\ S!Uint \subseteq Int
      /\ \A n \in S!Uint : n >= 0
      /\ balances \in [Address["small"] -> S!Uint]
      /\ \A x \in Address["small"] : balances[x] \in Int
  BY ContractsAssumption DEF S!SmallTokensAssumption, S!Uint, S!TypeOK
<1>2. ASSUME NEW s \in Address["small"], NEW n \in Amounts["small"],
             S!MintOrBurn(s, s, n) \/ S!MintOrBurn(s, s, -n)
      PROVE  S!TypeOK' /\ S!BooksStep /\ S!SpendingIsAllowed
  <2>1. S!TypeOK' /\ S!BooksStep
    BY <1>1, <1>2, MintOrBurnKept
  <2>2. /\ sender' = s
        /\ \E k : balances' = [balances EXCEPT ![s] = @ + k]
    BY <1>2 DEF S!MintOrBurn, S!Booked, S!Change
  <2>3. \A x \in Address["small"] \ {s} : balances'[x] = balances[x]
    BY <1>1, <2>2
  <2>4. \A x \in Address["small"] : balances'[x] \in S!Uint
    BY <2>1 DEF S!TypeOK, S!Uint
  <2> QED
    BY <1>1, <2>1, <2>2, <2>3, <2>4, OwnBalance
<1>3. ASSUME NEW s \in Address["small"], NEW a \in Address["small"], NEW n \in Amounts["small"],
             S!Transfer(s, a, n)
      PROVE  S!TypeOK' /\ S!BooksStep /\ S!SpendingIsAllowed
  <2>1. S!TypeOK' /\ S!BooksStep
    BY <1>1, <1>3, TransferKept
  <2>2. /\ sender' = s
        /\ balances' = S!Move(balances, s, a, n)
    BY <1>3 DEF S!Transfer, S!Booked
  <2>3. n \in Int /\ n >= 0
    BY <1>1
  <2>4. \A x \in Address["small"] \ {s} : balances'[x] >= balances[x]
    BY <1>1, <2>2, <2>3 DEF S!Move, S!Change
  <2>5. \A x \in Address["small"] : balances'[x] \in S!Uint
    BY <2>1 DEF S!TypeOK, S!Uint
  <2> QED
    BY <2>1, <2>2, <2>4, <2>5, OwnBalance
<1>4. ASSUME NEW s \in Address["small"], NEW a \in Address["small"], NEW n \in Amounts["small"],
             S!Approve(s, a, n)
      PROVE  S!TypeOK' /\ S!BooksStep /\ S!SpendingIsAllowed
  <2>1. S!TypeOK' /\ S!BooksStep /\ balances' = balances
    BY <1>1, <1>4, ApproveKept
  <2> QED
    BY <1>1, <2>1 DEF S!SpendingIsAllowed
<1> QED
  BY <1>1, <1>2, <1>3, <1>4, TransferFromKept DEF S!EvmNext

-----------------------------------------------------------------------------
\* The assessment contract.

\* The fees need the types of the counters.
AssessmentInv ==
  /\ paidIn \in Int
  /\ charged \in Nat
  /\ results \in Nat
  /\ A!ResultsArePaidFor

\* The constructor's balance is what has been put in.
LEMMA AssessmentStarts == ASSUME A!Init PROVE AssessmentInv
BY ContractsAssumption
   DEF A!Init, AssessmentInv, A!ResultsArePaidFor, A!AssessmentAssumption, A!Uint

\* A computation costs its fee, and one that reverts is no step at all.
LEMMA AssessmentKept == ASSUME AssessmentInv, A!Next PROVE AssessmentInv'
<1>1. /\ MaxUint["assessment"] \in Nat /\ InitBalance \in Int /\ Numbers \subseteq Nat
      /\ balance \in 0 .. MaxUint["assessment"] /\ paidIn \in Int
      /\ charged \in Nat /\ results \in Nat
      /\ balance = InitBalance + paidIn - charged - results
  BY ContractsAssumption
     DEF AssessmentInv, A!ResultsArePaidFor, A!AssessmentAssumption, A!Uint
<1>2. ASSUME NEW n \in Numbers, A!Deposit(n) PROVE AssessmentInv'
  BY <1>1, <1>2 DEF A!Deposit, AssessmentInv, A!ResultsArePaidFor, A!Uint
<1>3. ASSUME NEW n \in Numbers, A!Withdraw(n) PROVE AssessmentInv'
  BY <1>1, <1>3 DEF A!Withdraw, AssessmentInv, A!ResultsArePaidFor, A!Uint
<1>4. ASSUME A!PayFee PROVE AssessmentInv'
  BY <1>1, <1>4 DEF A!PayFee, A!FeePaid, AssessmentInv, A!ResultsArePaidFor, A!Uint
<1>5. ASSUME A!FeePaid, results' = results + 1, UNCHANGED <<paidIn, charged>>
      PROVE  AssessmentInv'
  BY <1>1, <1>5 DEF A!FeePaid, AssessmentInv, A!ResultsArePaidFor, A!Uint
<1>6. ASSUME NEW n \in Numbers, A!SquareOfNum(n) \/ A!FactorialOfNum(n) PROVE AssessmentInv'
  BY <1>5, <1>6 DEF A!SquareOfNum, A!FactorialOfNum
<1> QED
  BY <1>2, <1>3, <1>4, <1>6 DEF A!Next

-----------------------------------------------------------------------------
\* Whichever contract is deployed.

\* What holds of the contract that is deployed: each one's own invariant, which
\* says what the properties need and the steps keep.
ContractsInv ==
  /\ contract = "degen" => DegenInv
  /\ contract = "insurance" => I!InsuranceInv /\ I!FeesInv
  /\ contract = "copy" => C!InsuranceInv
  /\ contract = "factory" => F!InsuranceInv /\ F!FeesInv
  /\ contract = "vesting" => VestingInv
  /\ contract \in LoanSystems => LoanInv
  /\ contract \in Small => SmallInv
  /\ contract = "assessment" => AssessmentInv

\* Only the constructor of the contract that is deployed has run,
LEMMA OneConstructor ==
  ASSUME Init
  PROVE  /\ contract = "degen" => D!Init
         /\ contract = "insurance" => I!Init /\ I!FixedFees
         /\ contract = "copy" => C!Init /\ C!NoFees
         /\ contract = "factory" => F!FactoryInit
         /\ contract = "vesting" => V!Init
         /\ contract \in LoanSystems => L!Init
         /\ contract \in Small => \E n \in S!Uint : S!InitWith(n)
         /\ contract = "assessment" => A!Init
<1>1. 0 \in S!Uint /\ MaxUint["small"] \in S!Uint
  BY ContractsAssumption DEF S!SmallTokensAssumption, S!Uint
<1> QED
  BY <1>1, Zenon DEF Init, LoanSystems, Small

\* and only its functions are called.
LEMMA OneContract ==
  ASSUME Next
  PROVE  /\ contract' = contract
         /\ contract = "degen" => D!Next
         /\ contract = "insurance" => I!Next
         /\ contract = "copy" => C!CopyNext
         /\ contract = "factory" => F!FactoryNext
         /\ contract = "vesting" => V!Next
         /\ contract \in LoanSystems => L!CoopNext \/ L!EventNext
         /\ contract = "coop" => L!CoopNext
         /\ contract \in Small => S!SpoNext \/ S!MyNext \/ S!EvmNext
         /\ contract = "evm" => S!EvmNext
         /\ contract = "assessment" => A!Next
BY Zenon DEF Next, LoanSystems, Small

\* Every constructor establishes its contract's invariant.
LEMMA ContractsStart == ASSUME Init PROVE ContractsInv
<1>1. /\ I!ERC20Assumption /\ I!InsuranceAssumption
      /\ C!ERC20Assumption /\ C!InsuranceAssumption
      /\ F!ERC20Assumption /\ F!InsuranceAssumption
  BY ContractsAssumption
<1>2. contract = "degen" => DegenInv
  BY OneConstructor, DegenStarts
<1>3. contract = "insurance" => I!InsuranceInv /\ I!FeesInv
  BY <1>1, OneConstructor, I!InsuranceStarts, I!FeesStart
<1>4. contract = "copy" => C!InsuranceInv
  BY <1>1, OneConstructor, C!InsuranceStarts
<1>5. contract = "factory" => F!InsuranceInv /\ F!FeesInv
  BY <1>1, OneConstructor, F!InsuranceStarts, F!FeesStart DEF F!FactoryInit
<1>6. contract = "vesting" => VestingInv
  BY OneConstructor, VestingStarts
<1>7. contract \in LoanSystems => LoanInv
  BY OneConstructor, LoanStarts
<1>8. contract \in Small => SmallInv
  BY OneConstructor, SmallStarts, SupplyStarts DEF SmallInv
<1>9. contract = "assessment" => AssessmentInv
  BY OneConstructor, AssessmentStarts
<1> QED
  BY <1>2, <1>3, <1>4, <1>5, <1>6, <1>7, <1>8, <1>9 DEF ContractsInv

\* What a step of the insurances keeps, and what it does to their books.
LEMMA InsurancesKept ==
  ASSUME ContractsInv, Next
  PROVE  /\ contract = "insurance" => (I!InsuranceInv /\ I!FeesInv)' /\ I!BooksStep
         /\ contract = "copy" => C!InsuranceInv' /\ C!BooksStep
         /\ contract = "factory" => (F!InsuranceInv /\ F!FeesInv)' /\ F!BooksStep
<1>1. /\ I!ERC20Assumption /\ I!InsuranceAssumption
      /\ C!ERC20Assumption /\ C!InsuranceAssumption
      /\ F!ERC20Assumption /\ F!InsuranceAssumption /\ F!FactoryAssumption
  BY ContractsAssumption
<1>2. ASSUME contract = "insurance" PROVE (I!InsuranceInv /\ I!FeesInv)' /\ I!BooksStep
  <2>1. I!InsuranceInv /\ I!FeesInv
    BY <1>2 DEF ContractsInv
  <2>2. I!InsuranceStep /\ I!CopyStep
    BY <1>1, <1>2, OneContract, I!InsuranceSteps DEF I!CopyStep
  <2> QED
    BY <1>1, <2>1, <2>2, I!InsuranceKept, I!FeesKept, I!InsuranceBooks
<1>3. ASSUME contract = "copy" PROVE C!InsuranceInv' /\ C!BooksStep
  <2>1. C!InsuranceInv
    BY <1>3 DEF ContractsInv
  <2>2. C!CopyStep
    BY <1>1, <1>3, OneContract, C!InsuranceSteps
  <2> QED
    BY <1>1, <2>1, <2>2, C!InsuranceKept, C!InsuranceBooks
<1>4. ASSUME contract = "factory" PROVE (F!InsuranceInv /\ F!FeesInv)' /\ F!BooksStep
  <2>1. F!InsuranceInv /\ F!FeesInv
    BY <1>4 DEF ContractsInv
  <2>2. F!InsuranceStep \/ UNCHANGED F!vars
    BY <1>1, <1>4, OneContract, F!InsuranceSteps
  <2>3. CASE F!InsuranceStep
    <3>1. F!CopyStep
      BY <2>3 DEF F!CopyStep
    <3> QED
      BY <1>1, <2>1, <2>3, <3>1, F!InsuranceKept, F!FeesKept, F!InsuranceBooks
  <2>4. CASE UNCHANGED F!vars
    BY <2>1, <2>4, F!InsuranceIdle
  <2> QED
    BY <2>2, <2>3, <2>4
<1> QED
  BY <1>2, <1>3, <1>4

\* Every function of the contract that is deployed keeps its invariant.
LEMMA ContractsKept == ASSUME ContractsInv, Next PROVE ContractsInv'
<1>1. contract' = contract
  BY OneContract
<1>2. contract = "degen" => DegenInv'
  BY OneContract, DegenKept DEF ContractsInv
<1>3. /\ contract = "insurance" => (I!InsuranceInv /\ I!FeesInv)'
      /\ contract = "copy" => C!InsuranceInv'
      /\ contract = "factory" => (F!InsuranceInv /\ F!FeesInv)'
  BY InsurancesKept
<1>4. contract = "vesting" => VestingInv'
  BY OneContract, VestingKept DEF ContractsInv
<1>5. contract \in LoanSystems => LoanInv'
  BY OneContract, CoopKept, EventKept DEF ContractsInv
<1>6. contract \in Small => SmallInv'
  BY OneContract, SpoKept, MyKept, EvmKept, SupplyKept DEF ContractsInv, SmallInv
<1>7. contract = "assessment" => AssessmentInv'
  BY OneContract, AssessmentKept DEF ContractsInv
<1> QED
  BY <1>1, <1>2, <1>3, <1>4, <1>5, <1>6, <1>7 DEF ContractsInv, LoanSystems, Small

\* A step that changes nothing keeps everything.
LEMMA ContractsIdle == ASSUME ContractsInv, UNCHANGED vars PROVE ContractsInv'
<1> USE DEF vars
<1>1. DegenInv => DegenInv'
  BY DEF DegenInv
<1>2. I!InsuranceInv /\ I!FeesInv => (I!InsuranceInv /\ I!FeesInv)'
  <2>1. UNCHANGED I!vars
    BY DEF policyVars, I!vars, I!types, I!policy
  <2> QED
    BY <2>1, I!InsuranceIdle
<1>3. C!InsuranceInv => C!InsuranceInv'
  <2>1. UNCHANGED C!vars
    BY DEF policyVars, C!vars, C!types, C!policy
  <2> QED
    BY <2>1, C!InsuranceIdle
<1>4. F!InsuranceInv /\ F!FeesInv => (F!InsuranceInv /\ F!FeesInv)'
  <2>1. UNCHANGED F!vars
    BY DEF policyVars, F!vars, F!types, F!policy
  <2> QED
    BY <2>1, F!InsuranceIdle
<1>5. VestingInv => VestingInv'
  BY DEF memberVars, VestingInv, V!TypeOK, V!MembersAreDistinct, V!WhitelistIsRecorded, V!Defined
<1>6. LoanInv => LoanInv'
  BY DEF loanVars, LoanInv, L!TypeOK, L!CashIsExplained, L!DebtsAreLent,
         L!SumOver, L!Positive, L!Negative
<1>7. SmallInv => SmallInv'
  BY DEF smallVars, SmallInv, S!TypeOK
<1>8. AssessmentInv => AssessmentInv'
  BY DEF accountVars, AssessmentInv, A!ResultsArePaidFor
<1>9. contract' = contract
  OBVIOUS
<1> QED
  BY <1>1, <1>2, <1>3, <1>4, <1>5, <1>6, <1>7, <1>8, <1>9
     DEF ContractsInv, LoanSystems, Small

\* The invariant of the deployed contract holds throughout.
LEMMA ContractsInvariance == Spec => []ContractsInv
<1>1. Init => ContractsInv
  BY ContractsStart
<1>2. ContractsInv /\ [Next]_vars => ContractsInv'
  BY ContractsKept, ContractsIdle
<1> QED
  BY <1>1, <1>2, PTL DEF Spec

-----------------------------------------------------------------------------
\* Whatever contract is deployed, its arithmetic stays in the range of uint256,
\* in the calls and in the unchecked parts of the libraries they call.
THEOREM ContractsStayTyped == Spec => []TypeOK
<1>1. ContractsInv => TypeOK
  BY DEF ContractsInv, TypeOK, DegenInv, D!TypeOK, D!LedgerOK, I!InsuranceInv, C!InsuranceInv,
         F!InsuranceInv, VestingInv, LoanInv, SmallInv
<1> QED
  BY <1>1, ContractsInvariance, PTL

\* Who is insured by the clock (isSubscriptionValid) is so by the flag, in both
\* versions of the insurance and behind the factory, whoever ends, renews or is
\* paid when.
THEOREM ValidIsSubscribed == Spec => []ValidMeansSubscribed
<1>1. ContractsInv => ValidMeansSubscribed
  BY DEF ContractsInv, ValidMeansSubscribed, I!InsuranceInv, C!InsuranceInv, F!InsuranceInv
<1> QED
  BY <1>1, ContractsInvariance, PTL

\* With fixed fees payCompensation pays the fee of the running subscription,
\* for every table of fees: the type it reads when it pays is the one that was
\* paid for.
THEOREM CompensationIsFair == Spec => []CompensationIsTheFee
<1>1. ContractsInv => CompensationIsTheFee
  BY I!FeesExplain, F!FeesExplain DEF ContractsInv, CompensationIsTheFee
<1> QED
  BY <1>1, ContractsInvariance, PTL

\* registerMember registers nobody twice, and a member who is whitelisted is so
\* by his record, for any number of members, types and withdrawals.
THEOREM MembersStayRecorded == Spec => []MembersAreRecorded
<1>1. ContractsInv => MembersAreRecorded
  BY DEF ContractsInv, MembersAreRecorded, VestingInv
<1> QED
  BY <1>1, ContractsInvariance, PTL

\* The cash of every account is explained and what is owed is what was lent, in
\* both loan contracts, also when the cooperative account changes while loans
\* are open; and every result of the assessment contract was paid for.
THEOREM CashStaysExplained == Spec => []CashIsExplained
<1>1. ContractsInv => CashIsExplained
  BY DEF ContractsInv, CashIsExplained, LoanInv, AssessmentInv
<1> QED
  BY <1>1, ContractsInvariance, PTL

\* What a step of the deployed contract does to the books of its token.
LEMMA BooksKept ==
  ASSUME ContractsInv, Next
  PROVE  /\ contract = "degen" => D!BooksStep
         /\ contract = "insurance" => I!BooksStep
         /\ contract = "copy" => C!BooksStep
         /\ contract = "factory" => F!BooksStep
         /\ contract = "vesting" => V!BooksStep
         /\ contract \in Small => S!BooksStep
<1>1. contract = "degen" => D!BooksStep
  BY OneContract, DegenKept DEF ContractsInv
<1>2. contract = "vesting" => V!BooksStep
  BY OneContract, VestingKept DEF ContractsInv
<1>3. contract \in Small => S!BooksStep
  BY OneContract, SpoKept, MyKept, EvmKept DEF ContractsInv, SmallInv
<1> QED
  BY <1>1, <1>2, <1>3, InsurancesKept

\* Every token's step is a step of the abstract token: it mints to one account,
\* burns of one or moves between two, also in the unchecked arithmetic, which
\* the supply bounds.
THEOREM BooksStayInStep == Spec => TokenBooks
<1>1. ContractsInv /\ [Next]_vars =>
        [/\ contract = "degen" => D!BooksStep
         /\ contract = "insurance" => I!BooksStep
         /\ contract = "copy" => C!BooksStep
         /\ contract = "factory" => F!BooksStep
         /\ contract = "vesting" => V!BooksStep
         /\ contract \in Small => S!BooksStep]_vars
  BY BooksKept
<1> QED
  BY <1>1, ContractsInvariance, PTL DEF Spec, TokenBooks

\* Nobody's balance falls in the call of somebody else beyond the allowance
\* its holder gave him, and nobody's allowance over Degen tokens grows without
\* the holder, also in the functions that approve on the caller's behalf.
THEOREM AllowancesHold == Spec => AllowancesAreRespected
<1>1. ContractsInv /\ [Next]_vars =>
        [/\ contract = "degen" => D!SpendingIsAllowed /\ D!OnlyHoldersAllow
         /\ contract = "evm" => S!SpendingIsAllowed]_vars
  BY OneContract, DegenAllowances, EvmKept DEF ContractsInv, SmallInv, Small
<1> QED
  BY <1>1, ContractsInvariance, PTL DEF Spec, AllowancesAreRespected

\* A renounced Degen token is never minted again, a registered member's vesting
\* does not change and his whitelist status is lost in his own calls only, and
\* requestLoan lends to nobody in debt.
THEOREM WhatIsSettledStays == Spec => SettledStaysSettled
<1>1. ContractsInv /\ [Next]_vars =>
        [/\ contract = "degen" => D!RenouncedIsFinal
         /\ contract = "vesting" => V!VestingIsSettled /\ V!StatusIsTheMembersToLose
         /\ contract = "coop" => L!OneLoanAtATime]_vars
  BY OneContract, DegenRenounced, VestingKept, StatusKept, CoopKept
     DEF ContractsInv, LoanSystems
<1> QED
  BY <1>1, ContractsInvariance, PTL DEF Spec, SettledStaysSettled

-----------------------------------------------------------------------------
\* The supply of every token is the sum of the balances.
SuppliesAreSums ==
  /\ contract = "degen" => D!SupplyIsSum
  /\ contract = "insurance" => I!SupplyIsSum
  /\ contract = "copy" => C!SupplyIsSum
  /\ contract = "factory" => F!SupplyIsSum
  /\ contract = "vesting" => V!SupplyIsSum
  /\ contract \in Small => totalSupply = S!Total(balances)

\* Nothing the tokens do lets the supply and the balances drift apart, which is
\* what the unchecked additions to a balance rely on.
THEOREM SuppliesStaySums == Spec => []SuppliesAreSums
<1>1. ContractsInv => SuppliesAreSums
  BY DEF ContractsInv, SuppliesAreSums, DegenInv, I!InsuranceInv, C!InsuranceInv, F!InsuranceInv,
         VestingInv, SmallInv, D!LedgerOK, I!LedgerOK, C!LedgerOK, F!LedgerOK, V!LedgerOK,
         D!SupplyIsSum, I!SupplyIsSum, C!SupplyIsSum, F!SupplyIsSum, V!SupplyIsSum
<1> QED
  BY <1>1, ContractsInvariance, PTL

\* The constructors start the abstract token,
LEMMA TokensStart ==
  ASSUME Init
  PROVE  /\ contract = "degen" => D!Books!TokenInit
         /\ contract = "insurance" => I!Books!TokenInit
         /\ contract = "copy" => C!Books!TokenInit
         /\ contract = "factory" => F!Books!TokenInit
         /\ contract = "vesting" => V!Books!TokenInit
         /\ contract \in Small => S!Books!TokenInit
<1>1. ContractsInv
  BY ContractsStart
<1>2. ASSUME contract \in Small PROVE S!Books!TokenInit
  <2>1. SmallInv
    BY <1>1, <1>2 DEF ContractsInv
  <2>2. S!Books!Coins(balances) = S!Coins(balances)
    BY DEF S!Coins, S!Books!Coins
  <2>3. \A T : S!Books!Cardinality(T) = S!Cardinality(T)
    BY Zenon DEF S!Cardinality, S!Books!Cardinality
  <2>4. S!Books!Total(balances) = S!Total(balances)
    BY <2>2, <2>3 DEF S!Total, S!Books!Total
  <2> QED
    BY <2>1, <2>4 DEF SmallInv, S!TypeOK, S!Uint, S!Books!TokenInit, S!Books!Uint
<1> QED
  BY <1>1, <1>2, D!LedgerBooks, I!LedgerBooks, C!LedgerBooks, F!LedgerBooks, V!LedgerBooks
     DEF ContractsInv, DegenInv, I!InsuranceInv, C!InsuranceInv, F!InsuranceInv, VestingInv

\* and a step that changes nothing does not change the books.
LEMMA TokensIdle ==
  ASSUME UNCHANGED vars
  PROVE  /\ D!BooksStep /\ I!BooksStep /\ C!BooksStep /\ F!BooksStep /\ V!BooksStep
         /\ S!BooksStep
BY DEF vars, smallVars, D!BooksStep, I!BooksStep, C!BooksStep, F!BooksStep, V!BooksStep,
       S!BooksStep

\* Every token, inherited or written from scratch, implements the abstract
\* token: from its constructor on, whatever approvals, fees, subscriptions,
\* registrations and redemptions are behind a step.
THEOREM TokensAreTokens ==
  Spec => /\ contract = "degen" => D!Books!TokenSpec
          /\ contract = "insurance" => I!Books!TokenSpec
          /\ contract = "copy" => C!Books!TokenSpec
          /\ contract = "factory" => F!Books!TokenSpec
          /\ contract = "vesting" => V!Books!TokenSpec
          /\ contract \in Small => S!Books!TokenSpec
<1> DEFINE degen == contract = "degen"
           insurance == contract = "insurance"
           copy == contract = "copy"
           factory == contract = "factory"
           vesting == contract = "vesting"
           small == contract \in Small
<1>1. Init => /\ degen => D!Books!TokenInit
              /\ insurance => I!Books!TokenInit
              /\ copy => C!Books!TokenInit
              /\ factory => F!Books!TokenInit
              /\ vesting => V!Books!TokenInit
              /\ small => S!Books!TokenInit
  BY TokensStart
<1>2. ContractsInv /\ [Next]_vars =>
        /\ degen => D!BooksStep
        /\ insurance => I!BooksStep
        /\ copy => C!BooksStep
        /\ factory => F!BooksStep
        /\ vesting => V!BooksStep
        /\ small => S!BooksStep
  BY BooksKept, TokensIdle
<1>3. [Next]_vars => /\ degen => degen'
                     /\ insurance => insurance'
                     /\ copy => copy'
                     /\ factory => factory'
                     /\ vesting => vesting'
                     /\ small => small'
  BY OneContract DEF vars, Small
<1> HIDE DEF degen, insurance, copy, factory, vesting, small
<1>4. Spec => /\ degen => D!Books!TokenSpec
              /\ insurance => I!Books!TokenSpec
              /\ copy => C!Books!TokenSpec
              /\ factory => F!Books!TokenSpec
              /\ vesting => V!Books!TokenSpec
              /\ small => S!Books!TokenSpec
  BY <1>1, <1>2, <1>3, ContractsInvariance, PTL
     DEF Spec, D!Books!TokenSpec, I!Books!TokenSpec, C!Books!TokenSpec, F!Books!TokenSpec,
         V!Books!TokenSpec, S!Books!TokenSpec,
         D!BooksStep, I!BooksStep, C!BooksStep, F!BooksStep, V!BooksStep, S!BooksStep
<1> QED
  BY <1>4 DEF degen, insurance, copy, factory, vesting, small
=============================================================================
