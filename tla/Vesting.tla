------------------------------ MODULE Vesting -------------------------------
(***************************************************************************)
(* The token of an organisation (mydapptoken.sol): the admin defines types *)
(* of stakeholders, registers members, who get the tokens of their type,   *)
(* and whitelists a type; a member withdraws with transferTokens after the *)
(* vesting period.  The inherited functions move tokens as well.           *)
(***************************************************************************)
EXTENDS ERC20_proofs, Sequences

CONSTANTS
  Admin,         \* adminAddress
  Types,         \* names of stakeholder types
  Length,        \* the length of a name
  VestingYears,  \* the vesting periods, in years, given to setMembershipStatus
  Year,          \* 365 days
  MaxTime        \* the last block time of the model

VestingAssumption ==
  /\ Admin \in Account
  /\ Length \in [Types -> Nat]
  /\ VestingYears \subseteq Uint
  /\ Year \in Nat \ {0}
  /\ MaxTime \in Nat \ {0}

VARIABLES
  now,               \* block.timestamp
  stakeholderTypes,  \* the sequence of the types
  vestingPeriod, tokenAmount,
  members,           \* the Member records; addrList repeats their addresses
  stakeholderType,   \* addrStakeholderType, of the registered
  whitelistStatus,
  vestingStopTime

setup == <<stakeholderTypes, vestingPeriod, tokenAmount>>
membership == <<members, stakeholderType, vestingStopTime>>
vars == <<token, sender, now, setup, membership, whitelistStatus>>

Init ==
  /\ token = EmptyLedger
  /\ sender = Admin
  /\ now = 1
  /\ stakeholderTypes = <<>>
  /\ vestingPeriod = [t \in Types |-> 0]
  /\ tokenAmount = [t \in Types |-> 0]
  /\ members = <<>>
  /\ stakeholderType = [a \in Address |-> ""]
  /\ whitelistStatus = [a \in Address |-> FALSE]
  /\ vestingStopTime = [a \in Address |-> 0]

Defined(t) == \E i \in DOMAIN stakeholderTypes : stakeholderTypes[i] = t

\* Mutant: the search leaves out the last member.
RegisteredBeforeLast(a) ==
  \E i \in 1 .. (Len(members) - 1) : members[i].memberAddr = a

Registered(a) == \E i \in DOMAIN members : members[i].memberAddr = a

SetMembershipStatus(s, t, period, amount) ==
  /\ ~Defined(t)
  /\ s = Admin
  /\ stakeholderTypes' = Append(stakeholderTypes, t)
  /\ vestingPeriod' = [vestingPeriod EXCEPT ![t] = period]
  /\ tokenAmount' = [tokenAmount EXCEPT ![t] = amount]
  /\ sender' = s
  /\ UNCHANGED <<token, now, membership, whitelistStatus>>

\* The search stops at the type it looks for, and reverts at one of another
\* length before it.
IsStakeholderTypeValid(t) ==
  \E i \in DOMAIN stakeholderTypes :
    /\ stakeholderTypes[i] = t
    /\ \A j \in 1 .. i : Length[stakeholderTypes[j]] = Length[t]

RegisterMember(s, a, t) ==
  LET stop == now + Year * vestingPeriod[t]
  IN  /\ s = Admin
      /\ IsStakeholderTypeValid(t)
      /\ ~Registered(a)
      /\ stop <= MaxUint
      /\ Call(s, CanMint(token, a, tokenAmount[t]), Minted(token, a, tokenAmount[t]))
      /\ members' = Append(members, [memberAddr |-> a, whitelisted |-> FALSE])
      /\ stakeholderType' = [stakeholderType EXCEPT ![a] = t]
      /\ whitelistStatus' = [whitelistStatus EXCEPT ![a] = FALSE]
      /\ vestingStopTime' = [vestingStopTime EXCEPT ![a] = stop]
      /\ UNCHANGED <<now, setup>>

WhitelistStakeholders(s, t) ==
  /\ s = Admin
  /\ IsStakeholderTypeValid(t)
  /\ whitelistStatus' =
       [a \in Address |-> \/ whitelistStatus[a]
                          \/ Registered(a) /\ stakeholderType[a] = t]
  /\ members' =
       [i \in DOMAIN members |->
          [members[i] EXCEPT !.whitelisted =
             @ \/ stakeholderType[members[i].memberAddr] = t]]
  /\ sender' = s
  /\ UNCHANGED <<token, now, setup, stakeholderType, vestingStopTime>>

\* The test of the whitelist assigns FALSE, and FALSE is its value: it never
\* refuses, and the status is gone afterwards.
TransferTokens(s, to, n) ==
  /\ s # Admin => now >= vestingStopTime[s]
  /\ Call(s, CanPay(token, s, to, n), Paid(token, s, to, n))
  /\ whitelistStatus' =
       IF s = Admin THEN whitelistStatus ELSE [whitelistStatus EXCEPT ![s] = FALSE]
  /\ UNCHANGED <<now, setup, membership>>

\* A later block.
Tick ==
  /\ now < MaxTime
  /\ now' = now + 1
  /\ UNCHANGED <<token, sender, setup, membership, whitelistStatus>>

AdminCall(s) ==
  \E t \in Types :
    \/ WhitelistStakeholders(s, t)
    \/ \E a \in Address : RegisterMember(s, a, t)
    \/ \E period \in VestingYears, n \in Amounts : SetMembershipStatus(s, t, period, n)

Next ==
  \/ Tick
  \/ \E s \in Account :
       \/ AdminCall(s)
       \/ \E to \in Address, n \in Amounts : TransferTokens(s, to, n)
       \/ /\ InheritedCall(s) \/ BurningCall(s)
          /\ UNCHANGED <<now, setup, membership, whitelistStatus>>

Spec == Init /\ [][Next]_vars
-----------------------------------------------------------------------------
TypeOK ==
  /\ token \in Ledger
  /\ now \in 1 .. MaxTime
  /\ stakeholderTypes \in Seq(Types)
  /\ vestingPeriod \in [Types -> Uint]
  /\ tokenAmount \in [Types -> Uint]
  /\ members \in Seq([memberAddr : Account, whitelisted : BOOLEAN])
  /\ stakeholderType \in [Address -> Types \cup {""}]
  /\ whitelistStatus \in [Address -> BOOLEAN]
  /\ vestingStopTime \in [Address -> Uint]

\* An address is registered once, so that nobody's tokens are minted twice
\* and nobody's vesting starts again.
MembersAreDistinct ==
  \A i, j \in DOMAIN members :
    members[i].memberAddr = members[j].memberAddr => i = j

\* The two copies of the status: who is whitelisted by the mapping is so by
\* his record (the other way round it is lost at the first withdrawal), and
\* belongs to a type the admin defined.
WhitelistIsRecorded ==
  \A a \in Address : whitelistStatus[a] =>
    /\ \E i \in DOMAIN members : members[i] = [memberAddr |-> a, whitelisted |-> TRUE]
    /\ Defined(stakeholderType[a])

\* The vesting of a member is settled when he is registered, whatever types
\* are defined or whitelisted later.
VestingIsSettled ==
  \A a \in Address : Registered(a) =>
    /\ vestingStopTime'[a] = vestingStopTime[a]
    /\ stakeholderType'[a] = stakeholderType[a]

\* A whitelist status is given to the end.  Only the test in transferTokens
\* that assigns to it takes it back, so that no step of the admin and nothing
\* another member does costs a member his status.
StatusIsTheMembersToLose ==
  \A a \in Address : whitelistStatus[a] /\ ~whitelistStatus'[a] =>
    a # Admin /\ sender' = a

\* The comments of transferTokens: apart from the admin only who is
\* whitelisted withdraws tokens with it.
OnlyWhitelistedWithdraw ==
  \A s \in Account, to \in Address, n \in Amounts :
    TransferTokens(s, to, n) /\ s # Admin => whitelistStatus[s]
=============================================================================
