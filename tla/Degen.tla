------------------------------- MODULE Degen --------------------------------
(***************************************************************************)
(* The Degen token (DegenToken.sol): the inherited ledger, minting by the  *)
(* owner, and a store whose items are paid for in tokens.                  *)
(***************************************************************************)
EXTENDS ERC20_proofs

CONSTANTS
  Deployer,   \* the first owner
  Store,      \* the address that is paid for the items
  Price       \* the prices of the items

DegenAssumption ==
  /\ Deployer \in Account
  /\ Store \in Account
  /\ Price \in [1 .. 3 -> Uint]

VARIABLE owner

INSTANCE Ownable

vars == <<token, sender, owner>>

Init ==
  /\ token = EmptyLedger
  /\ sender = Deployer
  /\ owner = Deployer

Mint(s, to, n) == OnlyOwner(s) /\ Call(s, CanMint(token, to, n), Minted(token, to, n))

TransferTokens(s, to, n) == Call(s, CanPay(token, s, to, n), Paid(token, s, to, n))

BurnTokens(s, n) ==
  LET approved == Approved(token, s, s, n)
      spent    == Spent(approved, s, s, n)
  IN  Call(s, /\ token.balances[s] >= n
              /\ CanApprove(s, s)
              /\ CanSpend(approved, s, s, n)
              /\ CanBurn(spent, s, n),
           Burned(spent, s, n))

RedeemTokens(s, option) ==
  /\ option \in DOMAIN Price
  /\ Call(s, CanPay(token, s, Store, Price[option]), Paid(token, s, Store, Price[option]))

TokenCall(s) ==
  \/ \E n \in Amounts :
       \/ BurnTokens(s, n)
       \/ \E a \in Address : Mint(s, a, n) \/ TransferTokens(s, a, n)
  \/ \E option \in 0 .. 4 : RedeemTokens(s, option)

OwnershipCall(s) ==
  /\ \/ RenounceOwnership(s)
     \/ \E a \in Address : TransferOwnership(s, a)
  /\ UNCHANGED token
  /\ sender' = s

Next ==
  \E s \in Account :
    \/ /\ InheritedCall(s) \/ BurningCall(s) \/ TokenCall(s)
       /\ UNCHANGED owner
    \/ OwnershipCall(s)

Spec == Init /\ [][Next]_vars
-----------------------------------------------------------------------------
TypeOK == token \in Ledger /\ sender \in Account /\ owner \in Address

\* A balance falls in the call of somebody else only within the allowance
\* its holder gave him, and the allowance falls by as much, unless it has
\* no limit: also where a contract function spends on the caller's behalf.
SpendingIsAllowed ==
  \A a \in Account :
    LET taken == token.balances[a] - token'.balances[a]
    IN  taken > 0 /\ sender' # a =>
          \/ Unlimited(token, a, sender')
          \/ token'.allowances[a][sender'] = token.allowances[a][sender'] - taken

\* Nobody's allowance grows without the holder, whatever mixture of approve,
\* increase, transferTokens and redeemTokens has set it.
OnlyHoldersAllow ==
  \A a \in Account, s \in Address :
    token'.allowances[a][s] > token.allowances[a][s] => sender' = a

\* Once the ownership is renounced no token is ever created again, and no
\* one becomes the owner.
RenouncedIsFinal ==
  owner = ZeroAddress =>
    owner' = ZeroAddress /\ token'.totalSupply <= token.totalSupply
=============================================================================
