---------------------------- MODULE SmallTokens -----------------------------
(***************************************************************************)
(* Three tokens written from scratch, with checked arithmetic (a step that *)
(* would leave the range of uint256 reverts): SpoToken.sol, whose books    *)
(* anybody changes; MyERC20Token.sol, with a fixed supply that can only be *)
(* burned; and the token of EVM-Subnet/ERC20.sol.                          *)
(***************************************************************************)
EXTENDS Totals_proofs

CONSTANTS
  Address,    \* the addresses; none of these contracts treats address(0) apart
  MaxUint,    \* the largest uint256
  Creator,    \* who deploys MyERC20Token
  Amounts     \* the amounts callers choose

Uint == 0 .. MaxUint

SmallTokensAssumption ==
  /\ IsFiniteSet(Address)
  /\ MaxUint \in Nat
  /\ Creator \in Address
  /\ Amounts \subseteq Uint

VARIABLES
  balances, totalSupply, allowed,
  sender   \* the account that sent the last transaction

vars == <<balances, totalSupply, allowed, sender>>

Zero == [a \in Address |-> 0]

InitWith(initialAmount) ==
  /\ balances = [Zero EXCEPT ![Creator] = initialAmount]
  /\ totalSupply = initialAmount
  /\ allowed = [a \in Address |-> Zero]
  /\ sender = Creator

Booked(s, held, supply) ==
  /\ \A a \in Address : held[a] \in Uint
  /\ supply \in Uint
  /\ balances' = held
  /\ totalSupply' = supply
  /\ sender' = s

Change(f, a, n) == [f EXCEPT ![a] = @ + n]

\* The second change reads what the first one wrote.
Move(f, a, b, n) == Change(Change(f, a, -n), b, n)

\* The supply and a balance together, up or down.
MintOrBurn(s, a, n) ==
  Booked(s, Change(balances, a, n), totalSupply + n) /\ UNCHANGED allowed

Approve(s, spender, n) ==
  /\ allowed' = [allowed EXCEPT ![s][spender] = n]
  /\ sender' = s
  /\ UNCHANGED <<balances, totalSupply>>

\* Mutant: the receiver's balance is read before the sender's is written.
TransferFromStale(s, to, n) ==
  /\ Booked(s, [balances EXCEPT ![s] = @ - n, ![to] = balances[to] + n], totalSupply)
  /\ balances[s] >= n
  /\ UNCHANGED allowed

Transfer(s, to, n) ==
  /\ Booked(s, Move(balances, s, to, n), totalSupply)
  /\ balances[s] >= n
  /\ UNCHANGED allowed
-----------------------------------------------------------------------------
\* SpoToken.sol: a burn of more than there is does nothing.
SpoBurn(s, a, n) ==
  IF balances[a] >= n
  THEN MintOrBurn(s, a, -n)
  ELSE Booked(s, balances, totalSupply) /\ UNCHANGED allowed

SpoNext ==
  \E s, a \in Address, n \in Amounts : MintOrBurn(s, a, n) \/ SpoBurn(s, a, n)

SpoSpec == InitWith(0) /\ [][SpoNext]_vars
-----------------------------------------------------------------------------
\* MyERC20Token.sol: transferFrom adds before it subtracts, so that the sum
\* must fit also when an account sends to itself, and looks at no allowance.
MyTransferFrom(s, from, to, n) ==
  /\ balances[from] >= n
  /\ balances[to] + n <= MaxUint
  /\ Booked(s, Change(Change(balances, to, n), from, -n), totalSupply)
  /\ UNCHANGED allowed

MyNext ==
  \E s, a \in Address, n \in Amounts :
    \/ Transfer(s, a, n)
    \/ Approve(s, a, n)
    \/ MintOrBurn(s, a, -n)
    \/ \E to \in Address : MyTransferFrom(s, a, to, n)

MySpec == InitWith(MaxUint) /\ [][MyNext]_vars
-----------------------------------------------------------------------------
\* EVM-Subnet/ERC20.sol: the allowance is reduced by a checked subtraction.
TransferFrom(s, from, to, n) ==
  /\ allowed[from][s] >= n
  /\ allowed' = [allowed EXCEPT ![from][s] = @ - n]
  /\ balances[from] >= n
  /\ Booked(s, Move(balances, from, to, n), totalSupply)

EvmNext ==
  \E s, a \in Address, n \in Amounts :
    \/ Transfer(s, a, n)
    \/ Approve(s, a, n)
    \/ MintOrBurn(s, s, n)
    \/ MintOrBurn(s, s, -n)
    \/ \E to \in Address : TransferFrom(s, a, to, n)

EvmSpec == InitWith(0) /\ [][EvmNext]_vars
-----------------------------------------------------------------------------
TypeOK ==
  /\ balances \in [Address -> Uint]
  /\ totalSupply \in Uint
  /\ allowed \in [Address -> [Address -> Uint]]

Books == INSTANCE Token

\* A step of the books: whatever the three tokens do, they mint to one account,
\* burn of one account or move between two, with the supply in step.
BooksStep == [Books!TokenNext]_<<balances, totalSupply>>

\* A balance falls in the call of somebody else only within what its holder
\* has allowed him, and this uses the allowance up.
SpendingIsAllowed ==
  \A a \in Address :
    LET taken == balances[a] - balances'[a]
    IN  taken > 0 /\ sender' # a =>
          allowed'[a][sender'] = allowed[a][sender'] - taken
=============================================================================
