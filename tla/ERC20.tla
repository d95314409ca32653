------------------------------- MODULE ERC20 --------------------------------
(***************************************************************************)
(* The ledger the token contracts inherit (ERC20.sol with ERC20Burnable):  *)
(* balances, allowances and the total supply, as operators on a ledger     *)
(* value, and the public functions as actions.  A transaction that reverts *)
(* changes nothing: what makes a call revert is a guard of its action.     *)
(***************************************************************************)
EXTENDS Totals, Integers

CONSTANTS
  Address,      \* the addresses
  ZeroAddress,  \* address(0)
  MaxUint,      \* the largest uint256
  Amounts,      \* the amounts callers choose
  Approvers     \* the accounts that call the allowance functions

VARIABLES
  token,  \* _balances, _allowances and _totalSupply
  sender  \* the account that sent the last transaction

Uint == 0 .. MaxUint
Account == Address \ {ZeroAddress}

ERC20Assumption ==
  /\ IsFiniteSet(Address)
  /\ ZeroAddress \in Address
  /\ MaxUint \in Nat
  /\ Amounts \subseteq Uint
  /\ Approvers \subseteq Account

Ledger ==
  [balances    : [Address -> Uint],
   allowances  : [Address -> [Address -> Uint]],
   totalSupply : Uint]

EmptyLedger ==
  [balances    |-> [a \in Address |-> 0],
   allowances  |-> [a \in Address |-> [s \in Address |-> 0]],
   totalSupply |-> 0]

\* Arithmetic in an unchecked block.
Wrap(n) ==
  CASE n < 0       -> n + MaxUint + 1
    [] n > MaxUint -> n - (MaxUint + 1)
    [] OTHER       -> n
-----------------------------------------------------------------------------
\* _transfer
CanMove(t, from, to, n) ==
  /\ from # ZeroAddress
  /\ to # ZeroAddress
  /\ t.balances[from] >= n

Moved(t, from, to, n) ==
  LET paid == [t EXCEPT !.balances[from] = @ - n]
  IN  [paid EXCEPT !.balances[to] = Wrap(@ + n)]

\* Mutant: the supply is not checked either.
CanMintUnchecked(t, a, n) == a # ZeroAddress

\* _mint: the supply is checked, the balance is not.
CanMint(t, a, n) == a # ZeroAddress /\ t.totalSupply + n <= MaxUint

Minted(t, a, n) ==
  [t EXCEPT !.totalSupply = @ + n, !.balances[a] = Wrap(@ + n)]

\* _burn
CanBurn(t, a, n) == a # ZeroAddress /\ t.balances[a] >= n

Burned(t, a, n) ==
  [t EXCEPT !.balances[a] = @ - n, !.totalSupply = Wrap(@ - n)]

\* _approve
CanApprove(o, s) == o # ZeroAddress /\ s # ZeroAddress

Approved(t, o, s, n) == [t EXCEPT !.allowances[o][s] = n]

\* _spendAllowance: the largest uint256 is an allowance without limit.
Unlimited(t, o, s) == t.allowances[o][s] = MaxUint

CanSpend(t, o, s, n) ==
  \/ Unlimited(t, o, s)
  \/ CanApprove(o, s) /\ t.allowances[o][s] >= n

\* Mutant: an allowance that is looked at and not used up.
SpentNothing(t, o, s, n) == t

Spent(t, o, s, n) ==
  IF Unlimited(t, o, s) THEN t ELSE Approved(t, o, s, t.allowances[o][s] - n)

CanTransferFrom(t, s, from, to, n) ==
  CanSpend(t, from, s, n) /\ CanMove(Spent(t, from, s, n), from, to, n)

TransferredFrom(t, s, from, to, n) == Moved(Spent(t, from, s, n), from, to, n)

\* What the contracts do to move tokens of their caller: approve the caller
\* himself, then transferFrom in his name.
CanPay(t, s, to, n) ==
  /\ t.balances[s] >= n
  /\ CanApprove(s, s)
  /\ CanTransferFrom(Approved(t, s, s, n), s, s, to, n)

Paid(t, s, to, n) == TransferredFrom(Approved(t, s, s, n), s, s, to, n)
-----------------------------------------------------------------------------
\* A call that was not reverted: its sender and the ledger it left.
Call(s, can, t) ==
  /\ can
  /\ token' = t
  /\ sender' = s

Transfer(s, to, n) == Call(s, CanMove(token, s, to, n), Moved(token, s, to, n))

Approve(s, spender, n) ==
  Call(s, CanApprove(s, spender), Approved(token, s, spender, n))

TransferFrom(s, from, to, n) ==
  Call(s, CanTransferFrom(token, s, from, to, n), TransferredFrom(token, s, from, to, n))

IncreaseAllowance(s, spender, n) ==
  LET raised == token.allowances[s][spender] + n
  IN  Call(s, CanApprove(s, spender) /\ raised <= MaxUint,
           Approved(token, s, spender, raised))

DecreaseAllowance(s, spender, n) ==
  LET allowed == token.allowances[s][spender]
  IN  Call(s, CanApprove(s, spender) /\ allowed >= n,
           Approved(token, s, spender, allowed - n))

Burn(s, n) == Call(s, CanBurn(token, s, n), Burned(token, s, n))

BurnFrom(s, a, n) ==
  LET spent == Spent(token, a, s, n)
  IN  Call(s, CanSpend(token, a, s, n) /\ CanBurn(spent, a, n), Burned(spent, a, n))

\* The public functions every token contract inherits.
InheritedCall(s) ==
  \E n \in Amounts, a \in Address :
    \/ Transfer(s, a, n)
    \/ \E to \in Address : TransferFrom(s, a, to, n)
    \/ /\ s \in Approvers
       /\ \/ Approve(s, a, n)
          \/ IncreaseAllowance(s, a, n)
          \/ DecreaseAllowance(s, a, n)

\* Those of a contract that is ERC20Burnable.
BurningCall(s) ==
  \E n \in Amounts : Burn(s, n) \/ \E a \in Address : BurnFrom(s, a, n)
-----------------------------------------------------------------------------
Books ==
  INSTANCE Token WITH balances <- token.balances, totalSupply <- token.totalSupply

\* The supply is the sum of the balances, so that the additions and the
\* subtraction the code leaves unchecked never wrap around.
SupplyIsSum == token.totalSupply = Total(token.balances)

\* A step of the books: whatever calls approve, spend, transfer and burn do,
\* they mint, burn and move tokens, or leave the books alone.
BooksStep ==
  [Books!TokenNext]_<<token.balances, token.totalSupply>>
=============================================================================
