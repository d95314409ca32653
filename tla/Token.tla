------------------------------- MODULE Token --------------------------------
(***************************************************************************)
(* What the token contracts promise of their books: tokens are created and *)
(* destroyed for one account at a time, together with the total supply,    *)
(* and otherwise only move between two accounts.  Who may do so is left    *)
(* to the contracts, which are shown to implement this specification.      *)
(***************************************************************************)
EXTENDS Totals

CONSTANTS
  Address,  \* the addresses
  MaxUint   \* the largest uint256

TokenAssumption == IsFiniteSet(Address) /\ MaxUint \in Nat

VARIABLES balances, totalSupply

Uint == 0 .. MaxUint

TokenInit ==
  /\ balances \in [Address -> Uint]
  /\ totalSupply \in Uint
  /\ totalSupply = Total(balances)

MintTo(a, n) ==
  /\ totalSupply + n <= MaxUint
  /\ totalSupply' = totalSupply + n
  /\ balances' = [balances EXCEPT ![a] = @ + n]

BurnOf(a, n) ==
  /\ n <= balances[a]
  /\ totalSupply' = totalSupply - n
  /\ balances' = [balances EXCEPT ![a] = @ - n]

\* Taken from the one account, then given to the other.
Moved(f, a, b, n) ==
  LET taken == [f EXCEPT ![a] = @ - n]
  IN  [taken EXCEPT ![b] = @ + n]

Move(a, b, n) ==
  /\ n <= balances[a]
  /\ totalSupply' = totalSupply
  /\ balances' = Moved(balances, a, b, n)

TokenNext ==
  \E a \in Address, n \in Uint :
    \/ MintTo(a, n)
    \/ BurnOf(a, n)
    \/ \E b \in Address : Move(a, b, n)

TokenSpec == TokenInit /\ [][TokenNext]_<<balances, totalSupply>>
=============================================================================
