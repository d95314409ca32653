----------------------------- MODULE LoanSystem -----------------------------
(***************************************************************************)
(* The cooperative loan contracts.  FunctionsandErrors.sol (repeated with  *)
(* a fallback function in FallBackFunction.sol) lends from one settable    *)
(* account, a loan at a time; loanSystem.sol lends between any accounts.   *)
(* Every function may be called by anybody for any account.                *)
(***************************************************************************)
EXTENDS Totals_proofs

CONSTANTS
  Address,   \* the addresses
  Unset,     \* address(0), the cooperative account before it is set
  MaxUint,   \* the largest uint256
  Amounts,   \* the amounts callers choose
  MaxLoans   \* loans the model grants

LoanAssumption ==
  /\ IsFiniteSet(Address)
  /\ Unset \in Address
  /\ MaxUint \in Nat
  /\ Amounts \subseteq 0 .. MaxUint
  /\ MaxLoans \in Nat

VARIABLES
  balances, debts,
  coopAccount,
  loans,  \* number of loans granted: the bound of the model
  funds,  \* history: what was deposited minus what was withdrawn
  lent    \* history: what was lent out minus what came back, per lender

vars == <<balances, debts, coopAccount, loans, funds, lent>>

Zero == [a \in Address |-> 0]

Init ==
  /\ balances = Zero
  /\ debts = Zero
  /\ coopAccount = Unset
  /\ loans = 0
  /\ funds = Zero
  /\ lent = Zero

Uint == 0 .. MaxUint

\* Checked arithmetic: a step that would leave the range reverts.
InRange(f) == \A a \in Address : f[a] \in Uint

Change(f, a, n) == [f EXCEPT ![a] = @ + n]

Deposit(a, n) ==
  /\ balances' = Change(balances, a, n)
  /\ InRange(balances')
  /\ funds' = Change(funds, a, n)
  /\ UNCHANGED <<debts, coopAccount, loans, lent>>

Withdraw(a, n) ==
  /\ balances[a] >= n
  /\ balances' = Change(balances, a, -n)
  /\ funds' = Change(funds, a, -n)
  /\ UNCHANGED <<debts, coopAccount, loans, lent>>

\* loanSystem.sol asks for a balance first: somebody without one cannot even
\* withdraw nothing.
WithdrawSome(a, n) == balances[a] > 0 /\ Withdraw(a, n)

SetCoopAccount(c) ==
  /\ coopAccount' = c
  /\ UNCHANGED <<balances, debts, loans, funds, lent>>

DisburseLoan(c, a, n) ==
  /\ loans < MaxLoans
  /\ balances[c] >= n
  /\ balances' = Change(Change(balances, c, -n), a, n)
  /\ debts' = Change(debts, a, n)
  /\ InRange(balances') /\ InRange(debts')
  /\ loans' = loans + 1
  /\ lent' = Change(lent, c, n)
  /\ UNCHANGED <<coopAccount, funds>>

RequestLoan(a, n) == debts[a] = 0 /\ DisburseLoan(coopAccount, a, n)

\* Mutant: what is repaid stays on the debt.
RepayKeepingDebt(a, c, n) ==
  /\ balances[a] >= n
  /\ debts[a] >= n
  /\ balances' = Change(Change(balances, a, -n), c, n)
  /\ InRange(balances')
  /\ lent' = Change(lent, c, -n)
  /\ UNCHANGED <<debts, coopAccount, loans, funds>>

\* What is repaid comes off the debt, which cannot fall below zero.
RepayLoanTo(a, c, n) ==
  /\ balances[a] >= n
  /\ debts[a] >= n
  /\ balances' = Change(Change(balances, a, -n), c, n)
  /\ InRange(balances')
  /\ debts' = Change(debts, a, -n)
  /\ lent' = Change(lent, c, -n)
  /\ UNCHANGED <<coopAccount, loans, funds>>

RepayLoan(a, n) == RepayLoanTo(a, coopAccount, n)

CoopNext ==
  \E a \in Address :
    \/ SetCoopAccount(a)
    \/ \E n \in Amounts :
         \/ Deposit(a, n)
         \/ Withdraw(a, n)
         \/ RequestLoan(a, n)
         \/ RepayLoan(a, n)

CoopSpec == Init /\ [][CoopNext]_vars

EventNext ==
  \E a \in Address, n \in Amounts :
    \/ Deposit(a, n)
    \/ WithdrawSome(a, n)
    \/ \E c \in Address : DisburseLoan(c, a, n) \/ RepayLoanTo(a, c, n)

EventSpec == Init /\ [][EventNext]_vars
-----------------------------------------------------------------------------
Positive(f) == [a \in Address |-> IF f[a] > 0 THEN f[a] ELSE 0]

Negative(f) == [a \in Address |-> IF f[a] < 0 THEN -f[a] ELSE 0]

SumOver(f) == Total(Positive(f)) - Total(Negative(f))

TypeOK ==
  /\ balances \in [Address -> Uint]
  /\ debts \in [Address -> Uint]
  /\ coopAccount \in Address
  /\ loans \in 0 .. MaxLoans
  /\ funds \in [Address -> Int]
  /\ lent \in [Address -> Int]

\* Every account's cash is explained: its own funds, plus the loan it still
\* owes, minus what it has lent and not got back; also when the treasury
\* borrows from itself, or the cooperative account changes while loans are
\* open and the repayments go to an account that never lent.
CashIsExplained ==
  \A a \in Address : balances[a] = funds[a] + debts[a] - lent[a]

\* What the borrowers owe is what the treasuries together have out.
DebtsAreLent == SumOver(debts) = SumOver(lent)

\* The cooperative version never lends to somebody in debt: until he has paid
\* everything back his debt only falls, whoever is the cooperative account.
OneLoanAtATime ==
  \A a \in Address : debts[a] > 0 => debts'[a] <= debts[a]
=============================================================================
