----------------------------- MODULE Assessment -----------------------------
(***************************************************************************)
(* The contract of SCM-Starter: an account of its owner, who pays a fee of *)
(* one for each computation.  A call of anybody else reverts, and so does  *)
(* arithmetic that leaves the range of uint256; what reverts is undone by  *)
(* the EVM and is no step.                                                 *)
(***************************************************************************)
EXTENDS Integers

CONSTANTS
  MaxUint,      \* the largest uint256
  InitBalance,  \* what the constructor sets
  Numbers,      \* the amounts and numbers the owner chooses
  MaxCalls      \* calls the model makes

Uint == 0 .. MaxUint

AssessmentAssumption ==
  MaxUint \in Nat /\ InitBalance \in Uint /\ Numbers \subseteq Uint /\ MaxCalls \in Nat

VARIABLES
  balance, square, factorial,
  paidIn,   \* history: deposits minus withdrawals
  charged,  \* history: fees paid without a computation
  results   \* history: computations that gave a result

vars == <<balance, square, factorial, paidIn, charged, results>>

Init ==
  /\ balance = InitBalance
  /\ square = 0
  /\ factorial = 1
  /\ paidIn = 0
  /\ charged = 0
  /\ results = 0

Deposit(n) ==
  /\ balance + n <= MaxUint
  /\ balance' = balance + n
  /\ paidIn' = paidIn + n
  /\ UNCHANGED <<square, factorial, charged, results>>

Withdraw(n) ==
  /\ balance >= n
  /\ balance' = balance - n
  /\ paidIn' = paidIn - n
  /\ UNCHANGED <<square, factorial, charged, results>>

\* The effect of payFee, which the computations call first.
FeePaid == balance >= 1 /\ balance' = balance - 1

PayFee ==
  /\ FeePaid
  /\ charged' = charged + 1
  /\ UNCHANGED <<square, factorial, paidIn, results>>

SquareOfNum(n) ==
  /\ FeePaid
  /\ n * n <= MaxUint
  /\ square' = n * n
  /\ results' = results + 1
  /\ UNCHANGED <<factorial, paidIn, charged>>

Factorial[n \in Nat] == IF n = 0 THEN 1 ELSE n * Factorial[n - 1]

FactorialOfNum(n) ==
  /\ FeePaid
  /\ Factorial[n] <= MaxUint
  /\ factorial' = Factorial[n]
  /\ results' = results + 1
  /\ UNCHANGED <<square, paidIn, charged>>

Next ==
  \E n \in Numbers :
    \/ Deposit(n)
    \/ Withdraw(n)
    \/ /\ charged + results < MaxCalls
       /\ PayFee \/ SquareOfNum(n) \/ FactorialOfNum(n)

Spec == Init /\ [][Next]_vars
-----------------------------------------------------------------------------
\* Every result was paid for, and nothing else was charged but a fee the owner
\* paid by itself.
ResultsArePaidFor ==
  /\ balance \in Uint
  /\ balance = InitBalance + paidIn - charged - results
=============================================================================
