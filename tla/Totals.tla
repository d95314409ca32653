------------------------------- MODULE Totals -------------------------------
(***************************************************************************)
(* The sum of the values of a function, written without recursion so that  *)
(* the theorems about conservation can be proved: f[x] is the number of    *)
(* unit coins that lie at x, and the total is the number of coins.         *)
(***************************************************************************)
EXTENDS Naturals, FiniteSets

Coins(f) == UNION { {x} \X (1 .. f[x]) : x \in DOMAIN f }

Total(f) == Cardinality(Coins(f))
=============================================================================
