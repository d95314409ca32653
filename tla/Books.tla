------------------------------- MODULE Books --------------------------------
(***************************************************************************)
(* What the state of one chain adds up to, per asset: how much exists, and *)
(* how much of it is held, locked in orders and lent to other chains.      *)
(***************************************************************************)
EXTENDS Storage, Totals, Integers

SupplyOf(record) == IF record = Missing THEN 0 ELSE record.supply

Supply(d, a) == SupplyOf(d.assets[a])

Held(d, a) == Total([pk \in PublicKeys |-> GetBalance(d, pk, a)])

LockedIn(record, a) ==
  IF record # Missing /\ record.out = a THEN record.remaining ELSE 0

Locked(d, a) == Total([id \in TxIDs |-> LockedIn(d.orders[id], a)])

Lent(d, a) == Total([c \in Chains |-> GetLoan(d, a, c)])

\* What exists on record and is nowhere on the chain.
Gone(d, a) == Supply(d, a) - Held(d, a) - Locked(d, a) - Lent(d, a)
=============================================================================
