------------------------------ MODULE Trading -------------------------------
(***************************************************************************)
(* The orders of one chain of TokenVM behave as Market promises.           *)
(***************************************************************************)
EXTENDS TokenVM

CONSTANT Observed   \* a chain

ASSUME ObservedAssumption == Observed \in Chains

\* The orders the signers can create: CreateOrder refuses the others.
ObservedOffers ==
  {o \in [in : Named, inTick : Ticks, out : Named, outTick : Ticks,
          remaining : Values, owner : Accounts] : WellFormedOrder(o)}

Observation ==
  INSTANCE Market WITH Offers <- ObservedOffers, orders <- db[Observed].orders

\* Whatever the transactions do to balances, assets, loans and messages, of
\* the orders they show no more than Market: no order is created twice or
\* under an id of the past, changes owner, assets or price, grows, loses a
\* part of a block, or comes back after it was filled or closed.
OrdersFollowMarket == Observation!MarketSpec
=============================================================================
