------------------------------- MODULE Market -------------------------------
(***************************************************************************)
(* What the order actions of tokenvm promise about the orders of a chain:  *)
(* an order is created once, under an id never used before; it is sold in  *)
(* whole blocks of its outTick; and it disappears when nothing is left or  *)
(* when it is closed.  Balances, fees and messages are left aside: TokenVM *)
(* is shown to implement this specification (Trading), and Node builds the *)
(* order book of a node on it.                                             *)
(***************************************************************************)
EXTENDS Storage

CONSTANT Offers   \* the orders that are created

ASSUME MarketAssumption ==
  /\ Offers \subseteq Order
  /\ \A o \in Offers : o.outTick > 0 /\ o.remaining > 0 /\ o.remaining % o.outTick = 0

VARIABLES
  orders,  \* the open orders
  used     \* ids of the transactions that created something

MarketInit ==
  /\ orders = [id \in TxIDs |-> Missing]
  /\ used = {}

Open(id) == orders[id] # Missing

Create(id, offer) ==
  /\ id \notin used
  /\ orders' = [orders EXCEPT ![id] = offer]
  /\ used' = used \cup {id}

\* What is left of an order of which a part is sold.
Left(order, sold) ==
  IF sold = order.remaining
  THEN Missing
  ELSE [order EXCEPT !.remaining = order.remaining - sold]

Sell(id, sold) ==
  /\ Open(id)
  /\ 0 < sold /\ sold <= orders[id].remaining
  /\ sold % orders[id].outTick = 0
  /\ orders' = [orders EXCEPT ![id] = Left(orders[id], sold)]
  /\ used' = used

Close(id) ==
  /\ Open(id)
  /\ orders' = [orders EXCEPT ![id] = Missing]
  /\ used' = used

\* Everything else leaves the orders alone and may use up ids.
Other ==
  /\ orders' = orders
  /\ used \subseteq used'

MarketNext ==
  \/ Other
  \/ \E id \in TxIDs :
       \/ Close(id)
       \/ \E sold \in Amount : Sell(id, sold)
       \/ \E offer \in Offers : Create(id, offer)

MarketSpec == MarketInit /\ [][MarketNext]_<<orders, used>>
=============================================================================
