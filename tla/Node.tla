-------------------------------- MODULE Node --------------------------------
(***************************************************************************)
(* A node of a tokenvm chain: blocks of order transactions (Market), the   *)
(* controller that processes them once they are accepted, the order book,  *)
(* the database of results, RPC requests that run meanwhile, and restarts. *)
(*                                                                         *)
(* Blocks are executed before they are accepted and accepted before they   *)
(* are processed, so the chain is ahead of the controller.  Accepted walks *)
(* the results of a block; each call into the book takes its lock, so that *)
(* requests run between two of them.  Only the transactions on orders are  *)
(* modelled: the controller stores the results of the others, too, and     *)
(* does nothing else with them but count.                                  *)
(***************************************************************************)
EXTENDS Market, OrderBook

CONSTANTS
  Asked,        \* pairs that are asked for by RPC
  OrdersToSend, \* most orders in a reply
  MaxBlock,     \* bound on the transactions of a block
  MaxRestarts   \* bound on the restarts

ASSUME NodeAssumption ==
  /\ Asked \subseteq Pairs
  /\ OrdersToSend \in Nat /\ MaxBlock \in Nat /\ MaxRestarts \in Nat
  /\ Missing \notin BOOLEAN

VARIABLES
  block,    \* results that are executed and not accepted
  walk,     \* results of the block Accepted works on, <<>> when it does not
  next,     \* the result it comes to next
  book,     \* the order book
  metaDB,   \* per transaction that created an order, its stored result
  left,     \* records a request has taken from the book and not yet written
  reply,    \* what it has written of its reply
  restarts, \* the number of restarts
  missed    \* orders created before the last restart

chain == <<orders, used, block>>
controller == <<walk, next, book, metaDB>>
request == <<left, reply>>
vars == <<chain, controller, request, restarts, missed>>

\* What Accepted reads of a transaction and its result: for an order that is
\* created the order, for a fill what its output says remains of it.
Created(id, order, ok) == [kind |-> "CreateOrder", id |-> id, ok |-> ok, order |-> order]
Filled(id, remaining, ok) ==
  [kind |-> "FillOrder", id |-> id, ok |-> ok, remaining |-> remaining]
ClosedBy(id, ok) == [kind |-> "CloseOrder", id |-> id, ok |-> ok]

Result ==
  [kind : {"CreateOrder"}, id : TxIDs, ok : BOOLEAN, order : Order]
    \cup [kind : {"FillOrder"}, id : TxIDs, ok : BOOLEAN, remaining : Amount]
    \cup [kind : {"CloseOrder"}, id : TxIDs, ok : BOOLEAN]

Init ==
  /\ MarketInit
  /\ block = << >> /\ walk = << >> /\ next = 1
  /\ book = NewBook
  /\ metaDB = [id \in TxIDs |-> Missing]
  /\ left = << >> /\ reply = << >>
  /\ restarts = 0 /\ missed = {}

-----------------------------------------------------------------------------
\* The chain executes a transaction.

Include(result) ==
  /\ Len(block) < MaxBlock
  /\ block' = Append(block, result)
  /\ UNCHANGED <<controller, request, restarts, missed>>

ExecuteCreate(id, offer) ==
  /\ Create(id, offer)
  /\ Include(Created(id, offer, TRUE))

ExecuteFill(id, sold) ==
  /\ Sell(id, sold)
  /\ Include(Filled(id, orders[id].remaining - sold, TRUE))

ExecuteClose(id) ==
  /\ Close(id)
  /\ Include(ClosedBy(id, TRUE))

\* A transaction that fails: the order cannot be paid for, is gone, has
\* another owner.  Its result has no output.
ExecuteFailing(id, offer) ==
  /\ \/ /\ id \notin used /\ used' = used \cup {id}
        /\ Include(Created(id, offer, FALSE))
     \/ /\ used' = used
        /\ \/ Include(Filled(id, 0, FALSE))
           \/ Include(ClosedBy(id, FALSE))
  /\ orders' = orders

Execute ==
  \E id \in TxIDs :
    \/ \E offer \in Offers : ExecuteCreate(id, offer) \/ ExecuteFailing(id, offer)
    \/ \E sold \in Amount : ExecuteFill(id, sold)
    \/ ExecuteClose(id)

-----------------------------------------------------------------------------
\* Controller.Accepted

Accept ==
  /\ walk = << >> /\ block # << >>
  /\ walk' = block /\ next' = 1 /\ block' = << >>
  /\ UNCHANGED <<orders, used, book, metaDB, request, restarts, missed>>

\* Mutant: the success of a result is not looked at.
ApplyAlways(b, r) ==
  CASE r.kind = "CreateOrder" -> Add(b, r.id, r.order)
    [] r.kind = "FillOrder"   -> IF r.remaining = 0
                                 THEN Remove(b, r.id)
                                 ELSE UpdateRemaining(b, r.id, r.remaining)
    [] r.kind = "CloseOrder"  -> Remove(b, r.id)

\* Mutant: the record is updated before it is removed.
ApplyUpdatingFirst(b, r) ==
  IF ~r.ok THEN {b}
  ELSE CASE r.kind = "CreateOrder" -> Add(b, r.id, r.order)
         [] r.kind = "FillOrder"   -> UNION {IF r.remaining = 0 THEN Remove(c, r.id) ELSE {c} :
                                               c \in UpdateRemaining(b, r.id, r.remaining)}
         [] r.kind = "CloseOrder"  -> Remove(b, r.id)

\* A fill of which nothing remains and a close take the order out of the book.
Apply(b, r) ==
  IF ~r.ok THEN {b}
  ELSE CASE r.kind = "CreateOrder" -> Add(b, r.id, r.order)
         [] r.kind = "FillOrder"   -> IF r.remaining = 0
                                      THEN Remove(b, r.id)
                                      ELSE UpdateRemaining(b, r.id, r.remaining)
         [] r.kind = "CloseOrder"  -> Remove(b, r.id)

\* Mutant: Accepted returns once an order was filled, instead of going on.
ProcessReturning ==
  /\ next <= Len(walk)
  /\ book' \in Apply(book, walk[next])
  /\ IF walk[next].kind = "FillOrder" /\ walk[next].ok /\ walk[next].remaining = 0
     THEN walk' = << >> /\ next' = 1
     ELSE walk' = walk /\ next' = next + 1
  /\ UNCHANGED <<chain, metaDB, request, restarts, missed>>

Process ==
  /\ next <= Len(walk)
  /\ book' \in Apply(book, walk[next])
  /\ next' = next + 1
  /\ UNCHANGED <<chain, walk, metaDB, request, restarts, missed>>

\* The results of the block, collected in a batch, reach the disk at once.
Stored(db, results) ==
  [id \in TxIDs |->
     IF \E r \in Range(results) : r.kind = "CreateOrder" /\ r.id = id
     THEN (CHOOSE r \in Range(results) : r.kind = "CreateOrder" /\ r.id = id).ok
     ELSE db[id]]

\* Mutant: the batch is written before the results are walked.
ProcessedAnyway == next \in Nat

Processed == next > Len(walk)

WriteBatch ==
  /\ walk # << >> /\ Processed
  /\ metaDB' = Stored(metaDB, walk)
  /\ walk' = << >> /\ next' = 1
  /\ UNCHANGED <<chain, book, request, restarts, missed>>

-----------------------------------------------------------------------------
\* JSONRPCServer.Orders.  The records are taken under the lock of the book;
\* the reply is written after the lock is released, record by record.

AskOrders ==
  /\ left = << >>
  /\ \E pair \in Asked : left' = Orders(book, pair, OrdersToSend)
  /\ reply' = << >>
  /\ UNCHANGED <<chain, controller, restarts, missed>>

WriteOrder ==
  /\ left # << >>
  /\ reply' = Append(reply, [id |-> Head(left), order |-> book.items[Head(left)]])
  /\ left' = Tail(left)
  /\ UNCHANGED <<chain, controller, restarts, missed>>

-----------------------------------------------------------------------------
\* The node stops, at any point, and starts again: Initialize makes a new
\* book.  What is on disk stays; a block that was being processed may be given
\* to Accepted again or not.
IdsCreated(results) == {r.id : r \in {q \in Range(results) : q.kind = "CreateOrder"}}

Restart ==
  /\ restarts < MaxRestarts
  /\ restarts' = restarts + 1
  /\ book' = NewBook
  /\ \E again \in BOOLEAN : walk' = IF again THEN walk ELSE << >>
  /\ next' = 1
  /\ left' = << >> /\ reply' = << >>
  /\ missed' = used \ IdsCreated(walk' \o block)
  /\ UNCHANGED <<chain, metaDB>>

Next == Execute \/ Accept \/ Process \/ WriteBatch \/ AskOrders \/ WriteOrder \/ Restart

\* Accepted is called for every accepted block and runs to its end, and so
\* does a request.  Nothing makes anybody submit a transaction, ask or restart.
Fairness == WF_vars(Accept) /\ WF_vars(Process) /\ WF_vars(WriteBatch) /\ WF_vars(WriteOrder)

Spec == Init /\ [][Next]_vars /\ Fairness

-----------------------------------------------------------------------------
\* Every variable holds values of its kind.
TypeOK ==
  /\ orders \in [TxIDs -> Order \cup {Missing}] /\ used \in SUBSET TxIDs
  /\ Range(block) \subseteq Result /\ Len(block) <= MaxBlock
  /\ Range(walk) \subseteq Result /\ next \in 1 .. MaxBlock + 1
  /\ book \in Book
  /\ metaDB \in [TxIDs -> BOOLEAN \cup {Missing}]
  /\ Range(left) \subseteq TxIDs
  /\ restarts \in 0 .. MaxRestarts /\ missed \in SUBSET TxIDs

\* An order in the index is in its heap and the other way round: "this should
\* never happen", the code says of the opposite, and would forget the order.
IndexMatchesHeaps ==
  \A id \in TxIDs :
    /\ book.pairOf[id] # Missing => Listed(book, id)
    /\ \A pair \in Pairs :
         book.heaps[pair] # Missing /\ id \in Range(book.heaps[pair]) =>
           book.pairOf[id] = pair /\ PairID(book.items[id]) = pair

\* When nothing is under way the book shows the open orders of the pairs it
\* tracks as the chain has them, but for those created before the last restart.
Tracked(pair) == TrackAll \/ pair \in TrackedPairs

UpToDate == block = << >> /\ walk = << >>

BookAgrees ==
  UpToDate =>
    \A id \in TxIDs :
      /\ Listed(book, id) => book.items[id] = orders[id]
      /\ Open(id) /\ Tracked(PairID(orders[id])) /\ id \notin missed => Listed(book, id)

\* A client that finds the result of its order finds the order in the book,
\* unless the chain has filled or closed it since.
FoundOrdersAreListed ==
  \A id \in TxIDs :
    /\ metaDB[id] = TRUE /\ Open(id)
    /\ Tracked(PairID(orders[id])) /\ id \notin missed
    => Listed(book, id)

\* A reply is behind the chain at worst: every order in it has a positive
\* number of whole blocks, and no less than the chain has left of it.
RepliesLagOnly ==
  \A i \in DOMAIN reply :
    LET shown == reply[i].order
        id    == reply[i].id
    IN  /\ shown.remaining > 0 /\ shown.remaining % shown.outTick = 0
        /\ Open(id) => shown.remaining >= orders[id].remaining

\* An executed order is found at last, whatever else happens to it, unless a
\* restart comes first and its block is not given to Accepted again.
OrdersAreFound ==
  \A id \in TxIDs : id \in used ~> metaDB[id] # Missing \/ id \in missed

-----------------------------------------------------------------------------
\* controller.go:168: the book is "used to track all open orders".
BookTracksAllOpenOrders ==
  UpToDate =>
    \A id \in TxIDs : Open(id) /\ Tracked(PairID(orders[id])) => Listed(book, id)

\* orderbook.go:53: the heap is there "so we return the best rates in order",
\* whichever rates the heap takes for the best.
RatesInOrder ==
  left = << >> =>
    \A i, j \in DOMAIN reply : i < j => NotAfter(reply[i].order, reply[j].order)
=============================================================================
