----------------------------- MODULE OrderBook ------------------------------
(***************************************************************************)
(* The order book a node keeps in memory (tokenvm/orderbook/orderbook.go): *)
(* per pair of assets a heap of orders, and an index from an order to its  *)
(* pair.  Each operation runs under the lock of the book and is one        *)
(* operator from books to books.                                           *)
(*                                                                         *)
(* The heap belongs to the hypersdk.  Of its array only what this code may *)
(* rely on is modelled: a parent never comes after its children, by the    *)
(* rates.  Push and Remove return any such arrangement, so they are sets   *)
(* of books.  Which rates come first is a parameter: orderbook.go calls it *)
(* a max heap, and the library decides what the flag it passes means.      *)
(***************************************************************************)
EXTENDS Storage, Sequences, Functions

CONSTANTS
  TrackedPairs, \* pairs the configuration names
  TrackAll,     \* whether it names "*" instead
  MaxHeap       \* whether the flag given to heap.New puts high rates on top

Pairs == AssetIDs \X AssetIDs

ASSUME OrderBookAssumption ==
  /\ TrackedPairs \subseteq Pairs
  /\ TrackAll \in BOOLEAN /\ MaxHeap \in BOOLEAN
  /\ TrackAll => TrackedPairs = {}
  /\ Missing \notin Pairs /\ Missing \notin Seq(TxIDs)

\* heaps: the array of the heap of a pair, Missing while there is none.
\* pairOf: the index.  items: the records in memory; a record whose order has
\* left the book may still be read by a request that found it there.
Book == [heaps  : [Pairs -> Seq(TxIDs) \cup {Missing}],
         pairOf : [TxIDs -> Pairs \cup {Missing}],
         items  : [TxIDs -> Order \cup {Missing}]]

NewBook ==
  [heaps  |-> [p \in Pairs |-> IF p \in TrackedPairs THEN << >> ELSE Missing],
   pairOf |-> [id \in TxIDs |-> Missing],
   items  |-> [id \in TxIDs |-> Missing]]

PairID(order) == <<order.in, order.out>>

\* The rate of o, inTick / outTick, is at least that of p.
RateAtLeast(o, p) == o.inTick * p.outTick >= p.inTick * o.outTick

\* The heap puts o before p, or does not care.
NotAfter(o, p) == IF MaxHeap THEN RateAtLeast(o, p) ELSE RateAtLeast(p, o)

HeapOrdered(array, items) ==
  \A i \in 2 .. Len(array) :
    NotAfter(items[array[i \div 2]], items[array[i]])

Arrangements(ids, items) ==
  {array \in Bijection(1 .. Cardinality(ids), ids) : HeapOrdered(array, items)}

-----------------------------------------------------------------------------
\* The order is in the heap of the pair its index names.  The code looks for
\* it there and says of the opposite, once the index has it, that "this should
\* never happen".
Listed(b, id) ==
  /\ b.pairOf[id] # Missing
  /\ b.heaps[b.pairOf[id]] # Missing
  /\ id \in Range(b.heaps[b.pairOf[id]])

\* Mutant: a tracked pair gets a new heap with every order.
AddToNewHeap(b, id, order) ==
  LET pair  == PairID(order)
      items == [b.items EXCEPT ![id] = order]
  IN  IF b.heaps[pair] = Missing /\ ~TrackAll
      THEN {b}
      ELSE {[heaps  |-> [b.heaps EXCEPT ![pair] = <<id>>],
             pairOf |-> [b.pairOf EXCEPT ![id] = pair],
             items  |-> items]}

\* Only tracked pairs have a heap; "*" makes one for every pair that comes up.
Add(b, id, order) ==
  LET pair  == PairID(order)
      heap  == IF b.heaps[pair] = Missing THEN << >> ELSE b.heaps[pair]
      items == [b.items EXCEPT ![id] = order]
  IN  IF b.heaps[pair] = Missing /\ ~TrackAll
      THEN {b}
      ELSE {[heaps  |-> [b.heaps EXCEPT ![pair] = array],
             pairOf |-> [b.pairOf EXCEPT ![id] = pair],
             items  |-> items] : array \in Arrangements(Range(heap) \cup {id}, items)}

\* The books in which id has left its heap.
Unlisted(b, id) ==
  LET pair == b.pairOf[id]
  IN  {[b EXCEPT !.heaps[pair] = array] :
         array \in Arrangements(Range(b.heaps[pair]) \ {id}, b.items)}

\* Mutant: the index keeps an order that left the heap.
RemoveKeepingIndex(b, id) == IF Listed(b, id) THEN Unlisted(b, id) ELSE {b}

\* Mutant: the place in the array is cleared and not given up.
RemoveLeavingHole(b, id) ==
  IF ~Listed(b, id) THEN {b}
  ELSE LET pair == b.pairOf[id]
       IN  {[b EXCEPT !.pairOf[id] = Missing,
                      !.heaps[pair] = [i \in DOMAIN b.heaps[pair] |->
                        IF b.heaps[pair][i] = id THEN Missing ELSE b.heaps[pair][i]]]}

Remove(b, id) ==
  {[c EXCEPT !.pairOf[id] = Missing] :
     c \in IF Listed(b, id) THEN Unlisted(b, id) ELSE {b}}

\* The record changes where it is, under the eyes of whoever reads it.
UpdateRemaining(b, id, remaining) ==
  IF Listed(b, id) THEN {[b EXCEPT !.items[id].remaining = remaining]} ELSE {b}

\* At most limit records of a pair, in the order of the array.
Orders(b, pair, limit) ==
  LET heap == b.heaps[pair]
  IN  IF heap = Missing THEN << >>
      ELSE SubSeq(heap, 1, IF limit < Len(heap) THEN limit ELSE Len(heap))
=============================================================================
