---------------------------- MODULE Node_proofs -----------------------------
(***************************************************************************)
(* The node for every number of orders, every size of blocks and whatever  *)
(* its requests and restarts: its book shows the orders of the chain as    *)
(* they were when the controller processed its last result.                *)
(*                                                                         *)
(* The chain is ahead of the controller by the results that wait.  These   *)
(* tell of a history, from the orders the controller knows of to those of  *)
(* the chain; each step of the chain makes it longer, each result that is  *)
(* processed takes the book one step along it, and a restart takes it back *)
(* to its beginning.                                                       *)
(***************************************************************************)
EXTENDS Node, FiniteSetTheorems, SequenceTheorems, TLAPS

\* The orders of the chain at some time.
Records == [TxIDs -> Order \cup {Missing}]

\* What is open is a positive number of whole blocks.
WholeBlocks(order) ==
  /\ order \in Order
  /\ order.outTick > 0 /\ order.remaining > 0
  /\ order.remaining % order.outTick = 0

\* new is what is left of old.
LeftOf(old, new) ==
  PairID(new) = PairID(old) /\ new.remaining <= old.remaining

\* A result tells what its transaction made of an order.
Turns(result, id, old, new) ==
  IF ~result.ok \/ result.id # id THEN new = old
  ELSE IF result.kind = "CreateOrder" THEN old = Missing /\ new = result.order
  ELSE IF result.kind = "FillOrder"
       THEN /\ old # Missing
            /\ new = IF result.remaining = 0 THEN Missing
                     ELSE [old EXCEPT !.remaining = result.remaining]
  ELSE new = Missing

Follows(old, result, new) ==
  \A id \in TxIDs : Turns(result, id, old[id], new[id])

Creates(result, id) == result.kind = "CreateOrder" /\ result.id = id

\* The orders that results tell of, from before the first to after the last.
Past(h, results, ids, now) ==
  /\ h \in [1 .. Len(results) + 1 -> Records]
  /\ h[Len(results) + 1] = now
  /\ \A i \in 1 .. Len(results) : Follows(h[i], results[i], h[i + 1])

\* Whatever is open at some time was created by a used id.
PastWhole(h, results, ids) ==
  \A i \in 1 .. Len(results) + 1, id \in TxIDs :
    h[i][id] # Missing => id \in ids /\ WholeBlocks(h[i][id])

\* As long as an order is there it only falls.
PastFalls(h, results) ==
  \A i, k \in 1 .. Len(results) + 1, id \in TxIDs :
    i <= k /\ h[i][id] # Missing /\ h[k][id] # Missing => LeftOf(h[i][id], h[k][id])

\* An order appears by a result that creates it.
PastBorn(h, results) ==
  \A i, k \in 1 .. Len(results) + 1, id \in TxIDs :
    i <= k /\ h[i][id] = Missing /\ h[k][id] # Missing =>
      \E c \in i .. k - 1 : Creates(results[c], id)

\* No order is there before the result that creates it, and none has two.
PastFresh(h, results, ids) ==
  \A c \in 1 .. Len(results), id \in TxIDs :
    Creates(results[c], id) =>
      /\ id \in ids
      /\ \A i \in 1 .. c : h[i][id] = Missing
      /\ \A d \in 1 .. Len(results) : Creates(results[d], id) => d = c

History(h, results, ids, now) ==
  /\ Past(h, results, ids, now)
  /\ PastWhole(h, results, ids) /\ PastFalls(h, results)
  /\ PastBorn(h, results) /\ PastFresh(h, results, ids)

\* The results the controller has not come to the end of.
Todo == walk \o block

\* The index and the heaps of a book are in step.
InStep(b) ==
  /\ b \in Book
  /\ \A pair \in TrackedPairs : b.heaps[pair] # Missing
  /\ \A id \in TxIDs :
       b.pairOf[id] # Missing =>
         /\ Listed(b, id)
         /\ b.items[id] # Missing /\ PairID(b.items[id]) = b.pairOf[id]
  /\ \A id \in TxIDs, pair \in Pairs :
       b.heaps[pair] # Missing /\ id \in Range(b.heaps[pair]) => b.pairOf[id] = pair

\* A book shows the orders of some time, but for those it missed.
Shows(b, now, without) ==
  /\ InStep(b)
  /\ \A id \in TxIDs :
       /\ Listed(b, id) => b.items[id] = now[id]
       /\ now[id] # Missing /\ Tracked(PairID(now[id])) /\ id \notin without => Listed(b, id)

\* A record of an order is of now or of a time before.
Behind(order, id, now) ==
  now[id] # Missing => order.remaining >= now[id].remaining

\* A record in memory is at worst behind what is still to come.
RecordsLag(b, h, results, first, ids) ==
  \A id \in TxIDs :
    b.items[id] # Missing =>
      /\ id \in ids /\ WholeBlocks(b.items[id])
      /\ \A i \in first .. Len(results) + 1 : Behind(b.items[id], id, h[i])

Reply == [id : TxIDs, order : Order]

NodeTypes ==
  /\ orders \in Records /\ used \subseteq TxIDs
  /\ block \in Seq(Result) /\ Len(block) <= MaxBlock
  /\ walk \in Seq(Result) /\ Len(walk) <= MaxBlock
  /\ next \in 1 .. Len(walk) + 1
  /\ metaDB \in [TxIDs -> BOOLEAN \cup {Missing}]
  /\ restarts \in 0 .. MaxRestarts
  /\ missed \subseteq used

\* The book is where the controller is in the history of the chain.
Replayed ==
  \E h : /\ History(h, Todo, used, orders)
         /\ Shows(book, h[next], missed)
         /\ RecordsLag(book, h, Todo, next, used)

\* What is stored is not told of again.
StoredOnce ==
  \A id \in TxIDs : metaDB[id] # Missing =>
    /\ id \in used
    /\ \A c \in 1 .. Len(Todo) : ~Creates(Todo[c], id)

\* What a request has taken or written.
Requested ==
  /\ left \in Seq(TxIDs) /\ reply \in Seq(Reply)
  /\ \A id \in Range(left) : book.items[id] # Missing
  /\ \A i \in 1 .. Len(reply) :
       /\ reply[i].id \in used /\ WholeBlocks(reply[i].order)
       /\ Behind(reply[i].order, reply[i].id, orders)

NodeInv == NodeTypes /\ Replayed /\ StoredOnce /\ Requested

-----------------------------------------------------------------------------
\* Sequences and results.

\* What is in a concatenation is in its first part or in its second.
LEMMA ConcatAt ==
  ASSUME NEW S, NEW u \in Seq(S), NEW v \in Seq(S)
  PROVE  /\ u \o v \in Seq(S) /\ Len(u \o v) = Len(u) + Len(v)
         /\ \A i \in 1 .. Len(u) : (u \o v)[i] = u[i]
         /\ \A i \in 1 .. Len(v) : (u \o v)[Len(u) + i] = v[i]
<1>1. /\ u \o v \in Seq(S) /\ Len(u \o v) = Len(u) + Len(v)
      /\ \A i \in 1 .. Len(u) + Len(v) :
           (u \o v)[i] = IF i <= Len(u) THEN u[i] ELSE v[i - Len(u)]
  BY ConcatProperties
<1>2. Len(u) \in Nat /\ Len(v) \in Nat
  OBVIOUS
<1>3. ASSUME NEW i \in 1 .. Len(v)
      PROVE  (u \o v)[Len(u) + i] = v[i]
  <2>1. Len(u) + i \in 1 .. Len(u) + Len(v) /\ ~(Len(u) + i <= Len(u))
        /\ Len(u) + i - Len(u) = i
    BY <1>2
  <2> QED
    BY <1>1, <2>1
<1>4. ASSUME NEW i \in 1 .. Len(u)
      PROVE  (u \o v)[i] = u[i]
  BY <1>1, <1>2
<1> QED
  BY <1>1, <1>3, <1>4

\* A longer sequence agrees with the shorter.
LEMMA AppendAt ==
  ASSUME NEW S, NEW u \in Seq(S), NEW x \in S
  PROVE  /\ Append(u, x) \in Seq(S) /\ Len(Append(u, x)) = Len(u) + 1
         /\ \A i \in 1 .. Len(u) : Append(u, x)[i] = u[i]
         /\ Append(u, x)[Len(u) + 1] = x
OBVIOUS

\* An array made of a finite set holds its elements.
LEMMA ArrayOfSet ==
  ASSUME NEW S, IsFiniteSet(S), NEW a \in Bijection(1 .. Cardinality(S), S)
  PROVE  a \in Seq(S) /\ Range(a) = S
<1>1. PICK n \in Nat : n = Cardinality(S)
  BY FS_CardinalityType
<1>2. a \in [1 .. n -> S] /\ a \in Surjection(1 .. n, S)
  BY <1>1 DEF Bijection, Injection
<1>3. a \in Seq(S) /\ DOMAIN a = 1 .. n
  BY <1>2
<1> QED
  BY <1>2, <1>3 DEF Surjection, Range

\* What a result has depends on its kind.
LEMMA ResultFields ==
  ASSUME NEW r \in Result
  PROVE  /\ r.kind \in {"CreateOrder", "FillOrder", "CloseOrder"}
         /\ r.id \in TxIDs /\ r.ok \in BOOLEAN
         /\ r.kind = "CreateOrder" => r.order \in Order
         /\ r.kind = "FillOrder" => r.remaining \in Amount
BY DEF Result

\* Amounts are numbers.
LEMMA AmountNat == Amount \subseteq Nat
BY StorageAssumption DEF Amount

-----------------------------------------------------------------------------
\* Histories.

\* A step of the chain that a result tells of.
Advances(now, result, new, before, after) ==
  /\ now \in Records /\ new \in Records /\ before \subseteq after
  /\ Follows(now, result, new)
  /\ \A id \in TxIDs :
       /\ new[id] # Missing => id \in after /\ WholeBlocks(new[id])
       /\ now[id] # Missing /\ new[id] # Missing => LeftOf(now[id], new[id])
       /\ now[id] = Missing /\ new[id] # Missing => Creates(result, id)
       /\ Creates(result, id) => id \notin before /\ id \in after

\* h with one time more, after the n of h.
Prolonged(h, n, new) == [i \in 1 .. n + 1 |-> IF i <= n THEN h[i] ELSE new]

\* When nothing waits the history is the present.
LEMMA HistoryStarts ==
  ASSUME NEW now \in Records, NEW ids,
         \A id \in TxIDs : now[id] = Missing
  PROVE  History([i \in 1 .. 1 |-> now], << >>, ids, now)
<1> DEFINE h == [i \in 1 .. 1 |-> now]
<1>1. Len(<< >>) = 0 /\ h \in [1 .. 1 -> Records] /\ h[1] = now
  OBVIOUS
<1> HIDE DEF h
<1>2. \A i \in 1 .. Len(<< >>) + 1 : h[i] = now
  BY <1>1
<1>3. Past(h, << >>, ids, now)
  BY <1>1 DEF Past
<1>4. PastWhole(h, << >>, ids) /\ PastFalls(h, << >>) /\ PastBorn(h, << >>)
  BY <1>2 DEF PastWhole, PastFalls, PastBorn
<1>5. PastFresh(h, << >>, ids)
  BY <1>1 DEF PastFresh
<1> QED
  BY <1>3, <1>4, <1>5 DEF History, h

\* A history grows with the chain.
LEMMA HistoryGrows ==
  ASSUME NEW h, NEW results \in Seq(Result), NEW ids, NEW now,
         History(h, results, ids, now),
         NEW r \in Result, NEW new, NEW after, Advances(now, r, new, ids, after)
  PROVE  History(Prolonged(h, Len(results) + 1, new), Append(results, r), after, new)
<1> DEFINE n == Len(results) + 1
           g == Prolonged(h, n, new)
           more == Append(results, r)
<1>1. n \in Nat /\ n >= 1 /\ Len(results) = n - 1
  OBVIOUS
<1>2. /\ Len(more) = n
      /\ \A i \in 1 .. n - 1 : more[i] = results[i]
      /\ more[n] = r
  BY AppendAt
<1> HIDE DEF n, more
<1>3. /\ h \in [1 .. n -> Records] /\ h[n] = now
      /\ \A i \in 1 .. n - 1 : Follows(h[i], results[i], h[i + 1])
  BY <1>1 DEF History, Past, n
<1>4. /\ now \in Records /\ new \in Records /\ ids \subseteq after /\ Follows(now, r, new)
  BY DEF Advances
<1>5. /\ g \in [1 .. n + 1 -> Records] /\ g[n + 1] = new
      /\ \A i \in 1 .. n : g[i] = h[i]
  BY <1>1, <1>3, <1>4 DEF Prolonged
<1> HIDE DEF g
<1>6. Past(g, more, after, new)
  <2>1. ASSUME NEW i \in 1 .. n
        PROVE  Follows(g[i], more[i], g[i + 1])
    <3>1. CASE i = n
      BY <1>1, <1>2, <1>3, <1>4, <1>5, <3>1
    <3>2. CASE i # n
      <4>1. i \in 1 .. n - 1 /\ i + 1 \in 1 .. n
        BY <1>1, <3>2
      <4> QED
        BY <1>2, <1>3, <1>5, <4>1
    <3> QED
      BY <3>1, <3>2
  <2> QED
    BY <1>2, <1>5, <2>1 DEF Past
<1>7. \A i \in 1 .. n, id \in TxIDs : h[i][id] # Missing => id \in ids /\ WholeBlocks(h[i][id])
  BY <1>1 DEF History, PastWhole, n
<1>8. PastWhole(g, more, after)
  <2>1. ASSUME NEW i \in 1 .. n + 1, NEW id \in TxIDs, g[i][id] # Missing
        PROVE  id \in after /\ WholeBlocks(g[i][id])
    <3>1. CASE i = n + 1
      BY <1>5, <2>1, <3>1 DEF Advances
    <3>2. CASE i # n + 1
      <4>1. i \in 1 .. n
        BY <1>1, <3>2
      <4> QED
        BY <1>4, <1>5, <1>7, <2>1, <4>1
    <3> QED
      BY <3>1, <3>2
  <2> QED
    BY <1>2, <2>1 DEF PastWhole
<1>9. ASSUME NEW id \in TxIDs, Creates(r, id)
      PROVE  /\ \A i \in 1 .. n : h[i][id] = Missing
             /\ \A c \in 1 .. n - 1 : ~Creates(results[c], id)
  <2>1. id \notin ids
    BY <1>9 DEF Advances
  <2>2. \A c \in 1 .. n - 1 : Creates(results[c], id) => id \in ids
    BY <1>1 DEF History, PastFresh
  <2> QED
    BY <1>7, <2>1, <2>2
<1>10. PastFalls(g, more)
  <2>1. ASSUME NEW i \in 1 .. n + 1, NEW k \in 1 .. n + 1, NEW id \in TxIDs,
               i <= k, g[i][id] # Missing, g[k][id] # Missing
        PROVE  LeftOf(g[i][id], g[k][id])
    <3>1. CASE k # n + 1
      <4>1. i \in 1 .. n /\ k \in 1 .. n
        BY <1>1, <2>1, <3>1
      <4>2. h[i][id] # Missing /\ h[k][id] # Missing => LeftOf(h[i][id], h[k][id])
        BY <1>1, <2>1, <4>1 DEF History, PastFalls, n
      <4> QED
        BY <1>5, <2>1, <4>1, <4>2
    <3>2. CASE i = n + 1
      <4>1. k = n + 1 /\ g[k] = new
        BY <1>1, <1>5, <2>1, <3>2
      <4>2. WholeBlocks(new[id])
        BY <2>1, <4>1 DEF Advances
      <4>3. new[id].remaining \in Nat
        BY <4>2, AmountNat DEF WholeBlocks, Order
      <4> QED
        BY <3>2, <4>1, <4>3 DEF LeftOf
    <3>3. CASE k = n + 1 /\ i # n + 1
      <4>1. i \in 1 .. n /\ n \in 1 .. n /\ i <= n
        BY <1>1, <3>3
      <4>2. g[i] = h[i] /\ g[k] = new
        BY <1>5, <3>3, <4>1
      <4>3. now[id] # Missing
        <5>1. now[id] = Missing => Creates(r, id)
          BY <2>1, <4>2 DEF Advances
        <5> QED
          BY <1>9, <2>1, <4>1, <4>2, <5>1
      <4>4. LeftOf(h[i][id], now[id])
        BY <1>1, <1>3, <2>1, <4>1, <4>2, <4>3 DEF History, PastFalls, n
      <4>5. LeftOf(now[id], new[id])
        BY <2>1, <4>2, <4>3 DEF Advances
      <4>6. /\ WholeBlocks(h[i][id]) /\ WholeBlocks(now[id]) /\ WholeBlocks(new[id])
        BY <1>3, <1>7, <2>1, <4>1, <4>2, <4>3 DEF Advances
      <4>7. /\ h[i][id].remaining \in Nat /\ now[id].remaining \in Nat
            /\ new[id].remaining \in Nat
        BY <4>6, AmountNat DEF WholeBlocks, Order
      <4> QED
        BY <4>2, <4>4, <4>5, <4>7 DEF LeftOf
    <3> QED
      BY <3>1, <3>2, <3>3
  <2> QED
    BY <1>2, <2>1 DEF PastFalls
<1>11. PastBorn(g, more)
  <2>1. ASSUME NEW i \in 1 .. n + 1, NEW k \in 1 .. n + 1, NEW id \in TxIDs,
               i <= k, g[i][id] = Missing, g[k][id] # Missing
        PROVE  \E c \in i .. k - 1 : Creates(more[c], id)
    <3>1. ASSUME NEW j \in 1 .. n, i <= j, i \in 1 .. n, h[j][id] # Missing
          PROVE  \E c \in i .. j - 1 : Creates(more[c], id)
      <4>1. h[i][id] = Missing
        BY <1>5, <2>1, <3>1
      <4>2. PICK c \in i .. j - 1 : Creates(results[c], id)
        BY <1>1, <3>1, <4>1 DEF History, PastBorn, n
      <4>3. c \in 1 .. n - 1
        BY <1>1, <3>1
      <4> QED
        BY <1>2, <4>2, <4>3
    <3>2. CASE k # n + 1
      <4>1. i \in 1 .. n /\ k \in 1 .. n
        BY <1>1, <2>1, <3>2
      <4> QED
        BY <1>5, <2>1, <3>1, <4>1
    <3>3. CASE k = n + 1
      <4>1. i # n + 1
        BY <2>1, <3>3
      <4>2. i \in 1 .. n /\ n \in 1 .. n /\ i <= n /\ k - 1 = n
        BY <1>1, <3>3, <4>1
      <4>3. CASE now[id] = Missing
        <5>1. Creates(more[n], id)
          BY <1>2, <1>5, <2>1, <3>3, <4>3 DEF Advances
        <5> QED
          BY <1>1, <4>2, <5>1
      <4>4. CASE now[id] # Missing
        <5>1. PICK c \in i .. n - 1 : Creates(more[c], id)
          BY <1>3, <3>1, <4>2, <4>4
        <5>2. c \in i .. k - 1
          BY <1>1, <4>2
        <5> QED
          BY <5>1, <5>2
      <4> QED
        BY <4>3, <4>4
    <3> QED
      BY <3>2, <3>3
  <2> QED
    BY <1>2, <2>1 DEF PastBorn
<1>12. PastFresh(g, more, after)
  <2>1. ASSUME NEW c \in 1 .. n, NEW id \in TxIDs, Creates(more[c], id)
        PROVE  /\ id \in after
               /\ \A i \in 1 .. c : g[i][id] = Missing
               /\ \A d \in 1 .. n : Creates(more[d], id) => d = c
    <3>1. CASE c = n
      <4>1. Creates(r, id)
        BY <1>2, <2>1, <3>1
      <4>2. id \in after
        BY <4>1 DEF Advances
      <4>3. \A i \in 1 .. c : g[i][id] = Missing
        BY <1>5, <1>9, <3>1, <4>1
      <4>4. ASSUME NEW d \in 1 .. n, d # n PROVE ~Creates(more[d], id)
        <5>1. d \in 1 .. n - 1
          BY <1>1, <4>4
        <5> QED
          BY <1>2, <1>9, <4>1, <5>1
      <4> QED
        BY <3>1, <4>2, <4>3, <4>4
    <3>2. CASE c # n
      <4>1. c \in 1 .. n - 1
        BY <1>1, <3>2
      <4>2. Creates(results[c], id)
        BY <1>2, <2>1, <4>1
      <4>3. /\ id \in ids
            /\ \A i \in 1 .. c : h[i][id] = Missing
            /\ \A d \in 1 .. n - 1 : Creates(results[d], id) => d = c
        BY <1>1, <4>1, <4>2 DEF History, PastFresh
      <4>4. ~Creates(r, id)
        BY <4>3 DEF Advances
      <4>5. ASSUME NEW i \in 1 .. c PROVE g[i][id] = Missing
        <5>1. i \in 1 .. n
          BY <1>1, <4>1
        <5> QED
          BY <1>5, <4>3, <5>1
      <4>6. ASSUME NEW d \in 1 .. n, Creates(more[d], id) PROVE d = c
        <5>1. d # n
          BY <1>2, <4>4, <4>6
        <5>2. d \in 1 .. n - 1
          BY <1>1, <5>1
        <5> QED
          BY <1>2, <4>3, <4>6, <5>2
      <4> QED
        BY <1>4, <4>3, <4>5, <4>6
    <3> QED
      BY <3>1, <3>2
  <2> QED
    BY <1>2, <2>1 DEF PastFresh
<1> QED
  BY <1>6, <1>8, <1>10, <1>11, <1>12 DEF History, g, n, more

\* h from its n-th time on.
From(h, n, results) == [i \in 1 .. Len(results) + 1 |-> h[n + i]]

\* When the first results are done with, the rest of the history remains.
LEMMA HistoryShrinks ==
  ASSUME NEW first \in Seq(Result), NEW rest \in Seq(Result), NEW ids, NEW now,
         NEW h, History(h, first \o rest, ids, now)
  PROVE  History(From(h, Len(first), rest), rest, ids, now)
<1> DEFINE n == Len(first)
           m == Len(rest)
           all == first \o rest
           g == From(h, n, rest)
<1>1. n \in Nat /\ m \in Nat /\ Len(rest) = m
  OBVIOUS
<1>2. Len(all) = n + m /\ \A i \in 1 .. m : all[n + i] = rest[i]
  BY ConcatAt
<1>3. History(h, all, ids, now)
  OBVIOUS
<1>4. g = [i \in 1 .. m + 1 |-> h[n + i]]
  BY DEF From
<1> HIDE DEF n, m, all, g
<1>5. \A i \in 1 .. m + 1 : n + i \in 1 .. n + m + 1 /\ g[i] = h[n + i]
  BY <1>1, <1>4
<1>6. Past(g, rest, ids, now)
  <2>1. /\ h \in [1 .. n + m + 1 -> Records] /\ h[n + m + 1] = now
        /\ \A i \in 1 .. n + m : Follows(h[i], all[i], h[i + 1])
    BY <1>1, <1>2, <1>3 DEF History, Past
  <2>2. g \in [1 .. m + 1 -> Records]
    BY <1>4, <1>5, <2>1
  <2>3. g[m + 1] = now
    <3>1. m + 1 \in 1 .. m + 1 /\ n + (m + 1) = n + m + 1
      BY <1>1
    <3> QED
      BY <1>5, <2>1, <3>1
  <2>4. ASSUME NEW i \in 1 .. m
        PROVE  Follows(g[i], rest[i], g[i + 1])
    <3>1. /\ n + i \in 1 .. n + m /\ i \in 1 .. m + 1 /\ i + 1 \in 1 .. m + 1
          /\ n + (i + 1) = (n + i) + 1
      BY <1>1
    <3>2. Follows(h[n + i], all[n + i], h[(n + i) + 1])
      BY <2>1, <3>1
    <3> QED
      BY <1>2, <1>5, <3>1, <3>2
  <2> QED
    BY <1>1, <2>2, <2>3, <2>4 DEF Past
<1>7. PastWhole(g, rest, ids)
  <2>1. \A i \in 1 .. n + m + 1, id \in TxIDs :
          h[i][id] # Missing => id \in ids /\ WholeBlocks(h[i][id])
    BY <1>2, <1>3 DEF History, PastWhole
  <2> QED
    BY <1>1, <1>5, <2>1 DEF PastWhole
<1>8. PastFalls(g, rest)
  <2>1. \A i, k \in 1 .. n + m + 1, id \in TxIDs :
          i <= k /\ h[i][id] # Missing /\ h[k][id] # Missing => LeftOf(h[i][id], h[k][id])
    BY <1>2, <1>3 DEF History, PastFalls
  <2>2. ASSUME NEW i \in 1 .. m + 1, NEW k \in 1 .. m + 1, NEW id \in TxIDs,
               i <= k, g[i][id] # Missing, g[k][id] # Missing
        PROVE  LeftOf(g[i][id], g[k][id])
    <3>1. n + i <= n + k /\ g[i] = h[n + i] /\ g[k] = h[n + k]
      BY <1>1, <1>5, <2>2
    <3> QED
      BY <1>5, <2>1, <2>2, <3>1
  <2> QED
    BY <1>1, <2>2 DEF PastFalls
<1>9. PastBorn(g, rest)
  <2>1. \A i, k \in 1 .. n + m + 1, id \in TxIDs :
          i <= k /\ h[i][id] = Missing /\ h[k][id] # Missing =>
            \E c \in i .. k - 1 : Creates(all[c], id)
    BY <1>2, <1>3 DEF History, PastBorn
  <2>2. ASSUME NEW i \in 1 .. m + 1, NEW k \in 1 .. m + 1, NEW id \in TxIDs,
               i <= k, g[i][id] = Missing, g[k][id] # Missing
        PROVE  \E c \in i .. k - 1 : Creates(rest[c], id)
    <3>1. n + i <= n + k /\ g[i] = h[n + i] /\ g[k] = h[n + k]
      BY <1>1, <1>5, <2>2
    <3>2. PICK c \in n + i .. (n + k) - 1 : Creates(all[c], id)
      BY <1>5, <2>1, <2>2, <3>1
    <3>3. c - n \in i .. k - 1 /\ c - n \in 1 .. m /\ n + (c - n) = c
      BY <1>1, <3>2
    <3>4. Creates(rest[c - n], id)
      BY <1>2, <3>2, <3>3
    <3> QED
      BY <3>3, <3>4
  <2> QED
    BY <1>1, <2>2 DEF PastBorn
<1>10. PastFresh(g, rest, ids)
  <2>1. \A c \in 1 .. n + m, id \in TxIDs :
          Creates(all[c], id) =>
            /\ id \in ids
            /\ \A i \in 1 .. c : h[i][id] = Missing
            /\ \A d \in 1 .. n + m : Creates(all[d], id) => d = c
    BY <1>2, <1>3 DEF History, PastFresh
  <2>2. ASSUME NEW c \in 1 .. m, NEW id \in TxIDs, Creates(rest[c], id)
        PROVE  /\ id \in ids
               /\ \A i \in 1 .. c : g[i][id] = Missing
               /\ \A d \in 1 .. m : Creates(rest[d], id) => d = c
    <3>1. n + c \in 1 .. n + m /\ Creates(all[n + c], id)
      BY <1>1, <1>2, <2>2
    <3>2. /\ id \in ids
          /\ \A i \in 1 .. n + c : h[i][id] = Missing
          /\ \A d \in 1 .. n + m : Creates(all[d], id) => d = n + c
      BY <2>1, <3>1
    <3>3. ASSUME NEW i \in 1 .. c PROVE g[i][id] = Missing
      <4>1. i \in 1 .. m + 1 /\ n + i \in 1 .. n + c
        BY <1>1
      <4> QED
        BY <1>5, <3>2, <4>1
    <3>4. ASSUME NEW d \in 1 .. m, Creates(rest[d], id) PROVE d = c
      <4>1. n + d \in 1 .. n + m
        BY <1>1
      <4>2. n + d = n + c
        BY <1>2, <3>2, <3>4, <4>1
      <4> QED
        BY <1>1, <4>2
    <3> QED
      BY <3>2, <3>3, <3>4
  <2> QED
    BY <1>1, <2>2 DEF PastFresh
<1> QED
  BY <1>6, <1>7, <1>8, <1>9, <1>10 DEF History, g, n

-----------------------------------------------------------------------------
\* Books.

\* The orders in the heap of a pair.
Heap(b, pair) == IF b.heaps[pair] = Missing THEN {} ELSE Range(b.heaps[pair])

\* To be in step, said of the heaps as sets.
LEMMA InStepHeaps ==
  ASSUME NEW b
  PROVE  InStep(b) <=>
           /\ b \in Book
           /\ \A pair \in TrackedPairs : b.heaps[pair] # Missing
           /\ \A id \in TxIDs :
                b.pairOf[id] # Missing =>
                  /\ id \in Heap(b, b.pairOf[id])
                  /\ b.items[id] # Missing /\ PairID(b.items[id]) = b.pairOf[id]
           /\ \A id \in TxIDs, pair \in Pairs :
                id \in Heap(b, pair) => b.pairOf[id] = pair
BY DEF InStep, Listed, Heap

\* To be listed, said of the heaps as sets.
LEMMA ListedHeap ==
  ASSUME NEW b, NEW id
  PROVE  Listed(b, id) <=> b.pairOf[id] # Missing /\ id \in Heap(b, b.pairOf[id])
BY DEF Listed, Heap

\* A heap is a set of orders.
LEMMA HeapType ==
  ASSUME NEW b \in Book, NEW pair \in Pairs
  PROVE  Heap(b, pair) \subseteq TxIDs
<1>1. b.heaps[pair] \in Seq(TxIDs) \cup {Missing}
  BY DEF Book
<1>2. ASSUME NEW s \in Seq(TxIDs) PROVE Range(s) \subseteq TxIDs
  <2>1. \A i \in DOMAIN s : s[i] \in TxIDs
    BY <1>2
  <2> QED
    BY <2>1 DEF Range
<1> QED
  BY <1>1, <1>2 DEF Heap

\* What an arrangement is made of.
LEMMA Arranged ==
  ASSUME NEW ids \in SUBSET TxIDs, NEW items, NEW array \in Arrangements(ids, items)
  PROVE  array \in Seq(TxIDs) /\ array # Missing /\ Range(array) = ids
<1>1. IsFiniteSet(ids)
  BY StorageAssumption, FS_Subset
<1>2. array \in Bijection(1 .. Cardinality(ids), ids)
  BY DEF Arrangements
<1>3. array \in Seq(ids) /\ Range(array) = ids
  BY <1>1, <1>2, ArrayOfSet
<1>4. array \in Seq(TxIDs)
  BY <1>3
<1> QED
  BY <1>3, <1>4, OrderBookAssumption

\* The book goes along with the chain: its records stay or become what the
\* chain has.
GoesAlong(b, c, new) ==
  \A id \in TxIDs :
    c.items[id] = b.items[id] \/ (c.items[id] = new[id] /\ new[id] # Missing)

\* new is now but for one order.
Becomes(now, id, order, new) ==
  /\ now \in Records /\ new \in Records
  /\ \A x \in TxIDs : new[x] = IF x = id THEN order ELSE now[x]

\* An order that is created enters the book, or its pair is not tracked.
LEMMA AddShows ==
  ASSUME NEW b, NEW now, NEW without, Shows(b, now, without),
         NEW id \in TxIDs, NEW order \in Order, now[id] = Missing,
         NEW new, Becomes(now, id, order, new), NEW c \in Add(b, id, order)
  PROVE  Shows(c, new, without) /\ GoesAlong(b, c, new)
<1> DEFINE pair  == PairID(order)
           heap  == IF b.heaps[pair] = Missing THEN << >> ELSE b.heaps[pair]
           items == [b.items EXCEPT ![id] = order]
<1>1. pair \in Pairs /\ order # Missing /\ pair # Missing
  BY MissingAssumption, OrderBookAssumption DEF PairID, Pairs, Order
<1>2. /\ b \in Book
      /\ \A p \in TrackedPairs : b.heaps[p] # Missing
      /\ \A x \in TxIDs :
           b.pairOf[x] # Missing =>
             /\ x \in Heap(b, b.pairOf[x])
             /\ b.items[x] # Missing /\ PairID(b.items[x]) = b.pairOf[x]
      /\ \A x \in TxIDs, p \in Pairs : x \in Heap(b, p) => b.pairOf[x] = p
  BY InStepHeaps DEF Shows
<1>3. \A x \in TxIDs :
        /\ Listed(b, x) => b.items[x] = now[x]
        /\ now[x] # Missing /\ Tracked(PairID(now[x])) /\ x \notin without => Listed(b, x)
  BY DEF Shows
<1>4. ~Listed(b, id) /\ b.pairOf[id] = Missing
  BY <1>2, <1>3, ListedHeap
<1>5. \A p \in Pairs : id \notin Heap(b, p)
  BY <1>2, <1>4, OrderBookAssumption
<1>6. Heap(b, pair) = Range(heap)
  <2>1. Range(<< >>) = {}
    <3>1. DOMAIN << >> = {}
      OBVIOUS
    <3> QED
      BY <3>1 DEF Range
  <2> QED
    BY <2>1 DEF Heap
<1> HIDE DEF pair, heap
<1>7. CASE b.heaps[pair] = Missing /\ ~TrackAll
  <2>1. c = b
    BY <1>7 DEF Add, pair
  <2>2. ~Tracked(pair)
    BY <1>2, <1>7 DEF Tracked
  <2>3. ASSUME NEW x \in TxIDs
        PROVE  /\ Listed(b, x) => b.items[x] = new[x]
               /\ new[x] # Missing /\ Tracked(PairID(new[x])) /\ x \notin without
                    => Listed(b, x)
    <3>1. CASE x = id
      BY <1>4, <2>2, <3>1 DEF Becomes, pair
    <3>2. CASE x # id
      BY <1>3, <3>2 DEF Becomes
    <3> QED
      BY <3>1, <3>2
  <2> QED
    BY <2>1, <2>3 DEF Shows, GoesAlong
<1>8. CASE ~(b.heaps[pair] = Missing /\ ~TrackAll)
  <2>1. PICK array \in Arrangements(Range(heap) \cup {id}, items) :
          c = [heaps  |-> [b.heaps EXCEPT ![pair] = array],
               pairOf |-> [b.pairOf EXCEPT ![id] = pair],
               items  |-> items]
    BY <1>8 DEF Add, pair, heap
  <2>2. Heap(b, pair) \cup {id} \in SUBSET TxIDs
    BY <1>1, <1>2, HeapType
  <2>3. array \in Seq(TxIDs) /\ array # Missing /\ Range(array) = Heap(b, pair) \cup {id}
    BY <1>6, <2>1, <2>2, Arranged
  <2>4. /\ c.heaps = [b.heaps EXCEPT ![pair] = array]
        /\ c.pairOf = [b.pairOf EXCEPT ![id] = pair]
        /\ c.items = [b.items EXCEPT ![id] = order]
        /\ c = [heaps |-> c.heaps, pairOf |-> c.pairOf, items |-> c.items]
    BY <2>1
  <2>5. /\ b.heaps \in [Pairs -> Seq(TxIDs) \cup {Missing}]
        /\ b.pairOf \in [TxIDs -> Pairs \cup {Missing}]
        /\ b.items \in [TxIDs -> Order \cup {Missing}]
    BY <1>2 DEF Book
  <2>6. /\ c.heaps \in [Pairs -> Seq(TxIDs) \cup {Missing}]
        /\ \A p \in Pairs : c.heaps[p] = IF p = pair THEN array ELSE b.heaps[p]
    BY <1>1, <2>3, <2>4, <2>5
  <2>7. /\ c.pairOf \in [TxIDs -> Pairs \cup {Missing}]
        /\ \A x \in TxIDs : c.pairOf[x] = IF x = id THEN pair ELSE b.pairOf[x]
    BY <1>1, <2>4, <2>5
  <2>8. /\ c.items \in [TxIDs -> Order \cup {Missing}]
        /\ \A x \in TxIDs : c.items[x] = IF x = id THEN order ELSE b.items[x]
    BY <2>4, <2>5
  <2>9. c \in Book
    BY <2>4, <2>6, <2>7, <2>8 DEF Book
  <2>10. \A p \in Pairs : Heap(c, p) = IF p = pair THEN Heap(b, p) \cup {id} ELSE Heap(b, p)
    BY <2>3, <2>6 DEF Heap
  <2>11. \A p \in TrackedPairs : c.heaps[p] # Missing
    BY <1>2, <2>3, <2>6, OrderBookAssumption
  <2>12. ASSUME NEW x \in TxIDs, c.pairOf[x] # Missing
         PROVE  /\ x \in Heap(c, c.pairOf[x])
                /\ c.items[x] # Missing /\ PairID(c.items[x]) = c.pairOf[x]
    <3>1. CASE x = id
      BY <1>1, <2>7, <2>8, <2>10, <3>1 DEF pair
    <3>2. CASE x # id
      <4>1. c.pairOf[x] = b.pairOf[x] /\ c.items[x] = b.items[x] /\ b.pairOf[x] \in Pairs
        BY <2>5, <2>7, <2>8, <2>12, <3>2
      <4> QED
        BY <1>2, <2>10, <2>12, <4>1
    <3> QED
      BY <3>1, <3>2
  <2>13. \A x \in TxIDs, p \in Pairs : x \in Heap(c, p) => c.pairOf[x] = p
    BY <1>2, <1>5, <2>7, <2>10
  <2>14. InStep(c)
    BY <2>9, <2>11, <2>12, <2>13, InStepHeaps
  <2>15. ASSUME NEW x \in TxIDs
         PROVE  /\ Listed(c, x) => c.items[x] = new[x]
                /\ new[x] # Missing /\ Tracked(PairID(new[x])) /\ x \notin without
                     => Listed(c, x)
    <3>1. CASE x = id
      <4>1. Listed(c, x)
        BY <1>1, <2>7, <2>12, <3>1, ListedHeap
      <4> QED
        BY <2>8, <3>1, <4>1 DEF Becomes
    <3>2. CASE x # id
      <4>1. c.pairOf[x] = b.pairOf[x] /\ c.items[x] = b.items[x] /\ new[x] = now[x]
        BY <2>7, <2>8, <3>2 DEF Becomes
      <4>2. Listed(c, x) <=> Listed(b, x)
        BY <1>2, <2>12, <4>1, ListedHeap
      <4> QED
        BY <1>3, <4>1, <4>2
    <3> QED
      BY <3>1, <3>2
  <2>16. GoesAlong(b, c, new)
    BY <1>1, <2>8 DEF GoesAlong, Becomes
  <2> QED
    BY <2>14, <2>15, <2>16 DEF Shows
<1> QED
  BY <1>7, <1>8

\* An order that is gone leaves the index and its heap.
LEMMA RemoveShows ==
  ASSUME NEW b, NEW now, NEW without, Shows(b, now, without),
         NEW id \in TxIDs, NEW new, Becomes(now, id, Missing, new), NEW c \in Remove(b, id)
  PROVE  Shows(c, new, without) /\ GoesAlong(b, c, new)
<1> DEFINE pair == b.pairOf[id]
<1>1. /\ b \in Book
      /\ \A p \in TrackedPairs : b.heaps[p] # Missing
      /\ \A x \in TxIDs :
           b.pairOf[x] # Missing =>
             /\ x \in Heap(b, b.pairOf[x])
             /\ b.items[x] # Missing /\ PairID(b.items[x]) = b.pairOf[x]
      /\ \A x \in TxIDs, p \in Pairs : x \in Heap(b, p) => b.pairOf[x] = p
  BY InStepHeaps DEF Shows
<1>2. \A x \in TxIDs :
        /\ Listed(b, x) => b.items[x] = now[x]
        /\ now[x] # Missing /\ Tracked(PairID(now[x])) /\ x \notin without => Listed(b, x)
  BY DEF Shows
<1>3. /\ b.heaps \in [Pairs -> Seq(TxIDs) \cup {Missing}]
      /\ b.pairOf \in [TxIDs -> Pairs \cup {Missing}]
      /\ b.items \in [TxIDs -> Order \cup {Missing}]
      /\ b = [heaps |-> b.heaps, pairOf |-> b.pairOf, items |-> b.items]
  BY <1>1 DEF Book
<1>4. /\ c \in Book /\ c.items = b.items
      /\ \A x \in TxIDs : c.pairOf[x] = IF x = id THEN Missing ELSE b.pairOf[x]
      /\ \A p \in TrackedPairs : c.heaps[p] # Missing
      /\ \A p \in Pairs : Heap(c, p) = Heap(b, p) \ {id}
  <2>1. CASE Listed(b, id)
    <3>1. pair \in Pairs /\ b.heaps[pair] # Missing
      BY <1>3, <2>1 DEF Listed
    <3> HIDE DEF pair
    <3>2. PICK u \in Unlisted(b, id) : c = [u EXCEPT !.pairOf[id] = Missing]
      BY <2>1 DEF Remove
    <3>3. PICK array \in Arrangements(Range(b.heaps[pair]) \ {id}, b.items) :
            u = [b EXCEPT !.heaps[pair] = array]
      BY <3>2 DEF Unlisted, pair
    <3>4. Heap(b, pair) \ {id} \in SUBSET TxIDs /\ Heap(b, pair) = Range(b.heaps[pair])
      BY <1>1, <3>1, HeapType DEF Heap
    <3>5. array \in Seq(TxIDs) /\ array # Missing /\ Range(array) = Heap(b, pair) \ {id}
      BY <3>3, <3>4, Arranged
    <3>6. /\ u.heaps = [b.heaps EXCEPT ![pair] = array]
          /\ u.pairOf = b.pairOf /\ u.items = b.items
          /\ u = [heaps |-> u.heaps, pairOf |-> u.pairOf, items |-> u.items]
      BY <1>3, <3>3
    <3>7. /\ c.heaps = u.heaps /\ c.items = u.items
          /\ c.pairOf = [u.pairOf EXCEPT ![id] = Missing]
          /\ c = [heaps |-> c.heaps, pairOf |-> c.pairOf, items |-> c.items]
      BY <3>2, <3>6
    <3>8. /\ c.heaps \in [Pairs -> Seq(TxIDs) \cup {Missing}]
          /\ \A p \in Pairs : c.heaps[p] = IF p = pair THEN array ELSE b.heaps[p]
      BY <1>3, <3>1, <3>5, <3>6, <3>7
    <3>9. /\ c.pairOf \in [TxIDs -> Pairs \cup {Missing}]
          /\ \A x \in TxIDs : c.pairOf[x] = IF x = id THEN Missing ELSE b.pairOf[x]
      BY <1>3, <3>6, <3>7
    <3>10. c \in Book
      BY <1>3, <3>6, <3>7, <3>8, <3>9 DEF Book
    <3>11. ASSUME NEW p \in Pairs PROVE Heap(c, p) = Heap(b, p) \ {id}
      <4>1. CASE p = pair
        BY <3>5, <3>8, <4>1 DEF Heap
      <4>2. CASE p # pair
        <5>1. Heap(c, p) = Heap(b, p)
          BY <3>8, <4>2 DEF Heap
        <5>2. id \notin Heap(b, p)
          BY <1>1, <4>2 DEF pair
        <5> QED
          BY <5>1, <5>2
      <4> QED
        BY <4>1, <4>2
    <3>12. \A p \in TrackedPairs : c.heaps[p] # Missing
      BY <1>1, <3>5, <3>8, OrderBookAssumption
    <3> QED
      BY <3>6, <3>7, <3>9, <3>10, <3>11, <3>12
  <2>2. CASE ~Listed(b, id)
    <3>1. b.pairOf[id] = Missing
      BY <1>1, <2>2, ListedHeap
    <3>2. c = [b EXCEPT !.pairOf[id] = Missing]
      BY <2>2 DEF Remove
    <3>3. /\ c.heaps = b.heaps /\ c.items = b.items
          /\ c.pairOf = [b.pairOf EXCEPT ![id] = Missing]
          /\ c = [heaps |-> c.heaps, pairOf |-> c.pairOf, items |-> c.items]
      BY <1>3, <3>2
    <3>4. /\ c.pairOf \in [TxIDs -> Pairs \cup {Missing}]
          /\ \A x \in TxIDs : c.pairOf[x] = IF x = id THEN Missing ELSE b.pairOf[x]
      BY <1>3, <3>3
    <3>5. c \in Book
      BY <1>3, <3>3, <3>4 DEF Book
    <3>6. \A p \in Pairs : Heap(c, p) = Heap(b, p) /\ id \notin Heap(b, p)
      BY <1>1, <3>1, <3>3, OrderBookAssumption DEF Heap
    <3> QED
      BY <1>1, <3>3, <3>4, <3>5, <3>6
  <2> QED
    BY <2>1, <2>2
<1>5. ASSUME NEW x \in TxIDs, c.pairOf[x] # Missing
      PROVE  /\ x \in Heap(c, c.pairOf[x])
             /\ c.items[x] # Missing /\ PairID(c.items[x]) = c.pairOf[x]
  <2>1. x # id /\ c.pairOf[x] = b.pairOf[x] /\ b.pairOf[x] \in Pairs
    BY <1>3, <1>4, <1>5
  <2> QED
    BY <1>1, <1>4, <1>5, <2>1
<1>6. \A x \in TxIDs, p \in Pairs : x \in Heap(c, p) => c.pairOf[x] = p
  BY <1>1, <1>4
<1>7. InStep(c)
  BY <1>4, <1>5, <1>6, InStepHeaps
<1>8. ASSUME NEW x \in TxIDs
      PROVE  /\ Listed(c, x) => c.items[x] = new[x]
             /\ new[x] # Missing /\ Tracked(PairID(new[x])) /\ x \notin without
                  => Listed(c, x)
  <2>1. CASE x = id
    BY <1>4, <2>1 DEF Becomes, Listed
  <2>2. CASE x # id
    <3>1. c.pairOf[x] = b.pairOf[x] /\ c.items[x] = b.items[x] /\ new[x] = now[x]
      BY <1>4, <2>2 DEF Becomes
    <3>2. Listed(c, x) <=> Listed(b, x)
      BY <1>1, <1>5, <3>1, ListedHeap
    <3> QED
      BY <1>2, <3>1, <3>2
  <2> QED
    BY <2>1, <2>2
<1> QED
  BY <1>4, <1>7, <1>8 DEF Shows, GoesAlong

\* The record of an order that is sold in part changes where it is.
LEMMA UpdateShows ==
  ASSUME NEW b, NEW now, NEW without, Shows(b, now, without),
         NEW id \in TxIDs, NEW remaining \in Amount, now[id] # Missing,
         NEW new, Becomes(now, id, [now[id] EXCEPT !.remaining = remaining], new),
         NEW c \in UpdateRemaining(b, id, remaining)
  PROVE  Shows(c, new, without) /\ GoesAlong(b, c, new)
<1>1. now[id] \in Order
  BY DEF Becomes, Records
<1>2. /\ new[id] = [now[id] EXCEPT !.remaining = remaining] /\ new[id] \in Order
      /\ PairID(new[id]) = PairID(now[id]) /\ new[id] # Missing
  BY <1>1, MissingAssumption DEF Becomes, Order, PairID
<1>3. /\ b \in Book
      /\ \A p \in TrackedPairs : b.heaps[p] # Missing
      /\ \A x \in TxIDs :
           b.pairOf[x] # Missing =>
             /\ x \in Heap(b, b.pairOf[x])
             /\ b.items[x] # Missing /\ PairID(b.items[x]) = b.pairOf[x]
      /\ \A x \in TxIDs, p \in Pairs : x \in Heap(b, p) => b.pairOf[x] = p
  BY InStepHeaps DEF Shows
<1>4. \A x \in TxIDs :
        /\ Listed(b, x) => b.items[x] = now[x]
        /\ now[x] # Missing /\ Tracked(PairID(now[x])) /\ x \notin without => Listed(b, x)
  BY DEF Shows
<1>5. /\ b.heaps \in [Pairs -> Seq(TxIDs) \cup {Missing}]
      /\ b.pairOf \in [TxIDs -> Pairs \cup {Missing}]
      /\ b.items \in [TxIDs -> Order \cup {Missing}]
      /\ b = [heaps |-> b.heaps, pairOf |-> b.pairOf, items |-> b.items]
  BY <1>3 DEF Book
<1>6. CASE ~Listed(b, id)
  <2>1. c = b
    BY <1>6 DEF UpdateRemaining
  <2>2. ASSUME NEW x \in TxIDs
        PROVE  /\ Listed(b, x) => b.items[x] = new[x]
               /\ new[x] # Missing /\ Tracked(PairID(new[x])) /\ x \notin without
                    => Listed(b, x)
    <3>1. CASE x = id
      BY <1>2, <1>4, <1>6, <3>1
    <3>2. CASE x # id
      BY <1>4, <3>2 DEF Becomes
    <3> QED
      BY <3>1, <3>2
  <2> QED
    BY <2>1, <2>2 DEF Shows, GoesAlong
<1>7. CASE Listed(b, id)
  <2>1. c = [b EXCEPT !.items[id].remaining = remaining] /\ b.items[id] = now[id]
    BY <1>4, <1>7 DEF UpdateRemaining
  <2>2. /\ c.heaps = b.heaps /\ c.pairOf = b.pairOf
        /\ c.items = [b.items EXCEPT ![id] = [b.items[id] EXCEPT !.remaining = remaining]]
        /\ c = [heaps |-> c.heaps, pairOf |-> c.pairOf, items |-> c.items]
    BY <1>5, <2>1
  <2>3. /\ c.items \in [TxIDs -> Order \cup {Missing}]
        /\ \A x \in TxIDs : c.items[x] = IF x = id THEN new[id] ELSE b.items[x]
    BY <1>2, <1>5, <2>1, <2>2
  <2>4. c \in Book
    BY <1>5, <2>2, <2>3 DEF Book
  <2>5. \A p : Heap(c, p) = Heap(b, p)
    BY <2>2 DEF Heap
  <2>6. \A x \in TxIDs : c.items[x] # Missing <=> b.items[x] # Missing
    BY <1>2, <2>1, <2>3
  <2>7. \A x \in TxIDs : PairID(c.items[x]) = PairID(b.items[x])
    BY <1>2, <2>1, <2>3
  <2>8. InStep(c)
    BY <1>3, <2>2, <2>4, <2>5, <2>6, <2>7, InStepHeaps
  <2>9. \A x \in TxIDs : Listed(c, x) <=> Listed(b, x)
    BY <2>2, <2>5, ListedHeap
  <2>10. ASSUME NEW x \in TxIDs
         PROVE  /\ Listed(c, x) => c.items[x] = new[x]
                /\ new[x] # Missing /\ Tracked(PairID(new[x])) /\ x \notin without
                     => Listed(c, x)
    <3>1. CASE x = id
      BY <1>7, <2>3, <2>9, <3>1
    <3>2. CASE x # id
      BY <1>4, <2>3, <2>9, <3>2 DEF Becomes
    <3> QED
      BY <3>1, <3>2
  <2> QED
    BY <1>2, <2>3, <2>8, <2>10 DEF Shows, GoesAlong
<1> QED
  BY <1>6, <1>7

\* A result that is processed takes the book one step along the history.
LEMMA ApplyShows ==
  ASSUME NEW b, NEW now \in Records, NEW without, Shows(b, now, without),
         NEW r \in Result, NEW new \in Records, Follows(now, r, new), NEW c \in Apply(b, r)
  PROVE  Shows(c, new, without) /\ GoesAlong(b, c, new)
<1>1. /\ r.kind \in {"CreateOrder", "FillOrder", "CloseOrder"}
      /\ r.id \in TxIDs /\ r.ok \in BOOLEAN
      /\ r.kind = "CreateOrder" => r.order \in Order
      /\ r.kind = "FillOrder" => r.remaining \in Amount
  BY ResultFields
<1>2. CASE ~r.ok
  <2>1. c = b
    BY <1>2 DEF Apply
  <2>2. new = now
    BY <1>2 DEF Follows, Turns, Records
  <2> QED
    BY <2>1, <2>2 DEF GoesAlong
<1>3. CASE r.ok /\ r.kind = "CreateOrder"
  <2>1. c \in Add(b, r.id, r.order)
    BY <1>3 DEF Apply
  <2>2. now[r.id] = Missing /\ Becomes(now, r.id, r.order, new)
    BY <1>1, <1>3 DEF Follows, Turns, Becomes
  <2> QED
    BY <1>1, <1>3, <2>1, <2>2, AddShows
<1>4. CASE r.ok /\ r.kind = "FillOrder" /\ r.remaining = 0
  <2>1. c \in Remove(b, r.id)
    BY <1>4 DEF Apply
  <2>2. Becomes(now, r.id, Missing, new)
    BY <1>1, <1>4 DEF Follows, Turns, Becomes
  <2> QED
    BY <1>1, <2>1, <2>2, RemoveShows
<1>5. CASE r.ok /\ r.kind = "FillOrder" /\ r.remaining # 0
  <2>1. c \in UpdateRemaining(b, r.id, r.remaining)
    BY <1>5 DEF Apply
  <2>2. /\ now[r.id] # Missing
        /\ Becomes(now, r.id, [now[r.id] EXCEPT !.remaining = r.remaining], new)
    BY <1>1, <1>5 DEF Follows, Turns, Becomes
  <2> QED
    BY <1>1, <1>5, <2>1, <2>2, UpdateShows
<1>6. CASE r.ok /\ r.kind = "CloseOrder"
  <2>1. c \in Remove(b, r.id)
    BY <1>6 DEF Apply
  <2>2. Becomes(now, r.id, Missing, new)
    BY <1>1, <1>6 DEF Follows, Turns, Becomes
  <2> QED
    BY <1>1, <2>1, <2>2, RemoveShows
<1> QED
  BY <1>1, <1>2, <1>3, <1>4, <1>5, <1>6

\* A new book shows nothing, and has missed everything.
LEMMA NewBookShows ==
  ASSUME NEW now, NEW without, \A id \in TxIDs : now[id] # Missing => id \in without
  PROVE  Shows(NewBook, now, without) /\ \A id \in TxIDs : NewBook.items[id] = Missing
<1>1. /\ NewBook.heaps = [p \in Pairs |-> IF p \in TrackedPairs THEN << >> ELSE Missing]
      /\ NewBook.pairOf = [id \in TxIDs |-> Missing]
      /\ NewBook.items = [id \in TxIDs |-> Missing]
  BY DEF NewBook
<1>2. NewBook \in Book
  BY DEF NewBook, Book
<1>3. << >> # Missing
  <2>1. << >> \in Seq(TxIDs)
    OBVIOUS
  <2> QED
    BY <2>1, OrderBookAssumption
<1>4. \A p \in Pairs : Heap(NewBook, p) = {}
  <2>1. Range(<< >>) = {}
    <3>1. DOMAIN << >> = {}
      OBVIOUS
    <3> QED
      BY <3>1 DEF Range
  <2> QED
    BY <1>1, <2>1 DEF Heap
<1>5. InStep(NewBook)
  BY <1>1, <1>2, <1>3, <1>4, OrderBookAssumption, InStepHeaps
<1>6. \A id \in TxIDs : ~Listed(NewBook, id)
  BY <1>1 DEF Listed
<1> QED
  BY <1>1, <1>5, <1>6 DEF Shows

-----------------------------------------------------------------------------
\* The chain.

\* Whole blocks less whole blocks are whole blocks.
LEMMA BlocksLeft ==
  ASSUME NEW a \in Nat, NEW b \in Nat, NEW t \in Nat \ {0}, b <= a,
         a % t = 0, b % t = 0
  PROVE  (a - b) % t = 0
<1>1. a = t * (a \div t) /\ b = t * (b \div t) /\ a \div t \in Nat /\ b \div t \in Nat
  BY SMT
<1> DEFINE k == (a \div t) - (b \div t)
<1>2. a \div t >= b \div t
  BY SMT
<1>3. k \in Nat
  BY <1>1, <1>2
<1>4. t * k = t * (a \div t) - t * (b \div t)
  BY <1>1
<1>5. a - b = t * k
  BY <1>1, <1>4
<1> HIDE DEF k
<1>6. (t * k) % t = 0
  BY <1>3, SMT
<1> QED
  BY <1>5, <1>6

\* What is open on the chain is whole, and of a used id.
LEMMA PresentWhole ==
  ASSUME Replayed, block \in Seq(Result), walk \in Seq(Result)
  PROVE  \A id \in TxIDs : orders[id] # Missing => id \in used /\ WholeBlocks(orders[id])
<1>1. PICK h : History(h, Todo, used, orders)
  BY DEF Replayed
<1>2. h[Len(Todo) + 1] = orders /\ PastWhole(h, Todo, used)
  BY <1>1 DEF History, Past
<1>3. Todo \in Seq(Result)
  BY ConcatAt DEF Todo
<1>4. Len(Todo) + 1 \in 1 .. Len(Todo) + 1
  BY <1>3
<1> QED
  BY <1>2, <1>4 DEF PastWhole

\* The chain includes a result that tells of what it does to the orders.
IncludesStep ==
  \E r \in Result :
    /\ Include(r) /\ used' \subseteq TxIDs
    /\ Advances(orders, r, orders', used, used')

\* An order is created.
LEMMA CreateIncludes ==
  ASSUME orders \in Records, used \subseteq TxIDs,
         \A x \in TxIDs : orders[x] # Missing => x \in used /\ WholeBlocks(orders[x]),
         NEW id \in TxIDs, NEW offer \in Offers, ExecuteCreate(id, offer)
  PROVE  IncludesStep
<1> DEFINE r == Created(id, offer, TRUE)
<1>1. /\ id \notin used /\ orders' = [orders EXCEPT ![id] = offer]
      /\ used' = used \cup {id} /\ Include(r)
  BY DEF ExecuteCreate, Create
<1>2. offer \in Order /\ WholeBlocks(offer) /\ offer # Missing
  BY MarketAssumption, MissingAssumption DEF WholeBlocks
<1>3. /\ r \in Result /\ r.kind = "CreateOrder" /\ r.id = id /\ r.ok /\ r.order = offer
  BY <1>2 DEF Created, Result
<1> HIDE DEF r
<1>4. orders[id] = Missing
  BY <1>1
<1>5. /\ orders' \in Records
      /\ \A x \in TxIDs : orders'[x] = IF x = id THEN offer ELSE orders[x]
  BY <1>1, <1>2 DEF Records
<1>6. Follows(orders, r, orders')
  BY <1>3, <1>4, <1>5 DEF Follows, Turns
<1>7. ASSUME NEW x \in TxIDs
      PROVE  /\ orders'[x] # Missing => x \in used' /\ WholeBlocks(orders'[x])
             /\ orders[x] # Missing /\ orders'[x] # Missing => LeftOf(orders[x], orders'[x])
             /\ orders[x] = Missing /\ orders'[x] # Missing => Creates(r, x)
             /\ Creates(r, x) => x \notin used /\ x \in used'
  <2>1. CASE x = id
    BY <1>1, <1>2, <1>3, <1>4, <1>5, <2>1 DEF Creates
  <2>2. CASE x # id
    <3>1. orders[x] # Missing => orders[x].remaining \in Nat
      BY AmountNat DEF WholeBlocks, Order
    <3> QED
      BY <1>1, <1>3, <1>5, <2>2, <3>1 DEF Creates, LeftOf
  <2> QED
    BY <2>1, <2>2
<1>8. Advances(orders, r, orders', used, used')
  BY <1>1, <1>5, <1>6, <1>7 DEF Advances
<1> QED
  BY <1>1, <1>3, <1>8 DEF IncludesStep

\* An order is sold, in whole blocks.
LEMMA FillIncludes ==
  ASSUME orders \in Records, used \subseteq TxIDs,
         \A x \in TxIDs : orders[x] # Missing => x \in used /\ WholeBlocks(orders[x]),
         NEW id \in TxIDs, NEW sold \in Amount, ExecuteFill(id, sold)
  PROVE  IncludesStep
<1> DEFINE o == orders[id]
           rest == o.remaining - sold
           r == Filled(id, rest, TRUE)
<1>1. /\ o # Missing /\ 0 < sold /\ sold <= o.remaining /\ sold % o.outTick = 0
      /\ orders' = [orders EXCEPT ![id] = Left(o, sold)]
      /\ used' = used /\ Include(r)
  BY DEF ExecuteFill, Sell, Open
<1>2. o \in Order /\ WholeBlocks(o)
  BY <1>1 DEF WholeBlocks
<1> HIDE DEF o
<1>3. /\ o.remaining \in Nat /\ o.outTick \in Nat \ {0} /\ sold \in Nat
      /\ o.remaining <= MaxUint64 /\ o.remaining % o.outTick = 0
  BY <1>2, StorageAssumption DEF WholeBlocks, Order, Amount
<1>4. rest \in Amount /\ rest <= o.remaining /\ (rest = 0 <=> sold = o.remaining)
  BY <1>1, <1>3, StorageAssumption DEF Amount
<1>5. rest % o.outTick = 0
  BY <1>1, <1>3, BlocksLeft
<1> HIDE DEF rest
<1>6. /\ r \in Result /\ r.kind = "FillOrder" /\ r.id = id /\ r.ok /\ r.remaining = rest
  BY <1>4 DEF Filled, Result
<1> HIDE DEF r
<1>7. Left(o, sold) = IF rest = 0 THEN Missing ELSE [o EXCEPT !.remaining = rest]
  BY <1>4 DEF Left, rest
<1>8. rest # 0 =>
        /\ [o EXCEPT !.remaining = rest] \in Order
        /\ WholeBlocks([o EXCEPT !.remaining = rest])
        /\ LeftOf(o, [o EXCEPT !.remaining = rest])
  <2> SUFFICES ASSUME rest # 0
               PROVE  /\ [o EXCEPT !.remaining = rest] \in Order
                      /\ WholeBlocks([o EXCEPT !.remaining = rest])
                      /\ LeftOf(o, [o EXCEPT !.remaining = rest])
    OBVIOUS
  <2> DEFINE new == [o EXCEPT !.remaining = rest]
  <2>1. /\ new \in Order /\ new.remaining = rest /\ new.outTick = o.outTick
        /\ new.in = o.in /\ new.out = o.out
    BY <1>2, <1>4 DEF Order
  <2> HIDE DEF new
  <2>2. rest > 0
    BY <1>4, AmountNat
  <2>3. WholeBlocks(new) /\ LeftOf(o, new)
    BY <1>2, <1>4, <1>5, <2>1, <2>2 DEF WholeBlocks, LeftOf, PairID
  <2> QED
    BY <2>1, <2>3 DEF new
<1>9. /\ orders' \in Records
      /\ \A x \in TxIDs : orders'[x] = IF x = id THEN Left(o, sold) ELSE orders[x]
  BY <1>1, <1>7, <1>8 DEF Records
<1>10. Follows(orders, r, orders')
  BY <1>1, <1>6, <1>7, <1>9 DEF Follows, Turns, o
<1>11. ASSUME NEW x \in TxIDs
       PROVE  /\ orders'[x] # Missing => x \in used' /\ WholeBlocks(orders'[x])
              /\ orders[x] # Missing /\ orders'[x] # Missing => LeftOf(orders[x], orders'[x])
              /\ orders[x] = Missing /\ orders'[x] # Missing => Creates(r, x)
              /\ Creates(r, x) => x \notin used /\ x \in used'
  <2>1. CASE x = id
    BY <1>1, <1>6, <1>7, <1>8, <1>9, <2>1 DEF Creates, o
  <2>2. CASE x # id
    <3>1. orders[x] # Missing => orders[x].remaining \in Nat
      BY AmountNat DEF WholeBlocks, Order
    <3> QED
      BY <1>1, <1>6, <1>9, <2>2, <3>1 DEF Creates, LeftOf
  <2> QED
    BY <2>1, <2>2
<1>12. Advances(orders, r, orders', used, used')
  BY <1>1, <1>9, <1>10, <1>11 DEF Advances
<1> QED
  BY <1>1, <1>6, <1>12 DEF IncludesStep

\* An order is closed.
LEMMA CloseIncludes ==
  ASSUME orders \in Records, used \subseteq TxIDs,
         \A x \in TxIDs : orders[x] # Missing => x \in used /\ WholeBlocks(orders[x]),
         NEW id \in TxIDs, ExecuteClose(id)
  PROVE  IncludesStep
<1> DEFINE r == ClosedBy(id, TRUE)
<1>1. /\ orders' = [orders EXCEPT ![id] = Missing] /\ used' = used /\ Include(r)
  BY DEF ExecuteClose, Close
<1>2. r \in Result /\ r.kind = "CloseOrder" /\ r.id = id /\ r.ok
  BY DEF ClosedBy, Result
<1> HIDE DEF r
<1>3. /\ orders' \in Records
      /\ \A x \in TxIDs : orders'[x] = IF x = id THEN Missing ELSE orders[x]
  BY <1>1 DEF Records
<1>4. Follows(orders, r, orders')
  BY <1>2, <1>3 DEF Follows, Turns
<1>5. ASSUME NEW x \in TxIDs
      PROVE  /\ orders'[x] # Missing => x \in used' /\ WholeBlocks(orders'[x])
             /\ orders[x] # Missing /\ orders'[x] # Missing => LeftOf(orders[x], orders'[x])
             /\ orders[x] = Missing /\ orders'[x] # Missing => Creates(r, x)
             /\ Creates(r, x) => x \notin used /\ x \in used'
  <2>1. orders[x] # Missing => orders[x].remaining \in Nat
    BY AmountNat DEF WholeBlocks, Order
  <2> QED
    BY <1>1, <1>2, <1>3, <2>1 DEF Creates, LeftOf
<1>6. Advances(orders, r, orders', used, used')
  BY <1>1, <1>3, <1>4, <1>5 DEF Advances
<1> QED
  BY <1>1, <1>2, <1>6 DEF IncludesStep

\* A transaction fails.
LEMMA FailingIncludes ==
  ASSUME orders \in Records, used \subseteq TxIDs,
         \A x \in TxIDs : orders[x] # Missing => x \in used /\ WholeBlocks(orders[x]),
         NEW id \in TxIDs, NEW offer \in Offers, ExecuteFailing(id, offer)
  PROVE  IncludesStep
<1>1. orders' = orders
  BY DEF ExecuteFailing
<1>2. ASSUME NEW r \in Result, Include(r), ~r.ok, used \subseteq used', used' \subseteq TxIDs,
             \A x \in TxIDs : Creates(r, x) => x \notin used /\ x \in used'
      PROVE  IncludesStep
  <2>1. Follows(orders, r, orders')
    BY <1>1, <1>2 DEF Follows, Turns
  <2>2. ASSUME NEW x \in TxIDs
        PROVE  /\ orders'[x] # Missing => x \in used' /\ WholeBlocks(orders'[x])
               /\ orders[x] # Missing /\ orders'[x] # Missing => LeftOf(orders[x], orders'[x])
               /\ orders[x] = Missing /\ orders'[x] # Missing => Creates(r, x)
    <3>1. orders[x] # Missing => orders[x].remaining \in Nat
      BY AmountNat DEF WholeBlocks, Order
    <3> QED
      BY <1>1, <1>2, <3>1 DEF LeftOf
  <2>3. Advances(orders, r, orders', used, used')
    BY <1>1, <1>2, <2>1, <2>2 DEF Advances
  <2> QED
    BY <1>2, <2>3 DEF IncludesStep
<1>3. CASE id \notin used /\ used' = used \cup {id} /\ Include(Created(id, offer, FALSE))
  <2> DEFINE r == Created(id, offer, FALSE)
  <2>1. r \in Result /\ ~r.ok /\ r.id = id
    BY MarketAssumption DEF Created, Result
  <2>2. Include(r)
    BY <1>3
  <2> HIDE DEF r
  <2>3. \A x \in TxIDs : Creates(r, x) => x \notin used /\ x \in used'
    BY <1>3, <2>1 DEF Creates
  <2> QED
    BY <1>2, <1>3, <2>1, <2>2, <2>3
<1>4. CASE used' = used /\ Include(Filled(id, 0, FALSE))
  <2> DEFINE r == Filled(id, 0, FALSE)
  <2>1. r \in Result /\ ~r.ok /\ r.kind = "FillOrder"
    BY StorageAssumption DEF Filled, Result, Amount
  <2>2. Include(r)
    BY <1>4
  <2> HIDE DEF r
  <2>3. \A x \in TxIDs : ~Creates(r, x)
    BY <2>1 DEF Creates
  <2> QED
    BY <1>2, <1>4, <2>1, <2>2, <2>3
<1>5. CASE used' = used /\ Include(ClosedBy(id, FALSE))
  <2> DEFINE r == ClosedBy(id, FALSE)
  <2>1. r \in Result /\ ~r.ok /\ r.kind = "CloseOrder"
    BY DEF ClosedBy, Result
  <2>2. Include(r)
    BY <1>5
  <2> HIDE DEF r
  <2>3. \A x \in TxIDs : ~Creates(r, x)
    BY <2>1 DEF Creates
  <2> QED
    BY <1>2, <1>5, <2>1, <2>2, <2>3
<1> QED
  BY <1>3, <1>4, <1>5 DEF ExecuteFailing

\* Whatever the chain executes.
LEMMA ExecuteIncludes ==
  ASSUME NodeTypes, Replayed, Execute
  PROVE  IncludesStep
<1>1. orders \in Records /\ used \subseteq TxIDs /\ block \in Seq(Result) /\ walk \in Seq(Result)
  BY DEF NodeTypes
<1>2. \A x \in TxIDs : orders[x] # Missing => x \in used /\ WholeBlocks(orders[x])
  BY <1>1, PresentWhole
<1> QED
  BY <1>1, <1>2, CreateIncludes, FillIncludes, CloseIncludes, FailingIncludes DEF Execute

-----------------------------------------------------------------------------
\* The node.

\* What waits for the controller is results.
LEMMA TodoType ==
  ASSUME NodeTypes
  PROVE  /\ Todo \in Seq(Result) /\ Len(Todo) = Len(walk) + Len(block)
         /\ \A i \in 1 .. Len(walk) : Todo[i] = walk[i]
         /\ \A i \in 1 .. Len(block) : Todo[Len(walk) + i] = block[i]
         /\ Len(walk) \in Nat /\ Len(block) \in Nat /\ next \in Nat /\ next >= 1
         /\ next <= Len(walk) + 1 /\ next <= Len(Todo) + 1
<1>1. walk \in Seq(Result) /\ block \in Seq(Result) /\ next \in 1 .. Len(walk) + 1
  BY DEF NodeTypes
<1>2. Len(walk) \in Nat /\ Len(block) \in Nat
  BY <1>1
<1>3. /\ Todo \in Seq(Result) /\ Len(Todo) = Len(walk) + Len(block)
      /\ \A i \in 1 .. Len(walk) : Todo[i] = walk[i]
      /\ \A i \in 1 .. Len(block) : Todo[Len(walk) + i] = block[i]
  BY <1>1, ConcatAt DEF Todo
<1> QED
  BY <1>1, <1>2, <1>3

\* A result the chain includes comes last.
LEMMA ConcatAppend ==
  ASSUME NEW S, NEW u \in Seq(S), NEW v \in Seq(S), NEW x \in S
  PROVE  u \o Append(v, x) = Append(u \o v, x)
<1>1. /\ u \o v \in Seq(S) /\ Len(u \o v) = Len(u) + Len(v)
      /\ \A i \in 1 .. Len(u) : (u \o v)[i] = u[i]
      /\ \A i \in 1 .. Len(v) : (u \o v)[Len(u) + i] = v[i]
  BY ConcatAt
<1>2. /\ Append(v, x) \in Seq(S) /\ Len(Append(v, x)) = Len(v) + 1
      /\ \A i \in 1 .. Len(v) : Append(v, x)[i] = v[i]
      /\ Append(v, x)[Len(v) + 1] = x
  BY AppendAt
<1> DEFINE w == Append(v, x)
<1>3. /\ u \o w \in Seq(S) /\ Len(u \o w) = Len(u) + Len(w)
      /\ \A i \in 1 .. Len(u) : (u \o w)[i] = u[i]
      /\ \A i \in 1 .. Len(w) : (u \o w)[Len(u) + i] = w[i]
  BY <1>2, ConcatAt
<1>4. /\ Append(u \o v, x) \in Seq(S) /\ Len(Append(u \o v, x)) = Len(u) + Len(v) + 1
      /\ \A i \in 1 .. Len(u) + Len(v) : Append(u \o v, x)[i] = (u \o v)[i]
      /\ Append(u \o v, x)[Len(u) + Len(v) + 1] = x
  BY <1>1, AppendAt
<1> DEFINE s == u \o w
           t == Append(u \o v, x)
           n == Len(u)
           m == Len(v)
<1>5. n \in Nat /\ m \in Nat
  OBVIOUS
<1>6. s \in Seq(S) /\ t \in Seq(S) /\ Len(s) = n + m + 1 /\ Len(t) = n + m + 1
  BY <1>2, <1>3, <1>4, <1>5
<1>7. ASSUME NEW i \in 1 .. n + m + 1 PROVE s[i] = t[i]
  <2>1. CASE i \in 1 .. n
    <3>1. i \in 1 .. n + m
      BY <1>5, <2>1
    <3> QED
      BY <1>1, <1>3, <1>4, <2>1, <3>1
  <2>2. CASE i = n + m + 1
    <3>1. m + 1 \in 1 .. Len(w) /\ i = n + (m + 1)
      BY <1>2, <1>5, <2>2
    <3> QED
      BY <1>2, <1>3, <1>4, <2>2, <3>1
  <2>3. CASE i \notin 1 .. n /\ i # n + m + 1
    <3>1. PICK k \in 1 .. m : i = n + k
      <4>1. i - n \in 1 .. m /\ i = n + (i - n)
        BY <1>5, <1>7, <2>3
      <4> QED
        BY <4>1
    <3>2. k \in 1 .. Len(w) /\ i \in 1 .. n + m
      BY <1>2, <1>5, <3>1
    <3>3. s[i] = v[k]
      BY <1>2, <1>3, <3>1, <3>2
    <3>4. t[i] = v[k]
      BY <1>1, <1>4, <3>1, <3>2
    <3> QED
      BY <3>3, <3>4
  <2> QED
    BY <2>1, <2>2, <2>3
<1> HIDE DEF s, t, n, m, w
<1>8. s = t
  BY <1>6, <1>7
<1> QED
  BY <1>8 DEF s, t, w

\* Nothing before or after changes nothing.
LEMMA ConcatEmpty ==
  ASSUME NEW S, NEW u \in Seq(S)
  PROVE  << >> \o u = u /\ u \o << >> = u
BY ConcatEmptySeq

\* Who is behind stays behind.
LEMMA BehindGrows ==
  ASSUME NEW now, NEW r, NEW new, NEW before, NEW after,
         Advances(now, r, new, before, after),
         \A x \in TxIDs : now[x] # Missing => WholeBlocks(now[x]),
         NEW id \in TxIDs, id \in before, NEW order, WholeBlocks(order), Behind(order, id, now)
  PROVE  Behind(order, id, new)
<1> SUFFICES ASSUME new[id] # Missing PROVE order.remaining >= new[id].remaining
  BY DEF Behind
<1>1. now[id] # Missing
  BY DEF Advances
<1>2. LeftOf(now[id], new[id]) /\ WholeBlocks(now[id]) /\ WholeBlocks(new[id])
  BY <1>1 DEF Advances
<1>3. /\ order.remaining \in Nat /\ now[id].remaining \in Nat /\ new[id].remaining \in Nat
  BY <1>2, AmountNat DEF WholeBlocks, Order
<1> QED
  BY <1>1, <1>2, <1>3 DEF Behind, LeftOf

\* At the start there is nothing.
LEMMA InitNodeInv == Init => NodeInv
<1> SUFFICES ASSUME Init PROVE NodeInv
  OBVIOUS
<1>1. /\ orders = [id \in TxIDs |-> Missing] /\ used = {}
      /\ block = << >> /\ walk = << >> /\ next = 1 /\ book = NewBook
      /\ metaDB = [id \in TxIDs |-> Missing]
      /\ left = << >> /\ reply = << >> /\ restarts = 0 /\ missed = {}
  BY DEF Init, MarketInit
<1>2. << >> \in Seq(Result) /\ Len(<< >>) = 0
  OBVIOUS
<1>3. NodeTypes
  BY <1>1, <1>2, NodeAssumption DEF NodeTypes, Records
<1>4. Todo = << >>
  BY <1>1, <1>2, ConcatEmpty DEF Todo
<1>5. orders \in Records /\ \A id \in TxIDs : orders[id] = Missing
  BY <1>1 DEF Records
<1> DEFINE h == [i \in 1 .. 1 |-> orders]
<1>6. History(h, Todo, used, orders)
  BY <1>4, <1>5, HistoryStarts
<1>7. h[next] = orders
  BY <1>1
<1> HIDE DEF h
<1>8. Shows(book, h[next], missed) /\ \A id \in TxIDs : book.items[id] = Missing
  BY <1>1, <1>5, <1>7, NewBookShows
<1>9. Replayed
  BY <1>6, <1>8 DEF Replayed, RecordsLag
<1>10. StoredOnce
  BY <1>1 DEF StoredOnce
<1>11. Requested
  <2>1. left \in Seq(TxIDs) /\ reply \in Seq(Reply) /\ Len(reply) = 0
    BY <1>1
  <2>2. Range(left) = {}
    <3>1. DOMAIN left = {}
      BY <1>1
    <3> QED
      BY <3>1 DEF Range
  <2> QED
    BY <2>1, <2>2 DEF Requested
<1> QED
  BY <1>3, <1>9, <1>10, <1>11 DEF NodeInv

\* The chain executes a transaction.
LEMMA ExecuteKeeps ==
  ASSUME NodeInv, Execute
  PROVE  NodeInv'
<1>1. NodeTypes /\ Replayed /\ StoredOnce /\ Requested
  BY DEF NodeInv
<1>2. PICK r \in Result :
        /\ Include(r) /\ used' \subseteq TxIDs
        /\ Advances(orders, r, orders', used, used')
  BY <1>1, ExecuteIncludes DEF IncludesStep
<1>3. /\ Len(block) < MaxBlock /\ block' = Append(block, r)
      /\ walk' = walk /\ next' = next /\ book' = book /\ metaDB' = metaDB
      /\ left' = left /\ reply' = reply /\ restarts' = restarts /\ missed' = missed
  BY <1>2 DEF Include, controller, request
<1>4. /\ block \in Seq(Result) /\ walk \in Seq(Result) /\ MaxBlock \in Nat
  BY <1>1, NodeAssumption DEF NodeTypes
<1>5. block' \in Seq(Result) /\ Len(block') = Len(block) + 1
  BY <1>3, <1>4, AppendAt
<1>6. NodeTypes'
  BY <1>1, <1>2, <1>3, <1>4, <1>5 DEF NodeTypes, Advances
<1>7. Todo' = Append(Todo, r)
  BY <1>3, <1>4, ConcatAppend DEF Todo
<1> DEFINE n == Len(Todo) + 1
<1>8. /\ Todo \in Seq(Result) /\ n \in Nat /\ Len(Todo) = n - 1 /\ next \in 1 .. n
  BY <1>1, TodoType
<1>9. /\ Len(Todo') = n /\ Todo'[n] = r
      /\ \A i \in 1 .. n - 1 : Todo'[i] = Todo[i]
  BY <1>7, <1>8, AppendAt
<1> HIDE DEF n
<1>10. PICK h : /\ History(h, Todo, used, orders)
                /\ Shows(book, h[next], missed)
                /\ RecordsLag(book, h, Todo, next, used)
  BY <1>1 DEF Replayed
<1> DEFINE g == Prolonged(h, n, orders')
<1>11. History(g, Todo', used', orders')
  BY <1>2, <1>7, <1>8, <1>10, HistoryGrows DEF n
<1>12. /\ \A i \in 1 .. n : g[i] = h[i]
       /\ g[n + 1] = orders'
  BY <1>8 DEF Prolonged
<1> HIDE DEF g
<1>13. Shows(book', g[next'], missed')
  BY <1>3, <1>8, <1>10, <1>12
<1>14. h[n] = orders /\ used \subseteq used'
  BY <1>2, <1>10 DEF History, Past, Advances, n
<1>15. \A x \in TxIDs : orders[x] # Missing => WholeBlocks(orders[x])
  BY <1>1, <1>4, PresentWhole
<1>16. RecordsLag(book', g, Todo', next', used')
  <2>1. ASSUME NEW id \in TxIDs, book.items[id] # Missing, NEW i \in next .. n + 1
        PROVE  Behind(book.items[id], id, g[i])
    <3>1. /\ id \in used /\ WholeBlocks(book.items[id])
          /\ \A j \in next .. n : Behind(book.items[id], id, h[j])
      BY <1>10, <2>1 DEF RecordsLag, n
    <3>2. CASE i = n + 1
      <4>1. Behind(book.items[id], id, orders)
        BY <1>8, <1>14, <3>1
      <4>2. Behind(book.items[id], id, orders')
        BY <1>2, <1>15, <3>1, <4>1, BehindGrows
      <4> QED
        BY <1>12, <3>2, <4>2
    <3>3. CASE i # n + 1
      <4>1. i \in next .. n /\ i \in 1 .. n
        BY <1>8, <2>1, <3>3
      <4> QED
        BY <1>12, <3>1, <4>1
    <3> QED
      BY <3>2, <3>3
  <2>2. ASSUME NEW id \in TxIDs, book.items[id] # Missing
        PROVE  id \in used' /\ WholeBlocks(book.items[id])
    BY <1>10, <1>14, <2>2 DEF RecordsLag
  <2> QED
    BY <1>3, <1>9, <2>1, <2>2 DEF RecordsLag
<1>17. Replayed'
  BY <1>11, <1>13, <1>16 DEF Replayed
<1>18. StoredOnce'
  <2>1. ASSUME NEW id \in TxIDs, metaDB[id] # Missing
        PROVE  /\ id \in used'
               /\ \A c \in 1 .. n : ~Creates(Todo'[c], id)
    <3>1. id \in used /\ \A c \in 1 .. n - 1 : ~Creates(Todo[c], id)
      BY <1>1, <1>8, <2>1 DEF StoredOnce
    <3>2. ~Creates(r, id)
      BY <1>2, <3>1 DEF Advances
    <3>3. ASSUME NEW c \in 1 .. n PROVE ~Creates(Todo'[c], id)
      <4>1. CASE c = n
        BY <1>9, <3>2, <4>1
      <4>2. CASE c # n
        <5>1. c \in 1 .. n - 1
          BY <1>8, <4>2
        <5> QED
          BY <1>9, <3>1, <5>1
      <4> QED
        BY <4>1, <4>2
    <3> QED
      BY <1>14, <3>1, <3>3
  <2> QED
    BY <1>3, <1>9, <2>1 DEF StoredOnce
<1>19. Requested'
  <2>1. ASSUME NEW i \in 1 .. Len(reply)
        PROVE  /\ reply[i].id \in used' /\ WholeBlocks(reply[i].order)
               /\ Behind(reply[i].order, reply[i].id, orders')
    <3>1. /\ reply[i].id \in used /\ WholeBlocks(reply[i].order)
          /\ Behind(reply[i].order, reply[i].id, orders)
      BY <1>1 DEF Requested
    <3>2. reply[i].id \in TxIDs
      BY <1>1, <3>1 DEF NodeTypes
    <3> QED
      BY <1>2, <1>14, <1>15, <3>1, <3>2, BehindGrows
  <2> QED
    BY <1>1, <1>3, <2>1 DEF Requested
<1> QED
  BY <1>6, <1>17, <1>18, <1>19 DEF NodeInv

\* A block is accepted.
LEMMA AcceptKeeps ==
  ASSUME NodeInv, Accept
  PROVE  NodeInv'
<1>1. NodeTypes /\ Replayed /\ StoredOnce /\ Requested
  BY DEF NodeInv
<1>2. /\ walk = << >> /\ walk' = block /\ next' = 1 /\ block' = << >>
      /\ orders' = orders /\ used' = used /\ book' = book /\ metaDB' = metaDB
      /\ left' = left /\ reply' = reply /\ restarts' = restarts /\ missed' = missed
  BY DEF Accept, request
<1>3. block \in Seq(Result) /\ << >> \in Seq(Result) /\ Len(<< >>) = 0
  BY <1>1 DEF NodeTypes
<1>4. next = 1
  BY <1>1, <1>2, <1>3 DEF NodeTypes
<1>5. Todo = block /\ Todo' = block
  BY <1>2, <1>3, ConcatEmpty DEF Todo
<1>6. NodeTypes'
  <2>1. next' \in 1 .. Len(walk') + 1
    BY <1>2, <1>3
  <2> QED
    BY <1>1, <1>2, <1>3, <2>1, NodeAssumption DEF NodeTypes
<1>7. Replayed' /\ StoredOnce' /\ Requested'
  BY <1>1, <1>2, <1>4, <1>5 DEF Replayed, StoredOnce, Requested
<1> QED
  BY <1>6, <1>7 DEF NodeInv

\* The controller processes a result.
LEMMA ProcessKeeps ==
  ASSUME NodeInv, Process
  PROVE  NodeInv'
<1>1. NodeTypes /\ Replayed /\ StoredOnce /\ Requested
  BY DEF NodeInv
<1>2. /\ next <= Len(walk) /\ book' \in Apply(book, walk[next]) /\ next' = next + 1
      /\ orders' = orders /\ used' = used /\ block' = block /\ walk' = walk
      /\ metaDB' = metaDB /\ left' = left /\ reply' = reply
      /\ restarts' = restarts /\ missed' = missed
  BY DEF Process, chain, request
<1> DEFINE n == Len(Todo) + 1
<1>3. /\ Todo \in Seq(Result) /\ n \in Nat /\ Len(Todo) = n - 1 /\ Todo' = Todo
      /\ next \in 1 .. n - 1 /\ next + 1 \in 1 .. n /\ next \in 1 .. Len(walk)
      /\ Todo[next] = walk[next]
  BY <1>1, <1>2, TodoType DEF Todo
<1> HIDE DEF n
<1>4. NodeTypes'
  <2>1. next' \in 1 .. Len(walk') + 1
    BY <1>2, <1>3
  <2> QED
    BY <1>1, <1>2, <2>1 DEF NodeTypes
<1>5. PICK h : /\ History(h, Todo, used, orders)
               /\ Shows(book, h[next], missed)
               /\ RecordsLag(book, h, Todo, next, used)
  BY <1>1 DEF Replayed
<1>6. /\ h \in [1 .. n -> Records]
      /\ Follows(h[next], Todo[next], h[next + 1])
  BY <1>3, <1>5 DEF History, Past
<1>7. Todo[next] \in Result
  BY <1>3
<1>8. Shows(book', h[next + 1], missed) /\ GoesAlong(book, book', h[next + 1])
  BY <1>2, <1>3, <1>5, <1>6, <1>7, ApplyShows
<1>9. RecordsLag(book', h, Todo, next + 1, used)
  <2>1. ASSUME NEW id \in TxIDs, book'.items[id] # Missing
        PROVE  /\ id \in used /\ WholeBlocks(book'.items[id])
               /\ \A i \in next + 1 .. n : Behind(book'.items[id], id, h[i])
    <3>1. CASE book'.items[id] = book.items[id]
      <4>1. /\ id \in used /\ WholeBlocks(book.items[id])
            /\ \A i \in next .. n : Behind(book.items[id], id, h[i])
        BY <1>3, <1>5, <2>1, <3>1 DEF RecordsLag
      <4> QED
        BY <1>3, <3>1, <4>1
    <3>2. CASE book'.items[id] = h[next + 1][id] /\ h[next + 1][id] # Missing
      <4>1. id \in used /\ WholeBlocks(h[next + 1][id])
        BY <1>3, <1>5, <3>2 DEF History, PastWhole
      <4>2. ASSUME NEW i \in next + 1 .. n
            PROVE  Behind(h[next + 1][id], id, h[i])
        <5>1. i \in 1 .. n /\ next + 1 <= i
          BY <1>3
        <5>2. h[i][id] # Missing => LeftOf(h[next + 1][id], h[i][id])
          BY <1>3, <1>5, <3>2, <5>1 DEF History, PastFalls
        <5>3. h[i][id] # Missing => WholeBlocks(h[i][id])
          BY <1>3, <1>5, <5>1 DEF History, PastWhole
        <5>4. /\ h[next + 1][id].remaining \in Nat
              /\ h[i][id] # Missing => h[i][id].remaining \in Nat
          BY <4>1, <5>3, AmountNat DEF WholeBlocks, Order
        <5> QED
          BY <5>2, <5>4 DEF Behind, LeftOf
      <4> QED
        BY <3>2, <4>1, <4>2
    <3> QED
      BY <1>8, <2>1, <3>1, <3>2 DEF GoesAlong
  <2> QED
    BY <1>3, <2>1 DEF RecordsLag
<1>10. Replayed' /\ StoredOnce'
  BY <1>1, <1>2, <1>3, <1>5, <1>8, <1>9 DEF Replayed, StoredOnce
<1>11. Requested'
  <2>1. ASSUME NEW id \in Range(left) PROVE book'.items[id] # Missing
    <3>1. id \in TxIDs
      <4>1. \A i \in DOMAIN left : left[i] \in TxIDs
        BY <1>1 DEF Requested
      <4> QED
        BY <4>1 DEF Range
    <3>2. book.items[id] # Missing
      BY <1>1 DEF Requested
    <3> QED
      BY <1>8, <3>1, <3>2 DEF GoesAlong
  <2> QED
    BY <1>1, <1>2, <2>1 DEF Requested
<1> QED
  BY <1>4, <1>10, <1>11 DEF NodeInv

\* What a restart or the end of a block leaves to be done is the block that
\* is not accepted.
LEMMA RestOfHistory ==
  ASSUME NodeTypes, NEW h, History(h, Todo, used, orders)
  PROVE  History(From(h, Len(walk), block), block, used, orders)
<1>1. walk \in Seq(Result) /\ block \in Seq(Result)
  BY DEF NodeTypes
<1> QED
  BY <1>1, HistoryShrinks DEF Todo

\* The results of a block are stored.
LEMMA WriteBatchKeeps ==
  ASSUME NodeInv, WriteBatch
  PROVE  NodeInv'
<1>1. NodeTypes /\ Replayed /\ StoredOnce /\ Requested
  BY DEF NodeInv
<1>2. /\ next > Len(walk) /\ metaDB' = Stored(metaDB, walk) /\ walk' = << >> /\ next' = 1
      /\ orders' = orders /\ used' = used /\ block' = block /\ book' = book
      /\ left' = left /\ reply' = reply /\ restarts' = restarts /\ missed' = missed
  BY DEF WriteBatch, Processed, chain, request
<1> DEFINE n == Len(walk)
           m == Len(block)
<1>3. /\ Todo \in Seq(Result) /\ Len(Todo) = n + m /\ n \in Nat /\ m \in Nat
      /\ \A i \in 1 .. n : Todo[i] = walk[i]
      /\ \A i \in 1 .. m : Todo[n + i] = block[i]
      /\ next = n + 1
  BY <1>1, <1>2, TodoType
<1>4. walk \in Seq(Result) /\ block \in Seq(Result) /\ << >> \in Seq(Result) /\ Len(<< >>) = 0
  BY <1>1 DEF NodeTypes
<1>5. Todo' = block
  BY <1>2, <1>4, ConcatEmpty DEF Todo
<1>6. PICK h : /\ History(h, Todo, used, orders)
               /\ Shows(book, h[next], missed)
               /\ RecordsLag(book, h, Todo, next, used)
  BY <1>1 DEF Replayed
<1> DEFINE g == From(h, n, block)
<1>7. History(g, block, used, orders)
  BY <1>1, <1>6, RestOfHistory
<1>8. \A i \in 1 .. m + 1 : g[i] = h[n + i]
  BY DEF From
<1> HIDE DEF g
<1>9. g[1] = h[next]
  BY <1>3, <1>8
<1>10. RecordsLag(book, g, block, 1, used)
  <2>1. ASSUME NEW id \in TxIDs, book.items[id] # Missing
        PROVE  /\ id \in used /\ WholeBlocks(book.items[id])
               /\ \A i \in 1 .. m + 1 : Behind(book.items[id], id, g[i])
    <3>1. /\ id \in used /\ WholeBlocks(book.items[id])
          /\ \A i \in n + 1 .. n + m + 1 : Behind(book.items[id], id, h[i])
      BY <1>3, <1>6, <2>1 DEF RecordsLag
    <3>2. \A i \in 1 .. m + 1 : n + i \in n + 1 .. n + m + 1
      BY <1>3
    <3> QED
      BY <1>8, <3>1, <3>2
  <2> QED
    BY <2>1 DEF RecordsLag
<1>11. Replayed'
  BY <1>2, <1>5, <1>6, <1>7, <1>9, <1>10 DEF Replayed
<1>12. ASSUME NEW id \in TxIDs
       PROVE  /\ metaDB'[id] \in BOOLEAN \cup {Missing}
              /\ metaDB'[id] # Missing =>
                   metaDB[id] # Missing \/ \E k \in 1 .. n : Creates(walk[k], id)
  <2> DEFINE mine(r) == r.kind = "CreateOrder" /\ r.id = id
  <2>1. metaDB'[id] = IF \E r \in Range(walk) : mine(r)
                      THEN (CHOOSE r \in Range(walk) : mine(r)).ok
                      ELSE metaDB[id]
    BY <1>2 DEF Stored
  <2>2. metaDB[id] \in BOOLEAN \cup {Missing}
    BY <1>1 DEF NodeTypes
  <2>3. CASE \E r \in Range(walk) : mine(r)
    <3>1. PICK r \in Range(walk) : mine(r) /\ metaDB'[id] = r.ok
      BY <2>1, <2>3
    <3>2. PICK k \in 1 .. n : r = walk[k]
      <4>1. DOMAIN walk = 1 .. n
        BY <1>4
      <4> QED
        BY <3>1, <4>1 DEF Range
    <3>3. r \in Result /\ Creates(walk[k], id)
      BY <1>4, <3>1, <3>2 DEF Creates
    <3> QED
      BY <3>1, <3>3, ResultFields
  <2>4. CASE ~ \E r \in Range(walk) : mine(r)
    BY <2>1, <2>2, <2>4
  <2> QED
    BY <2>3, <2>4
<1>13. NodeTypes'
  <2>1. metaDB' \in [TxIDs -> BOOLEAN \cup {Missing}]
    BY <1>2, <1>12 DEF Stored
  <2>2. next' \in 1 .. Len(walk') + 1 /\ Len(walk') <= MaxBlock
    BY <1>2, <1>4, NodeAssumption
  <2> QED
    BY <1>1, <1>2, <1>4, <2>1, <2>2 DEF NodeTypes
<1>14. StoredOnce'
  <2>1. ASSUME NEW id \in TxIDs, metaDB'[id] # Missing
        PROVE  id \in used /\ \A c \in 1 .. m : ~Creates(block[c], id)
    <3>1. CASE metaDB[id] # Missing
      <4>1. id \in used /\ \A c \in 1 .. n + m : ~Creates(Todo[c], id)
        BY <1>1, <1>3, <3>1 DEF StoredOnce
      <4>2. \A c \in 1 .. m : n + c \in 1 .. n + m
        BY <1>3
      <4> QED
        BY <1>3, <4>1, <4>2
    <3>2. CASE \E k \in 1 .. n : Creates(walk[k], id)
      <4>1. PICK k \in 1 .. n : Creates(walk[k], id)
        BY <3>2
      <4>2. k \in 1 .. n + m /\ Creates(Todo[k], id)
        BY <1>3, <4>1
      <4>3. id \in used /\ \A d \in 1 .. n + m : Creates(Todo[d], id) => d = k
        BY <1>3, <1>6, <4>2 DEF History, PastFresh
      <4>4. \A c \in 1 .. m : n + c \in 1 .. n + m /\ n + c # k
        BY <1>3, <4>1
      <4> QED
        BY <1>3, <4>3, <4>4
    <3> QED
      BY <1>12, <2>1, <3>1, <3>2
  <2> QED
    BY <1>2, <1>5, <2>1 DEF StoredOnce
<1>15. Requested'
  BY <1>1, <1>2 DEF Requested
<1> QED
  BY <1>11, <1>13, <1>14, <1>15 DEF NodeInv

\* A request takes records that the book has.
LEMMA AskOrdersKeeps ==
  ASSUME NodeInv, AskOrders
  PROVE  NodeInv'
<1>1. NodeTypes /\ Replayed /\ StoredOnce /\ Requested
  BY DEF NodeInv
<1>2. /\ orders' = orders /\ used' = used /\ block' = block /\ walk' = walk /\ next' = next
      /\ book' = book /\ metaDB' = metaDB /\ restarts' = restarts /\ missed' = missed
      /\ reply' = << >>
  BY DEF AskOrders, chain, controller
<1>3. PICK pair \in Asked : left' = Orders(book, pair, OrdersToSend)
  BY DEF AskOrders
<1>4. pair \in Pairs /\ OrdersToSend \in Nat
  BY NodeAssumption
<1>5. InStep(book)
  BY <1>1 DEF Replayed, Shows
<1>6. left' \in Seq(TxIDs) /\ \A id \in Range(left') : book.items[id] # Missing
  <2>1. CASE book.heaps[pair] = Missing
    <3>1. left' = << >> /\ DOMAIN << >> = {}
      BY <1>3, <2>1 DEF Orders
    <3>2. Range(left') = {}
      BY <3>1 DEF Range
    <3> QED
      BY <3>1, <3>2
  <2>2. CASE book.heaps[pair] # Missing
    <3> DEFINE heap == book.heaps[pair]
               m == IF OrdersToSend < Len(heap) THEN OrdersToSend ELSE Len(heap)
    <3>1. heap \in Seq(TxIDs)
      BY <1>4, <1>5, <2>2 DEF InStep, Book
    <3>2. left' = SubSeq(heap, 1, m)
      BY <1>3, <2>2 DEF Orders
    <3> HIDE DEF heap
    <3>3. m \in Nat /\ m <= Len(heap)
      BY <1>4, <3>1
    <3> HIDE DEF m
    <3>4. left' \in Seq(TxIDs) /\ DOMAIN left' = 1 .. m /\ \A i \in 1 .. m : left'[i] = heap[i]
      BY <3>1, <3>2, <3>3
    <3>5. ASSUME NEW id \in Range(left') PROVE book.items[id] # Missing
      <4>1. PICK i \in 1 .. m : id = heap[i]
        BY <3>4, <3>5 DEF Range
      <4>2. i \in DOMAIN heap /\ id \in TxIDs
        BY <3>1, <3>3, <4>1
      <4>3. id \in Range(heap)
        BY <4>1, <4>2 DEF Range
      <4>4. book.pairOf[id] = pair
        BY <1>4, <1>5, <2>2, <4>2, <4>3 DEF InStep, heap
      <4> QED
        BY <1>4, <1>5, <4>2, <4>4, OrderBookAssumption DEF InStep
    <3> QED
      BY <3>4, <3>5
  <2> QED
    BY <2>1, <2>2
<1>7. Requested'
  <2>1. reply' \in Seq(Reply) /\ Len(reply') = 0
    BY <1>2
  <2> QED
    BY <1>2, <1>6, <2>1 DEF Requested
<1>8. Todo' = Todo
  BY <1>2 DEF Todo
<1>9. NodeTypes' /\ Replayed' /\ StoredOnce'
  BY <1>1, <1>2, <1>8 DEF NodeTypes, Replayed, StoredOnce
<1> QED
  BY <1>7, <1>9 DEF NodeInv

\* A request writes a record as it is by now.
LEMMA WriteOrderKeeps ==
  ASSUME NodeInv, WriteOrder
  PROVE  NodeInv'
<1>1. NodeTypes /\ Replayed /\ StoredOnce /\ Requested
  BY DEF NodeInv
<1>2. /\ orders' = orders /\ used' = used /\ block' = block /\ walk' = walk /\ next' = next
      /\ book' = book /\ metaDB' = metaDB /\ restarts' = restarts /\ missed' = missed
      /\ left # << >> /\ left' = Tail(left)
      /\ reply' = Append(reply, [id |-> Head(left), order |-> book.items[Head(left)]])
  BY DEF WriteOrder, chain, controller
<1> DEFINE id == Head(left)
           shown == [id |-> id, order |-> book.items[id]]
<1>3. left \in Seq(TxIDs) /\ reply \in Seq(Reply)
  BY <1>1 DEF Requested
<1>4. /\ id \in TxIDs /\ 1 \in DOMAIN left /\ id = left[1]
      /\ Tail(left) \in Seq(TxIDs)
      /\ \A i \in DOMAIN Tail(left) : i + 1 \in DOMAIN left /\ Tail(left)[i] = left[i + 1]
  BY <1>2, <1>3
<1>5. id \in Range(left) /\ Range(Tail(left)) \subseteq Range(left)
  BY <1>4 DEF Range
<1>6. book.items[id] # Missing
  BY <1>1, <1>5 DEF Requested
<1> HIDE DEF id
<1>7. PICK h : /\ History(h, Todo, used, orders)
               /\ RecordsLag(book, h, Todo, next, used)
  BY <1>1 DEF Replayed
<1>8. Len(Todo) + 1 \in next .. Len(Todo) + 1 /\ h[Len(Todo) + 1] = orders
  BY <1>1, <1>7, TodoType DEF History, Past
<1>9. /\ id \in used /\ WholeBlocks(book.items[id])
      /\ Behind(book.items[id], id, orders)
  BY <1>4, <1>6, <1>7, <1>8 DEF RecordsLag
<1>10. shown \in Reply /\ shown.id = id /\ shown.order = book.items[id]
  BY <1>4, <1>9 DEF Reply, WholeBlocks
<1>11. reply' = Append(reply, shown)
  BY <1>2 DEF id
<1> HIDE DEF shown
<1>12. /\ reply' \in Seq(Reply) /\ Len(reply') = Len(reply) + 1
       /\ \A i \in 1 .. Len(reply) : reply'[i] = reply[i]
       /\ reply'[Len(reply) + 1] = shown
  BY <1>3, <1>10, <1>11, AppendAt
<1>13. Requested'
  <2>1. ASSUME NEW i \in 1 .. Len(reply')
        PROVE  /\ reply'[i].id \in used /\ WholeBlocks(reply'[i].order)
               /\ Behind(reply'[i].order, reply'[i].id, orders)
    <3>1. CASE i = Len(reply) + 1
      BY <1>9, <1>10, <1>12, <3>1
    <3>2. CASE i # Len(reply) + 1
      <4>1. i \in 1 .. Len(reply)
        BY <1>3, <1>12, <3>2
      <4> QED
        BY <1>1, <1>12, <4>1 DEF Requested
    <3> QED
      BY <3>1, <3>2
  <2>2. \A x \in Range(left') : book.items[x] # Missing
    BY <1>1, <1>2, <1>5 DEF Requested
  <2> QED
    BY <1>2, <1>4, <1>12, <2>1, <2>2 DEF Requested
<1>14. Todo' = Todo
  BY <1>2 DEF Todo
<1>15. NodeTypes' /\ Replayed' /\ StoredOnce'
  BY <1>1, <1>2, <1>14 DEF NodeTypes, Replayed, StoredOnce
<1> QED
  BY <1>13, <1>15 DEF NodeInv

\* The node starts again with a new book.
LEMMA RestartKeeps ==
  ASSUME NodeInv, Restart
  PROVE  NodeInv'
<1>1. NodeTypes /\ Replayed /\ StoredOnce /\ Requested
  BY DEF NodeInv
<1>2. /\ restarts < MaxRestarts /\ restarts' = restarts + 1 /\ book' = NewBook
      /\ walk' = walk \/ walk' = << >>
      /\ next' = 1 /\ left' = << >> /\ reply' = << >>
      /\ missed' = used \ IdsCreated(walk' \o block)
      /\ orders' = orders /\ used' = used /\ block' = block /\ metaDB' = metaDB
  BY DEF Restart, chain
<1>3. /\ walk \in Seq(Result) /\ block \in Seq(Result) /\ << >> \in Seq(Result)
      /\ Len(<< >>) = 0 /\ Len(walk) \in Nat
  BY <1>1 DEF NodeTypes
<1>4. Todo' = walk' \o block /\ walk' \in Seq(Result)
  BY <1>2, <1>3 DEF Todo
<1>5. Todo' \in Seq(Result)
  BY <1>3, <1>4, ConcatAt
<1>6. NodeTypes'
  <2>1. restarts' \in 0 .. MaxRestarts
    BY <1>1, <1>2, NodeAssumption DEF NodeTypes
  <2>2. Len(walk') <= MaxBlock /\ next' \in 1 .. Len(walk') + 1
    BY <1>1, <1>2, <1>3, NodeAssumption DEF NodeTypes
  <2>3. missed' \subseteq used'
    BY <1>2
  <2> QED
    BY <1>1, <1>2, <1>4, <2>1, <2>2, <2>3 DEF NodeTypes
<1>7. PICK h : History(h, Todo, used, orders)
  BY <1>1 DEF Replayed
<1>8. /\ \E g : History(g, Todo', used, orders)
      /\ \A id \in TxIDs : metaDB[id] # Missing =>
           \A c \in 1 .. Len(Todo') : ~Creates(Todo'[c], id)
  <2>1. CASE walk' = walk
    <3>1. Todo' = Todo
      BY <1>4, <2>1 DEF Todo
    <3> QED
      BY <1>1, <1>7, <3>1 DEF StoredOnce
  <2>2. CASE walk' = << >>
    <3>1. Todo' = block
      BY <1>3, <1>4, <2>2, ConcatEmpty
    <3>2. History(From(h, Len(walk), block), block, used, orders)
      BY <1>1, <1>7, RestOfHistory
    <3>3. ASSUME NEW id \in TxIDs, metaDB[id] # Missing, NEW c \in 1 .. Len(block)
          PROVE  ~Creates(block[c], id)
      <4>1. /\ Len(Todo) = Len(walk) + Len(block)
            /\ Todo[Len(walk) + c] = block[c] /\ Len(block) \in Nat
        BY <1>1, TodoType
      <4>2. Len(walk) + c \in 1 .. Len(Todo)
        BY <1>3, <4>1
      <4> QED
        BY <1>1, <3>3, <4>1, <4>2 DEF StoredOnce
    <3> QED
      BY <3>1, <3>2, <3>3
  <2> QED
    BY <1>2, <2>1, <2>2
<1>9. PICK g : History(g, Todo', used, orders)
  BY <1>8
<1>10. ASSUME NEW id \in TxIDs, g[1][id] # Missing
       PROVE  id \in missed'
  <2>1. 1 \in 1 .. Len(Todo') + 1
    BY <1>5
  <2>2. id \in used
    BY <1>9, <1>10, <2>1 DEF History, PastWhole
  <2>3. id \notin IdsCreated(Todo')
    <3> SUFFICES ASSUME id \in IdsCreated(Todo') PROVE FALSE
      OBVIOUS
    <3>1. PICK r \in Range(Todo') : r.kind = "CreateOrder" /\ r.id = id
      BY DEF IdsCreated
    <3>2. PICK c \in 1 .. Len(Todo') : r = Todo'[c]
      <4>1. DOMAIN (Todo') = 1 .. Len(Todo')
        BY <1>5
      <4> QED
        BY <3>1, <4>1 DEF Range
    <3>3. Creates(Todo'[c], id) /\ 1 \in 1 .. c
      BY <3>1, <3>2 DEF Creates
    <3>4. g[1][id] = Missing
      BY <1>9, <3>2, <3>3 DEF History, PastFresh
    <3> QED
      BY <1>10, <3>4
  <2> QED
    BY <1>2, <1>4, <2>2, <2>3
<1>11. Shows(book', g[next'], missed') /\ \A id \in TxIDs : book'.items[id] = Missing
  BY <1>2, <1>10, NewBookShows
<1>12. RecordsLag(book', g, Todo', next', used')
  BY <1>11 DEF RecordsLag
<1>13. Replayed'
  BY <1>2, <1>9, <1>11, <1>12 DEF Replayed
<1>14. StoredOnce'
  BY <1>1, <1>2, <1>8 DEF StoredOnce
<1>15. Requested'
  <2>1. left' \in Seq(TxIDs) /\ reply' \in Seq(Reply) /\ Len(reply') = 0
    BY <1>2
  <2>2. Range(left') = {}
    <3>1. DOMAIN << >> = {}
      OBVIOUS
    <3> QED
      BY <1>2, <3>1 DEF Range
  <2> QED
    BY <2>1, <2>2 DEF Requested
<1> QED
  BY <1>6, <1>13, <1>14, <1>15 DEF NodeInv

\* Every step keeps the invariant.
LEMMA NextNodeInv == NodeInv /\ [Next]_vars => NodeInv'
<1> SUFFICES ASSUME NodeInv, [Next]_vars PROVE NodeInv'
  OBVIOUS
<1>1. CASE UNCHANGED vars
  <2>1. /\ orders' = orders /\ used' = used /\ block' = block /\ walk' = walk /\ next' = next
        /\ book' = book /\ metaDB' = metaDB /\ left' = left /\ reply' = reply
        /\ restarts' = restarts /\ missed' = missed
    BY <1>1 DEF vars, chain, controller, request
  <2>2. Todo' = Todo
    BY <2>1 DEF Todo
  <2> QED
    BY <2>1, <2>2 DEF NodeInv, NodeTypes, Replayed, StoredOnce, Requested
<1> QED
  BY <1>1, ExecuteKeeps, AcceptKeeps, ProcessKeeps, WriteBatchKeeps, AskOrdersKeeps,
     WriteOrderKeeps, RestartKeeps DEF Next

-----------------------------------------------------------------------------
\* The inductive invariant of the node: the book is where the controller is in
\* the history of the chain, and what requests have read was true once.
THEOREM NodeInvariance == Spec => []NodeInv
<1>1. Init => NodeInv
  BY InitNodeInv
<1>2. NodeInv /\ [Next]_vars => NodeInv'
  BY NextNodeInv
<1> QED
  BY <1>1, <1>2, PTL DEF Spec

\* Every variable of the node keeps values of its kind.
THEOREM NodeTypeCorrect == Spec => []TypeOK
<1>1. NodeInv => TypeOK
  <2> SUFFICES ASSUME NodeInv PROVE TypeOK
    OBVIOUS
  <2>1. NodeTypes /\ Replayed /\ Requested
    BY DEF NodeInv
  <2>2. /\ orders \in [TxIDs -> Order \cup {Missing}] /\ used \in SUBSET TxIDs
        /\ metaDB \in [TxIDs -> BOOLEAN \cup {Missing}]
        /\ restarts \in 0 .. MaxRestarts /\ missed \in SUBSET TxIDs
    BY <2>1 DEF NodeTypes, Records
  <2>3. /\ block \in Seq(Result) /\ Len(block) <= MaxBlock
        /\ walk \in Seq(Result) /\ Len(walk) <= MaxBlock
        /\ next \in 1 .. Len(walk) + 1 /\ MaxBlock \in Nat
    BY <2>1, NodeAssumption DEF NodeTypes
  <2>4. next \in 1 .. MaxBlock + 1
    BY <2>3
  <2>5. ASSUME NEW S, NEW s \in Seq(S) PROVE Range(s) \subseteq S
    <3>1. \A i \in DOMAIN s : s[i] \in S
      OBVIOUS
    <3> QED
      BY <3>1 DEF Range
  <2>6. /\ Range(block) \subseteq Result /\ Range(walk) \subseteq Result
        /\ Range(left) \subseteq TxIDs
    BY <2>1, <2>3, <2>5 DEF Requested
  <2>7. book \in Book
    BY <2>1 DEF Replayed, Shows, InStep
  <2> QED
    BY <2>2, <2>3, <2>4, <2>6, <2>7 DEF TypeOK
<1> QED
  BY <1>1, NodeInvariance, PTL

\* "This should never happen": an order in the index is in its heap, and an
\* order in a heap is in the index, under the pair of its record.
THEOREM IndexStaysInStep == Spec => []IndexMatchesHeaps
<1>1. NodeInv => IndexMatchesHeaps
  <2> SUFFICES ASSUME NodeInv PROVE IndexMatchesHeaps
    OBVIOUS
  <2>1. InStep(book)
    BY DEF NodeInv, Replayed, Shows
  <2> QED
    BY <2>1, OrderBookAssumption DEF InStep, IndexMatchesHeaps
<1> QED
  BY <1>1, NodeInvariance, PTL

\* When nothing is under way the book has exactly the open orders of the pairs
\* it tracks, as the chain has them, but for those from before a restart.
THEOREM BookStaysTrue == Spec => []BookAgrees
<1>1. NodeInv => BookAgrees
  <2> SUFFICES ASSUME NodeInv, UpToDate PROVE
        \A id \in TxIDs :
          /\ Listed(book, id) => book.items[id] = orders[id]
          /\ Open(id) /\ Tracked(PairID(orders[id])) /\ id \notin missed => Listed(book, id)
    BY DEF BookAgrees
  <2>1. PICK h : History(h, Todo, used, orders) /\ Shows(book, h[next], missed)
    BY DEF NodeInv, Replayed
  <2>2. NodeTypes /\ Len(walk) = 0 /\ Len(block) = 0
    BY DEF NodeInv, UpToDate
  <2>3. next = Len(Todo) + 1
    BY <2>2, TodoType
  <2>4. h[next] = orders
    BY <2>1, <2>3 DEF History, Past
  <2> QED
    BY <2>1, <2>4 DEF Shows, Open
<1> QED
  BY <1>1, NodeInvariance, PTL

\* Whoever finds the result of his order finds the order in the book.
THEOREM FoundOrdersStayListed == Spec => []FoundOrdersAreListed
<1>1. NodeInv => FoundOrdersAreListed
  <2> SUFFICES ASSUME NodeInv, NEW id \in TxIDs, metaDB[id] = TRUE, Open(id),
                      Tracked(PairID(orders[id])), id \notin missed
               PROVE  Listed(book, id)
    BY DEF FoundOrdersAreListed
  <2>1. NodeTypes /\ StoredOnce
    BY DEF NodeInv
  <2>2. PICK h : History(h, Todo, used, orders) /\ Shows(book, h[next], missed)
    BY DEF NodeInv, Replayed
  <2> DEFINE n == Len(Todo) + 1
  <2>3. n \in Nat /\ next \in 1 .. n /\ n \in 1 .. n /\ next <= n /\ Len(Todo) = n - 1
    BY <2>1, TodoType
  <2> HIDE DEF n
  <2>4. h[n] = orders /\ h[n][id] # Missing
    BY <2>2 DEF History, Past, Open, n
  <2>5. \A c \in 1 .. n - 1 : ~Creates(Todo[c], id)
    <3>1. metaDB[id] # Missing
      BY NodeAssumption
    <3> QED
      BY <2>1, <2>3, <3>1 DEF StoredOnce
  <2>6. h[next][id] # Missing
    <3> SUFFICES ASSUME h[next][id] = Missing PROVE FALSE
      OBVIOUS
    <3>1. PICK c \in next .. n - 1 : Creates(Todo[c], id)
      BY <2>2, <2>3, <2>4 DEF History, PastBorn, n
    <3>2. c \in 1 .. n - 1
      BY <2>3
    <3> QED
      BY <2>5, <3>1, <3>2
  <2>7. PairID(h[next][id]) = PairID(orders[id])
    <3>1. LeftOf(h[next][id], h[n][id])
      BY <2>2, <2>3, <2>4, <2>6 DEF History, PastFalls, n
    <3> QED
      BY <2>4, <3>1 DEF LeftOf
  <2> QED
    BY <2>2, <2>6, <2>7 DEF Shows
<1> QED
  BY <1>1, NodeInvariance, PTL

\* A reply is behind the chain at worst, although its records change while it
\* is written: never torn, never of less than is left.
THEOREM RepliesStayBehind == Spec => []RepliesLagOnly
<1>1. NodeInv => RepliesLagOnly
  <2> SUFFICES ASSUME NodeInv, NEW i \in DOMAIN reply
               PROVE  LET shown == reply[i].order
                          id    == reply[i].id
                      IN  /\ shown.remaining > 0 /\ shown.remaining % shown.outTick = 0
                          /\ Open(id) => shown.remaining >= orders[id].remaining
    BY DEF RepliesLagOnly
  <2>1. i \in 1 .. Len(reply)
    BY DEF NodeInv, Requested
  <2>2. /\ WholeBlocks(reply[i].order)
        /\ Behind(reply[i].order, reply[i].id, orders)
    BY <2>1 DEF NodeInv, Requested
  <2> QED
    BY <2>2 DEF WholeBlocks, Behind, Open
<1> QED
  BY <1>1, NodeInvariance, PTL
=============================================================================
