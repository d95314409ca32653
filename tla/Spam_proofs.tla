---------------------------- MODULE Spam_proofs -----------------------------
(***************************************************************************)
(* The spam command for every number of accounts, clients and transfers:   *)
(* what its counters say of the answers still missing, how long the        *)
(* backlog may grow, and that what it gives back is there.                 *)
(***************************************************************************)
EXTENDS Spam, Totals_proofs

\* A transfer that is registered and that inflight does not count yet.
Mark(label) == IF label \in {"registered", "counted"} THEN 1 ELSE 0

\* The same of every account.
Uncounted(p) == [a \in Accounts |-> Mark(p[a])]

\* What a broadcaster can still add to inflight before it tests it again.
Room(label, chosen) ==
  IF label \in {"sending", "registered", "counted"}
  THEN TxsPerAccount - Total(chosen) + Mark(label)
  ELSE 0

\* The same of every account.
Allowance(p, sel) == [a \in Accounts |-> Room(p[a], sel[a])]

\* The answers a client still has to read or to get.
Owed(ans, drop) == [c \in Clients |-> ans[c] + drop[c]]

\* The chain makes no money.
Solvent == root + Total(held) <= Balance

\* A round ends in time, and what is registered was chosen.
Rounds ==
  \A a \in Accounts :
    /\ Iterations(a) \in 0 .. TxsPerAccount
    /\ Mark(pc[a]) = 1 => Iterations(a) > 0

\* inflight lags behind the nodes by the transfers not counted yet.
InflightLags ==
  inflight + Total(Uncounted(pc)) = Total(Owed(answerable, dropped))

\* All that inflight can still become is bounded.
InflightBounded ==
  inflight + Total(Allowance(pc, selected)) <= MaxTxBacklog + NumAccounts * TxsPerAccount

\* No broadcaster was started yet.
Fresh == \A a \in Accounts : pc[a] \in {"new", "funded"}

\* Every broadcaster has ended.
Over == \A a \in Accounts : pc[a] = "exited"

\* The broadcasters run while the command waits for them, and only then.
Stages ==
  /\ phase = "distributing" =>
       /\ Fresh /\ held = funds
       /\ \A a \in Accounts : balance[a] = 0
  /\ phase \in {"waiting", "returning", "done"} => Over
  /\ phase \in {"txFailed", "error"} =>
       Over \/ (Fresh /\ \E a \in Accounts : pc[a] = "new")

\* The counters agree with what was sent and answered.
Queues == Rounds /\ InflightLags /\ InflightBounded /\ OutstandingIsUnanswered

\* The accounts agree with the stage of the command.
Funds == Stages /\ BalancesAreCovered /\ RefusedReturnsAreExplained

\* The inductive invariant.
SpamInv == TypeOK /\ Solvent /\ Queues /\ Funds
-----------------------------------------------------------------------------
\* The assumptions on the constants, as the proofs use them.
LEMMA SpamConstants ==
  ASSUME SpamAssumption
  PROVE  /\ NumAccounts \in Nat \ {0} /\ IsFiniteSet(Accounts) /\ IsFiniteSet(Clients)
         /\ IsFiniteSet(Everybody) /\ Accounts \subseteq Everybody
         /\ TxsPerAccount \in Nat \ {0} /\ MaxTxBacklog \in Nat
         /\ FeePerTx \in Nat /\ Fee \in Nat \ {0} /\ ReturnFees \subseteq Nat \ {0}
         /\ MaxUint64 \in Nat /\ Balance \in 0 .. MaxUint64 /\ Balance \in Nat
         /\ MaxFailures \in Nat /\ MaxSignals \in Nat
<1>1. NumAccounts \in Nat
  BY FS_CardinalityType DEF SpamAssumption, NumAccounts
<1>2. NumAccounts # 0
  BY FS_EmptySet DEF SpamAssumption, NumAccounts
<1>3. IsFiniteSet(Everybody)
  BY FS_Union DEF SpamAssumption, Everybody
<1> QED
  BY <1>1, <1>2, <1>3 DEF SpamAssumption, Everybody

\* An unsigned number stays in range, and changes only when it leaves it.
LEMMA Uint64Range ==
  ASSUME SpamAssumption, NEW n \in Int
  PROVE  /\ Uint64(n) \in 0 .. MaxUint64
         /\ n \in 0 .. MaxUint64 => Uint64(n) = n
<1> DEFINE d == MaxUint64 + 1
<1>1. d \in Nat \ {0} /\ 0 .. MaxUint64 = 0 .. (d - 1)
  BY SpamConstants
<1>2. Uint64(n) = n % d
  BY DEF Uint64
<1> HIDE DEF d
<1>3. n % d \in 0 .. (d - 1)
  BY <1>1
<1>4. n \in 0 .. (d - 1) => n % d = n
  BY <1>1
<1> QED
  BY <1>1, <1>2, <1>3, <1>4

\* Every account is handed an amount that fits.
LEMMA DistAmountRange ==
  ASSUME SpamAssumption
  PROVE  DistAmount \in 0 .. MaxUint64
<1> DEFINE all == Uint64(Balance - FeePerTx * NumAccounts)
<1>1. FeePerTx * NumAccounts \in Int
  BY SpamConstants
<1>2. all \in 0 .. MaxUint64
  BY <1>1, SpamConstants, Uint64Range
<1>3. MaxUint64 \in Nat /\ NumAccounts \in Nat \ {0}
  BY SpamConstants
<1>4. DistAmount = all \div NumAccounts
  BY DEF DistAmount
<1> HIDE DEF all
<1>5. ASSUME NEW x \in Nat, NEW n \in Nat \ {0} PROVE x \div n \in 0 .. x
  OBVIOUS
<1>6. all \in Nat
  BY <1>2, <1>3
<1> QED
  BY <1>2, <1>3, <1>4, <1>5, <1>6
-----------------------------------------------------------------------------
\* g is f but for its value n at a.
IsChanged(S, f, a, n, g) ==
  g \in [S -> Nat] /\ g[a] = n /\ \A b \in S \ {a} : g[b] = f[b]

\* A sum in which one value changes, as it is used below.
LEMMA TotalMoves ==
  ASSUME NEW S, IsFiniteSet(S), NEW f \in [S -> Nat], NEW a \in S,
         NEW n \in Nat, NEW g, IsChanged(S, f, a, n, g)
  PROVE  Total(g) = Total(f) - f[a] + n
<1>1. g \in [S -> Nat] /\ g[a] = n /\ \A b \in S \ {a} : g[b] = f[b]
  BY DEF IsChanged
<1>2. Put(f, a, n) \in [S -> Nat] /\ \A b \in S : Put(f, a, n)[b] = g[b]
  BY <1>1 DEF Put
<1>3. g = Put(f, a, n)
  BY <1>1, <1>2
<1>4. Total(Put(f, a, n)) + f[a] = Total(f) + n
  BY TotalUpdate
<1>5. Total(f) \in Nat /\ Total(g) \in Nat
  BY <1>1, CoinsFinite
<1> QED
  BY <1>1, <1>3, <1>4, <1>5

\* The bounds on what a broadcaster can add.
LEMMA RoomRange ==
  ASSUME SpamAssumption, TypeOK, Rounds, NEW a \in Accounts
  PROVE  /\ Room(pc[a], selected[a]) \in 0 .. TxsPerAccount
         /\ Mark(pc[a]) \in {0, 1}
         /\ Mark(pc[a]) <= Room(pc[a], selected[a])
         /\ Total(selected[a]) \in 0 .. TxsPerAccount
<1>1. Total(selected[a]) \in 0 .. TxsPerAccount /\ (Mark(pc[a]) = 1 => Total(selected[a]) > 0)
  BY DEF Rounds, Iterations
<1>2. TxsPerAccount \in Nat
  BY SpamConstants
<1> QED
  BY <1>1, <1>2 DEF Room, Mark

\* All sums are sums of numbers.
LEMMA SumTypes ==
  ASSUME SpamAssumption, TypeOK, Rounds
  PROVE  /\ Uncounted(pc) \in [Accounts -> Nat]
         /\ Allowance(pc, selected) \in [Accounts -> Nat]
         /\ Owed(answerable, dropped) \in [Clients -> Nat]
         /\ held \in [Accounts -> Nat]
         /\ Total(Uncounted(pc)) \in Nat /\ Total(Allowance(pc, selected)) \in Nat
         /\ Total(Owed(answerable, dropped)) \in Nat /\ Total(held) \in Nat
<1>1. \A a \in Accounts : Room(pc[a], selected[a]) \in Nat /\ Mark(pc[a]) \in Nat
  BY RoomRange, SpamConstants
<1>2. Uncounted(pc) \in [Accounts -> Nat] /\ Allowance(pc, selected) \in [Accounts -> Nat]
  BY <1>1 DEF Uncounted, Allowance
<1>3. Owed(answerable, dropped) \in [Clients -> Nat]
  BY DEF Owed, TypeOK
<1>4. held \in [Accounts -> Nat]
  BY SpamConstants DEF TypeOK
<1> QED
  BY <1>2, <1>3, <1>4, CoinsFinite, SpamConstants

\* A broadcaster moves on, having chosen so many recipients in its round.
Moves(a, label, chosen) ==
  /\ pc' = [pc EXCEPT ![a] = label]
  /\ selected' = [selected EXCEPT ![a] = chosen]
  /\ Total(chosen) \in 0 .. TxsPerAccount
  /\ Mark(label) = 1 => Total(chosen) > 0

\* What the sums become then.
LEMMA BroadcasterMoves ==
  ASSUME SpamAssumption, TypeOK, Rounds, NEW a \in Accounts, NEW label, NEW chosen,
         Moves(a, label, chosen)
  PROVE  /\ Rounds'
         /\ Total(Uncounted(pc')) = Total(Uncounted(pc)) - Mark(pc[a]) + Mark(label)
         /\ Total(Allowance(pc', selected'))
              = Total(Allowance(pc, selected)) - Room(pc[a], selected[a]) + Room(label, chosen)
<1>1. /\ pc'[a] = label /\ selected'[a] = chosen
      /\ \A b \in Accounts \ {a} : pc'[b] = pc[b] /\ selected'[b] = selected[b]
  BY DEF TypeOK, Moves
<1>2. Rounds'
  BY <1>1 DEF Rounds, Iterations, Moves
<1>3. Mark(pc[a]) \in Nat /\ Room(pc[a], selected[a]) \in Nat /\ TxsPerAccount \in Nat
  BY RoomRange, SpamConstants
<1>4. Mark(label) \in Nat /\ Room(label, chosen) \in Nat
  BY <1>3 DEF Mark, Room, Moves
<1> DEFINE u == Uncounted(pc)
           w == Allowance(pc, selected)
           v == Uncounted(pc')
           z == Allowance(pc', selected')
<1>5. /\ u \in [Accounts -> Nat] /\ Total(u) \in Nat /\ u[a] = Mark(pc[a])
      /\ w \in [Accounts -> Nat] /\ Total(w) \in Nat /\ w[a] = Room(pc[a], selected[a])
  BY SumTypes DEF Uncounted, Allowance
<1>6. /\ v[a] = Mark(label)
      /\ \A b \in Accounts \ {a} : v[b] = u[b]
  BY <1>1 DEF Uncounted
<1>7. /\ z[a] = Room(label, chosen)
      /\ \A b \in Accounts \ {a} : z[b] = w[b]
  BY <1>1 DEF Allowance
<1>8. v = [b \in Accounts |-> v[b]] /\ z = [b \in Accounts |-> z[b]]
  BY DEF Uncounted, Allowance
<1> SUFFICES Total(v) = Total(u) - Mark(pc[a]) + Mark(label)
             /\ Total(z) = Total(w) - Room(pc[a], selected[a]) + Room(label, chosen)
  BY <1>2
<1> HIDE DEF u, v, w, z
<1>9. (\A b \in Accounts : v[b] \in Nat) /\ (\A b \in Accounts : z[b] \in Nat)
  BY <1>3, <1>4, <1>5, <1>6, <1>7
<1>10. v \in [Accounts -> Nat] /\ z \in [Accounts -> Nat]
  BY <1>8, <1>9
<1>11. IsFiniteSet(Accounts)
  BY SpamConstants
<1>12. /\ IsChanged(Accounts, u, a, Mark(label), v)
       /\ IsChanged(Accounts, w, a, Room(label, chosen), z)
  BY <1>6, <1>7, <1>10 DEF IsChanged
<1>13. Total(v) = Total(u) - u[a] + Mark(label)
  BY <1>4, <1>5, <1>11, <1>12, TotalMoves
<1>14. Total(z) = Total(w) - w[a] + Room(label, chosen)
  BY <1>4, <1>5, <1>11, <1>12, TotalMoves
<1> QED
  BY <1>5, <1>13, <1>14

\* The accounts of a client whose broadcaster is at a label.
AtLabel(p, c, label) == {a \in Accounts : p[a] = label /\ issuer[a] = c}

\* One for a broadcaster of the client that registered and did not count.
Here(label, a, c) == IF label = "registered" /\ issuer[a] = c THEN 1 ELSE 0

\* What becomes of the broadcasters that have registered and not counted.
LEMMA RegisteredMoves ==
  ASSUME SpamAssumption, TypeOK, NEW a \in Accounts, NEW label,
         pc' = [pc EXCEPT ![a] = label], NEW c \in Clients
  PROVE  /\ Cardinality(AtLabel(pc', c, "registered"))
              = Cardinality(AtLabel(pc, c, "registered")) - Here(pc[a], a, c) + Here(label, a, c)
         /\ Cardinality(AtLabel(pc, c, "registered")) \in Nat
<1> DEFINE A == AtLabel(pc, c, "registered")
           B == AtLabel(pc', c, "registered")
<1> SUFFICES /\ Cardinality(B) = Cardinality(A) - Here(pc[a], a, c) + Here(label, a, c)
             /\ Cardinality(A) \in Nat
  OBVIOUS
<1>1. IsFiniteSet(A) /\ Cardinality(A) \in Nat
  BY SpamConstants, FS_Subset, FS_CardinalityType DEF AtLabel
<1>2. \A b \in Accounts : pc'[b] = IF b = a THEN label ELSE pc[b]
  BY DEF TypeOK
<1>3. CASE Here(pc[a], a, c) = Here(label, a, c)
  <2>1. B = A
    BY <1>2, <1>3 DEF AtLabel, Here
  <2> QED
    BY <1>1, <1>3, <2>1 DEF Here
<1>4. CASE Here(pc[a], a, c) = 0 /\ Here(label, a, c) = 1
  <2>1. B = A \cup {a} /\ a \notin A
    BY <1>2, <1>4 DEF AtLabel, Here
  <2> HIDE DEF A, B
  <2>2. Cardinality(A \cup {a}) = Cardinality(A) + 1
    BY <1>1, <2>1, FS_AddElement
  <2> QED
    BY <1>1, <1>4, <2>1, <2>2
<1>5. CASE Here(pc[a], a, c) = 1 /\ Here(label, a, c) = 0
  <2>1. B = A \ {a} /\ a \in A
    BY <1>2, <1>5 DEF AtLabel, Here
  <2> HIDE DEF A, B
  <2>2. Cardinality(A \ {a}) = Cardinality(A) - 1
    BY <1>1, <2>1, FS_RemoveElement
  <2> QED
    BY <1>1, <1>5, <2>1, <2>2
<1>6. Here(pc[a], a, c) \in {0, 1} /\ Here(label, a, c) \in {0, 1}
  BY DEF Here
<1> QED
  BY <1>3, <1>4, <1>5, <1>6
\* What the nodes owe, when it changes at one client.
LEMMA OwedMoves ==
  ASSUME SpamAssumption, TypeOK, TypeOK', NEW c \in Clients,
         \A d \in Clients \ {c} : answerable'[d] = answerable[d] /\ dropped'[d] = dropped[d]
  PROVE  Total(Owed(answerable', dropped'))
           = Total(Owed(answerable, dropped)) - (answerable[c] + dropped[c])
               + (answerable'[c] + dropped'[c])
<1> DEFINE u == Owed(answerable, dropped)
           v == Owed(answerable', dropped')
           n == answerable'[c] + dropped'[c]
<1>1. /\ \A d \in Clients : answerable[d] + dropped[d] \in Nat
      /\ \A d \in Clients : answerable'[d] + dropped'[d] \in Nat
  BY DEF TypeOK
<1>2. u \in [Clients -> Nat] /\ v \in [Clients -> Nat] /\ n \in Nat
  BY <1>1 DEF Owed
<1>3. u[c] = answerable[c] + dropped[c]
  BY DEF Owed
<1>4. IsChanged(Clients, u, c, n, v)
  BY <1>2 DEF IsChanged, Owed
<1>5. IsFiniteSet(Clients)
  BY SpamConstants
<1> HIDE DEF u, v, n
<1>6. Total(v) = Total(u) - u[c] + n
  BY <1>2, <1>4, <1>5, TotalMoves
<1> QED
  BY <1>3, <1>6 DEF u, v, n

\* A broadcaster is at work only while the command waits for it.
LEMMA BusyWhileRunning ==
  ASSUME SpamInv, NEW a \in Accounts,
         pc[a] \in {"idle", "sending", "registered", "counted"}
  PROVE  phase = "running"
<1>1. ~Over /\ ~Fresh
  BY DEF Over, Fresh
<1> QED
  BY <1>1 DEF SpamInv, Funds, Stages, TypeOK, Phases

\* What the choice of a recipient does to the round.
LEMMA SelectCounts ==
  ASSUME SpamAssumption, SpamInv, NEW a \in Accounts, NEW r \in Everybody, Select(a, r)
  PROVE  /\ selected' = [selected EXCEPT ![a] = selected'[a]]
         /\ selected'[a] \in [Everybody -> 0 .. TxsPerAccount]
         /\ selected'[a][r] \in 1 .. TxsPerAccount
         /\ Total(selected[a]) \in Nat
         /\ Total(selected'[a]) = Total(selected[a]) + 1
         /\ Total(selected'[a]) \in 1 .. TxsPerAccount
         /\ pc[a] = "sending"
<1> DEFINE f == selected[a]
           g == selected'[a]
<1>1. /\ f \in [Everybody -> Nat] /\ f[r] \in Nat /\ Total(f) \in Nat
      /\ TxsPerAccount \in Nat /\ Total(f) < TxsPerAccount /\ IsFiniteSet(Everybody)
  <2>1. f \in [Everybody -> Nat]
    BY SpamConstants DEF SpamInv, TypeOK
  <2> QED
    BY <2>1, SpamConstants, CoinsFinite DEF Select, Iterations
<1>2. /\ g = [f EXCEPT ![r] = @ + 1]
      /\ selected' = [selected EXCEPT ![a] = g] /\ pc[a] = "sending"
  BY DEF Select, SpamInv, TypeOK
<1> HIDE DEF f, g
<1>3. /\ g \in [Everybody -> Nat] /\ g[r] = f[r] + 1 /\ g[r] \in Nat
      /\ IsChanged(Everybody, f, r, f[r] + 1, g)
  BY <1>1, <1>2 DEF IsChanged
<1>4. Total(g) = Total(f) - f[r] + (f[r] + 1)
  BY <1>1, <1>3, TotalMoves
<1>5. Total(g) = Total(f) + 1
  BY <1>1, <1>4
<1>6. \A x \in Everybody : g[x] <= Total(g)
  BY <1>1, <1>3, TotalBound
<1>7. \A x \in Everybody : g[x] \in 0 .. TxsPerAccount
  BY <1>1, <1>3, <1>5, <1>6
<1>8. g \in [Everybody -> 0 .. TxsPerAccount]
  BY <1>3, <1>7
<1>9. g[r] \in 1 .. TxsPerAccount
  BY <1>1, <1>3, <1>7
<1> QED
  BY <1>1, <1>2, <1>5, <1>8, <1>9 DEF f, g

\* What a round without choices amounts to.
LEMMA NothingSelected ==
  ASSUME SpamAssumption
  PROVE  NoneSelected \in [Everybody -> 0 .. TxsPerAccount] /\ Total(NoneSelected) = 0
<1>1. NoneSelected \in [Everybody -> Nat] /\ \A x \in Everybody : NoneSelected[x] = 0
  BY DEF NoneSelected
<1>2. Total(NoneSelected) = 0
  BY <1>1, TotalZero
<1> QED
  BY <1>2, SpamConstants DEF NoneSelected
-----------------------------------------------------------------------------
\* When no broadcaster moves and no answer comes, the counters stay right.
LEMMA QueuesStay ==
  ASSUME Queues,
         UNCHANGED <<pc, selected, issuer, counters, answerable, dropped, listener>>
  PROVE  Queues'
BY DEF Queues, Rounds, Iterations, InflightLags, InflightBounded, OutstandingIsUnanswered,
       Unanswered, AtClient, counters

\* When no money moves and no broadcaster ends, the accounts stay covered.
LEMMA CoverStays ==
  ASSUME BalancesAreCovered, UNCHANGED <<held, funds, balance, wrapped, pc>>,
         returned \subseteq returned'
  PROVE  BalancesAreCovered'
BY DEF BalancesAreCovered

\* A refusal stays explained while nothing is given back.
LEMMA ExplanationStays ==
  ASSUME RefusedReturnsAreExplained,
         UNCHANGED <<held, funds, transferFee, wrapped, pc, returned>>,
         phase' \in {"txFailed", "error"} => phase' = phase
  PROVE  RefusedReturnsAreExplained'
BY DEF RefusedReturnsAreExplained

\* Before the broadcasters have ended there is nothing to explain.
LEMMA NothingToExplain ==
  ASSUME phase' \notin {"txFailed", "error"}
  PROVE  RefusedReturnsAreExplained'
BY DEF RefusedReturnsAreExplained
-----------------------------------------------------------------------------
\* Handing out the funds.
LEMMA DistributeKeeps ==
  ASSUME SpamAssumption, SpamInv, NEW a \in Accounts, Distribute(a)
  PROVE  SpamInv'
<1>1. /\ phase = "distributing" /\ pc[a] = "new" /\ Fresh /\ held = funds
      /\ \A b \in Accounts : balance[b] = 0
  BY DEF SpamInv, Funds, Stages, Distribute
<1>2. CASE DistAmount > 0 /\ root >= Fee + DistAmount
  <2>1. /\ root' = root - Fee - DistAmount
        /\ held' = Put(held, a, DistAmount) /\ funds' = Put(funds, a, DistAmount)
        /\ pc' = [pc EXCEPT ![a] = "funded"] /\ phase' = phase
        /\ UNCHANGED <<balance, wrapped, counters, network, signals, cancelled,
                       closed, returned, choices, selected, transferFee>>
    BY <1>2 DEF Distribute, Put
  <2>2. DistAmount \in 0 .. MaxUint64 /\ root \in Nat /\ Fee \in Nat
    BY DistAmountRange, SpamConstants DEF SpamInv, TypeOK
  <2>3. DistAmount \in 0 .. Balance /\ root' \in 0 .. Balance
    BY <1>2, <2>1, <2>2, SpamConstants DEF SpamInv, TypeOK
  <2>4. TypeOK'
    BY <2>1, <2>2, <2>3 DEF SpamInv, TypeOK, Put, counters, network, choices
  <2>5. Solvent'
    <3>1. held \in [Accounts -> Nat] /\ Total(held) \in Nat /\ held[a] \in Nat
      BY SumTypes DEF SpamInv, Queues
    <3>2. held' \in [Accounts -> Nat] /\ DistAmount \in Nat
      BY <2>4, <2>3, SpamConstants DEF TypeOK
    <3>3. Total(held') \in Nat
      BY <3>2, CoinsFinite, SpamConstants
    <3>4. Total(Put(held, a, DistAmount)) + held[a] = Total(held) + DistAmount
      BY <3>1, <3>2, TotalUpdate, SpamConstants
    <3> QED
      BY <2>1, <2>2, <3>1, <3>2, <3>3, <3>4, SpamConstants DEF SpamInv, Solvent
  <2>6. Queues'
    <3>1. selected' = [selected EXCEPT ![a] = selected[a]]
      BY <2>1 DEF SpamInv, TypeOK
    <3>2. Mark("new") = 0 /\ Mark("funded") = 0
          /\ Room("new", selected[a]) = 0 /\ Room("funded", selected[a]) = 0
      BY DEF Mark, Room
    <3>3. Total(selected[a]) \in 0 .. TxsPerAccount
      BY RoomRange DEF SpamInv, Queues
    <3>7. Moves(a, "funded", selected[a])
      <4>1. pc' = [pc EXCEPT ![a] = "funded"]
        BY <2>1
      <4>2. Mark("funded") # 1
        BY <3>2
      <4> QED
        BY <3>1, <3>3, <4>1, <4>2, Zenon DEF Moves
    <3>8. TypeOK /\ Rounds
      BY DEF SpamInv, Queues
    <3>4. /\ Rounds'
          /\ Total(Uncounted(pc')) = Total(Uncounted(pc)) - Mark(pc[a]) + Mark("funded")
          /\ Total(Allowance(pc', selected'))
               = Total(Allowance(pc, selected)) - Room(pc[a], selected[a])
                   + Room("funded", selected[a])
      BY <3>7, <3>8, BroadcasterMoves
    <3>5. Total(Uncounted(pc)) \in Nat /\ Total(Allowance(pc, selected)) \in Nat
      BY SumTypes DEF SpamInv, Queues
    <3>6. \A c \in Clients : AtClient(c, "registered")' = AtClient(c, "registered")
      BY <1>1, <2>1 DEF AtClient, choices, SpamInv, TypeOK
    <3> QED
      BY <1>1, <2>1, <3>2, <3>4, <3>5, <3>6
      DEF SpamInv, Queues, InflightLags, InflightBounded, OutstandingIsUnanswered,
          Unanswered, counters, network
  <2>7. Stages'
    BY <1>1, <2>1 DEF Stages, Fresh, SpamInv, TypeOK
  <2>8. BalancesAreCovered'
    BY <1>1, <2>1, <2>4, SpamConstants DEF BalancesAreCovered, Fresh, TypeOK, SpamInv
  <2> QED
    BY <1>1, <2>1, <2>4, <2>5, <2>6, <2>7, <2>8, NothingToExplain DEF SpamInv, Funds
<1>3. CASE ~(DistAmount > 0 /\ root >= Fee + DistAmount)
  <2>1. /\ phase' \in {"txFailed", "error"}
        /\ UNCHANGED <<root, held, funds, pc, balance, wrapped, counters, network, signals,
                       cancelled, closed, returned, choices, selected, transferFee>>
    BY <1>3 DEF Distribute
  <2>2. TypeOK' /\ Solvent'
    BY <2>1 DEF SpamInv, TypeOK, Solvent, Phases, counters, network, choices
  <2>3. Queues'
    BY <2>1, QueuesStay DEF SpamInv, network, choices
  <2>4. Stages'
    BY <1>1, <2>1 DEF Stages, Fresh
  <2>5. BalancesAreCovered'
    BY <2>1, CoverStays DEF SpamInv, Funds
  <2>6. RefusedReturnsAreExplained'
    BY <1>1, <2>1 DEF RefusedReturnsAreExplained
  <2> QED
    BY <2>2, <2>3, <2>4, <2>5, <2>6 DEF SpamInv, Funds
<1> QED
  BY <1>2, <1>3

\* The broadcasters start.
LEMMA KickoffKeeps ==
  ASSUME SpamAssumption, SpamInv, Kickoff
  PROVE  SpamInv'
<1>1. /\ phase' = "running" /\ pc' = [a \in Accounts |-> "idle"] /\ balance' = funds
      /\ held = funds /\ \A a \in Accounts : pc[a] = "funded"
      /\ UNCHANGED <<root, held, funds, wrapped, counters, network, signals, cancelled,
                     closed, returned, choices, selected, transferFee>>
  BY DEF SpamInv, Funds, Stages, Kickoff, chain
<1>2. TypeOK' /\ Solvent'
  BY <1>1 DEF SpamInv, TypeOK, Solvent, Phases, counters, network, choices
<1>3. Queues'
  <2>1. /\ Uncounted(pc') = Uncounted(pc)
        /\ Allowance(pc', selected') = Allowance(pc, selected)
    BY <1>1 DEF Uncounted, Allowance, Mark, Room
  <2>2. Rounds'
    BY <1>1 DEF SpamInv, Queues, Rounds, Iterations, Mark
  <2>3. \A c \in Clients : AtClient(c, "registered")' = AtClient(c, "registered")
    BY <1>1 DEF AtClient, choices
  <2> QED
    BY <1>1, <2>1, <2>2, <2>3
    DEF SpamInv, Queues, InflightLags, InflightBounded, OutstandingIsUnanswered,
        Unanswered, counters, network
<1>4. Stages'
  BY <1>1 DEF Stages
<1>5. BalancesAreCovered'
  <2>1. \A a \in Accounts : held[a] \in Int
    BY SpamConstants DEF SpamInv, TypeOK
  <2> QED
    BY <1>1, <2>1 DEF BalancesAreCovered
<1> QED
  BY <1>1, <1>2, <1>3, <1>4, <1>5, NothingToExplain DEF SpamInv, Funds

\* A broadcaster moves on without a choice.
LEMMA MovesOn ==
  ASSUME SpamAssumption, SpamInv, NEW a \in Accounts, NEW label,
         pc' = [pc EXCEPT ![a] = label], selected' = selected,
         Mark(label) = 1 => Mark(pc[a]) = 1
  PROVE  Moves(a, label, selected[a])
<1>1. selected' = [selected EXCEPT ![a] = selected[a]]
  BY DEF SpamInv, TypeOK
<1>2. Total(selected[a]) \in 0 .. TxsPerAccount
  BY RoomRange DEF SpamInv, Queues
<1>3. Mark(pc[a]) = 1 => Total(selected[a]) > 0
  BY DEF SpamInv, Queues, Rounds, Iterations
<1> QED
  BY <1>1, <1>2, <1>3, Zenon DEF Moves

\* How far a client's counter is ahead of what it counts.
Gap(c) == outstandingTxs[c] - Unanswered(c) - (IF listener[c] = "counting" THEN 1 ELSE 0)

\* A counter stays right when it makes up for the broadcaster that moves.
LEMMA OutstandingMoves ==
  ASSUME SpamAssumption, TypeOK, TypeOK', OutstandingIsUnanswered,
         NEW a \in Accounts, NEW label, pc' = [pc EXCEPT ![a] = label], issuer' = issuer,
         \A c \in Clients : Gap(c)' + Here(label, a, c) = Gap(c) + Here(pc[a], a, c)
  PROVE  OutstandingIsUnanswered'
<1> SUFFICES ASSUME NEW c \in Clients
             PROVE  Gap(c)' + Cardinality(AtClient(c, "registered")') = 0
  <2>1. ASSUME NEW c \in Clients
        PROVE  /\ outstandingTxs'[c] \in Int /\ Unanswered(c)' \in Int
               /\ Cardinality(AtClient(c, "registered")') \in Nat
    <3>1. IsFiniteSet(AtClient(c, "registered")')
      BY SpamConstants, FS_Subset DEF AtClient
    <3>2. Cardinality(AtClient(c, "registered")') \in Nat
      BY <3>1, FS_CardinalityType
    <3>3. outstandingTxs'[c] \in Int /\ Unanswered(c)' \in Int
      BY DEF TypeOK, Unanswered
    <3> QED
      BY <3>2, <3>3
  <2> QED
    BY <2>1 DEF OutstandingIsUnanswered, Gap
<1> DEFINE n == Cardinality(AtClient(c, "registered"))
           m == Cardinality(AtClient(c, "registered")')
<1>1. AtClient(c, "registered") = AtLabel(pc, c, "registered")
      /\ AtClient(c, "registered")' = AtLabel(pc', c, "registered")
  BY DEF AtClient, AtLabel
<1>2. m = n - Here(pc[a], a, c) + Here(label, a, c) /\ n \in Nat
  <2>1. /\ Cardinality(AtLabel(pc', c, "registered"))
             = Cardinality(AtLabel(pc, c, "registered")) - Here(pc[a], a, c) + Here(label, a, c)
        /\ Cardinality(AtLabel(pc, c, "registered")) \in Nat
    BY RegisteredMoves
  <2> QED
    BY <1>1, <2>1
<1>3. Gap(c) + n = 0 /\ Gap(c) \in Int
  BY <1>2 DEF Gap, OutstandingIsUnanswered, TypeOK, Unanswered
<1>4. Gap(c)' \in Int
  BY DEF Gap, TypeOK, Unanswered
<1>5. Here(pc[a], a, c) \in Int /\ Here(label, a, c) \in Int
  BY DEF Here
<1>6. Gap(c)' + Here(label, a, c) = Gap(c) + Here(pc[a], a, c)
  OBVIOUS
<1> HIDE DEF n, m
<1>7. Gap(c)' + m = 0
  BY <1>2, <1>3, <1>4, <1>5, <1>6
<1> QED
  BY <1>7 DEF m
-----------------------------------------------------------------------------
\* A round begins only when inflight has room for it, whatever the others do.
LEMMA StartRoundKeeps ==
  ASSUME SpamAssumption, SpamInv, NEW a \in Accounts, StartRound(a)
  PROVE  SpamInv'
<1>1. /\ pc[a] = "idle" /\ inflight <= MaxTxBacklog /\ phase = "running"
      /\ pc' = [pc EXCEPT ![a] = "sending"]
      /\ selected' = [selected EXCEPT ![a] = NoneSelected]
      /\ UNCHANGED <<chain, books, counters, network, control, choices, transferFee>>
  BY BusyWhileRunning DEF StartRound, Goto
<1>2. NoneSelected \in [Everybody -> 0 .. TxsPerAccount] /\ Total(NoneSelected) = 0
  BY NothingSelected
<1>3. TypeOK' /\ Solvent'
  BY <1>1, <1>2 DEF SpamInv, TypeOK, Solvent, chain, books, counters, network, control, choices
<1>4. Moves(a, "sending", NoneSelected)
  BY <1>1, <1>2, SpamConstants DEF Moves, Mark
<1>5. TypeOK /\ Rounds
  BY DEF SpamInv, Queues
<1>6. /\ Rounds'
      /\ Total(Uncounted(pc')) = Total(Uncounted(pc)) - Mark(pc[a]) + Mark("sending")
  BY <1>4, <1>5, BroadcasterMoves
<1>7. InflightLags'
  <2>1. Total(Uncounted(pc)) \in Nat
    BY <1>5, SumTypes
  <2> QED
    BY <1>1, <1>6, <2>1 DEF SpamInv, Queues, InflightLags, Mark, counters, network
<1>8. InflightBounded'
  <2> DEFINE w == Allowance(pc', selected')
  <2>1. \A b \in Accounts : Room(pc'[b], selected'[b]) \in 0 .. TxsPerAccount
    BY <1>3, <1>6, SpamConstants DEF Rounds, Iterations, Room, Mark
  <2>2. w \in [Accounts -> Nat] /\ \A b \in Accounts : w[b] <= TxsPerAccount
    BY <2>1, SpamConstants DEF Allowance
  <2>3. IsFiniteSet(Accounts) /\ TxsPerAccount \in Nat /\ MaxTxBacklog \in Nat /\ NumAccounts \in Nat
    BY SpamConstants
  <2> HIDE DEF w
  <2>4. Total(w) <= NumAccounts * TxsPerAccount /\ Total(w) \in Nat
    BY <2>2, <2>3, TotalCap, CoinsFinite DEF NumAccounts
  <2>5. inflight' = inflight /\ inflight \in Int
    BY <1>1, <1>5 DEF counters, TypeOK
  <2>6. NumAccounts * TxsPerAccount \in Nat
    BY <2>3
  <2> QED
    BY <1>1, <2>3, <2>4, <2>5, <2>6 DEF InflightBounded, w
<1>9. OutstandingIsUnanswered'
  <2>1. \A c \in Clients : Gap(c)' = Gap(c)
    BY <1>1 DEF Gap, Unanswered, counters, network
  <2>2. \A c \in Clients : Gap(c) \in Int
    BY <1>5 DEF Gap, Unanswered, TypeOK
  <2>3. \A c \in Clients : Here("sending", a, c) = 0 /\ Here(pc[a], a, c) = 0
    BY <1>1 DEF Here
  <2>4. \A c \in Clients : Gap(c)' + Here("sending", a, c) = Gap(c) + Here(pc[a], a, c)
    BY <2>1, <2>2, <2>3
  <2> QED
    BY <1>1, <1>3, <1>5, <2>4, OutstandingMoves DEF SpamInv, Queues, choices
<1>10. Stages'
  BY <1>1 DEF Stages, control
<1>11. BalancesAreCovered'
  BY <1>1 DEF SpamInv, Funds, TypeOK, BalancesAreCovered, chain, books, control
<1> QED
  BY <1>1, <1>3, <1>6, <1>7, <1>8, <1>9, <1>10, <1>11, NothingToExplain
  DEF SpamInv, Queues, Funds, control

\* The counter of a client stays right when it and what it counts stay, and
\* the broadcaster that moves neither was nor is between the two.
LEMMA OutstandingStays ==
  ASSUME SpamAssumption, SpamInv, TypeOK', NEW a \in Accounts, NEW label,
         pc' = [pc EXCEPT ![a] = label],
         pc[a] # "registered", label # "registered",
         UNCHANGED <<issuer, outstandingTxs, answerable, dropped, listener>>
  PROVE  OutstandingIsUnanswered'
<1>1. \A c \in Clients : Gap(c)' = Gap(c)
  BY DEF Gap, Unanswered
<1>2. \A c \in Clients : Gap(c) \in Int
  BY DEF Gap, Unanswered, SpamInv, TypeOK
<1>3. \A c \in Clients : Here(label, a, c) = 0 /\ Here(pc[a], a, c) = 0
  BY DEF Here
<1>4. \A c \in Clients : Gap(c)' + Here(label, a, c) = Gap(c) + Here(pc[a], a, c)
  BY <1>1, <1>2, <1>3
<1> QED
  BY <1>4, OutstandingMoves DEF SpamInv, Queues

\* What the sums become, with the numbers they are made of.
LEMMA SumsMove ==
  ASSUME SpamAssumption, SpamInv, NEW a \in Accounts, NEW label, NEW chosen,
         Moves(a, label, chosen)
  PROVE  /\ Rounds'
         /\ Total(Uncounted(pc')) = Total(Uncounted(pc)) - Mark(pc[a]) + Mark(label)
         /\ Total(Allowance(pc', selected'))
              = Total(Allowance(pc, selected)) - Room(pc[a], selected[a]) + Room(label, chosen)
         /\ Total(Uncounted(pc)) \in Nat /\ Total(Allowance(pc, selected)) \in Nat
         /\ Total(Owed(answerable, dropped)) \in Nat
         /\ Mark(pc[a]) \in {0, 1} /\ Total(selected[a]) \in 0 .. TxsPerAccount
         /\ inflight \in Int /\ TxsPerAccount \in Nat
         /\ MaxTxBacklog + NumAccounts * TxsPerAccount \in Nat
         /\ inflight + Total(Uncounted(pc)) = Total(Owed(answerable, dropped))
         /\ inflight + Total(Allowance(pc, selected))
              <= MaxTxBacklog + NumAccounts * TxsPerAccount
<1>1. TypeOK /\ Rounds /\ InflightLags /\ InflightBounded
  BY DEF SpamInv, Queues
<1>2. /\ Rounds'
      /\ Total(Uncounted(pc')) = Total(Uncounted(pc)) - Mark(pc[a]) + Mark(label)
      /\ Total(Allowance(pc', selected'))
           = Total(Allowance(pc, selected)) - Room(pc[a], selected[a]) + Room(label, chosen)
  BY <1>1, BroadcasterMoves
<1>3. /\ Total(Uncounted(pc)) \in Nat /\ Total(Allowance(pc, selected)) \in Nat
      /\ Total(Owed(answerable, dropped)) \in Nat
  BY <1>1, SumTypes
<1>4. Mark(pc[a]) \in {0, 1} /\ Total(selected[a]) \in 0 .. TxsPerAccount
  BY <1>1, RoomRange
<1>5. inflight \in Int /\ TxsPerAccount \in Nat /\ MaxTxBacklog \in Nat /\ NumAccounts \in Nat
  BY <1>1, SpamConstants DEF TypeOK
<1>6. NumAccounts * TxsPerAccount \in Nat
  BY <1>5
<1> QED
  BY <1>1, <1>2, <1>3, <1>4, <1>5, <1>6 DEF InflightLags, InflightBounded

\* A broadcaster that goes on with its round or ends it, and moves no money.
LEMMA BroadcasterKeeps ==
  ASSUME SpamAssumption, SpamInv, TypeOK', Queues', NEW a \in Accounts, NEW label,
         pc[a] \in {"idle", "sending", "registered", "counted"},
         pc' = [pc EXCEPT ![a] = label], label # "exited",
         UNCHANGED <<chain, books, phase, returned>>
  PROVE  SpamInv'
<1>1. phase' = "running"
  BY BusyWhileRunning
<1>2. Solvent' /\ Stages'
  BY <1>1 DEF SpamInv, Solvent, Stages, chain
<1>3. BalancesAreCovered'
  BY DEF SpamInv, Funds, TypeOK, BalancesAreCovered, chain, books
<1> QED
  BY <1>1, <1>2, <1>3, NothingToExplain DEF SpamInv, Funds

\* A round that ends has chosen all its recipients.
LEMMA EndRoundKeeps ==
  ASSUME SpamAssumption, SpamInv, NEW a \in Accounts, EndRound(a)
  PROVE  SpamInv'
<1>1. /\ pc[a] = "sending" /\ Total(selected[a]) = TxsPerAccount
      /\ pc' = [pc EXCEPT ![a] = "idle"]
      /\ selected' = [selected EXCEPT ![a] = NoneSelected]
      /\ UNCHANGED <<chain, books, counters, network, control, choices, transferFee>>
  BY DEF EndRound, Iterations, Goto
<1>2. NoneSelected \in [Everybody -> 0 .. TxsPerAccount] /\ Total(NoneSelected) = 0
  BY NothingSelected
<1>3. TypeOK'
  BY <1>1, <1>2 DEF SpamInv, TypeOK, chain, books, counters, network, control, choices
<1>4. Moves(a, "idle", NoneSelected)
  BY <1>1, <1>2, SpamConstants DEF Moves, Mark
<1>5. Rounds' /\ InflightLags' /\ InflightBounded'
  <2>1. inflight' = inflight /\ answerable' = answerable /\ dropped' = dropped
    BY <1>1 DEF counters, network
  <2>2. /\ Mark(pc[a]) = 0 /\ Mark("idle") = 0
        /\ Room(pc[a], selected[a]) = 0 /\ Room("idle", NoneSelected) = 0
    BY <1>1, SpamConstants DEF Mark, Room
  <2> QED
    BY <1>4, <2>1, <2>2, SumsMove DEF InflightLags, InflightBounded
<1>6. OutstandingIsUnanswered'
  BY <1>1, <1>3, OutstandingStays DEF counters, network, choices
<1> QED
  BY <1>1, <1>3, <1>5, <1>6, BroadcasterKeeps DEF Queues, control

\* A transfer that is not registered uses up a choice.
LEMMA SendFailsKeeps ==
  ASSUME SpamAssumption, SpamInv, NEW a \in Accounts, NEW r \in Everybody, SendFails(a, r)
  PROVE  SpamInv'
<1> DEFINE chosen == selected'[a]
<1>1. /\ pc[a] = "sending" /\ transferFee' \in {transferFee, Fee}
      /\ UNCHANGED <<chain, books, counters, network, control, choices, pc>>
  BY DEF SendFails, Select
<1>2. /\ selected' = [selected EXCEPT ![a] = chosen]
      /\ chosen \in [Everybody -> 0 .. TxsPerAccount]
      /\ Total(selected[a]) \in Nat
      /\ Total(chosen) = Total(selected[a]) + 1
      /\ Total(chosen) \in 1 .. TxsPerAccount
  BY SelectCounts DEF SendFails
<1> HIDE DEF chosen
<1>3. TypeOK'
  BY <1>1, <1>2 DEF SpamInv, TypeOK, chain, books, counters, network, control, choices
<1>4. pc' = [pc EXCEPT ![a] = "sending"]
  BY <1>1 DEF SpamInv, TypeOK
<1>5. Moves(a, "sending", chosen)
  BY <1>2, <1>4, SpamConstants DEF Moves, Mark
<1>6. Rounds' /\ InflightLags' /\ InflightBounded'
  <2>1. inflight' = inflight /\ answerable' = answerable /\ dropped' = dropped
    BY <1>1 DEF counters, network
  <2>2. /\ Mark(pc[a]) = 0 /\ Mark("sending") = 0
        /\ Room(pc[a], selected[a]) = TxsPerAccount - Total(selected[a])
        /\ Room("sending", chosen) = TxsPerAccount - (Total(selected[a]) + 1)
    BY <1>1, <1>2, SpamConstants DEF Mark, Room
  <2>3. /\ Rounds'
        /\ Total(Uncounted(pc')) = Total(Uncounted(pc)) - Mark(pc[a]) + Mark("sending")
        /\ Total(Allowance(pc', selected'))
             = Total(Allowance(pc, selected)) - Room(pc[a], selected[a]) + Room("sending", chosen)
    BY <1>5, SumsMove
  <2>4. /\ Total(Uncounted(pc)) \in Nat /\ Total(Allowance(pc, selected)) \in Nat
        /\ inflight \in Int /\ TxsPerAccount \in Nat
        /\ MaxTxBacklog + NumAccounts * TxsPerAccount \in Nat
        /\ inflight + Total(Uncounted(pc)) = Total(Owed(answerable, dropped))
        /\ inflight + Total(Allowance(pc, selected))
             <= MaxTxBacklog + NumAccounts * TxsPerAccount
    BY <1>5, SumsMove
  <2> QED
    BY <1>2, <2>1, <2>2, <2>3, <2>4 DEF InflightLags, InflightBounded
<1>7. OutstandingIsUnanswered'
  BY <1>1, <1>3, <1>4, OutstandingStays DEF counters, network, choices
<1> QED
  BY <1>1, <1>3, <1>4, <1>6, <1>7, BroadcasterKeeps DEF Queues, control
-----------------------------------------------------------------------------
\* What a transfer of v by a to r makes of the accounts.
IsTransferred(a, v, f, g) ==
  /\ g \in [Accounts -> Nat] /\ Total(g) <= Total(f)
  /\ f[a] >= Fee + v => g[a] >= f[a] - (Fee + v)
  /\ \A b \in Accounts \ {a} : g[b] >= f[b]

\* A transfer makes no money and takes no more than it says.
LEMMA TransferSound ==
  ASSUME SpamAssumption, NEW f \in [Accounts -> Nat], NEW a \in Accounts, NEW v \in Nat,
         NEW r
  PROVE  IsTransferred(a, v, f, Settled(f, a, r, v))
<1> DEFINE g == Settled(f, a, r, v)
           n == f[a] - Fee
           p == [f EXCEPT ![a] = n]
           m == n - v
           h == [p EXCEPT ![a] = m]
           k == h[r] + v
<1>1. Fee \in Nat /\ IsFiniteSet(Accounts) /\ f[a] \in Nat /\ Total(f) \in Nat
  BY SpamConstants, CoinsFinite
<1>2. g = IF f[a] < Fee THEN f
          ELSE IF f[a] < Fee + v THEN p
          ELSE IF r \in Accounts THEN [h EXCEPT ![r] = k]
          ELSE h
  BY DEF Settled
<1>3. n \in Int /\ m \in Int /\ n = f[a] - Fee /\ m = f[a] - (Fee + v)
  BY <1>1
<1>4. p = [f EXCEPT ![a] = n] /\ h = [p EXCEPT ![a] = m] /\ k = h[r] + v
  OBVIOUS
<1> SUFFICES IsTransferred(a, v, f, g)
  OBVIOUS
<1> HIDE DEF g, n, p, m, h, k
<1>5. CASE f[a] < Fee
  <2>1. g = f /\ ~(f[a] >= Fee + v)
    BY <1>1, <1>2, <1>5
  <2> QED
    BY <1>1, <2>1 DEF IsTransferred
<1>6. CASE f[a] >= Fee /\ f[a] < Fee + v
  <2>1. g = p /\ ~(f[a] >= Fee + v) /\ n \in Nat /\ n <= f[a]
    BY <1>1, <1>2, <1>3, <1>6
  <2>2. p \in [Accounts -> Nat] /\ p[a] = n /\ \A b \in Accounts \ {a} : p[b] = f[b]
    BY <1>4, <2>1
  <2>3. IsChanged(Accounts, f, a, n, p) /\ Total(p) \in Nat
    BY <1>1, <2>2, CoinsFinite DEF IsChanged
  <2>4. Total(p) = Total(f) - f[a] + n
    BY <1>1, <2>1, <2>3, TotalMoves
  <2>5. Total(p) <= Total(f) /\ \A b \in Accounts \ {a} : p[b] >= f[b]
    BY <1>1, <2>1, <2>2, <2>4
  <2> QED
    BY <2>1, <2>2, <2>5 DEF IsTransferred
<1>7. CASE f[a] >= Fee + v
  <2>1. m \in Nat /\ m <= f[a] - v /\ g = IF r \in Accounts THEN [h EXCEPT ![r] = k] ELSE h
    BY <1>1, <1>2, <1>3, <1>7
  <2>2. h \in [Accounts -> Nat] /\ h[a] = m /\ \A b \in Accounts \ {a} : h[b] = f[b]
    BY <1>4, <2>1
  <2>3. IsChanged(Accounts, f, a, m, h) /\ Total(h) \in Nat
    BY <1>1, <2>2, CoinsFinite DEF IsChanged
  <2>4. Total(h) = Total(f) - f[a] + m
    BY <1>1, <2>1, <2>3, TotalMoves
  <2>5. \A b \in Accounts \ {a} : h[b] >= f[b]
    BY <2>2
  <2>6. CASE r \notin Accounts
    <3>1. g = h /\ Total(h) <= Total(f)
      BY <1>1, <2>1, <2>4, <2>6
    <3>2. h[a] >= f[a] - (Fee + v)
      BY <1>3, <2>2
    <3> QED
      BY <2>2, <2>5, <3>1, <3>2 DEF IsTransferred
  <2>7. CASE r \in Accounts
    <3>1. k \in Nat /\ h[r] \in Nat /\ k - h[r] = v /\ g = [h EXCEPT ![r] = k]
      BY <1>4, <2>1, <2>2, <2>7
    <3>2. g \in [Accounts -> Nat] /\ g[r] = k /\ \A b \in Accounts \ {r} : g[b] = h[b]
      BY <2>2, <2>7, <3>1
    <3>3. IsChanged(Accounts, h, r, k, g) /\ Total(g) \in Nat
      BY <1>1, <3>2, CoinsFinite DEF IsChanged
    <3>4. Total(g) = Total(h) - h[r] + k
      BY <1>1, <2>2, <2>7, <3>1, <3>3, TotalMoves
    <3>5. \A b \in Accounts : g[b] >= h[b]
      BY <2>2, <3>1, <3>2
    <3>6. \A b \in Accounts \ {a} : g[b] >= f[b]
      <4>1. \A b \in Accounts : g[b] \in Nat /\ h[b] \in Nat /\ f[b] \in Nat
        BY <2>2, <3>2
      <4> QED
        BY <2>5, <3>5, <4>1
    <3>7. g[a] >= f[a] - (Fee + v)
      BY <1>3, <2>2, <3>5
    <3>8. Total(g) <= Total(f)
      BY <1>1, <2>1, <2>3, <2>4, <3>1, <3>3, <3>4
    <3> QED
      BY <3>2, <3>6, <3>7, <3>8 DEF IsTransferred
  <2> QED
    BY <2>6, <2>7
<1> QED
  BY <1>1, <1>5, <1>6, <1>7

\* A registered transfer: it is owed, it is one more not counted yet, and the
\* sender's local balance falls by at least as much as the chain's.
LEMMA RegisterKeeps ==
  ASSUME SpamAssumption, SpamInv, NEW a \in Accounts, NEW r \in Everybody, Register(a, r)
  PROVE  SpamInv'
<1> DEFINE chosen == selected'[a]
           value  == chosen[r]
           at     == issuer[a]
<1>1. /\ pc[a] = "sending" /\ phase = "running" /\ transferFee' = Fee
      /\ pc' = [pc EXCEPT ![a] = "registered"]
      /\ balance' = [balance EXCEPT ![a] = Spent(balance[a], value)]
      /\ wrapped' = IF balance[a] < Fee + value THEN wrapped \cup {a} ELSE wrapped
      /\ UNCHANGED <<root, funds, counters, listener, failures, control, choices>>
  BY BusyWhileRunning DEF Register, Select, Goto
<1>2. \/ /\ held' = Settled(held, a, r, value)
         /\ answerable' = [answerable EXCEPT ![at] = @ + 1] /\ dropped' = dropped
      \/ /\ held' = held
         /\ dropped' = [dropped EXCEPT ![at] = @ + 1] /\ answerable' = answerable
  BY DEF Register
<1>3. /\ selected' = [selected EXCEPT ![a] = chosen]
      /\ chosen \in [Everybody -> 0 .. TxsPerAccount]
      /\ value \in 1 .. TxsPerAccount
      /\ Total(selected[a]) \in Nat
      /\ Total(chosen) = Total(selected[a]) + 1
      /\ Total(chosen) \in 1 .. TxsPerAccount
  BY SelectCounts DEF Register
<1>4. at \in Clients /\ balance[a] \in Nat /\ balance[a] \in 0 .. MaxUint64
      /\ Fee \in Nat /\ value \in Nat /\ root \in Nat /\ Balance \in Nat /\ MaxUint64 \in Nat
      /\ IsFiniteSet(Accounts) /\ held \in [Accounts -> Nat] /\ Total(held) \in Nat
  <2>1. TxsPerAccount \in Nat
    BY SpamConstants
  <2>2. held \in [Accounts -> Nat] /\ Total(held) \in Nat
    BY SumTypes DEF SpamInv, Queues
  <2> QED
    BY <1>3, <2>1, <2>2, SpamConstants DEF SpamInv, TypeOK
<1>5. /\ answerable \in [Clients -> Nat] /\ dropped \in [Clients -> Nat]
       /\ balance \in [Accounts -> 0 .. MaxUint64] /\ wrapped \subseteq Accounts
       /\ outstandingTxs \in [Clients -> Int] /\ funds \in [Accounts -> 0 .. MaxUint64]
  BY DEF SpamInv, TypeOK
<1> HIDE DEF chosen, value, at
<1>6. /\ held' \in [Accounts -> Nat] /\ Total(held') <= Total(held)
      /\ held[a] >= Fee + value => held'[a] >= held[a] - (Fee + value)
      /\ \A b \in Accounts \ {a} : held'[b] >= held[b]
  <2>1. CASE held' = Settled(held, a, r, value)
    <3>1. IsTransferred(a, value, held, Settled(held, a, r, value))
      BY <1>4, TransferSound
    <3> QED
      BY <2>1, <3>1 DEF IsTransferred
  <2>2. CASE held' = held
    <3>1. held[a] \in Nat
      BY <1>4
    <3> QED
      BY <1>4, <2>2, <3>1
  <2> QED
    BY <1>2, <2>1, <2>2
<1>7. Solvent'
  <2>1. Total(held') \in Nat
    BY <1>4, <1>6, CoinsFinite
  <2> QED
    BY <1>1, <1>4, <1>6, <2>1 DEF SpamInv, Solvent
<1>8. held' \in [Accounts -> 0 .. Balance]
  <2>1. Total(held') \in Nat /\ root' = root
    BY <1>1, <1>4, <1>6, CoinsFinite
  <2>2. \A b \in Accounts : held'[b] <= Total(held')
    BY <1>4, <1>6, TotalBound
  <2>3. Total(held') <= Balance
    BY <1>4, <1>7, <2>1 DEF Solvent
  <2>4. \A b \in Accounts : held'[b] \in 0 .. Balance
    BY <1>4, <1>6, <2>1, <2>2, <2>3
  <2> QED
    BY <1>6, <2>4
<1>9. /\ Spent(balance[a], value) \in 0 .. MaxUint64
      /\ balance[a] >= Fee + value => Spent(balance[a], value) = balance[a] - (Fee + value)
  <2>1. balance[a] - (Fee + value) \in Int
    BY <1>4
  <2>2. balance[a] >= Fee + value => balance[a] - (Fee + value) \in 0 .. MaxUint64
    BY <1>4
  <2> QED
    BY <2>1, <2>2, Uint64Range DEF Spent
<1>10. TypeOK'
  <2>1. answerable' \in [Clients -> Nat] /\ dropped' \in [Clients -> Nat]
    <3>1. answerable[at] + 1 \in Nat /\ dropped[at] + 1 \in Nat
      BY <1>4, <1>5
    <3> QED
      BY <1>2, <1>4, <1>5, <3>1
  <2>2. balance' \in [Accounts -> 0 .. MaxUint64] /\ wrapped' \subseteq Accounts
    <3>1. \A x \in 0 .. MaxUint64 :
            [balance EXCEPT ![a] = x] \in [Accounts -> 0 .. MaxUint64]
      BY <1>5
    <3> QED
      BY <1>1, <1>9, <1>5, <3>1
  <2> QED
    BY <1>1, <1>3, <1>8, <2>1, <2>2
    DEF SpamInv, TypeOK, counters, control, choices
<1>11. Moves(a, "registered", chosen)
  BY <1>1, <1>3, SpamConstants DEF Moves, Mark
<1>12. /\ answerable'[at] + dropped'[at] = (answerable[at] + dropped[at]) + 1
       /\ answerable[at] + dropped[at] \in Nat
       /\ \A c \in Clients \ {at} :
            answerable'[c] = answerable[c] /\ dropped'[c] = dropped[c]
       /\ inflight' = inflight
  <2>1. answerable[at] \in Nat /\ dropped[at] \in Nat
    BY <1>4, <1>5
  <2>2. CASE answerable' = [answerable EXCEPT ![at] = @ + 1] /\ dropped' = dropped
    BY <1>1, <1>4, <1>5, <2>1, <2>2 DEF counters
  <2>3. CASE dropped' = [dropped EXCEPT ![at] = @ + 1] /\ answerable' = answerable
    BY <1>1, <1>4, <1>5, <2>1, <2>3 DEF counters
  <2> QED
    BY <1>2, <2>2, <2>3
<1>13. Rounds' /\ InflightLags' /\ InflightBounded'
  <2>1. Total(Owed(answerable', dropped'))
          = Total(Owed(answerable, dropped)) - (answerable[at] + dropped[at])
              + (answerable'[at] + dropped'[at])
    BY <1>4, <1>10, <1>12, OwedMoves DEF SpamInv
  <2>3. /\ Mark(pc[a]) = 0 /\ Mark("registered") = 1
        /\ Room(pc[a], selected[a]) = TxsPerAccount - Total(selected[a])
        /\ Room("registered", chosen) = TxsPerAccount - (Total(selected[a]) + 1) + 1
    BY <1>1, <1>3, SpamConstants DEF Mark, Room
  <2>4. /\ Rounds'
        /\ Total(Uncounted(pc')) = Total(Uncounted(pc)) - Mark(pc[a]) + Mark("registered")
        /\ Total(Allowance(pc', selected'))
             = Total(Allowance(pc, selected)) - Room(pc[a], selected[a])
                 + Room("registered", chosen)
    BY <1>11, SumsMove
  <2>5. /\ Total(Uncounted(pc)) \in Nat /\ Total(Allowance(pc, selected)) \in Nat
        /\ Total(Owed(answerable, dropped)) \in Nat
        /\ inflight \in Int /\ TxsPerAccount \in Nat
        /\ MaxTxBacklog + NumAccounts * TxsPerAccount \in Nat
        /\ inflight + Total(Uncounted(pc)) = Total(Owed(answerable, dropped))
        /\ inflight + Total(Allowance(pc, selected))
             <= MaxTxBacklog + NumAccounts * TxsPerAccount
    BY <1>11, SumsMove
  <2>6. Total(Uncounted(pc')) = Total(Uncounted(pc)) + 1
    BY <2>3, <2>4, <2>5
  <2>7. Total(Allowance(pc', selected')) = Total(Allowance(pc, selected))
    BY <1>3, <2>3, <2>4, <2>5
  <2>8. Total(Owed(answerable', dropped')) = Total(Owed(answerable, dropped)) + 1
    BY <1>12, <2>1, <2>5
  <2>9. InflightLags'
    BY <1>12, <2>5, <2>6, <2>8 DEF InflightLags
  <2>10. InflightBounded'
    BY <1>12, <2>5, <2>7 DEF InflightBounded
  <2> QED
    BY <2>4, <2>9, <2>10
<1>14. OutstandingIsUnanswered'
  <2>1. \A c \in Clients : Gap(c)' + Here("registered", a, c) = Gap(c) + Here(pc[a], a, c)
    <3> SUFFICES ASSUME NEW c \in Clients
                 PROVE  Gap(c)' + Here("registered", a, c) = Gap(c) + Here(pc[a], a, c)
      OBVIOUS
    <3>1. /\ outstandingTxs'[c] = outstandingTxs[c] /\ listener'[c] = listener[c]
          /\ outstandingTxs[c] \in Int /\ Unanswered(c) \in Int
      BY <1>1, <1>5 DEF counters, Unanswered
    <3>2. CASE c = at
      <4>1. Here("registered", a, c) = 1 /\ Here(pc[a], a, c) = 0
        BY <1>1, <3>2 DEF Here, at
      <4> QED
        BY <1>12, <3>1, <3>2, <4>1 DEF Gap, Unanswered
    <3>3. CASE c # at
      <4>1. Here("registered", a, c) = 0 /\ Here(pc[a], a, c) = 0
        BY <3>3 DEF Here, at
      <4>2. Unanswered(c)' = Unanswered(c)
        BY <1>12, <3>3 DEF Unanswered
      <4> QED
        BY <3>1, <4>1, <4>2 DEF Gap
    <3> QED
      BY <3>2, <3>3
  <2> QED
    BY <1>1, <1>10, <2>1, OutstandingMoves DEF SpamInv, Queues, choices
<1>15. Stages'
  BY <1>1 DEF Stages, control
<1>16. BalancesAreCovered'
  <2> SUFFICES ASSUME NEW b \in Accounts \ (wrapped' \cup returned')
               PROVE  /\ pc'[b] # "exited" => held'[b] >= balance'[b]
                      /\ pc'[b] = "exited" => held'[b] >= funds'[b]
    BY DEF BalancesAreCovered
  <2>1. /\ b \in Accounts \ (wrapped \cup returned) /\ held[b] \in Nat /\ held'[b] \in Nat
        /\ balance[b] \in Int /\ funds[b] \in Int
    BY <1>1, <1>4, <1>6, <1>5 DEF control
  <2>2. held[b] >= IF pc[b] = "exited" THEN funds[b] ELSE balance[b]
    BY <2>1 DEF SpamInv, Funds, BalancesAreCovered
  <2>3. CASE b = a
    <3>1. balance[a] >= Fee + value /\ pc'[a] = "registered"
      BY <1>1, <1>4, <2>3 DEF SpamInv, TypeOK
    <3>2. balance'[a] = balance[a] - (Fee + value)
      <4>1. balance'[a] = Spent(balance[a], value)
        BY <1>1, <1>5, Zenon
      <4> QED
        BY <1>9, <3>1, <4>1
    <3>3. held[a] >= balance[a]
      BY <1>1, <2>2, <2>3
    <3>4. held[a] >= Fee + value
      BY <1>4, <2>1, <2>3, <3>1, <3>3
    <3>5. held'[a] >= held[a] - (Fee + value)
      BY <1>6, <3>4
    <3>6. held'[a] >= balance'[a]
      BY <1>4, <2>1, <2>3, <3>2, <3>3, <3>5
    <3> QED
      BY <2>3, <3>1, <3>6
  <2>4. CASE b # a
    <3>1. pc'[b] = pc[b] /\ balance'[b] = balance[b] /\ funds'[b] = funds[b]
      BY <1>1, <2>4 DEF SpamInv, TypeOK
    <3>2. held'[b] >= held[b]
      BY <1>6, <2>4
    <3> QED
      BY <2>1, <2>2, <3>1, <3>2
  <2> QED
    BY <2>3, <2>4
<1> QED
  BY <1>1, <1>7, <1>10, <1>13, <1>14, <1>15, <1>16, NothingToExplain
  DEF SpamInv, Queues, Funds, control

\* The client's counter catches up with what was registered.
LEMMA CountOutstandingKeeps ==
  ASSUME SpamAssumption, SpamInv, NEW a \in Accounts, CountOutstanding(a)
  PROVE  SpamInv'
<1> DEFINE at == issuer[a]
<1>1. /\ pc[a] = "registered" /\ pc' = [pc EXCEPT ![a] = "counted"]
      /\ outstandingTxs' = [outstandingTxs EXCEPT ![at] = @ + 1] /\ inflight' = inflight
      /\ UNCHANGED <<chain, books, network, control, choices, selected, transferFee>>
  BY DEF CountOutstanding, Goto
<1>2. at \in Clients /\ outstandingTxs \in [Clients -> Int]
  BY DEF SpamInv, TypeOK
<1>3. TypeOK'
  <2>1. outstandingTxs' \in [Clients -> Int]
    BY <1>1, <1>2
  <2> QED
    BY <1>1, <2>1 DEF SpamInv, TypeOK, chain, books, network, control, choices
<1>4. Mark(pc[a]) = 1 /\ Mark("counted") = 1
      /\ Room("counted", selected[a]) = Room(pc[a], selected[a])
  BY <1>1 DEF Mark, Room
<1>5. Moves(a, "counted", selected[a])
  BY <1>1, <1>4, MovesOn
<1>6. Rounds' /\ InflightLags' /\ InflightBounded'
  <2>1. inflight' = inflight /\ answerable' = answerable /\ dropped' = dropped
    BY <1>1 DEF network
  <2>2. Room(pc[a], selected[a]) \in Int
    BY RoomRange, SpamConstants DEF SpamInv, Queues
  <2> QED
    BY <1>4, <1>5, <2>1, <2>2, SumsMove DEF InflightLags, InflightBounded
<1>7. OutstandingIsUnanswered'
  <2>1. ASSUME NEW c \in Clients
        PROVE  Gap(c)' + Here("counted", a, c) = Gap(c) + Here(pc[a], a, c)
    <3>1. /\ listener'[c] = listener[c] /\ Unanswered(c)' = Unanswered(c)
          /\ Unanswered(c) \in Int /\ outstandingTxs[c] \in Int
      BY <1>1 DEF network, Unanswered, SpamInv, TypeOK
    <3>2. CASE c = at
      <4>1. Here("counted", a, c) = 0 /\ Here(pc[a], a, c) = 1
        BY <1>1, <3>2 DEF Here
      <4>2. outstandingTxs'[c] = outstandingTxs[c] + 1
        BY <1>1, <1>2, <3>2
      <4> QED
        BY <3>1, <4>1, <4>2 DEF Gap
    <3>3. CASE c # at
      <4>1. Here("counted", a, c) = 0 /\ Here(pc[a], a, c) = 0
        BY <3>3 DEF Here
      <4>2. outstandingTxs'[c] = outstandingTxs[c]
        BY <1>1, <1>2, <3>3
      <4> QED
        BY <3>1, <4>1, <4>2 DEF Gap
    <3> QED
      BY <3>2, <3>3
  <2> QED
    BY <1>1, <1>3, <2>1, OutstandingMoves DEF SpamInv, Queues, choices
<1> QED
  BY <1>1, <1>3, <1>6, <1>7, BroadcasterKeeps DEF Queues, control

\* inflight catches up with what was registered.
LEMMA CountInflightKeeps ==
  ASSUME SpamAssumption, SpamInv, NEW a \in Accounts, CountInflight(a)
  PROVE  SpamInv'
<1>1. /\ pc[a] = "counted" /\ pc' = [pc EXCEPT ![a] = "sending"]
      /\ outstandingTxs' = outstandingTxs /\ inflight' = inflight + 1
      /\ UNCHANGED <<chain, books, network, control, choices, selected, transferFee>>
  BY DEF CountInflight, Goto
<1>2. TypeOK'
  BY <1>1 DEF SpamInv, TypeOK, chain, books, network, control, choices
<1>3. Mark(pc[a]) = 1 /\ Mark("sending") = 0
  BY <1>1 DEF Mark
<1>4. Moves(a, "sending", selected[a])
  BY <1>1, <1>3, MovesOn
<1>5. Rounds' /\ InflightLags' /\ InflightBounded'
  <2>1. answerable' = answerable /\ dropped' = dropped
    BY <1>1 DEF network
  <2>2. /\ Room(pc[a], selected[a]) = TxsPerAccount - Total(selected[a]) + 1
        /\ Room("sending", selected[a]) = TxsPerAccount - Total(selected[a]) + 0
    BY <1>1 DEF Room, Mark
  <2>3. /\ Rounds'
        /\ Total(Uncounted(pc')) = Total(Uncounted(pc)) - Mark(pc[a]) + Mark("sending")
        /\ Total(Allowance(pc', selected'))
             = Total(Allowance(pc, selected)) - Room(pc[a], selected[a])
                 + Room("sending", selected[a])
    BY <1>4, SumsMove
  <2>4. /\ Total(Uncounted(pc)) \in Nat /\ Total(Allowance(pc, selected)) \in Nat
        /\ Total(Owed(answerable, dropped)) \in Nat /\ Total(selected[a]) \in Nat
        /\ inflight \in Int /\ TxsPerAccount \in Nat
        /\ MaxTxBacklog + NumAccounts * TxsPerAccount \in Nat
        /\ inflight + Total(Uncounted(pc)) = Total(Owed(answerable, dropped))
        /\ inflight + Total(Allowance(pc, selected))
             <= MaxTxBacklog + NumAccounts * TxsPerAccount
    BY <1>4, SumsMove
  <2>5. /\ Total(Uncounted(pc')) = Total(Uncounted(pc)) - 1
        /\ Total(Allowance(pc', selected')) = Total(Allowance(pc, selected)) - 1
    BY <1>3, <2>2, <2>3, <2>4
  <2>6. InflightLags'
    BY <1>1, <2>1, <2>4, <2>5 DEF InflightLags
  <2>7. InflightBounded'
    BY <1>1, <2>4, <2>5 DEF InflightBounded
  <2> QED
    BY <2>3, <2>6, <2>7
<1>6. OutstandingIsUnanswered'
  BY <1>1, <1>2, OutstandingStays DEF network, choices
<1> QED
  BY <1>1, <1>2, <1>5, <1>6, BroadcasterKeeps DEF Queues, control

\* A broadcaster ends, and its balance goes back into the map.
LEMMA ExitKeeps ==
  ASSUME SpamAssumption, SpamInv, NEW a \in Accounts, Exit(a)
  PROVE  SpamInv'
<1>1. /\ pc[a] = "idle" /\ phase = "running" /\ phase' = phase
      /\ pc' = [pc EXCEPT ![a] = "exited"] /\ funds' = [funds EXCEPT ![a] = balance[a]]
      /\ UNCHANGED <<chain, balance, wrapped, counters, network, closed,
                     returned, choices, selected, transferFee>>
  BY BusyWhileRunning DEF Exit, Goto
<1>2. TypeOK'
  <2>1. \/ signals > 0 /\ signals' = signals - 1
        \/ signals' = signals
    BY DEF Exit
  <2>2. signals \in 0 .. MaxSignals /\ MaxSignals \in Nat
    BY SpamConstants DEF SpamInv, TypeOK
  <2>3. signals' \in 0 .. MaxSignals
    BY <2>1, <2>2
  <2>4. cancelled' \in BOOLEAN
    BY Zenon DEF Exit, SpamInv, TypeOK
  <2> QED
    BY <1>1, <2>3, <2>4 DEF SpamInv, TypeOK, chain, counters, network, choices
<1>3. Mark(pc[a]) = 0 /\ Mark("exited") = 0
      /\ Room(pc[a], selected[a]) = 0 /\ Room("exited", selected[a]) = 0
  BY <1>1 DEF Mark, Room
<1>4. Moves(a, "exited", selected[a])
  BY <1>1, <1>3, MovesOn
<1>5. Rounds' /\ InflightLags' /\ InflightBounded'
  <2>1. inflight' = inflight /\ answerable' = answerable /\ dropped' = dropped
    BY <1>1 DEF counters, network
  <2> QED
    BY <1>3, <1>4, <2>1, SumsMove DEF InflightLags, InflightBounded
<1>6. OutstandingIsUnanswered'
  BY <1>1, <1>2, OutstandingStays DEF counters, network, choices
<1>7. Solvent' /\ Stages'
  BY <1>1 DEF SpamInv, Solvent, Stages, chain
<1>8. BalancesAreCovered'
  <2> SUFFICES ASSUME NEW b \in Accounts \ (wrapped \cup returned)
               PROVE  held[b] >= IF pc'[b] = "exited" THEN funds'[b] ELSE balance[b]
    BY <1>1 DEF BalancesAreCovered, chain
  <2>1. held[b] >= IF pc[b] = "exited" THEN funds[b] ELSE balance[b]
    BY DEF SpamInv, Funds, BalancesAreCovered
  <2>2. CASE b = a
    BY <1>1, <2>1, <2>2 DEF SpamInv, TypeOK
  <2>3. CASE b # a
    BY <1>1, <2>1, <2>3 DEF SpamInv, TypeOK
  <2> QED
    BY <2>2, <2>3
<1> QED
  BY <1>1, <1>2, <1>5, <1>6, <1>7, <1>8, NothingToExplain DEF SpamInv, Queues, Funds
-----------------------------------------------------------------------------
\* The money and the explanations, when only the counters change.
LEMMA CountersAside ==
  ASSUME SpamInv, TypeOK', Queues', UNCHANGED <<chain, books, control, sending>>
  PROVE  SpamInv'
<1>1. Solvent' /\ Stages'
  BY DEF SpamInv, Funds, Solvent, Stages, Fresh, Over, chain, books, control, sending
<1>2. BalancesAreCovered'
  BY CoverStays DEF SpamInv, Funds, chain, books, control, sending
<1>3. RefusedReturnsAreExplained'
  BY ExplanationStays DEF SpamInv, Funds, chain, books, control, sending
<1> QED
  BY <1>1, <1>2, <1>3 DEF SpamInv, Funds

\* The counter of a client stays right when what it counts changes with it.
LEMMA OutstandingFollows ==
  ASSUME SpamAssumption, TypeOK, TypeOK', OutstandingIsUnanswered, UNCHANGED <<pc, issuer>>,
         \A c \in Clients : Gap(c)' = Gap(c)
  PROVE  OutstandingIsUnanswered'
<1>1. ASSUME NEW c \in Clients
      PROVE  /\ AtClient(c, "registered")' = AtClient(c, "registered")
             /\ Cardinality(AtClient(c, "registered")) \in Nat
  <2>1. AtClient(c, "registered")' = AtClient(c, "registered")
    BY DEF AtClient
  <2>2. IsFiniteSet(AtClient(c, "registered"))
    BY SpamConstants, FS_Subset DEF AtClient
  <2> QED
    BY <2>1, <2>2, FS_CardinalityType
<1>2. ASSUME NEW c \in Clients
      PROVE  /\ outstandingTxs[c] \in Int /\ Unanswered(c) \in Int
             /\ outstandingTxs'[c] \in Int /\ Unanswered(c)' \in Int
  BY DEF TypeOK, Unanswered
<1> QED
  BY <1>1, <1>2 DEF OutstandingIsUnanswered, Gap

\* An answer is taken off inflight and off what the node owes at once.
LEMMA HearAnswerKeeps ==
  ASSUME SpamAssumption, SpamInv, NEW c \in Clients, HearAnswer(c)
  PROVE  SpamInv'
<1>1. /\ listener[c] = "listening" /\ answerable[c] > 0
      /\ answerable' = [answerable EXCEPT ![c] = @ - 1]
      /\ inflight' = inflight - 1
      /\ listener' = [listener EXCEPT ![c] = "counting"]
      /\ UNCHANGED <<chain, books, outstandingTxs, dropped, failures, control, sending>>
  BY DEF HearAnswer
<1>2. /\ answerable \in [Clients -> Nat] /\ dropped \in [Clients -> Nat] /\ inflight \in Int
      /\ listener \in [Clients -> {"listening", "counting", "stopped"}]
      /\ outstandingTxs \in [Clients -> Int]
  BY DEF SpamInv, TypeOK
<1>3. /\ answerable' \in [Clients -> Nat] /\ answerable'[c] = answerable[c] - 1
      /\ \A d \in Clients \ {c} : answerable'[d] = answerable[d] /\ listener'[d] = listener[d]
      /\ listener'[c] = "counting" /\ inflight' \in Int
  BY <1>1, <1>2
<1>4. TypeOK'
  BY <1>1, <1>2, <1>3 DEF SpamInv, TypeOK, chain, books, control, sending, choices
<1>5. Rounds' /\ InflightLags' /\ InflightBounded'
  <2>1. Total(Owed(answerable', dropped'))
          = Total(Owed(answerable, dropped)) - (answerable[c] + dropped[c])
              + (answerable'[c] + dropped'[c])
    BY <1>1, <1>3, <1>4, OwedMoves DEF SpamInv
  <2>2. /\ Total(Uncounted(pc)) \in Nat /\ Total(Allowance(pc, selected)) \in Nat
        /\ Total(Owed(answerable, dropped)) \in Nat
    BY SumTypes DEF SpamInv, Queues
  <2>3. pc' = pc /\ selected' = selected /\ dropped' = dropped
    BY <1>1 DEF sending
  <2>4. answerable[c] \in Nat /\ dropped[c] \in Nat
    BY <1>2
  <2>5. Total(Owed(answerable', dropped')) = Total(Owed(answerable, dropped)) - 1
    BY <1>3, <2>1, <2>2, <2>3, <2>4
  <2>6. InflightLags'
    BY <1>1, <1>2, <2>2, <2>3, <2>5 DEF SpamInv, Queues, InflightLags
  <2>7. InflightBounded'
    <3>1. MaxTxBacklog + NumAccounts * TxsPerAccount \in Nat
      <4>1. NumAccounts \in Nat /\ TxsPerAccount \in Nat /\ MaxTxBacklog \in Nat
        BY SpamConstants
      <4>2. NumAccounts * TxsPerAccount \in Nat
        BY <4>1
      <4> QED
        BY <4>1, <4>2
    <3>2. inflight + Total(Allowance(pc, selected)) <= MaxTxBacklog + NumAccounts * TxsPerAccount
      BY DEF SpamInv, Queues, InflightBounded
    <3>3. inflight' + Total(Allowance(pc', selected'))
            <= MaxTxBacklog + NumAccounts * TxsPerAccount
      BY <1>1, <1>2, <2>2, <2>3, <3>1, <3>2
    <3> QED
      BY <3>3 DEF InflightBounded
  <2>8. Rounds'
    BY <2>3 DEF SpamInv, Queues, Rounds, Iterations
  <2> QED
    BY <2>6, <2>7, <2>8
<1>6. OutstandingIsUnanswered'
  <2>1. ASSUME NEW d \in Clients PROVE Gap(d)' = Gap(d)
    <3>1. answerable[d] \in Nat /\ dropped[d] \in Nat /\ outstandingTxs[d] \in Int
      BY <1>2
    <3>2. CASE d = c
      BY <1>1, <1>3, <3>1, <3>2 DEF Gap, Unanswered
    <3>3. CASE d # c
      BY <1>1, <1>3, <3>3 DEF Gap, Unanswered
    <3> QED
      BY <3>2, <3>3
  <2> QED
    BY <1>1, <1>4, <2>1, OutstandingFollows DEF SpamInv, Queues, sending, choices
<1> QED
  BY <1>1, <1>4, <1>5, <1>6, CountersAside DEF Queues

\* The rest of the counters when no broadcaster moves and inflight stays.
LEMMA InflightStays ==
  ASSUME SpamInv, UNCHANGED <<pc, selected, inflight>>,
         Total(Owed(answerable', dropped')) = Total(Owed(answerable, dropped))
  PROVE  Rounds' /\ InflightLags' /\ InflightBounded'
BY DEF SpamInv, Queues, Rounds, Iterations, InflightLags, InflightBounded

\* The client's counter catches up with what was heard.
LEMMA CountAnswerKeeps ==
  ASSUME SpamAssumption, SpamInv, NEW c \in Clients, CountAnswer(c)
  PROVE  SpamInv'
<1>1. /\ listener[c] = "counting"
      /\ outstandingTxs' = [outstandingTxs EXCEPT ![c] = @ - 1]
      /\ listener' = [listener EXCEPT ![c] = "listening"]
      /\ UNCHANGED <<chain, books, inflight, answerable, dropped, failures, control, sending>>
  BY DEF CountAnswer
<1>2. /\ answerable \in [Clients -> Nat] /\ dropped \in [Clients -> Nat]
      /\ listener \in [Clients -> {"listening", "counting", "stopped"}]
      /\ outstandingTxs \in [Clients -> Int]
  BY DEF SpamInv, TypeOK
<1>3. /\ outstandingTxs' \in [Clients -> Int] /\ outstandingTxs'[c] = outstandingTxs[c] - 1
      /\ \A d \in Clients \ {c} :
           outstandingTxs'[d] = outstandingTxs[d] /\ listener'[d] = listener[d]
      /\ listener'[c] = "listening"
  BY <1>1, <1>2
<1>4. TypeOK'
  BY <1>1, <1>2, <1>3 DEF SpamInv, TypeOK, chain, books, control, sending, choices
<1>5. Rounds' /\ InflightLags' /\ InflightBounded'
  BY <1>1, InflightStays DEF sending
<1>6. OutstandingIsUnanswered'
  <2>1. ASSUME NEW d \in Clients PROVE Gap(d)' = Gap(d)
    <3>1. answerable[d] \in Nat /\ dropped[d] \in Nat /\ outstandingTxs[d] \in Int
      BY <1>2
    <3>2. CASE d = c
      BY <1>1, <1>3, <3>1, <3>2 DEF Gap, Unanswered
    <3>3. CASE d # c
      BY <1>1, <1>3, <3>3 DEF Gap, Unanswered
    <3> QED
      BY <3>2, <3>3
  <2> QED
    BY <1>1, <1>4, <2>1, OutstandingFollows DEF SpamInv, Queues, sending, choices
<1> QED
  BY <1>1, <1>4, <1>5, <1>6, CountersAside DEF Queues

\* A listener that stops has counted every answer it heard.
LEMMA StopListeningKeeps ==
  ASSUME SpamAssumption, SpamInv, NEW c \in Clients, StopListening(c)
  PROVE  SpamInv'
<1>1. /\ listener[c] = "listening"
      /\ listener' = [listener EXCEPT ![c] = "stopped"]
      /\ \/ failures' = failures
         \/ failures < MaxFailures /\ failures' = failures + 1
      /\ UNCHANGED <<chain, books, counters, answerable, dropped, control, sending>>
  BY DEF StopListening
<1>2. /\ listener \in [Clients -> {"listening", "counting", "stopped"}]
      /\ failures \in 0 .. MaxFailures /\ MaxFailures \in Nat
  BY SpamConstants DEF SpamInv, TypeOK
<1>3. failures' \in 0 .. MaxFailures
  BY <1>1, <1>2
<1>4. TypeOK'
  BY <1>1, <1>2, <1>3 DEF SpamInv, TypeOK, chain, books, counters, control, sending, choices
<1>5. Rounds' /\ InflightLags' /\ InflightBounded'
  BY <1>1, InflightStays DEF sending, counters
<1>6. OutstandingIsUnanswered'
  <2>1. ASSUME NEW d \in Clients PROVE Gap(d)' = Gap(d)
    BY <1>1, <1>2 DEF Gap, Unanswered, counters
  <2> QED
    BY <1>1, <1>4, <2>1, OutstandingFollows DEF SpamInv, Queues, sending, choices
<1> QED
  BY <1>1, <1>4, <1>5, <1>6, CountersAside DEF Queues

\* A dropped transaction is owed before and after it expires.
LEMMA ExpireKeeps ==
  ASSUME SpamAssumption, SpamInv, NEW c \in Clients, Expire(c)
  PROVE  SpamInv'
<1>1. /\ dropped[c] > 0
      /\ dropped' = [dropped EXCEPT ![c] = @ - 1]
      /\ answerable' = [answerable EXCEPT ![c] = @ + 1]
      /\ UNCHANGED <<chain, books, counters, listener, failures, control, sending>>
  BY DEF Expire
<1>2. /\ answerable \in [Clients -> Nat] /\ dropped \in [Clients -> Nat]
      /\ outstandingTxs \in [Clients -> Int]
  BY DEF SpamInv, TypeOK
<1>3. /\ answerable' \in [Clients -> Nat] /\ dropped' \in [Clients -> Nat]
      /\ \A d \in Clients : answerable'[d] + dropped'[d] = answerable[d] + dropped[d]
  BY <1>1, <1>2
<1>4. TypeOK'
  BY <1>1, <1>3 DEF SpamInv, TypeOK, chain, books, counters, control, sending, choices
<1>5. Owed(answerable', dropped') = Owed(answerable, dropped)
  BY <1>3 DEF Owed
<1>6. Rounds' /\ InflightLags' /\ InflightBounded'
  BY <1>1, <1>5, InflightStays DEF sending, counters
<1>7. OutstandingIsUnanswered'
  <2>1. ASSUME NEW d \in Clients PROVE Gap(d)' = Gap(d)
    BY <1>1, <1>3 DEF Gap, Unanswered, counters
  <2> QED
    BY <1>1, <1>4, <2>1, OutstandingFollows DEF SpamInv, Queues, sending, choices
<1> QED
  BY <1>1, <1>4, <1>6, <1>7, CountersAside DEF Queues
-----------------------------------------------------------------------------
\* A signal changes nothing else.
LEMMA SignalKeeps ==
  ASSUME SpamAssumption, SpamInv, Signal
  PROVE  SpamInv'
<1>1. /\ phase = "running" /\ phase' = phase /\ signals' = signals + 1
      /\ signals < MaxSignals
      /\ UNCHANGED <<chain, books, counters, network, cancelled, closed, returned, sending>>
  BY DEF Signal
<1>2. signals' \in 0 .. MaxSignals
  BY <1>1, SpamConstants DEF SpamInv, TypeOK
<1>3. TypeOK' /\ Solvent' /\ Stages'
  BY <1>1, <1>2
  DEF SpamInv, TypeOK, Solvent, Stages, chain, books, counters, network, sending, choices
<1>4. Queues'
  BY <1>1, QueuesStay DEF SpamInv, network, sending, choices
<1>5. BalancesAreCovered'
  BY <1>1, CoverStays DEF SpamInv, Funds, chain, books, sending
<1> QED
  BY <1>1, <1>3, <1>4, <1>5, NothingToExplain DEF SpamInv, Funds

\* Closing a connection changes no counter.
LEMMA CloseKeeps ==
  ASSUME SpamAssumption, SpamInv, NEW c \in Clients, Close(c)
  PROVE  SpamInv'
<1>1. /\ closed' = closed \cup {c}
      /\ UNCHANGED <<chain, books, counters, network, phase, signals, cancelled,
                     returned, sending>>
  BY DEF Close
<1>2. TypeOK' /\ Solvent'
  BY <1>1
  DEF SpamInv, TypeOK, Solvent, chain, books, counters, network, sending, choices
<1>3. Stages'
  BY <1>1 DEF SpamInv, Funds, Stages, Fresh, Over, chain, books, sending
<1>4. Queues'
  BY <1>1, QueuesStay DEF SpamInv, network, sending, choices
<1>5. BalancesAreCovered'
  BY <1>1, CoverStays DEF SpamInv, Funds, chain, books, sending
<1>6. RefusedReturnsAreExplained'
  BY <1>1, ExplanationStays DEF SpamInv, Funds, chain, books, sending
<1> QED
  BY <1>2, <1>3, <1>4, <1>5, <1>6 DEF SpamInv, Funds

\* The command goes from one phase to the next when the broadcasters have
\* ended.
LEMMA PhaseKeeps ==
  ASSUME SpamAssumption, SpamInv, Over, phase' \in {"waiting", "returning", "done"},
         UNCHANGED <<chain, books, counters, network, signals, cancelled, closed,
                     returned, sending>>
  PROVE  SpamInv'
<1>1. TypeOK' /\ Solvent'
  BY DEF SpamInv, TypeOK, Solvent, Phases, chain, books, counters, network, sending, choices
<1>2. Stages'
  BY DEF Stages, Over, sending
<1>3. Queues'
  BY QueuesStay DEF SpamInv, network, sending, choices
<1>4. BalancesAreCovered'
  BY CoverStays DEF SpamInv, Funds, chain, books, sending
<1> QED
  BY <1>1, <1>2, <1>3, <1>4, NothingToExplain DEF SpamInv, Funds

\* The three steps from one phase to the next.
LEMMA CommandKeeps ==
  ASSUME SpamAssumption, SpamInv, WaitForIssuers \/ IssuersReturned \/ Finish
  PROVE  SpamInv'
<1>1. CASE WaitForIssuers
  <2>1. Over /\ phase' = "waiting"
    BY <1>1 DEF WaitForIssuers, Over
  <2> QED
    BY <1>1, <2>1, PhaseKeeps DEF WaitForIssuers
<1>2. CASE IssuersReturned
  <2>1. Over /\ phase' = "returning"
    BY <1>2 DEF IssuersReturned, SpamInv, Funds, Stages
  <2> QED
    BY <1>2, <2>1, PhaseKeeps DEF IssuersReturned
<1>3. CASE Finish
  <2>1. Over /\ phase' = "done"
    BY <1>3 DEF Finish, SpamInv, Funds, Stages
  <2> QED
    BY <1>3, <2>1, PhaseKeeps DEF Finish
<1> QED
  BY <1>1, <1>2, <1>3

\* An account that has too little for the fee is passed over.
LEMMA SkipKeeps ==
  ASSUME SpamAssumption, SpamInv, NEW a \in Accounts, Skip(a)
  PROVE  SpamInv'
<1>1. /\ phase = "returning" /\ phase' = phase /\ returned' = returned \cup {a}
      /\ UNCHANGED <<chain, books, counters, network, signals, cancelled, closed, sending>>
  BY DEF Skip
<1>2. TypeOK' /\ Solvent'
  BY <1>1 DEF SpamInv, TypeOK, Solvent, chain, books, counters, network, sending, choices
<1>3. Stages'
  BY <1>1 DEF SpamInv, Funds, Stages, Over, sending
<1>4. Queues'
  BY <1>1, QueuesStay DEF SpamInv, network, sending, choices
<1>5. BalancesAreCovered'
  BY <1>1, CoverStays DEF SpamInv, Funds, chain, books, sending
<1> QED
  BY <1>1, <1>2, <1>3, <1>4, <1>5, NothingToExplain DEF SpamInv, Funds

\* What is given back is there, or its refusal is explained: the account is
\* covered by what it has, and that is more than what is given back by the
\* fee it learnt.
LEMMA ReturnKeeps ==
  ASSUME SpamAssumption, SpamInv, NEW a \in Accounts, NEW fee \in ReturnFees, Return(a, fee)
  PROVE  SpamInv'
<1> DEFINE amount == funds[a] - transferFee
           rest   == held[a] - fee - amount
<1>1. /\ phase = "returning" /\ a \notin returned /\ transferFee <= funds[a] /\ Over
      /\ UNCHANGED <<books, counters, network, signals, cancelled, closed, sending>>
  BY DEF Return, Enough, SpamInv, Funds, Stages
<1>2. /\ funds[a] \in Nat /\ transferFee \in {0, Fee} /\ Fee \in Nat /\ fee \in Nat
      /\ amount \in Nat /\ held[a] \in Nat /\ root \in Nat /\ Balance \in Nat
      /\ held \in [Accounts -> Nat] /\ Total(held) \in Nat /\ IsFiniteSet(Accounts)
      /\ root + Total(held) <= Balance
  <2>1. held \in [Accounts -> Nat] /\ Total(held) \in Nat
    BY SumTypes DEF SpamInv, Queues
  <2>2. funds[a] \in Nat /\ transferFee \in {0, Fee} /\ Fee \in Nat /\ fee \in Nat
        /\ root \in Nat /\ Balance \in Nat /\ IsFiniteSet(Accounts)
    BY SpamConstants DEF SpamInv, TypeOK
  <2>3. amount \in Nat
    BY <1>1, <2>2
  <2> QED
    BY <2>1, <2>2, <2>3 DEF SpamInv, Solvent
<1>3. Queues'
  BY <1>1, QueuesStay DEF SpamInv, network, sending, choices
<1>4. CASE amount > 0 /\ held[a] >= fee + amount
  <2>1. /\ held' = [held EXCEPT ![a] = rest] /\ root' = root + amount
        /\ returned' = returned \cup {a} /\ phase' = phase
    BY <1>4 DEF Return, ReturnAmount
  <2>2. rest \in Nat /\ rest <= held[a] - amount
    BY <1>2, <1>4
  <2> HIDE DEF amount, rest
  <2>3. /\ held' \in [Accounts -> Nat] /\ held'[a] = rest
        /\ \A b \in Accounts \ {a} : held'[b] = held[b]
    BY <1>2, <2>1, <2>2
  <2>4. IsChanged(Accounts, held, a, rest, held') /\ Total(held') \in Nat
    BY <1>2, <2>3, CoinsFinite DEF IsChanged
  <2>5. Total(held') = Total(held) - held[a] + rest
    BY <1>2, <2>2, <2>4, TotalMoves
  <2>6. root' + Total(held') <= Balance /\ root' \in 0 .. Balance
    BY <1>2, <2>1, <2>2, <2>4, <2>5
  <2>7. held' \in [Accounts -> 0 .. Balance]
    <3>1. \A b \in Accounts : held'[b] <= Total(held')
      BY <1>2, <2>3, TotalBound
    <3>2. Total(held') <= Balance
      BY <1>2, <2>4, <2>6
    <3>3. \A b \in Accounts : held'[b] \in 0 .. Balance
      BY <1>2, <2>3, <2>4, <3>1, <3>2
    <3> QED
      BY <2>3, <3>3
  <2>8. TypeOK'
    BY <1>1, <2>1, <2>6, <2>7
    DEF SpamInv, TypeOK, books, counters, network, sending, choices
  <2>9. Solvent'
    BY <2>6 DEF Solvent
  <2>10. Stages'
    BY <1>1, <2>1 DEF Stages, Over, sending
  <2>11. BalancesAreCovered'
    BY <1>1, <2>1, <2>3 DEF SpamInv, Funds, BalancesAreCovered, books, sending
  <2> QED
    BY <1>1, <1>3, <2>1, <2>8, <2>9, <2>10, <2>11, NothingToExplain DEF SpamInv, Funds
<1>5. CASE ~(amount > 0 /\ held[a] >= fee + amount)
  <2>1. phase' \in {"txFailed", "error"} /\ UNCHANGED <<chain, returned>>
    BY <1>5 DEF Return, ReturnAmount
  <2>2. TypeOK' /\ Solvent'
    BY <1>1, <2>1
    DEF SpamInv, TypeOK, Solvent, Phases, chain, books, counters, network, sending, choices
  <2>3. Stages'
    BY <1>1, <2>1 DEF Stages, Over, sending
  <2>4. BalancesAreCovered'
    BY <1>1, <2>1, CoverStays DEF SpamInv, Funds, chain, books, sending
  <2>5. \/ wrapped # {} \/ transferFee = 0 \/ funds[a] = transferFee
        \/ fee > Fee /\ held[a] < fee + funds[a] - transferFee
    <3> SUFFICES ASSUME wrapped = {}, transferFee = Fee, amount > 0
                 PROVE  fee > Fee /\ held[a] < fee + funds[a] - transferFee
      BY <1>2
    <3>1. held[a] < fee + amount
      BY <1>2, <1>5
    <3>2. held[a] >= funds[a]
      BY <1>1 DEF SpamInv, Funds, BalancesAreCovered, Over
    <3> QED
      BY <1>2, <3>1, <3>2
  <2>6. RefusedReturnsAreExplained'
    BY <1>1, <2>1, <2>5
    DEF RefusedReturnsAreExplained, chain, books, sending
  <2> QED
    BY <1>3, <2>2, <2>3, <2>4, <2>6 DEF SpamInv, Funds
<1> QED
  BY <1>4, <1>5
-----------------------------------------------------------------------------
\* At the start nobody has anything, and nothing is missing.
LEMMA InitSpamInv ==
  ASSUME SpamAssumption, Init
  PROVE  SpamInv
<1>1. /\ \A a \in Accounts : pc[a] = "new" /\ selected[a] = NoneSelected
      /\ held = [a \in Accounts |-> 0] /\ root = Balance /\ phase = "distributing"
      /\ answerable = [c \in Clients |-> 0] /\ dropped = [c \in Clients |-> 0]
      /\ inflight = 0
  BY DEF Init
<1>2. NoneSelected \in [Everybody -> 0 .. TxsPerAccount] /\ Total(NoneSelected) = 0
  BY NothingSelected
<1>3. TypeOK
  <2>1. 0 \in 0 .. Balance /\ 0 \in 0 .. MaxUint64 /\ Balance \in 0 .. Balance
        /\ 0 \in 0 .. MaxSignals /\ 0 \in 0 .. MaxFailures /\ 0 \in Int /\ 0 \in Nat
    BY SpamConstants
  <2>2. /\ root \in 0 .. Balance /\ held \in [Accounts -> 0 .. Balance]
        /\ funds \in [Accounts -> 0 .. MaxUint64] /\ balance \in [Accounts -> 0 .. MaxUint64]
        /\ outstandingTxs \in [Clients -> Int] /\ inflight \in Int
        /\ answerable \in [Clients -> Nat] /\ dropped \in [Clients -> Nat]
        /\ signals \in 0 .. MaxSignals /\ failures \in 0 .. MaxFailures
    BY <2>1, Zenon DEF Init
  <2>3. selected \in [Accounts -> [Everybody -> 0 .. TxsPerAccount]]
    BY <1>2 DEF Init
  <2>4. /\ pc \in [Accounts -> {"new", "funded", "idle", "sending", "registered",
                              "counted", "exited"}]
        /\ listener \in [Clients -> {"listening", "counting", "stopped"}]
        /\ transferFee \in {0, Fee} /\ closed \subseteq Clients
        /\ returned \subseteq Accounts /\ wrapped \subseteq Accounts
        /\ phase \in Phases
    BY DEF Init, Phases
  <2>5. randomRecipient \in BOOLEAN /\ cancelled \in BOOLEAN /\ issuer \in [Accounts -> Clients]
    BY Zenon DEF Init
  <2> QED
    BY <2>2, <2>3, <2>4, <2>5, Zenon DEF TypeOK
<1>4. Solvent
  <2>1. Total(held) = 0
    BY <1>1, TotalZero
  <2> QED
    BY <1>1, <2>1, SpamConstants DEF Solvent
<1>5. Rounds
  BY <1>1, <1>2, SpamConstants DEF Rounds, Iterations, Mark
<1>6. /\ Uncounted(pc) \in [Accounts -> Nat] /\ \A a \in Accounts : Uncounted(pc)[a] = 0
      /\ Allowance(pc, selected) \in [Accounts -> Nat]
      /\ \A a \in Accounts : Allowance(pc, selected)[a] = 0
      /\ Owed(answerable, dropped) \in [Clients -> Nat]
      /\ \A c \in Clients : Owed(answerable, dropped)[c] = 0
  BY <1>1 DEF Uncounted, Allowance, Owed, Mark, Room
<1>7. Total(Uncounted(pc)) = 0
  BY <1>6, TotalZero
<1>8. Total(Allowance(pc, selected)) = 0
  BY <1>6, TotalZero
<1>9. Total(Owed(answerable, dropped)) = 0
  BY <1>6, TotalZero
<1>10. InflightLags
  BY <1>1, <1>7, <1>9 DEF InflightLags
<1>11. InflightBounded
  <2>1. NumAccounts \in Nat /\ TxsPerAccount \in Nat /\ MaxTxBacklog \in Nat
    BY SpamConstants
  <2>2. NumAccounts * TxsPerAccount \in Nat
    BY <2>1
  <2> QED
    BY <1>1, <1>8, <2>1, <2>2 DEF InflightBounded
<1>12. OutstandingIsUnanswered
  <2>1. ASSUME NEW c \in Clients PROVE Cardinality(AtClient(c, "registered")) = 0
    <3>1. AtClient(c, "registered") = {}
      BY <1>1 DEF AtClient
    <3> QED
      BY <3>1, FS_EmptySet
  <2> QED
    BY <2>1 DEF OutstandingIsUnanswered, Unanswered, Init
<1>13. Stages /\ BalancesAreCovered /\ RefusedReturnsAreExplained
  BY <1>1 DEF Init, Stages, Fresh, BalancesAreCovered, RefusedReturnsAreExplained
<1> QED
  BY <1>3, <1>4, <1>5, <1>10, <1>11, <1>12, <1>13 DEF SpamInv, Queues, Funds

\* Whichever goroutine runs next, the invariant survives.
LEMMA NextSpamInv ==
  ASSUME SpamAssumption, SpamInv, [Next]_vars
  PROVE  SpamInv'
<1>1. CASE Command
  <2>1. CASE Kickoff
    BY <2>1, KickoffKeeps
  <2>2. CASE WaitForIssuers \/ IssuersReturned \/ Finish
    BY <2>2, CommandKeeps
  <2>3. ASSUME NEW a \in Accounts, Distribute(a) PROVE SpamInv'
    BY <2>3, DistributeKeeps
  <2>4. ASSUME NEW a \in Accounts, Skip(a) PROVE SpamInv'
    BY <2>4, SkipKeeps
  <2>5. ASSUME NEW a \in Accounts, NEW fee \in ReturnFees, Return(a, fee) PROVE SpamInv'
    BY <2>5, ReturnKeeps
  <2> QED
    BY <1>1, <2>1, <2>2, <2>3, <2>4, <2>5 DEF Command
<1>2. CASE Signal
  BY <1>2, SignalKeeps
<1>3. ASSUME NEW a \in Accounts, Broadcast(a) PROVE SpamInv'
  <2>1. CASE StartRound(a)
    BY <2>1, StartRoundKeeps
  <2>2. CASE EndRound(a)
    BY <2>2, EndRoundKeeps
  <2>3. ASSUME NEW r \in Everybody, SendFails(a, r) PROVE SpamInv'
    BY <2>3, SendFailsKeeps
  <2>4. ASSUME NEW r \in Everybody, Register(a, r) PROVE SpamInv'
    BY <2>4, RegisterKeeps
  <2>5. CASE CountOutstanding(a)
    BY <2>5, CountOutstandingKeeps
  <2>6. CASE CountInflight(a)
    BY <2>6, CountInflightKeeps
  <2> QED
    BY <1>3, <2>1, <2>2, <2>3, <2>4, <2>5, <2>6 DEF Broadcast
<1>4. ASSUME NEW a \in Accounts, Exit(a) PROVE SpamInv'
  BY <1>4, ExitKeeps
<1>5. ASSUME NEW c \in Clients, HearAnswer(c) PROVE SpamInv'
  BY <1>5, HearAnswerKeeps
<1>6. ASSUME NEW c \in Clients, CountAnswer(c) PROVE SpamInv'
  BY <1>6, CountAnswerKeeps
<1>7. ASSUME NEW c \in Clients, StopListening(c) PROVE SpamInv'
  BY <1>7, StopListeningKeeps
<1>8. ASSUME NEW c \in Clients, Expire(c) PROVE SpamInv'
  BY <1>8, ExpireKeeps
<1>9. ASSUME NEW c \in Clients, Close(c) PROVE SpamInv'
  BY <1>9, CloseKeeps
<1>10. CASE UNCHANGED vars
  <2>1. UNCHANGED <<chain, books, counters, network, control, sending>>
    BY <1>10 DEF vars
  <2>2. TypeOK'
    BY <2>1 DEF SpamInv, TypeOK, chain, books, counters, network, control, sending, choices
  <2>3. Queues'
    BY <2>1, QueuesStay DEF SpamInv, network, sending, choices
  <2> QED
    BY <2>1, <2>2, <2>3, CountersAside
<1> QED
  BY <1>1, <1>2, <1>3, <1>4, <1>5, <1>6, <1>7, <1>8, <1>9, <1>10 DEF Next

\* The inductive invariant of the spam command.
THEOREM SpamInvariance == Spec => []SpamInv
<1>1. Init => SpamInv
  BY SpamAssumption, InitSpamInv
<1>2. SpamInv /\ [Next]_vars => SpamInv'
  BY SpamAssumption, NextSpamInv
<1> QED
  BY <1>1, <1>2, PTL DEF Spec

\* Every variable of the command keeps values of its kind: a local balance
\* stays an unsigned number, and nobody holds more than the root key had.
THEOREM SpamTypes == Spec => []TypeOK
<1>1. SpamInv => TypeOK
  BY DEF SpamInv
<1> QED
  BY <1>1, SpamInvariance, PTL

\* The counter a closer waits for is the number of missing answers, up to the
\* broadcasters and the listener that are between two statements.
THEOREM OutstandingCounts == Spec => []OutstandingIsUnanswered
<1>1. SpamInv => OutstandingIsUnanswered
  BY DEF SpamInv, Queues
<1> QED
  BY <1>1, SpamInvariance, PTL

\* What the nodes still have to answer is bounded by the backlog and a round
\* of every broadcaster, for any number of broadcasters and clients.
THEOREM BacklogStaysBounded == Spec => []BacklogBounded
<1>1. SpamInv => BacklogBounded
  <2> SUFFICES ASSUME SpamInv PROVE BacklogBounded
    OBVIOUS
  <2> DEFINE u    == Uncounted(pc)
             w    == Allowance(pc, selected)
             owed == Total(Owed(answerable, dropped))
             most == MaxTxBacklog + NumAccounts * TxsPerAccount
  <2>1. SpamAssumption /\ TypeOK /\ Rounds
    BY SpamAssumption DEF SpamInv, Queues
  <2>2. \A a \in Accounts : u[a] <= w[a]
    BY <2>1, RoomRange DEF Uncounted, Allowance
  <2>3. /\ u \in [Accounts -> Nat] /\ w \in [Accounts -> Nat]
        /\ Total(u) \in Nat /\ Total(w) \in Nat /\ owed \in Nat
        /\ IsFiniteSet(Accounts)
    BY <2>1, SumTypes, SpamConstants
  <2>4. inflight + Total(u) = owed /\ inflight + Total(w) <= most /\ inflight \in Int
    BY DEF SpamInv, Queues, InflightLags, InflightBounded, TypeOK
  <2>5. most \in Int
    <3>1. NumAccounts \in Nat /\ TxsPerAccount \in Nat /\ MaxTxBacklog \in Nat
      BY <2>1, SpamConstants
    <3>2. NumAccounts * TxsPerAccount \in Nat
      BY <3>1
    <3> QED
      BY <3>1, <3>2
  <2>6. BacklogBounded <=> owed <= most
    BY DEF BacklogBounded, Owed, Unanswered
  <2> HIDE DEF u, w, owed, most
  <2>7. Total(u) <= Total(w)
    BY <2>2, <2>3, TotalMonotone
  <2> QED
    BY <2>3, <2>4, <2>5, <2>6, <2>7
<1> QED
  BY <1>1, SpamInvariance, PTL

\* What an account that never wrapped around has on the books is there.
THEOREM BalancesStayCovered == Spec => []BalancesAreCovered
<1>1. SpamInv => BalancesAreCovered
  BY DEF SpamInv, Funds
<1> QED
  BY <1>1, SpamInvariance, PTL

\* The command fails to give funds back only for one of four reasons.
THEOREM RefusalsAreExplained == Spec => []RefusedReturnsAreExplained
<1>1. SpamInv => RefusedReturnsAreExplained
  BY DEF SpamInv, Funds
<1> QED
  BY <1>1, SpamInvariance, PTL
=============================================================================
