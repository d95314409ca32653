-------------------------------- MODULE Spam --------------------------------
(***************************************************************************)
(* The spam command of the token CLI (cmd/spam.go).  It hands funds of a   *)
(* root key to new accounts; a broadcaster per account sends transfers     *)
(* through one of the clients; a listener per client counts the answers; a *)
(* closer per client waits, after a signal, until no answer is missing;    *)
(* then what the accounts have left is sent back.                          *)
(*                                                                         *)
(* A transaction takes effect on the chain when it is registered, and its  *)
(* answer arrives later; one that is dropped has no effect and is answered *)
(* when it expires, in a block accepted afterwards.                        *)
(***************************************************************************)
EXTENDS Totals, Integers

CONSTANTS
  Accounts,      \* the accounts of the command
  Clients,       \* the nodes it talks to, each with a connection
  Others,        \* keys outside, when randomRecipient is set
  TxsPerAccount, \* numTxsPerAccount, per round of a broadcaster
  MaxTxBacklog,
  FeePerTx,      \* feePerTx, what is withheld for the fee of an account
  Fee,           \* the fee of a transfer while the command runs
  ReturnFees,    \* fees of a transfer when the funds are returned
  Balance,       \* what the root key holds
  MaxUint64,
  MaxFailures,   \* connections that fail
  MaxSignals     \* signals that wait in the channel at once, two at most

ASSUME SpamAssumption ==
  /\ IsFiniteSet(Accounts) /\ Accounts # {}
  /\ IsFiniteSet(Clients) /\ Clients # {} /\ IsFiniteSet(Others)
  /\ Others \cap Accounts = {} /\ Cardinality(Others) >= TxsPerAccount
  /\ TxsPerAccount \in Nat \ {0} /\ MaxTxBacklog \in Nat
  /\ FeePerTx \in Nat /\ Fee \in Nat \ {0} /\ ReturnFees \subseteq Nat \ {0}
  /\ MaxUint64 \in Nat /\ Balance \in 0 .. MaxUint64
  /\ MaxFailures \in Nat /\ MaxSignals \in 1 .. 2

VARIABLES
  phase,        \* what the command itself is doing
  root,         \* what the root key holds on the chain
  held,         \* what each account holds on the chain
  funds,        \* the map of funds, read and written by the broadcasters
  balance,      \* balance of each broadcaster, an unsigned number
  randomRecipient,  \* whether transfers go to new keys outside
  issuer,       \* the client each broadcaster has chosen
  pc,           \* where each broadcaster is
  selected,     \* how often it chose each recipient in this round
  transferFee,
  outstandingTxs, inflight,
  answerable,   \* per client, registered transactions the node will answer
  dropped,      \* per client, registered transactions that must expire first
  listener,     \* where the listener of each client is
  closed,       \* the clients whose closer has closed the connection
  signals,      \* signals that wait in the channel
  cancelled,    \* the context of the command is cancelled
  returned,     \* accounts whose funds were returned or too few
  failures,     \* connections that failed
  wrapped       \* history: accounts whose unsigned balance wrapped around

chain == <<root, held>>
books == <<funds, balance, wrapped>>
counters == <<outstandingTxs, inflight>>
network == <<answerable, dropped, listener, failures>>
control == <<phase, signals, cancelled, closed, returned>>
choices == <<randomRecipient, issuer>>
sending == <<choices, pc, selected, transferFee>>
vars == <<chain, books, counters, network, control, sending>>

Uint64(n) == n % (MaxUint64 + 1)

\* A recipient is a key nobody has used yet, or another account unless there
\* is only one.
Recipients(a) ==
  IF randomRecipient THEN {r \in Others : selected[a][r] = 0}
  ELSE IF Accounts = {a} THEN {a}
  ELSE Accounts \ {a}

Everybody == Accounts \cup Others

NumAccounts == Cardinality(Accounts)

DistAmount == Uint64(Balance - FeePerTx * NumAccounts) \div NumAccounts

NoneSelected == [r \in Everybody |-> 0]

Init ==
  /\ phase = "distributing"
  /\ root = Balance
  /\ held = [a \in Accounts |-> 0]
  /\ funds = [a \in Accounts |-> 0]
  /\ balance = [a \in Accounts |-> 0]
  /\ randomRecipient \in BOOLEAN
  /\ issuer \in [Accounts -> Clients]
  /\ pc = [a \in Accounts |-> "new"]
  /\ selected = [a \in Accounts |-> NoneSelected]
  /\ transferFee = 0
  /\ outstandingTxs = [c \in Clients |-> 0]
  /\ inflight = 0
  /\ answerable = [c \in Clients |-> 0]
  /\ dropped = [c \in Clients |-> 0]
  /\ listener = [c \in Clients |-> "listening"]
  /\ closed = {}
  /\ signals = 0
  /\ cancelled = FALSE
  /\ returned = {}
  /\ failures = 0
  /\ wrapped = {}
-----------------------------------------------------------------------------
\* The transfers that hand out the funds.  One that the chain refuses ends
\* the command.
Distribute(a) ==
  /\ phase = "distributing"
  /\ pc[a] = "new"
  /\ IF DistAmount > 0 /\ root >= Fee + DistAmount
     THEN /\ root' = root - Fee - DistAmount
          /\ held' = [held EXCEPT ![a] = DistAmount]
          /\ funds' = [funds EXCEPT ![a] = DistAmount]
          /\ pc' = [pc EXCEPT ![a] = "funded"]
          /\ UNCHANGED phase
     ELSE /\ phase' = IF root >= Fee THEN "txFailed" ELSE "error"
          /\ UNCHANGED <<root, held, funds, pc>>
  /\ UNCHANGED <<balance, wrapped, counters, network, signals, cancelled, closed,
                 returned, choices, selected, transferFee>>

\* The broadcasters start, with the funds of their accounts.
Kickoff ==
  /\ phase = "distributing"
  /\ \A a \in Accounts : pc[a] = "funded"
  /\ phase' = "running"
  /\ pc' = [a \in Accounts |-> "idle"]
  /\ balance' = funds
  /\ UNCHANGED <<chain, funds, wrapped, counters, network, signals, cancelled,
                 closed, returned, choices, selected, transferFee>>

Signal ==
  /\ phase = "running"
  /\ signals < MaxSignals
  /\ signals' = signals + 1
  /\ UNCHANGED <<chain, books, counters, network, phase, cancelled, closed,
                 returned, sending>>
-----------------------------------------------------------------------------
Goto(a, label) == pc' = [pc EXCEPT ![a] = label]

\* Mutant: a round begins whatever the backlog.
StartRoundAnyway(a) ==
  /\ pc[a] = "idle"
  /\ Goto(a, "sending")
  /\ selected' = [selected EXCEPT ![a] = NoneSelected]
  /\ UNCHANGED <<chain, books, counters, network, control, choices, transferFee>>

\* A round begins, unless the backlog is too long.
StartRound(a) ==
  /\ pc[a] = "idle"
  /\ inflight <= MaxTxBacklog
  /\ Goto(a, "sending")
  /\ selected' = [selected EXCEPT ![a] = NoneSelected]
  /\ UNCHANGED <<chain, books, counters, network, control, choices, transferFee>>

Iterations(a) == Total(selected[a])

EndRound(a) ==
  /\ pc[a] = "sending"
  /\ Iterations(a) = TxsPerAccount
  /\ Goto(a, "idle")
  /\ selected' = [selected EXCEPT ![a] = NoneSelected]
  /\ UNCHANGED <<chain, books, counters, network, control, choices, transferFee>>

Select(a, r) ==
  /\ pc[a] = "sending"
  /\ Iterations(a) < TxsPerAccount
  /\ r \in Recipients(a)
  /\ selected' = [selected EXCEPT ![a][r] = @ + 1]

\* The transaction cannot be generated, or not be registered.
SendFails(a, r) ==
  /\ Select(a, r)
  /\ \/ UNCHANGED transferFee
     \/ transferFee' = Fee
  /\ UNCHANGED <<chain, books, counters, network, control, choices, pc>>

\* What the broadcaster takes from its local balance for a transfer.
\* Mutant: a signed balance.
SpentSigned(b, value) == b - (Fee + value)

\* Mutant: the value only.
SpentValueOnly(b, value) == Uint64(b - value)

Spent(b, value) == Uint64(b - (Fee + value))

\* A transfer on the chain: the fee is taken if it can be, and the value
\* moves if there is enough of it.
Settled(h, a, r, value) ==
  LET paid == [h EXCEPT ![a] = @ - Fee]
      sent == [paid EXCEPT ![a] = @ - value]
  IN  IF h[a] < Fee THEN h
      ELSE IF h[a] < Fee + value THEN paid
      ELSE IF r \in Accounts THEN [sent EXCEPT ![r] = @ + value]
      ELSE sent

\* The transaction is registered: the value is the number of times the
\* recipient was chosen.
Register(a, r) ==
  LET value == selected'[a][r]
      c     == issuer[a]
  IN  /\ Select(a, r)
      /\ c \notin closed
      /\ listener[c] # "stopped"
      /\ transferFee' = Fee
      /\ Goto(a, "registered")
      /\ \/ /\ held' = Settled(held, a, r, value)
            /\ answerable' = [answerable EXCEPT ![c] = @ + 1]
            /\ UNCHANGED dropped
         \/ /\ dropped' = [dropped EXCEPT ![c] = @ + 1]
            /\ UNCHANGED <<held, answerable>>
      /\ balance' = [balance EXCEPT ![a] = Spent(@, value)]
      /\ wrapped' = IF balance[a] < Fee + value THEN wrapped \cup {a} ELSE wrapped
      /\ UNCHANGED <<root, funds, counters, listener, failures, control, choices>>

\* The next two statements of the broadcaster, after which others may run.
CountOutstanding(a) ==
  /\ pc[a] = "registered"
  /\ outstandingTxs' = [outstandingTxs EXCEPT ![issuer[a]] = @ + 1]
  /\ Goto(a, "counted")
  /\ UNCHANGED <<chain, books, inflight, network, control, choices, selected, transferFee>>

CountInflight(a) ==
  /\ pc[a] = "counted"
  /\ inflight' = inflight + 1
  /\ Goto(a, "sending")
  /\ UNCHANGED <<chain, books, outstandingTxs, network, control, choices, selected, transferFee>>

\* A broadcaster ends: one takes the signal and cancels the context, the
\* others see it cancelled.  Its balance goes back into the map.
Exit(a) ==
  /\ pc[a] = "idle"
  /\ \/ signals > 0 /\ signals' = signals - 1 /\ cancelled' = TRUE
     \/ cancelled /\ UNCHANGED <<signals, cancelled>>
  /\ Goto(a, "exited")
  /\ funds' = [funds EXCEPT ![a] = balance[a]]
  /\ UNCHANGED <<chain, balance, wrapped, counters, network, phase, closed,
                 returned, choices, selected, transferFee>>
-----------------------------------------------------------------------------
\* The listener of a client hears an answer, and counts it.
HearAnswer(c) ==
  /\ listener[c] = "listening"
  /\ c \notin closed
  /\ answerable[c] > 0
  /\ answerable' = [answerable EXCEPT ![c] = @ - 1]
  /\ inflight' = inflight - 1
  /\ listener' = [listener EXCEPT ![c] = "counting"]
  /\ UNCHANGED <<chain, books, outstandingTxs, dropped, failures, control, sending>>

\* Mutant: no answer is counted before its transaction is.
CountAnswerUnlessZero(c) ==
  /\ listener[c] = "counting"
  /\ outstandingTxs' = [outstandingTxs EXCEPT ![c] = IF @ > 0 THEN @ - 1 ELSE 0]
  /\ listener' = [listener EXCEPT ![c] = "listening"]
  /\ UNCHANGED <<chain, books, inflight, answerable, dropped, failures, control, sending>>

CountAnswer(c) ==
  /\ listener[c] = "counting"
  /\ outstandingTxs' = [outstandingTxs EXCEPT ![c] = @ - 1]
  /\ listener' = [listener EXCEPT ![c] = "listening"]
  /\ UNCHANGED <<chain, books, inflight, answerable, dropped, failures, control, sending>>

\* ListenTx returns an error: the connection failed or was closed.
StopListening(c) ==
  /\ listener[c] = "listening"
  /\ \/ c \in closed /\ UNCHANGED failures
     \/ /\ phase = "running" /\ failures < MaxFailures
        /\ failures' = failures + 1
  /\ listener' = [listener EXCEPT ![c] = "stopped"]
  /\ UNCHANGED <<chain, books, counters, answerable, dropped, control, sending>>

\* A block is accepted after the expiry of a dropped transaction.
Expire(c) ==
  /\ dropped[c] > 0
  /\ dropped' = [dropped EXCEPT ![c] = @ - 1]
  /\ answerable' = [answerable EXCEPT ![c] = @ + 1]
  /\ UNCHANGED <<chain, books, counters, listener, failures, control, sending>>

\* While the command waits for its issuers it sends transactions of its own,
\* so that there are such blocks.
\* Mutant: it stops sending them when the broadcasters end.
DummyStopsEarly(c) == phase = "running" /\ Expire(c)

DummyExpires(c) == phase = "waiting" /\ Expire(c)

Close(c) ==
  /\ cancelled
  /\ c \notin closed
  /\ outstandingTxs[c] = 0
  /\ closed' = closed \cup {c}
  /\ UNCHANGED <<chain, books, counters, network, phase, signals, cancelled,
                 returned, sending>>
-----------------------------------------------------------------------------
\* g.Wait and wg.Wait return.
WaitForIssuers ==
  /\ phase = "running"
  /\ \A a \in Accounts : pc[a] = "exited"
  /\ phase' = "waiting"
  /\ UNCHANGED <<chain, books, counters, network, signals, cancelled, closed,
                 returned, sending>>

IssuersReturned ==
  /\ phase = "waiting"
  /\ closed = Clients
  /\ phase' = "returning"
  /\ UNCHANGED <<chain, books, counters, network, signals, cancelled, closed,
                 returned, sending>>

Enough(a) == transferFee <= funds[a]

Skip(a) ==
  /\ phase = "returning"
  /\ a \notin returned
  /\ ~Enough(a)
  /\ returned' = returned \cup {a}
  /\ UNCHANGED <<chain, books, counters, network, phase, signals, cancelled,
                 closed, sending>>

\* Mutant: the fee is not set aside.
ReturnAll(a) == funds[a]

ReturnAmount(a) == funds[a] - transferFee

\* The fee of the return is what the node suggests now.
Return(a, fee) ==
  LET amount == ReturnAmount(a)
  IN  /\ phase = "returning"
      /\ a \notin returned
      /\ Enough(a)
      /\ IF amount > 0 /\ held[a] >= fee + amount
         THEN /\ held' = [held EXCEPT ![a] = @ - fee - amount]
              /\ root' = root + amount
              /\ returned' = returned \cup {a}
              /\ UNCHANGED phase
         ELSE /\ phase' = IF held[a] >= fee THEN "txFailed" ELSE "error"
              /\ UNCHANGED <<chain, returned>>
      /\ UNCHANGED <<books, counters, network, signals, cancelled, closed, sending>>

Finish ==
  /\ phase = "returning"
  /\ returned = Accounts
  /\ phase' = "done"
  /\ UNCHANGED <<chain, books, counters, network, signals, cancelled, closed,
                 returned, sending>>

Broadcast(a) ==
  \/ StartRound(a) \/ EndRound(a)
  \/ \E r \in Everybody : SendFails(a, r) \/ Register(a, r)
  \/ CountOutstanding(a) \/ CountInflight(a)

Command ==
  \/ Kickoff \/ WaitForIssuers \/ IssuersReturned \/ Finish
  \/ \E a \in Accounts :
       Distribute(a) \/ Skip(a) \/ \E fee \in ReturnFees : Return(a, fee)

Next ==
  \/ Command
  \/ Signal
  \/ \E a \in Accounts : Broadcast(a) \/ Exit(a)
  \/ \E c \in Clients :
       \/ HearAnswer(c) \/ CountAnswer(c) \/ StopListening(c)
       \/ Expire(c) \/ Close(c)

Spec == Init /\ [][Next]_vars

\* Every goroutine runs on.  A broadcaster that may end is not for ever
\* passed over, for select chooses among the ready cases at random.  The
\* node answers, and the command sends its own transactions while it waits.
Fairness ==
  /\ WF_vars(Command)
  /\ \A a \in Accounts : WF_vars(Broadcast(a)) /\ SF_vars(Exit(a))
  /\ \A c \in Clients :
       /\ WF_vars(HearAnswer(c)) /\ WF_vars(CountAnswer(c))
       /\ WF_vars(DummyExpires(c)) /\ WF_vars(Close(c))

FairSpec == Spec /\ Fairness
-----------------------------------------------------------------------------
Phases == {"distributing", "running", "waiting", "returning", "done",
           "error", "txFailed"}

\* Every variable keeps values of its kind: a local balance never leaves the
\* range of a uint64, though outstandingTxs may fall below zero.
TypeOK ==
  /\ phase \in Phases
  /\ root \in 0 .. Balance
  /\ held \in [Accounts -> 0 .. Balance]
  /\ funds \in [Accounts -> 0 .. MaxUint64]
  /\ balance \in [Accounts -> 0 .. MaxUint64]
  /\ randomRecipient \in BOOLEAN
  /\ issuer \in [Accounts -> Clients]
  /\ pc \in [Accounts -> {"new", "funded", "idle", "sending", "registered",
                          "counted", "exited"}]
  /\ selected \in [Accounts -> [Everybody -> 0 .. TxsPerAccount]]
  /\ transferFee \in {0, Fee}
  /\ outstandingTxs \in [Clients -> Int]
  /\ inflight \in Int
  /\ answerable \in [Clients -> Nat]
  /\ dropped \in [Clients -> Nat]
  /\ listener \in [Clients -> {"listening", "counting", "stopped"}]
  /\ closed \subseteq Clients
  /\ signals \in 0 .. MaxSignals
  /\ cancelled \in BOOLEAN
  /\ returned \subseteq Accounts
  /\ failures \in 0 .. MaxFailures
  /\ wrapped \subseteq Accounts

Unanswered(c) == answerable[c] + dropped[c]

AtClient(c, label) == {a \in Accounts : pc[a] = label /\ issuer[a] = c}

\* The counter a closer waits for is off from the number of unanswered
\* transactions by exactly those that a broadcaster has registered and not
\* counted yet, and the answer a listener has taken off inflight and not off
\* this counter yet; whatever the order in which the goroutines run.
OutstandingIsUnanswered ==
  \A c \in Clients :
    outstandingTxs[c] + Cardinality(AtClient(c, "registered"))
      = Unanswered(c) + (IF listener[c] = "counting" THEN 1 ELSE 0)

\* What the broadcasters test before a round bounds what the nodes still have
\* to answer, although transactions are counted only after they are
\* registered and all broadcasters may pass the test at the same time.
BacklogBounded ==
  Total([c \in Clients |-> Unanswered(c)])
    <= MaxTxBacklog + NumAccounts * TxsPerAccount

\* The local balance of an account that never wrapped around is covered by
\* the chain, although dropped transactions are taken off it and received
\* ones never added: what is returned at the end is there.
BalancesAreCovered ==
  \A a \in Accounts \ (wrapped \cup returned) :
    held[a] >= IF pc[a] = "exited" THEN funds[a] ELSE balance[a]

\* A return is refused only if a local balance has wrapped around, if no fee
\* was ever learnt, if an account has the fee left and not one unit more, or
\* if the fee has risen beyond what an account still has to be returned.
RefusedReturnsAreExplained ==
  phase \in {"txFailed", "error"} /\ (\A a \in Accounts : pc[a] = "exited")
    => \/ wrapped # {}
       \/ transferFee = 0
       \/ \E a \in Accounts : funds[a] = transferFee
       \/ \E a \in Accounts \ returned : \E fee \in ReturnFees :
            fee > Fee /\ held[a] < fee + funds[a] - transferFee

\* After a signal the command ends, with or without an error, also when
\* transactions were dropped, unless a connection fails: then nobody counts
\* the answers that are missing, and the command waits for ever.
SignalEndsCommand ==
  phase = "running" /\ (signals > 0 \/ cancelled)
    ~> phase \in {"done", "error", "txFailed"} \/ failures > 0
=============================================================================
