---------------------------- MODULE ERC20_proofs ----------------------------
(***************************************************************************)
(* The ledger of the tokens over every set of addresses and every width of *)
(* its integers: what each operation does to a consistent ledger, which is *)
(* why the unchecked arithmetic never wraps around, and what the inherited *)
(* calls do to the books and to the allowances.  The contracts extend this *)
(* module, so that each has these lemmas about its own ledger.             *)
(***************************************************************************)
EXTENDS ERC20, Totals_proofs

\* A consistent ledger: the supply is the sum of the balances.
LedgerOK(t) == t \in Ledger /\ t.totalSupply = Total(t.balances)

\* What may happen to the books between two ledgers: nothing, or a step of
\* the abstract token.
SameBooks(t, u) == u.balances = t.balances /\ u.totalSupply = t.totalSupply

Minting(t, u, a, n) ==
  /\ t.totalSupply + n <= MaxUint
  /\ u.totalSupply = t.totalSupply + n
  /\ u.balances = [t.balances EXCEPT ![a] = @ + n]

Burning(t, u, a, n) ==
  /\ n <= t.balances[a]
  /\ u.totalSupply = t.totalSupply - n
  /\ u.balances = [t.balances EXCEPT ![a] = @ - n]

Moving(t, u, a, b, n) ==
  /\ n <= t.balances[a]
  /\ u.totalSupply = t.totalSupply
  /\ u.balances = Books!Moved(t.balances, a, b, n)

-----------------------------------------------------------------------------
\* The operations of the ledger.

\* The parts of a ledger have their types.
LEMMA LedgerType ==
  ASSUME ERC20Assumption, NEW t, LedgerOK(t)
  PROVE  /\ t.balances \in [Address -> Nat]
         /\ t.balances \in [Address -> Uint]
         /\ t.allowances \in [Address -> [Address -> Uint]]
         /\ t.totalSupply \in Uint /\ t.totalSupply \in Nat
         /\ Total(t.balances) = t.totalSupply
         /\ MaxUint \in Nat /\ IsFiniteSet(Address)
         /\ t = [balances |-> t.balances, allowances |-> t.allowances,
                 totalSupply |-> t.totalSupply]
BY DEF LedgerOK, Ledger, Uint, ERC20Assumption

\* A transfer that is covered moves tokens; the receiver's balance, which is
\* added up without a check, does not wrap around.
LEMMA MovedOK ==
  ASSUME ERC20Assumption, NEW t, LedgerOK(t),
         NEW from \in Address, NEW to \in Address, NEW n \in Uint,
         t.balances[from] >= n,
         NEW u, u = Moved(t, from, to, n)
  PROVE  LedgerOK(u) /\ Moving(t, u, from, to, n) /\ u.allowances = t.allowances
<1> DEFINE bal == t.balances
           mid == Put(bal, from, bal[from] - n)
           end == Put(mid, to, mid[to] + n)
<1>1. /\ bal \in [Address -> Nat] /\ Total(bal) = t.totalSupply
      /\ t.totalSupply \in Nat /\ t.totalSupply \in Uint /\ t.totalSupply <= MaxUint
      /\ MaxUint \in Nat /\ IsFiniteSet(Address) /\ n \in Nat
  BY LedgerType DEF Uint
<1>2. /\ t = [balances |-> bal, allowances |-> t.allowances, totalSupply |-> t.totalSupply]
      /\ t.allowances \in [Address -> [Address -> Uint]]
  BY LedgerType
<1>3. bal[from] \in Nat /\ bal[from] - n \in Nat
  BY <1>1
<1>4. u = [[t EXCEPT !.balances[from] = @ - n] EXCEPT !.balances[to] = Wrap(@ + n)]
  BY DEF Moved
<1> HIDE DEF bal
<1>5. mid = [bal EXCEPT ![from] = bal[from] - n]
  BY DEF Put
<1>6. mid \in [Address -> Nat]
  BY <1>1, <1>3 DEF Put
<1>7. Total(mid) + bal[from] = Total(bal) + (bal[from] - n)
  BY <1>1, <1>3, TotalUpdate
<1> HIDE DEF mid
<1>8. Total(mid) \in Nat /\ mid[to] \in Nat /\ mid[to] <= Total(mid)
  BY <1>1, <1>6, CoinsFinite, TotalBound
<1>9. mid[to] + n \in Nat /\ mid[to] + n <= MaxUint
  BY <1>1, <1>3, <1>7, <1>8
<1>10. Wrap(mid[to] + n) = mid[to] + n
  BY <1>1, <1>9 DEF Wrap
<1>11. end = [mid EXCEPT ![to] = mid[to] + n]
  BY DEF Put
<1>12. end \in [Address -> Nat]
  BY <1>6, <1>9 DEF Put
<1>13. Total(end) + mid[to] = Total(mid) + (mid[to] + n)
  BY <1>1, <1>6, <1>9, TotalUpdate
<1> HIDE DEF end
<1>14. Total(end) \in Nat
  BY <1>1, <1>12, CoinsFinite
<1>15. Total(end) = t.totalSupply
  BY <1>1, <1>3, <1>7, <1>8, <1>13, <1>14
<1>16. \A a \in Address : end[a] \in Nat /\ end[a] <= Total(end)
  BY <1>1, <1>12, TotalBound
<1>17. end \in [Address -> Uint]
  BY <1>1, <1>12, <1>15, <1>16 DEF Uint
<1>18. u = [balances |-> end, allowances |-> t.allowances, totalSupply |-> t.totalSupply]
  <2>1. [t EXCEPT !.balances[from] = @ - n]
          = [balances |-> mid, allowances |-> t.allowances, totalSupply |-> t.totalSupply]
    BY SMTT(30), <1>2, <1>5
  <2>2. u = [balances |-> [mid EXCEPT ![to] = Wrap(mid[to] + n)],
             allowances |-> t.allowances, totalSupply |-> t.totalSupply]
    BY <1>4, <2>1
  <2> QED
    BY <2>2, <1>10, <1>11
<1>19. LedgerOK(u)
  BY <1>2, <1>1, <1>15, <1>17, <1>18 DEF LedgerOK, Ledger
<1>20. end = Books!Moved(bal, from, to, n)
  BY <1>5, <1>11 DEF Books!Moved
<1> QED
  BY <1>3, <1>18, <1>19, <1>20 DEF Moving, bal

\* Minting within the range of the supply does not wrap a balance around.
LEMMA MintedOK ==
  ASSUME ERC20Assumption, NEW t, LedgerOK(t), NEW a \in Address, NEW n \in Uint,
         t.totalSupply + n <= MaxUint,
         NEW u, u = Minted(t, a, n)
  PROVE  LedgerOK(u) /\ Minting(t, u, a, n) /\ u.allowances = t.allowances
<1> DEFINE bal == t.balances
           end == Put(bal, a, bal[a] + n)
<1>1. /\ bal \in [Address -> Nat] /\ Total(bal) = t.totalSupply
      /\ t.totalSupply \in Nat /\ MaxUint \in Nat /\ IsFiniteSet(Address) /\ n \in Nat
  BY LedgerType DEF Uint
<1>2. /\ t = [balances |-> bal, allowances |-> t.allowances, totalSupply |-> t.totalSupply]
      /\ t.allowances \in [Address -> [Address -> Uint]]
  BY LedgerType
<1>3. u = [t EXCEPT !.totalSupply = t.totalSupply + n,
                    !.balances = [bal EXCEPT ![a] = Wrap(bal[a] + n)]]
  BY <1>2 DEF Minted
<1> HIDE DEF bal
<1>4. bal[a] \in Nat /\ bal[a] <= Total(bal)
  BY <1>1, TotalBound
<1>5. Wrap(bal[a] + n) = bal[a] + n
  BY <1>1, <1>4 DEF Wrap
<1>6. end = [bal EXCEPT ![a] = bal[a] + n]
  BY DEF Put
<1>7. end \in [Address -> Nat]
  BY <1>1, <1>4 DEF Put
<1>8. Total(end) + bal[a] = Total(bal) + (bal[a] + n)
  <2>1. bal[a] + n \in Nat
    BY <1>1, <1>4
  <2> QED
    BY <1>1, <2>1, TotalUpdate
<1> HIDE DEF end
<1>9. Total(end) \in Nat
  BY <1>1, <1>7, CoinsFinite
<1>10. Total(end) = t.totalSupply + n
  BY <1>1, <1>4, <1>8, <1>9
<1>11. \A x \in Address : end[x] \in Nat /\ end[x] <= Total(end)
  BY <1>1, <1>7, TotalBound
<1>12. end \in [Address -> Uint] /\ t.totalSupply + n \in Uint
  BY <1>1, <1>7, <1>9, <1>10, <1>11 DEF Uint
<1>13. u = [balances |-> end, allowances |-> t.allowances, totalSupply |-> t.totalSupply + n]
  BY <1>2, <1>3, <1>5, <1>6
<1>14. LedgerOK(u)
  BY <1>2, <1>1, <1>10, <1>12, <1>13 DEF LedgerOK, Ledger
<1> QED
  BY <1>6, <1>13, <1>14 DEF Minting, bal

\* A burn that is covered lowers the supply, which is not smaller.
LEMMA BurnedOK ==
  ASSUME ERC20Assumption, NEW t, LedgerOK(t), NEW a \in Address, NEW n \in Uint,
         t.balances[a] >= n,
         NEW u, u = Burned(t, a, n)
  PROVE  LedgerOK(u) /\ Burning(t, u, a, n) /\ u.allowances = t.allowances
<1> DEFINE bal == t.balances
           end == Put(bal, a, bal[a] - n)
<1>1. /\ bal \in [Address -> Nat] /\ Total(bal) = t.totalSupply
      /\ t.totalSupply \in Nat /\ t.totalSupply <= MaxUint
      /\ MaxUint \in Nat /\ IsFiniteSet(Address) /\ n \in Nat
  BY LedgerType DEF Uint
<1>2. /\ t = [balances |-> bal, allowances |-> t.allowances, totalSupply |-> t.totalSupply]
      /\ t.allowances \in [Address -> [Address -> Uint]]
  BY LedgerType
<1>3. u = [t EXCEPT !.balances = [bal EXCEPT ![a] = bal[a] - n],
                    !.totalSupply = Wrap(t.totalSupply - n)]
  BY <1>2 DEF Burned
<1> HIDE DEF bal
<1>4. bal[a] \in Nat /\ bal[a] >= n /\ bal[a] - n \in Nat /\ bal[a] <= Total(bal)
  BY <1>1, TotalBound DEF bal
<1>5. Wrap(t.totalSupply - n) = t.totalSupply - n
  BY <1>1, <1>4 DEF Wrap
<1>6. end = [bal EXCEPT ![a] = bal[a] - n]
  BY DEF Put
<1>7. end \in [Address -> Nat]
  BY <1>1, <1>4 DEF Put
<1>8. Total(end) + bal[a] = Total(bal) + (bal[a] - n)
  BY <1>1, <1>4, TotalUpdate
<1> HIDE DEF end
<1>9. Total(end) \in Nat
  BY <1>1, <1>7, CoinsFinite
<1>10. Total(end) = t.totalSupply - n
  BY <1>1, <1>4, <1>8, <1>9
<1>11. \A x \in Address : end[x] \in Nat /\ end[x] <= Total(end)
  BY <1>1, <1>7, TotalBound
<1>12. end \in [Address -> Uint] /\ t.totalSupply - n \in Uint
  BY <1>1, <1>7, <1>9, <1>10, <1>11 DEF Uint
<1>13. u = [balances |-> end, allowances |-> t.allowances, totalSupply |-> t.totalSupply - n]
  BY <1>2, <1>3, <1>5, <1>6
<1>14. LedgerOK(u)
  BY <1>2, <1>1, <1>10, <1>12, <1>13 DEF LedgerOK, Ledger
<1> QED
  BY <1>4, <1>6, <1>13, <1>14 DEF Burning, bal

\* An approval changes an allowance only.
LEMMA ApprovedOK ==
  ASSUME ERC20Assumption, NEW t, LedgerOK(t), NEW o \in Address, NEW s \in Address,
         NEW n \in Uint, NEW u, u = Approved(t, o, s, n)
  PROVE  LedgerOK(u) /\ SameBooks(t, u)
BY DEF Approved, LedgerOK, Ledger, SameBooks

\* Using an allowance changes at most an allowance.
LEMMA SpentOK ==
  ASSUME ERC20Assumption, NEW t, LedgerOK(t), NEW o \in Address, NEW s \in Address,
         NEW n \in Uint, CanSpend(t, o, s, n), NEW u, u = Spent(t, o, s, n)
  PROVE  LedgerOK(u) /\ SameBooks(t, u)
<1>1. CASE Unlimited(t, o, s)
  BY <1>1 DEF Spent, SameBooks
<1>2. CASE ~Unlimited(t, o, s)
  <2>1. t.allowances[o][s] \in Uint /\ n \in Uint /\ t.allowances[o][s] >= n
    BY <1>2, LedgerType DEF CanSpend
  <2>2. t.allowances[o][s] - n \in Uint
    BY <2>1 DEF Uint, ERC20Assumption
  <2>3. u = Approved(t, o, s, t.allowances[o][s] - n)
    BY <1>2 DEF Spent
  <2> QED
    BY <2>2, <2>3, ApprovedOK
<1> QED
  BY <1>1, <1>2

\* The allowance of s over what o holds after he spent n of it.
AllowanceUsed(t, u, o, s, n) ==
  \/ Unlimited(t, o, s) /\ u.allowances = t.allowances
  \/ u.allowances = [t.allowances EXCEPT ![o][s] = t.allowances[o][s] - n]

\* transferFrom moves what was allowed, and the allowance is used up.
LEMMA TransferredFromOK ==
  ASSUME ERC20Assumption, NEW t, LedgerOK(t), NEW s \in Address,
         NEW from \in Address, NEW to \in Address, NEW n \in Uint,
         CanTransferFrom(t, s, from, to, n),
         NEW u, u = TransferredFrom(t, s, from, to, n)
  PROVE  /\ LedgerOK(u) /\ Moving(t, u, from, to, n)
         /\ AllowanceUsed(t, u, from, s, n)
<1> DEFINE v == Spent(t, from, s, n)
<1>1. CanSpend(t, from, s, n) /\ v.balances[from] >= n /\ u = Moved(v, from, to, n)
  BY DEF CanTransferFrom, CanMove, TransferredFrom
<1>2. LedgerOK(v) /\ SameBooks(t, v)
  BY <1>1, SpentOK
<1>3. AllowanceUsed(t, v, from, s, n)
  BY LedgerType DEF Spent, Approved, AllowanceUsed
<1> HIDE DEF v
<1>4. LedgerOK(u) /\ Moving(v, u, from, to, n) /\ u.allowances = v.allowances
  BY <1>1, <1>2, MovedOK
<1> QED
  BY <1>2, <1>3, <1>4 DEF SameBooks, Moving, AllowanceUsed

\* So does burning in somebody else's name.
LEMMA BurnedFromOK ==
  ASSUME ERC20Assumption, NEW t, LedgerOK(t), NEW s \in Address, NEW a \in Address,
         NEW n \in Uint, CanSpend(t, a, s, n), CanBurn(Spent(t, a, s, n), a, n),
         NEW u, u = Burned(Spent(t, a, s, n), a, n)
  PROVE  /\ LedgerOK(u) /\ Burning(t, u, a, n)
         /\ AllowanceUsed(t, u, a, s, n)
<1> DEFINE v == Spent(t, a, s, n)
<1>1. v.balances[a] >= n /\ u = Burned(v, a, n)
  BY DEF CanBurn
<1>2. LedgerOK(v) /\ SameBooks(t, v)
  BY SpentOK
<1>3. AllowanceUsed(t, v, a, s, n)
  BY LedgerType DEF Spent, Approved, AllowanceUsed
<1> HIDE DEF v
<1>4. LedgerOK(u) /\ Burning(v, u, a, n) /\ u.allowances = v.allowances
  BY <1>1, <1>2, BurnedOK
<1> QED
  BY <1>2, <1>3, <1>4 DEF SameBooks, Burning, AllowanceUsed

\* Only allowances that s gives himself change.
OwnAllowances(t, u, s) ==
  \A a \in Address : a # s => u.allowances[a] = t.allowances[a]

\* Paying the contract's way: the caller's own tokens move, and at most the
\* allowance over his own tokens is another one afterwards.
LEMMA PaidOK ==
  ASSUME ERC20Assumption, NEW t, LedgerOK(t), NEW s \in Address, NEW to \in Address,
         NEW n \in Uint, CanPay(t, s, to, n), NEW u, u = Paid(t, s, to, n)
  PROVE  LedgerOK(u) /\ Moving(t, u, s, to, n) /\ OwnAllowances(t, u, s)
<1> DEFINE v == Approved(t, s, s, n)
<1>1. CanTransferFrom(v, s, s, to, n) /\ u = TransferredFrom(v, s, s, to, n)
  BY DEF CanPay, Paid
<1>2. LedgerOK(v) /\ SameBooks(t, v)
  BY ApprovedOK
<1>3. OwnAllowances(t, v, s)
  BY LedgerType DEF Approved, OwnAllowances
<1> HIDE DEF v
<1>4. LedgerOK(u) /\ Moving(v, u, s, to, n) /\ AllowanceUsed(v, u, s, s, n)
  BY <1>1, <1>2, TransferredFromOK
<1>5. v.allowances \in [Address -> [Address -> Uint]]
  BY <1>2, LedgerType
<1>6. OwnAllowances(v, u, s)
  BY <1>4, <1>5 DEF AllowanceUsed, OwnAllowances
<1> QED
  BY <1>2, <1>3, <1>4, <1>6 DEF SameBooks, Moving, OwnAllowances
-----------------------------------------------------------------------------
\* The calls.

\* What s does with what is his.
OwnCall(s, t, u) ==
  /\ OwnAllowances(t, u, s)
  /\ \/ SameBooks(t, u)
     \/ \E n \in Uint : Burning(t, u, s, n)
     \/ \E n \in Uint, b \in Address : Moving(t, u, s, b, n)

\* What s does in somebody else's name.
DelegatedCall(s, t, u) ==
  \E a \in Address, n \in Uint :
    /\ AllowanceUsed(t, u, a, s, n)
    /\ Burning(t, u, a, n) \/ \E b \in Address : Moving(t, u, a, b, n)

\* A successful call of s that creates no tokens, seen from the books and the
\* allowances.
CallOK(s) ==
  /\ sender' = s
  /\ LedgerOK(token')
  /\ OwnCall(s, token, token') \/ DelegatedCall(s, token, token')

\* One that creates tokens for one account.
MintingOK(s) ==
  /\ sender' = s
  /\ LedgerOK(token')
  /\ token'.allowances = token.allowances
  /\ \E a \in Address, n \in Uint : Minting(token, token', a, n)

\* The functions every token inherits.
LEMMA InheritedOK ==
  ASSUME ERC20Assumption, LedgerOK(token), NEW s \in Account, InheritedCall(s)
  PROVE  CallOK(s)
<1>1. s \in Address
  BY DEF Account
<1>2. PICK n \in Amounts, a \in Address :
        \/ Transfer(s, a, n)
        \/ \E to \in Address : TransferFrom(s, a, to, n)
        \/ Approve(s, a, n) \/ IncreaseAllowance(s, a, n) \/ DecreaseAllowance(s, a, n)
  BY DEF InheritedCall
<1>3. n \in Uint
  BY DEF ERC20Assumption
<1>4. CASE Transfer(s, a, n)
  <2>1. token.balances[s] >= n /\ token' = Moved(token, s, a, n) /\ sender' = s
    BY <1>4 DEF Transfer, Call, CanMove
  <2>2. LedgerOK(token') /\ Moving(token, token', s, a, n) /\ token'.allowances = token.allowances
    BY <1>1, <1>3, <2>1, MovedOK
  <2> QED
    BY <1>3, <2>1, <2>2 DEF CallOK, OwnCall, OwnAllowances
<1>5. ASSUME NEW to \in Address, TransferFrom(s, a, to, n) PROVE CallOK(s)
  <2>1. /\ CanTransferFrom(token, s, a, to, n) /\ sender' = s
        /\ token' = TransferredFrom(token, s, a, to, n)
    BY <1>5 DEF TransferFrom, Call
  <2>2. /\ LedgerOK(token') /\ Moving(token, token', a, to, n)
        /\ AllowanceUsed(token, token', a, s, n)
    BY <1>1, <1>3, <2>1, TransferredFromOK
  <2> QED
    BY <1>3, <2>1, <2>2 DEF CallOK, DelegatedCall
<1>6. ASSUME NEW m \in Uint, token' = Approved(token, s, a, m), sender' = s PROVE CallOK(s)
  <2>1. LedgerOK(token') /\ SameBooks(token, token')
    BY <1>1, <1>6, ApprovedOK
  <2>2. OwnAllowances(token, token', s)
    BY <1>6, LedgerType DEF Approved, OwnAllowances
  <2> QED
    BY <1>6, <2>1, <2>2 DEF CallOK, OwnCall
<1>7. CASE Approve(s, a, n)
  BY <1>3, <1>6, <1>7 DEF Approve, Call
<1>8. token.allowances[s][a] \in Nat /\ n \in Nat /\ MaxUint \in Nat
  BY <1>1, <1>3, LedgerType DEF Uint
<1>9. CASE IncreaseAllowance(s, a, n)
  <2>1. /\ token.allowances[s][a] + n <= MaxUint /\ sender' = s
        /\ token' = Approved(token, s, a, token.allowances[s][a] + n)
    BY <1>9 DEF IncreaseAllowance, Call
  <2>2. token.allowances[s][a] + n \in Uint
    BY <1>8, <2>1 DEF Uint
  <2> QED
    BY <1>6, <2>1, <2>2
<1>10. CASE DecreaseAllowance(s, a, n)
  <2>1. /\ token.allowances[s][a] >= n /\ sender' = s
        /\ token' = Approved(token, s, a, token.allowances[s][a] - n)
    BY <1>10 DEF DecreaseAllowance, Call
  <2>2. token.allowances[s][a] <= MaxUint
    BY <1>1, LedgerType DEF Uint
  <2>3. token.allowances[s][a] - n \in Uint
    BY <1>8, <2>1, <2>2 DEF Uint
  <2> QED
    BY <1>6, <2>1, <2>3
<1> QED
  BY <1>2, <1>4, <1>5, <1>7, <1>9, <1>10

\* The functions of a burnable token.
LEMMA BurningOK ==
  ASSUME ERC20Assumption, LedgerOK(token), NEW s \in Account, BurningCall(s)
  PROVE  CallOK(s)
<1>1. s \in Address
  BY DEF Account
<1>2. PICK n \in Amounts : Burn(s, n) \/ \E a \in Address : BurnFrom(s, a, n)
  BY DEF BurningCall
<1>3. n \in Uint
  BY DEF ERC20Assumption
<1>4. CASE Burn(s, n)
  <2>1. token.balances[s] >= n /\ token' = Burned(token, s, n) /\ sender' = s
    BY <1>4 DEF Burn, Call, CanBurn
  <2>2. LedgerOK(token') /\ Burning(token, token', s, n) /\ token'.allowances = token.allowances
    BY <1>1, <1>3, <2>1, BurnedOK
  <2> QED
    BY <1>3, <2>1, <2>2 DEF CallOK, OwnCall, OwnAllowances
<1>5. ASSUME NEW a \in Address, BurnFrom(s, a, n) PROVE CallOK(s)
  <2>1. /\ CanSpend(token, a, s, n) /\ CanBurn(Spent(token, a, s, n), a, n)
        /\ token' = Burned(Spent(token, a, s, n), a, n) /\ sender' = s
    BY <1>5 DEF BurnFrom, Call
  <2>2. /\ LedgerOK(token') /\ Burning(token, token', a, n)
        /\ AllowanceUsed(token, token', a, s, n)
    BY <1>1, <1>3, <2>1, BurnedFromOK
  <2> QED
    BY <1>3, <2>1, <2>2 DEF CallOK, DelegatedCall
<1> QED
  BY <1>2, <1>4, <1>5

\* A mint.
LEMMA MintOK ==
  ASSUME ERC20Assumption, LedgerOK(token), NEW s, NEW a \in Address, NEW n \in Uint,
         Call(s, CanMint(token, a, n), Minted(token, a, n))
  PROVE  MintingOK(s)
<1>1. /\ token.totalSupply + n <= MaxUint
      /\ token' = Minted(token, a, n) /\ sender' = s
  BY DEF Call, CanMint
<1>2. /\ LedgerOK(token') /\ Minting(token, token', a, n)
      /\ token'.allowances = token.allowances
  BY <1>1, MintedOK
<1> QED
  BY <1>1, <1>2 DEF MintingOK

\* A payment the contract's way.
LEMMA PayOK ==
  ASSUME ERC20Assumption, LedgerOK(token), NEW s \in Account, NEW a \in Address,
         NEW n \in Uint, Call(s, CanPay(token, s, a, n), Paid(token, s, a, n))
  PROVE  CallOK(s)
<1>1. s \in Address
  BY DEF Account
<1>2. CanPay(token, s, a, n) /\ token' = Paid(token, s, a, n) /\ sender' = s
  BY DEF Call
<1>3. LedgerOK(token') /\ Moving(token, token', s, a, n) /\ OwnAllowances(token, token', s)
  BY <1>1, <1>2, PaidOK
<1> QED
  BY <1>2, <1>3 DEF CallOK, OwnCall
-----------------------------------------------------------------------------
\* What follows from a call.

\* A new ledger is consistent.
LEMMA EmptyLedgerOK == ASSUME ERC20Assumption PROVE LedgerOK(EmptyLedger)
<1> DEFINE none == [a \in Address |-> 0]
<1>1. EmptyLedger = [balances    |-> none,
                     allowances  |-> [a \in Address |-> [x \in Address |-> 0]],
                     totalSupply |-> 0]
  BY DEF EmptyLedger
<1>2. 0 \in Uint
  BY DEF Uint, ERC20Assumption
<1>3. none \in [Address -> Nat] /\ \A a \in Address : none[a] = 0
  OBVIOUS
<1>4. none \in [Address -> Uint]
  BY <1>2
<1> HIDE DEF none
<1>5. Total(none) = 0
  BY <1>3, TotalZero
<1> QED
  BY <1>1, <1>2, <1>4, <1>5 DEF LedgerOK, Ledger

\* A call or a mint is a step of the books.
LEMMA CallBooks ==
  ASSUME NEW s \in Account, CallOK(s) \/ MintingOK(s)
  PROVE  BooksStep
<1>1. ASSUME NEW n \in Uint, NEW a \in Address, Minting(token, token', a, n)
      PROVE  Books!TokenNext
  BY <1>1 DEF Minting, Books!TokenNext, Books!MintTo, Uint, Books!Uint
<1>2. ASSUME NEW n \in Uint, NEW a \in Address, Burning(token, token', a, n)
      PROVE  Books!TokenNext
  BY <1>2 DEF Burning, Books!TokenNext, Books!BurnOf, Uint, Books!Uint
<1>3. ASSUME NEW n \in Uint, NEW a \in Address, NEW b \in Address,
             Moving(token, token', a, b, n)
      PROVE  Books!TokenNext
  BY <1>3 DEF Moving, Books!TokenNext, Books!Move, Uint, Books!Uint
<1> QED
  BY <1>1, <1>2, <1>3
     DEF CallOK, OwnCall, DelegatedCall, MintingOK, SameBooks, BooksStep, Account

\* A consistent ledger starts the abstract token.
LEMMA LedgerBooks ==
  ASSUME LedgerOK(token)
  PROVE  Books!TokenInit
<1>1. Books!Coins(token.balances) = Coins(token.balances)
  BY DEF Coins, Books!Coins
<1>2. \A S : Books!Cardinality(S) = Cardinality(S)
  BY Zenon DEF Cardinality, Books!Cardinality
<1>3. Books!Total(token.balances) = Total(token.balances)
  BY <1>1, <1>2 DEF Total, Books!Total
<1> QED
  BY <1>3 DEF LedgerOK, Ledger, Books!TokenInit, Uint, Books!Uint

\* Without a mint the supply does not grow.
LEMMA CallSupply ==
  ASSUME ERC20Assumption, LedgerOK(token), NEW s \in Account, CallOK(s)
  PROVE  token'.totalSupply <= token.totalSupply
<1>1. token.totalSupply \in Nat /\ Uint \subseteq Nat
  BY LedgerType DEF Uint
<1>2. \/ SameBooks(token, token')
      \/ \E a \in Address, b \in Address, n \in Uint :
           Burning(token, token', a, n) \/ Moving(token, token', a, b, n)
  BY DEF CallOK, OwnCall, DelegatedCall, Account
<1>3. \/ token'.totalSupply = token.totalSupply
      \/ \E n \in Uint : token'.totalSupply = token.totalSupply - n
  BY <1>2 DEF SameBooks, Burning, Moving
<1> QED
  BY <1>1, <1>3

\* A burn or a movement takes from one holder at most.
LEMMA TakenFromOne ==
  ASSUME NEW t, t.balances \in [Address -> Nat], NEW u, NEW a \in Address, NEW n \in Nat,
         Burning(t, u, a, n) \/ \E b \in Address : Moving(t, u, a, b, n),
         NEW x \in Address
  PROVE  IF x = a THEN u.balances[x] \in {t.balances[x], t.balances[x] - n}
                  ELSE u.balances[x] >= t.balances[x]
<1> DEFINE bal == t.balances
<1>1. bal \in [Address -> Nat] /\ n <= bal[a]
  BY DEF Burning, Moving
<1>2. CASE u.balances = [bal EXCEPT ![a] = bal[a] - n]
  BY <1>1, <1>2
<1>3. ASSUME NEW b \in Address,
             u.balances = [[bal EXCEPT ![a] = bal[a] - n] EXCEPT ![b] = @ + n]
      PROVE  IF x = a THEN u.balances[x] \in {bal[x], bal[x] - n}
                      ELSE u.balances[x] >= bal[x]
  <2> DEFINE mid == [bal EXCEPT ![a] = bal[a] - n]
  <2>1. /\ mid[a] = bal[a] - n /\ mid \in [Address -> Int]
        /\ x # a => mid[x] = bal[x]
    BY <1>1
  <2>2. u.balances = [mid EXCEPT ![b] = mid[b] + n]
    BY <1>3
  <2> HIDE DEF mid
  <2>3. u.balances[x] = IF x = b THEN mid[x] + n ELSE mid[x]
    BY <2>1, <2>2
  <2>4. bal[x] \in Nat
    BY <1>1
  <2> HIDE DEF bal
  <2> QED
    BY <2>1, <2>3, <2>4
<1> QED
  BY <1>2, <1>3 DEF Burning, Moving, Books!Moved
\* A balance falls in the call of somebody else only within the allowance its
\* holder gave him, which is used up by as much, and nobody's allowance grows
\* without the holder.
LEMMA CallAllowances ==
  ASSUME ERC20Assumption, LedgerOK(token), NEW s \in Account, CallOK(s) \/ MintingOK(s),
         NEW x \in Account
  PROVE  /\ token.balances[x] - token'.balances[x] > 0 /\ sender' # x =>
              \/ Unlimited(token, x, sender')
              \/ token'.allowances[x][sender'] = token.allowances[x][sender']
                   - (token.balances[x] - token'.balances[x])
         /\ \A y \in Address :
              token'.allowances[x][y] > token.allowances[x][y] => sender' = x
<1> DEFINE taken == token.balances[x] - token'.balances[x]
           had   == token.allowances[x]
           has   == token'.allowances[x]
<1>1. /\ token.balances \in [Address -> Nat] /\ x \in Address
      /\ had \in [Address -> Uint] /\ Uint \subseteq Nat
  BY LedgerType DEF Uint, Account
<1>2. \A y \in Address : had[y] \in Nat
  BY <1>1
<1>3. /\ taken > 0 /\ s # x => Unlimited(token, x, s) \/ has[s] = had[s] - taken
      /\ \A y \in Address : has[y] > had[y] => s = x
  <2>1. token'.balances \in [Address -> Nat] /\ s \in Address
    BY LedgerType DEF CallOK, MintingOK, Account
  <2>2. token'.balances[x] \in Nat /\ token.balances[x] \in Nat
    BY <1>1, <2>1
  <2>3. CASE OwnCall(s, token, token')
    <3>1. s # x => has = had
      BY <1>1, <2>3 DEF OwnCall, OwnAllowances
    <3>2. s # x => token'.balances[x] >= token.balances[x]
      <4>1. CASE SameBooks(token, token')
        BY <2>2, <4>1 DEF SameBooks
      <4>2. ASSUME NEW n \in Uint,
                   \/ Burning(token, token', s, n)
                   \/ \E b \in Address : Moving(token, token', s, b, n)
            PROVE  s # x => token'.balances[x] >= token.balances[x]
        BY <1>1, <2>1, <4>2, TakenFromOne
      <4> QED
        BY <2>3, <4>1, <4>2 DEF OwnCall
    <3> HIDE DEF had, has
    <3> QED
      BY <1>2, <2>2, <3>1, <3>2
  <2>4. CASE DelegatedCall(s, token, token')
    <3>1. PICK a \in Address, n \in Uint :
            /\ AllowanceUsed(token, token', a, s, n)
            /\ \/ Burning(token, token', a, n)
               \/ \E b \in Address : Moving(token, token', a, b, n)
      BY <2>4 DEF DelegatedCall
    <3>2. IF x = a THEN token'.balances[x] \in {token.balances[x], token.balances[x] - n}
                   ELSE token'.balances[x] >= token.balances[x]
      BY <1>1, <3>1, TakenFromOne
    <3>3. n \in Nat
      BY <1>1
    <3>4. taken > 0 => x = a /\ taken = n
      BY <2>2, <3>2, <3>3
    <3>5. token.allowances \in [Address -> [Address -> Uint]]
      BY LedgerType
    <3>6. \/ has = had /\ (x = a => Unlimited(token, x, s))
          \/ x # a /\ has = had
          \/ x = a /\ has = [had EXCEPT ![s] = had[s] - n]
      BY <1>1, <3>1, <3>5 DEF AllowanceUsed
    <3> HIDE DEF had, has, taken
    <3>7. \A y \in Address : has[y] <= had[y]
      BY <1>1, <1>2, <3>3, <3>6
    <3>8. \A y \in Address : ~(has[y] > had[y])
      <4>1. \A y \in Address : has[y] \in Int
        BY <1>1, <1>2, <3>3, <3>6
      <4> QED
        BY <1>2, <3>7, <4>1
    <3>9. taken > 0 => Unlimited(token, x, s) \/ has[s] = had[s] - taken
      BY <1>1, <2>1, <3>4, <3>6
    <3> QED
      BY <3>8, <3>9
  <2>5. CASE MintingOK(s)
    <3>1. has = had
      BY <2>5 DEF MintingOK
    <3>2. token'.balances[x] >= token.balances[x]
      <4>1. PICK a \in Address, n \in Uint :
              token'.balances = [token.balances EXCEPT ![a] = @ + n]
        BY <2>5 DEF MintingOK, Minting
      <4> QED
        BY <1>1, <4>1
    <3> HIDE DEF had, has
    <3> QED
      BY <1>2, <2>2, <3>1, <3>2
  <2> QED
    BY <2>3, <2>4, <2>5 DEF CallOK
<1> QED
  BY <1>3 DEF CallOK, MintingOK
=============================================================================
