----------------------------- MODULE MCContracts ----------------------------
(***************************************************************************)
(* Every contract on a small instance.                                     *)
(***************************************************************************)
EXTENDS Contracts

CONSTANTS
  User, Other,  \* accounts of users
  Operator      \* the store, the insurer, the admin, the cooperative

\* Degen: two users and the store, with approvals by one of them.  The
\* insurance: two customers and the insurer; the copy: one customer; the
\* factory: two users in front of it.  Vesting: the admin, who may be a member
\* too, and a member.  Loans: two accounts that lend or are the cooperative
\* account, and address(0).
Both == {User, Other}
Parties == {User, Operator, ZeroAddress}

MCAddress ==
  [degen |-> Parties \cup Both, insurance |-> Parties \cup Both, copy |-> Parties,
   factory |-> Parties \cup {Other, Factory}, vesting |-> Parties, loans |-> Parties,
   small |-> Both]
MCMaxUint ==
  [degen |-> 3, insurance |-> 2, copy |-> 2, factory |-> 2, vesting |-> 2, loans |-> 3,
   small |-> 3, assessment |-> 6]
MCAmounts ==
  [degen |-> {1, 3}, insurance |-> {1, 2}, copy |-> {1, 2}, factory |-> {1, 2},
   vesting |-> {1, 2}, loans |-> {1, 2}, small |-> {1, 3}]
MCApprovers ==
  [degen |-> {User}, insurance |-> {}, copy |-> {}, factory |-> {}, vesting |-> {}]

\* Three prices in the order of the code's 50, 40 and 30.
MCPrice == <<3, 2, 1>>

\* Two types with a fee and two names no fee was set for; in the copy types
\* that come and go, the empty name among them; two types of stakeholders
\* whose names have one length.
TypeNames == {"basic", "silver", "", "other"}
FixedFee == [t \in TypeNames |-> CASE t = "basic" -> 1 [] t = "silver" -> 2 [] OTHER -> 0]

MCCustomers == [insurance |-> Both, copy |-> {User}, factory |-> {}]
MCTypes ==
  [insurance |-> TypeNames, copy |-> {"basic", ""}, factory |-> TypeNames,
   vesting |-> {"Founder", "Advisor"}]
MCFee ==
  [insurance |-> FixedFee, copy |-> [t \in {"basic", ""} |-> 0], factory |-> FixedFee]
MCFees == [insurance |-> {}, copy |-> {0, 1, 2}, factory |-> {}]
MCLength == [t \in {"Founder", "Advisor"} |-> 7]

\* Periods of two blocks and time for a second subscription; a vesting period
\* of nothing and of one year.
MCMaxTime == [insurance |-> 4, copy |-> 4, factory |-> 4, vesting |-> 2]

\* Numbers whose square or factorial fits and one whose does not; the owner
\* pays three fees at most.
MCNumbers == 0 .. 4
=============================================================================
