------------------------------ MODULE Ownable -------------------------------
(***************************************************************************)
(* Access control of a contract with an owner (Ownable.sol).               *)
(***************************************************************************)
CONSTANTS Address, ZeroAddress

VARIABLE owner

\* Mutant: a contract without an owner is anybody's.
OwnerOrNobody(s) == owner \in {s, ZeroAddress}

\* ZeroAddress sends no transaction: without an owner nobody passes.
OnlyOwner(s) == s = owner

RenounceOwnership(s) == OnlyOwner(s) /\ owner' = ZeroAddress

TransferOwnership(s, new) ==
  /\ OnlyOwner(s)
  /\ new # ZeroAddress
  /\ owner' = new
=============================================================================
