------------------------------- MODULE MCNode -------------------------------
(***************************************************************************)
(* Node on small instances: one pair, alice's orders.                      *)
(***************************************************************************)
EXTENDS Node, TLC

CONSTANTS alice, c1

\* An asset that was imported.
other == ImportedAssetID(Native, c1)

MCPair == <<other, Native>>

MCOffer(inTick, outTick, supply) ==
  [in |-> other, inTick |-> inTick, out |-> Native, outTick |-> outTick,
   remaining |-> supply, owner |-> alice]

\* An order of two blocks and, the other way round, one of another pair.
MCOffers == {MCOffer(1, 1, 2), [MCOffer(1, 1, 1) EXCEPT !.in = Native, !.out = other]}

\* The order of two blocks only.
MCOneOffer == {MCOffer(1, 1, 2)}

\* Orders at three rates.
MCRates == {MCOffer(1, 2, 2), MCOffer(1, 1, 1), MCOffer(2, 1, 1)}

MCPairs == {MCPair}

MCNoPairs == {}

MCSymmetry == Permutations(TxIDs)
=============================================================================
