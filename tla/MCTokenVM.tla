----------------------------- MODULE MCTokenVM ------------------------------
(***************************************************************************)
(* TokenVM on small instances, with the wallet in front of it.  Each       *)
(* configuration picks the chains, the actions and the amounts; this       *)
(* module gives the values a configuration cannot write down.              *)
(***************************************************************************)
EXTENDS Wallet, TLC

CONSTANTS alice, bob, c1, c2

\* alice and bob hold the native asset of the first chain.
MCAllocations ==
  [c \in Chains |-> IF c = c1 THEN <<[address |-> alice, balance |-> 2],
                                     [address |-> bob, balance |-> 1]>>
                              ELSE << >>]

\* bob is listed twice, the empty key with nothing.
MCDuplicateAllocations ==
  [c \in Chains |-> <<[address |-> bob, balance |-> 1],
                      [address |-> alice, balance |-> 4],
                      [address |-> EmptyKey, balance |-> 0],
                      [address |-> bob, balance |-> 2]>>]

\* alice holds the native asset of the first chain, bob that of the second.
MCSwapAllocations ==
  [c \in Chains |-> IF c = c1 THEN <<[address |-> alice, balance |-> 3]>>
                              ELSE <<[address |-> bob, balance |-> 1]>>]

\* Only the assets of this chain are named.
MCLocalIDs == LocalIDs

\* The native asset of the first chain, at home and abroad.
MCBridged == {Native, ImportedAssetID(Native, c1)}

MCNoSwap == {[swapIn |-> 0, assetOut |-> Native, swapOut |-> 0, swapExpiry |-> 0]}

\* One or two of the transferred asset for one native asset of the
\* destination, until time 1; one of it for another asset; and a swap that
\* ended before 1970.
MCSwaps ==
  MCNoSwap \cup
    {[swapIn |-> in, assetOut |-> Native, swapOut |-> 1, swapExpiry |-> 1] : in \in 1 .. 2}
    \cup
    {[swapIn |-> 1, assetOut |-> ImportedAssetID(Native, c1), swapOut |-> 1, swapExpiry |-> 1],
     [swapIn |-> 1, assetOut |-> Native, swapOut |-> 1, swapExpiry |-> -1]}

MCSymmetry == Permutations(TxIDs)
=============================================================================
