------------------------------ MODULE Genesis -------------------------------
(***************************************************************************)
(* The state a chain starts from (tokenvm/genesis/genesis.go, Load): the   *)
(* custom allocations of the native asset, applied in order.               *)
(***************************************************************************)
EXTENDS Storage, Totals, Sequences

CONSTANT Allocations  \* per chain, the sequence of [address, balance]

ASSUME GenesisAssumption ==
  /\ Allocations \in
       [Chains -> Seq([address : PublicKeys, balance : Amount])]
  /\ Metadata # {}

\* The supply adds every allocation up; Load fails when that overflows.
GenesisSupply(c) ==
  Total([i \in DOMAIN Allocations[c] |-> Allocations[c][i].balance])

\* SetBalance overwrites: of several allocations to an address the last one
\* is the balance.
IsBalance(c, pk, i) ==
  /\ i \in DOMAIN Allocations[c]
  /\ Allocations[c][i].address = pk
  /\ \A j \in DOMAIN Allocations[c] : Allocations[c][j].address = pk => j <= i

GenesisBalance(c, pk) ==
  IF \E i \in DOMAIN Allocations[c] : IsBalance(c, pk, i)
  THEN Allocations[c][CHOOSE i \in DOMAIN Allocations[c] : IsBalance(c, pk, i)].balance
  ELSE Missing

GenesisLoads == \A c \in Chains : GenesisSupply(c) <= MaxUint64

Load(c) ==
  [bal    |-> [k \in PublicKeys \X AssetIDs |->
                 IF k[2] = Native THEN GenesisBalance(c, k[1]) ELSE Missing],
   assets |-> [a \in AssetIDs |->
                 IF a = Native
                 THEN [metadata |-> CHOOSE m \in Metadata : TRUE,
                       supply |-> GenesisSupply(c),
                       owner |-> EmptyKey, warp |-> FALSE]
                 ELSE Missing],
   orders |-> [id \in TxIDs |-> Missing],
   loans  |-> [k \in AssetIDs \X Chains |-> Missing]]

\* What duplicate allocations add to the supply and to nobody's balance.
GenesisLost(c) ==
  GenesisSupply(c)
    - Total([pk \in PublicKeys |-> ValueOf(GenesisBalance(c, pk))])
=============================================================================
