----------------------------- MODULE MCTrading ------------------------------
(***************************************************************************)
(* TokenVM on small instances, observed as a market.                       *)
(***************************************************************************)
EXTENDS MCTokenVM, Trading
=============================================================================
