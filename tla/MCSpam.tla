------------------------------- MODULE MCSpam -------------------------------
(***************************************************************************)
(* The spam command with two accounts and one client.                      *)
(***************************************************************************)
EXTENDS Spam
=============================================================================
