------------------------------ MODULE MCNicTx ------------------------------
(* Instances of NicTx for TLC. *)
EXTENDS NicTx
=============================================================================
