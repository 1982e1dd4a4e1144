------------------------------- MODULE MCXip -------------------------------
(* Instance of Xip for TLC: two lines, and loads from both and from beyond. *)
EXTENDS Xip
Before == -1
=============================================================================
