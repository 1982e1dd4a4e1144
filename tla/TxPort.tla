------------------------------- MODULE TxPort -------------------------------
(***************************************************************************)
(* What the stack takes the transmitter for: a port that accepts one whole *)
(* frame when it is free, and puts exactly that frame on the wire before   *)
(* it accepts another.  NicTx.tla is shown to implement it.                *)
(***************************************************************************)
EXTENDS Sequences

CONSTANT Frames

VARIABLES
  current,     \* the accepted frames that are not on the wire yet: none or one
  sent         \* the frames that went out, in order

Init == current = {} /\ sent = <<>>

Offer(f) == current = {} /\ current' = {f} /\ UNCHANGED sent

Transmit(f) == f \in current /\ current' = {} /\ sent' = Append(sent, f)

Next == \E f \in Frames : Offer(f) \/ Transmit(f)

Spec == Init /\ [][Next]_<<current, sent>> /\ WF_<<current, sent>>(\E f \in Frames : Transmit(f))
=============================================================================
