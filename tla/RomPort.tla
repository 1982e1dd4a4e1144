------------------------------ MODULE RomPort ------------------------------
(* What the flash promises to the two sides of the processor: each sees a memory
   of its own. want[m] are the words master m has asked for and not been given,
   left of them beginning at word next; a master in ack is being given the first
   of them, and dat is that word. A request is never withdrawn and no answer
   comes without one.                                                          *)
EXTENDS Integers

CONSTANTS
  Masters,
  Requests         \* the requests each master may make
VARIABLES want, ack, dat

\* The word at address w of the flash: its four bytes
Word(w) == [k \in 0..3 |-> 4 * w + k]

Answers == \A m \in ack : want[m].left > 0 /\ dat = Word(want[m].next)

Init == (\A m \in Masters : want[m].left = 0) /\ ack = {}

\* what is left once the answer of this clock is taken
Rest(m) == IF m \in ack THEN [next |-> want[m].next + 1, left |-> want[m].left - 1]
           ELSE want[m]

Clock ==
  /\ \A m \in Masters : \/ want'[m] = Rest(m)
                        \/ Rest(m).left = 0 /\ want'[m] \in Requests[m]
  /\ Answers'

Spec == Init /\ [][Clock]_<<want, ack, dat>>
=============================================================================
