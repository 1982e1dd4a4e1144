----------------------------- MODULE Allocator -----------------------------
(***************************************************************************)
(* What the users of a pool rely on: memory that was granted is aligned,   *)
(* inside the pool and nobody else's until it is given back.               *)
(***************************************************************************)
EXTENDS Integers

CONSTANTS Bottom, Top,      \* the pool's bytes are Bottom..(Top - 1)
          Alignment,
          Sizes             \* what the users ask for

VARIABLE owned              \* what the users hold, [at, size] each

Apart(x, y) == x.at + x.size <= y.at \/ y.at + y.size <= x.at

Init == owned = {}

Grant(p, w) ==
  LET new == [at |-> p, size |-> w]
  IN /\ p % Alignment = 0 /\ p + w <= Top
     /\ \A x \in owned : Apart(x, new)
     /\ owned' = owned \cup {new}

Release(x) == x \in owned /\ owned' = owned \ {x}

Next == (\E p \in Bottom..Top, w \in Sizes : Grant(p, w)) \/ (\E x \in owned : Release(x))

Spec == Init /\ [][Next]_owned
=============================================================================
