------------------------------- MODULE Ds1338 -------------------------------
(***************************************************************************)
(* The DS1338 chip (external): seven clock registers and a memory that a   *)
(* battery keeps, behind a two-wire bus.  It follows the edges of the two  *)
(* lines, so what it makes of a transfer that a reset of the processor cut *)
(* off, or of one that begins in the middle of another, follows from them. *)
(*                                                                         *)
(* state   what the next byte is to it                                     *)
(* n       the clocks of this byte so far, the ninth is the acknowledgement*)
(* shift   the bits received                                               *)
(* ptr     the cell the next byte is stored in or sent from                *)
(* sda     0 while the chip pulls the data line low                        *)
(* mem     the cells                                                       *)
(***************************************************************************)
EXTENDS Naturals

CONSTANT DS1338Z_I2C_ADDR

BITS  == 8           \* of a byte
CELLS == 64

Bit(v, k) == (v \div 2^(BITS - 1 - k)) % 2           \* the most significant first
Receiving(c) == c.state \in {"address", "pointer", "store"}

Idle(c)  == [c EXCEPT !.state = "idle", !.n = 0, !.shift = 0, !.sda = 1]
Start(c) == [c EXCEPT !.state = "address", !.n = 0, !.shift = 0, !.sda = 1]

\* SCL rises: take a bit; when sending, the ninth is the master's acknowledgement
Rise(c, level) ==
  IF c.state = "idle" THEN c
  ELSE [c EXCEPT !.n = @ + 1,
                 !.shift = IF Receiving(c) /\ c.n < BITS THEN 2 * @ + level
                           ELSE IF ~Receiving(c) /\ c.n = BITS THEN level ELSE @]

Sends(c, ptr) == [c EXCEPT !.state = "send", !.n = 0, !.shift = 0, !.ptr = ptr,
                           !.sda = Bit(c.mem[ptr], 0)]
Receives(c, state, ptr) == [c EXCEPT !.state = state, !.n = 0, !.shift = 0, !.ptr = ptr, !.sda = 1]

\* SCL falls after the eighth bit of a byte received: acknowledge it, and store it
Taken(c, hears) ==
  IF ~hears \/ (c.state = "address" /\ c.shift \div 2 # DS1338Z_I2C_ADDR) THEN Idle(c)
  ELSE [c EXCEPT !.sda = 0, !.mem = IF c.state = "store" THEN [@ EXCEPT ![c.ptr] = c.shift] ELSE @]

\* SCL falls after the ninth: the next byte
NextByte(c) ==
  LET after == (c.ptr + 1) % CELLS
  IN CASE c.state = "address" /\ c.shift % 2 = 1 -> Sends(c, c.ptr)
       [] c.state = "address" /\ c.shift % 2 = 0 -> Receives(c, "pointer", c.ptr)
       [] c.state = "pointer"                    -> Receives(c, "store", c.shift % CELLS)
       [] c.state = "store"                      -> Receives(c, "store", after)
       [] c.state = "send" /\ c.shift = 0        -> Sends(c, after)
       [] OTHER                                  -> Idle(c)

\* hears is FALSE when noise keeps the chip from acknowledging
Fall(c, hears) ==
  CASE c.state = "idle"                 -> c
    [] c.n = BITS + 1                   -> NextByte(c)
    [] c.n = BITS /\ Receiving(c)       -> Taken(c, hears)
    [] c.n = BITS /\ c.state = "send"   -> [c EXCEPT !.sda = 1]
    [] c.n < BITS /\ c.state = "send"   -> [c EXCEPT !.sda = Bit(c.mem[c.ptr], c.n)]
    [] OTHER                            -> c
=============================================================================
