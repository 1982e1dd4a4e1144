-------------------------------- MODULE I2c --------------------------------
(***************************************************************************)
(* The two-wire bus that the processor drives over a port (bb_i2c.c) and   *)
(* the transactions on it (i2c.c), in the build without the hardware       *)
(* controller (PERIPHERIAL_ENABLE_I2C off).                                *)
(*                                                                         *)
(* A step is a change of the lines, after which the code waits half a      *)
(* clock: the processor may be reset, and the power cut, between any two.  *)
(* The statements that lower SCL and then set SDA are one step, for the    *)
(* chip looks at SDA only while SCL is high.                               *)
(***************************************************************************)
EXTENDS Ds1338, Sequences

VARIABLES
  scl, sda,      \* the lines as the processor drives them: 0 low, 1 released
  chip,          \* see Ds1338
  i2c            \* the transaction: operation, where it is, its data and its result

lines == <<scl, sda, chip>>

SDA_STATUS == IF sda = 0 THEN 0 ELSE chip.sda

I2cIdle == [op |-> "none", base |-> 0, n |-> 0, data |-> <<>>, pc |-> "idle",
            step |-> 0, byte |-> 0, ret |-> "done"]

\* i2c_read_bus_mul, i2c_write_bus_mul: to the start condition
i2c_read_bus_mul(a, n) ==
  i2c' = [I2cIdle EXCEPT !.op = "read", !.base = a, !.n = n, !.pc = "start"]
i2c_write_bus_mul(a, d) ==
  i2c' = [I2cIdle EXCEPT !.op = "write", !.base = a, !.data = d, !.pc = "start"]

-----------------------------------------------------------------------------
(* The lines *)

\* SCL, then SDA; the order matters to the chip only when SCL was high
Drive(c, d, hears) ==
  /\ scl' = c /\ sda' = d
  /\ chip' = CASE c < scl                                        -> Fall(chip, hears)
               [] c > scl                                        -> Rise(chip, IF d = 0 THEN 0 ELSE chip.sda)
               [] c = 1 /\ scl = 1 /\ d < sda /\ chip.sda = 1    -> Start(chip)
               [] c = 1 /\ scl = 1 /\ d > sda /\ chip.sda = 1    -> Idle(chip)
               [] OTHER                                          -> chip

\* bb_i2c_init releases both at once: they may rise in either order
bb_i2c_init ==
  /\ scl' = 1 /\ sda' = 1
  /\ chip' \in CASE scl = 0 /\ sda = 0 /\ chip.sda = 1 -> {Rise(chip, 1), Idle(Rise(chip, 0))}
                 [] scl = 0 /\ (sda = 1 \/ chip.sda = 0) -> {Rise(chip, chip.sda)}
                 [] scl = 1 /\ sda = 0 /\ chip.sda = 1 -> {Idle(chip)}
                 [] OTHER                              -> {chip}

-----------------------------------------------------------------------------
(* Commands: bb_i2c_cmd_start, _stop, _write, _read_ack and _read_nak, each *)
(* a row of steps.  In the shifting ones the even steps lower the clock and *)
(* put out a bit, the odd ones raise it and sample.  Of a read, i2c.n is the *)
(* number of bytes wanted, of a write the number of bytes sent.             *)

Reads == i2c.pc = "data" /\ i2c.op = "read"
At    == Len(i2c.data)                    \* the bytes read so far
SentByte ==
  CASE i2c.pc = "address"   -> 2 * DS1338Z_I2C_ADDR
    [] i2c.pc = "pointer"   -> i2c.base
    [] i2c.pc = "address_r" -> 2 * DS1338Z_I2C_ADDR + 1
    [] OTHER                -> i2c.data[i2c.n + 1]

Slot == i2c.step \div 2                    \* bit 0..BITS-1, the acknowledgement, the end
OutBit_Unacknowledged == IF Slot >= BITS \/ Reads THEN 1 ELSE Bit(SentByte, Slot)
OutBit ==
  IF Slot > BITS THEN 1
  ELSE IF Slot = BITS THEN IF Reads /\ At < i2c.n - 1 THEN 0 ELSE 1
  ELSE IF Reads THEN sda ELSE Bit(SentByte, Slot)

LastStep == CASE i2c.pc \in {"start", "restart"} -> 1
              [] i2c.pc = "stop"                 -> 2
              [] OTHER                           -> 2 * (BITS + 1)

Target ==
  CASE i2c.pc \in {"start", "restart"} -> IF i2c.step = 0 THEN <<1, sda>> ELSE <<1, 0>>
    [] i2c.pc = "stop" -> CASE i2c.step = 0 -> <<scl, 0>> [] i2c.step = 1 -> <<1, 0>> [] OTHER -> <<1, 1>>
    [] OTHER -> IF i2c.step % 2 = 0 THEN <<0, OutBit>> ELSE <<1, sda>>

\* what a raised clock samples: a bit of a byte read, or the acknowledgement
Sampled ==
  IF i2c.step % 2 = 0 \/ i2c.pc \in {"start", "restart", "stop"} THEN i2c.byte
  ELSE IF Reads THEN IF Slot < BITS THEN 2 * i2c.byte + SDA_STATUS ELSE i2c.byte
  ELSE IF Slot = BITS THEN SDA_STATUS ELSE i2c.byte

-----------------------------------------------------------------------------
(* Transactions *)

Goes(pc) == [i2c EXCEPT !.pc = pc, !.step = 0, !.byte = 0]
Ends(ret) == [Goes("done") EXCEPT !.ret = ret]
Fails(ret) == [Goes("stop") EXCEPT !.ret = ret]

\* after the last step of a command.  A byte not acknowledged ends the bytes, but not the stop
AfterCommand ==
  LET refused == i2c.pc \notin {"start", "restart", "stop"} /\ ~Reads /\ i2c.byte = 1
      onward == IF i2c.op = "read" THEN "restart" ELSE "data"
      last   == IF i2c.op = "read" THEN At + 1 >= i2c.n ELSE i2c.n + 1 >= Len(i2c.data)
      following == Goes(IF last THEN "stop" ELSE "data")
  IN CASE refused                             -> Fails("nak")
       [] i2c.pc = "stop"                     -> Ends(i2c.ret)
       [] i2c.pc = "start"                    -> Goes("address")
       [] i2c.pc = "restart"                  -> Goes("address_r")
       [] i2c.pc = "address" /\ ~refused      -> Goes("pointer")
       [] i2c.pc = "pointer" /\ ~refused      -> Goes(onward)
       [] i2c.pc = "address_r" /\ ~refused    -> Goes("data")
       [] Reads                               -> [following EXCEPT !.data = Append(@, i2c.byte)]
       [] i2c.pc = "data" /\ i2c.op = "write" /\ ~refused -> [following EXCEPT !.n = @ + 1]

\* bb_i2c_cmd_start gives up while another holds the data line; the transaction ends there
Refused_Unchecked == FALSE
Refused == i2c.pc \in {"start", "restart"} /\ i2c.step = 0 /\ SDA_STATUS = 0

ArbitrationLost_Waits == Refused /\ UNCHANGED <<lines, i2c>>
ArbitrationLost ==
  /\ Refused
  /\ i2c' = Ends("arb_lost")
  /\ UNCHANGED lines

BusStep(hears) ==
  /\ i2c.pc \notin {"idle", "done"}
  /\ ~Refused
  /\ \E t \in {Target} : Drive(t[1], t[2], hears)
  /\ i2c' = IF i2c.step = LastStep THEN AfterCommand
            ELSE [i2c EXCEPT !.step = @ + 1, !.byte = Sampled]
=============================================================================
