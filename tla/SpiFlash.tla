----------------------------- MODULE SpiFlash -----------------------------
(* The controller of the serial flash, spi_flash_sys_init of spi_pack.vhd, as it
   is used by xip_adapter.v: memory mapped reads only, no registers, no
   initialisation. One step of an action is one system clock.

   The bus side is sel and adr (fl_sel_i, fl_adr_i); an answer is fl_ack with
   the byte in sr. A read command and its address open a session in which the
   device streams one byte after the other; the controller keeps it open while
   the next address asked for is the next of the stream, until an idle timeout.

   The device is external: dev is the address of the byte it shifts out next.
   It forgets it when it is deselected, which is when fl_state is IDLE. The
   content of the flash is abstracted to the addresses: byte a holds a.        *)
EXTENDS Integers

CONSTANTS
  CLK_COUNT_1BYTE,    \* clocks to shift one byte, 16 in the code
  CS_HIGH_CYCLES,     \* 8 in the code
  SPI_ADR_BYTES,      \* 3 in the code
  FLASH_IDLE,         \* pulses of the timebase until a session is closed, 1 in xip_adapter.v
  TB_PERIOD           \* clocks between two pulses, CLK_KHZ / 1000 in the code

ASSUME FlashAssumption ==
  /\ CLK_COUNT_1BYTE \in Nat /\ CLK_COUNT_1BYTE >= 2
  /\ CS_HIGH_CYCLES \in Nat
  /\ SPI_ADR_BYTES \in Nat \ {0}
  /\ FLASH_IDLE \in Nat \ {0}
  /\ TB_PERIOD \in Nat /\ TB_PERIOD >= 2

VARIABLES
  fl_state,       \* the state of the memory mapped access
  spi_state,      \* the state of the shifter
  clk_count,      \* clocks left of the byte that is shifted
  adr_count,      \* address bytes left
  reg_ispi_adr,   \* address of the byte that is being read or comes next
  sr,             \* the shift register: the byte read
  fl_ack,         \* the byte in sr is the answer
  idle_timer,     \* pulses left until the session is closed
  tb,             \* the phase of the timebase, in clocks since it was held
  dev             \* the device: the next byte of its stream, or NoAddress

flashvars == <<fl_state, spi_state, clk_count, adr_count, reg_ispi_adr, sr, fl_ack,
               idle_timer, tb, dev>>

NoAddress == -1
CLK_COUNT_DESEL == CLK_COUNT_1BYTE + CS_HIGH_CYCLES

FlashTypeOK ==
  /\ fl_state \in {"IDLE", "R_CMD", "R_ADR", "R_DAT", "R_WAIT"}
  /\ spi_state \in {"IDLE", "SEND_ADR", "SHIFT_ADR", "SHIFT_BYTE", "GIVE_ACK"}
  /\ clk_count \in 0..CLK_COUNT_DESEL
  /\ adr_count \in 1..SPI_ADR_BYTES
  /\ reg_ispi_adr \in Nat
  /\ sr \in Nat \cup {NoAddress}
  /\ fl_ack \in BOOLEAN
  /\ idle_timer \in 0..FLASH_IDLE
  /\ tb \in 0..TB_PERIOD - 1
  /\ dev \in Nat \cup {NoAddress}

FlashInit ==
  /\ fl_state = "IDLE"
  /\ spi_state = "IDLE"
  /\ clk_count = CLK_COUNT_DESEL
  /\ adr_count = 1
  /\ reg_ispi_adr = 0
  /\ sr = 0
  /\ fl_ack = FALSE
  /\ idle_timer = FLASH_IDLE
  /\ tb = TB_PERIOD \div 2
  /\ dev = NoAddress

spi_ack == spi_state = "GIVE_ACK"

\* The timebase is held outside of IDLE and R_WAIT; a pulse may still fall into
\* the first clock in which it is.
idle_tb_hold  == fl_state \notin {"IDLE", "R_WAIT"}
idle_tb_pulse == tb = TB_PERIOD - 1
Timebase == tb' = IF idle_tb_hold \/ idle_tb_pulse THEN 0 ELSE tb + 1
Idling   == idle_timer' = IF idle_timer > 0 /\ idle_tb_pulse THEN idle_timer - 1 ELSE idle_timer

\* the shifter by itself
Shifting ==
  /\ spi_state' = CASE spi_state = "SHIFT_BYTE" /\ clk_count = 0 -> "GIVE_ACK"
                    [] spi_state = "SHIFT_ADR" /\ clk_count = 0
                       -> IF adr_count = 1 THEN "GIVE_ACK" ELSE "SEND_ADR"
                    [] spi_state = "SEND_ADR" -> "SHIFT_ADR"
                    [] spi_state = "GIVE_ACK" -> "IDLE"
                    [] OTHER -> spi_state
  /\ clk_count' = IF spi_state = "SEND_ADR" THEN CLK_COUNT_1BYTE
                  ELSE IF clk_count > 0 THEN clk_count - 1 ELSE 0
  /\ adr_count' = IF spi_state = "SHIFT_ADR" /\ clk_count = 0 /\ adr_count > 1
                  THEN adr_count - 1 ELSE adr_count

\* the next byte goes through the shifter
ShiftByte ==
  /\ spi_state' = "SHIFT_BYTE"
  /\ clk_count' = CLK_COUNT_1BYTE
  /\ UNCHANGED adr_count

\* IDLE: nothing is asked for, or the shifter is still at work
StayIdle(sel) ==
  /\ fl_state = "IDLE"
  /\ ~sel \/ spi_state /= "IDLE"
  /\ fl_ack' = FALSE
  /\ Shifting /\ Idling
  /\ UNCHANGED <<fl_state, reg_ispi_adr, sr, dev>>

\* IDLE: the read command of a new session
OpenSession(sel, adr) ==
  /\ fl_state = "IDLE"
  /\ sel /\ spi_state = "IDLE"
  /\ fl_state' = "R_CMD"
  /\ reg_ispi_adr' = adr
  /\ idle_timer' = FLASH_IDLE
  /\ fl_ack' = FALSE
  /\ ShiftByte
  /\ UNCHANGED <<sr, dev>>

\* R_CMD: the command is out, the address follows
SendCommand ==
  /\ fl_state = "R_CMD"
  /\ fl_ack' = FALSE
  /\ IF spi_ack
     THEN /\ fl_state' = "R_ADR"
          /\ spi_state' = "SEND_ADR"
          /\ adr_count' = SPI_ADR_BYTES
          /\ UNCHANGED clk_count
     ELSE Shifting /\ UNCHANGED fl_state
  /\ Idling
  /\ UNCHANGED <<reg_ispi_adr, sr, dev>>

\* R_ADR: when the address is out the device begins to stream
SendAddress ==
  /\ fl_state = "R_ADR"
  /\ fl_ack' = FALSE
  /\ IF spi_ack
     THEN fl_state' = "R_DAT" /\ dev' = reg_ispi_adr /\ ShiftByte
     ELSE Shifting /\ UNCHANGED <<fl_state, dev>>
  /\ Idling
  /\ UNCHANGED <<reg_ispi_adr, sr>>

\* R_DAT: a byte comes in. The wait for the end of the access, and the timeout
\* that cuts it off, are decided in the same clock; the device is deselected
\* when the timeout wins.
ReadByte(sel) ==
  /\ fl_state = "R_DAT"
  /\ fl_state' = IF ~sel THEN "R_WAIT" ELSE IF idle_timer = 0 THEN "IDLE" ELSE "R_DAT"
  /\ fl_ack' = spi_ack
  /\ sr' = IF spi_ack THEN dev ELSE sr
  /\ reg_ispi_adr' = IF spi_ack THEN reg_ispi_adr + 1 ELSE reg_ispi_adr
  /\ dev' = IF fl_state' = "IDLE" \/ dev = NoAddress THEN NoAddress
            ELSE IF spi_ack THEN dev + 1 ELSE dev
  /\ IF ~sel THEN idle_timer' = FLASH_IDLE ELSE Idling
  /\ Shifting

\* mutant: any byte continues the session
ContinueSession_Any(sel, adr) ==
  /\ fl_state = "R_WAIT"
  /\ sel
  /\ fl_state' = "R_DAT"
  /\ idle_timer' = FLASH_IDLE
  /\ fl_ack' = FALSE
  /\ ShiftByte
  /\ UNCHANGED <<reg_ispi_adr, sr, dev>>

\* R_WAIT: the next byte of the stream is asked for
ContinueSession(sel, adr) ==
  /\ fl_state = "R_WAIT"
  /\ sel /\ adr = reg_ispi_adr
  /\ fl_state' = "R_DAT"
  /\ idle_timer' = FLASH_IDLE
  /\ fl_ack' = FALSE
  /\ ShiftByte
  /\ UNCHANGED <<reg_ispi_adr, sr, dev>>

\* R_WAIT: another byte is asked for, the session is closed and opened again
RestartSession(sel, adr) ==
  /\ fl_state = "R_WAIT"
  /\ sel /\ adr /= reg_ispi_adr
  /\ fl_state' = "IDLE"
  /\ spi_state' = "GIVE_ACK"
  /\ clk_count' = CLK_COUNT_DESEL
  /\ idle_timer' = FLASH_IDLE
  /\ fl_ack' = FALSE
  /\ dev' = NoAddress
  /\ UNCHANGED <<adr_count, reg_ispi_adr, sr>>

\* R_WAIT: nothing is asked for; the timeout closes the session
AwaitNext(sel) ==
  /\ fl_state = "R_WAIT"
  /\ ~sel
  /\ fl_state' = IF idle_timer = 0 THEN "IDLE" ELSE "R_WAIT"
  /\ dev' = IF idle_timer = 0 THEN NoAddress ELSE dev
  /\ fl_ack' = FALSE
  /\ Shifting /\ Idling
  /\ UNCHANGED <<reg_ispi_adr, sr>>

FlashClock(sel, adr) ==
  /\ \/ StayIdle(sel)
     \/ OpenSession(sel, adr)
     \/ SendCommand
     \/ SendAddress
     \/ ReadByte(sel)
     \/ ContinueSession(sel, adr)
     \/ RestartSession(sel, adr)
     \/ AwaitNext(sel)
  /\ Timebase
=============================================================================
