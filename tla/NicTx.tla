------------------------------- MODULE NicTx -------------------------------
(***************************************************************************)
(* Transmission: the driver fills the one transmit buffer and writes the   *)
(* length to the controller's register (application/ibexukIP/eth-nic.c,    *)
(* application/libhw/minimac2.c); the engine, clocked by the RMII clock,   *)
(* reads the buffer word by word while it counts the register down         *)
(* (hdl/myminimac/myminimac_tx.v, myminimac_ctlif_cd2.v).                  *)
(*                                                                         *)
(* A frame is a sequence of words; word k of frame f is <<f, k>>.          *)
(***************************************************************************)
EXTENDS Integers, Sequences

CONSTANTS
  MaxWords,     \* the longest frame, in words
  MaxFrames,    \* bound on the number of frames sent
  Callers       \* who transmits: "udp" asks nic_ok_to_do_tx first, as TCP does;
                \* "arp" only calls nic_setup_tx, as the ping reply does

ASSUME NicTxAssumption ==
  /\ MaxWords \in Nat \ {0} /\ MaxFrames \in Nat
  /\ Callers \subseteq {"udp", "arp"}

VARIABLES
  \* RMII clock domain
  tx_counter, tx_en, sending_preamble, mem_tx_addr,
  wire, sent,          \* the words on the wire since tx_en rose; the past frames
  \* system clock domain
  mem,                 \* the transmit buffer
  tx_busy,             \* the two flip-flops between the domains
  tx_write,            \* length being written to the register, 0 if none
  tx_done,             \* the write has been done, and how far the other domain knows
  pc, frame, size, txPointer   \* the driver, its frame and where it writes

engine == <<tx_counter, tx_en, sending_preamble, mem_tx_addr, wire, sent>>
bus    == <<tx_write, tx_done>>
driver == <<pc, frame, size, txPointer>>
txVars   == <<engine, mem, tx_busy, bus, driver>>

Lengths == 1..MaxWords
Words   == ((1..MaxFrames) \X Lengths) \cup {<<0, 0>>}
Frame(f, n) == [k \in 1..n |-> <<f, k>>]

TypeOK ==
  /\ tx_counter \in 0..MaxWords /\ tx_write \in 0..MaxWords /\ tx_done \in 0..4
  /\ tx_en \in BOOLEAN /\ sending_preamble \in BOOLEAN
  /\ mem_tx_addr \in Nat \ {0}
  /\ wire \in Seq(Words) /\ sent \in Seq(Seq(Words))
  /\ mem \in [Lengths -> Words]
  /\ tx_busy \in [{1, 2} -> BOOLEAN]
  /\ pc \in {"idle", "ask", "setup", "fill", "wait"}
  /\ frame \in 0..MaxFrames /\ size \in 0..MaxWords /\ txPointer \in 1..(MaxWords + 1)

TxInit ==
  /\ tx_counter = 0 /\ tx_en = FALSE /\ sending_preamble = FALSE /\ mem_tx_addr = 1
  /\ wire = <<>> /\ sent = <<>>
  /\ mem = [k \in Lengths |-> <<0, 0>>]
  /\ tx_busy = [i \in {1, 2} |-> FALSE] /\ tx_write = 0 /\ tx_done = 0
  /\ pc = "idle" /\ frame = 0 /\ size = 0 /\ txPointer = 1

tx_valid == tx_counter > 0

-----------------------------------------------------------------------------
(* The driver *)

\* somebody has a frame to send; "udp" asks first
Call(caller) ==
  /\ pc = "idle" /\ frame < MaxFrames
  /\ pc' = IF caller = "udp" THEN "ask" ELSE "setup"
  /\ UNCHANGED <<engine, mem, tx_busy, bus, frame, size, txPointer>>

\* nic_ok_to_do_tx, miniMAC_isReadyToTx
nic_ok_to_do_tx == ~tx_busy[2]

\* busy: the caller tries again another time
NotReady ==
  /\ pc = "ask" /\ ~nic_ok_to_do_tx
  /\ pc' = "idle"
  /\ UNCHANGED <<engine, mem, tx_busy, bus, frame, size, txPointer>>

\* mutant: the answer of nic_ok_to_do_tx is not looked at
nic_setup_tx_Always(n) ==
  /\ pc \in {"ask", "setup"}
  /\ pc' = "fill" /\ txPointer' = 1
  /\ frame' = frame + 1 /\ size' = n
  /\ UNCHANGED <<engine, mem, tx_busy, bus>>

\* nic_setup_tx itself is always ready
nic_setup_tx(n) ==
  /\ pc \in {"ask", "setup"} /\ (pc = "ask" => nic_ok_to_do_tx)
  /\ pc' = "fill" /\ txPointer' = 1
  /\ frame' = frame + 1 /\ size' = n
  /\ UNCHANGED <<engine, mem, tx_busy, bus>>

\* nic_write_next_byte, nic_write_array, and the checksum of nic_tx_packet
Fill ==
  /\ pc = "fill" /\ txPointer <= size
  /\ mem' = [mem EXCEPT ![txPointer] = <<frame, txPointer>>]
  /\ txPointer' = txPointer + 1
  /\ UNCHANGED <<engine, tx_busy, bus, pc, frame, size>>

\* nic_tx_packet, miniMAC_startTransmission
nic_tx_packet ==
  /\ pc = "fill" /\ txPointer > size
  /\ tx_write' = size /\ tx_done' = 0 /\ pc' = "wait"
  /\ UNCHANGED <<engine, mem, tx_busy, frame, size, txPointer>>

\* mutant: the bus acknowledges without waiting for the flip-flops
Acknowledge_Early ==
  /\ pc = "wait" /\ tx_done # 0
  /\ pc' = "idle" /\ tx_done' = 0
  /\ UNCHANGED <<engine, mem, tx_busy, tx_write, frame, size, txPointer>>

\* csr_ack: two flip-flops of the way back, the edge detector, a register
Acknowledge ==
  /\ pc = "wait" /\ tx_done = 4
  /\ pc' = "idle" /\ tx_done' = 0
  /\ UNCHANGED <<engine, mem, tx_busy, tx_write, frame, size, txPointer>>

\* an edge of the system clock: both synchronisers shift.  The first sample after
\* the write may still miss the change of tx_valid that the other one has seen.
SysEdge ==
  /\ \E seen \in IF tx_done = 1 THEN {tx_valid, tx_busy[1]} ELSE {tx_valid} :
       tx_busy' = [tx_busy EXCEPT ![1] = seen, ![2] = tx_busy[1]]
  /\ tx_done' = IF tx_done \in 1..3 THEN tx_done + 1 ELSE tx_done
  /\ UNCHANGED <<engine, mem, tx_write, driver>>

-----------------------------------------------------------------------------
(* The engine *)

Read(a) == IF a \in Lengths THEN mem[a] ELSE <<0, 0>>

\* the register is written, at an RMII edge without tx_next
WriteCounter ==
  /\ tx_write # 0
  /\ tx_counter' = tx_write /\ tx_write' = 0 /\ tx_done' = 1
  /\ UNCHANGED <<tx_en, sending_preamble, mem_tx_addr, wire, sent, mem, tx_busy, driver>>

StartPreamble ==
  /\ tx_valid /\ ~tx_en
  /\ tx_en' = TRUE /\ sending_preamble' = TRUE
  /\ UNCHANGED <<tx_counter, mem_tx_addr, wire, sent, mem, tx_busy, bus, driver>>

\* the first word goes to the shift register
EndPreamble ==
  /\ sending_preamble
  /\ sending_preamble' = FALSE /\ wire' = Append(wire, Read(mem_tx_addr))
  /\ UNCHANGED <<tx_counter, tx_en, mem_tx_addr, sent, mem, tx_busy, bus, driver>>

\* at an edge with tx_next a write that arrives is lost, but acknowledged
MayLoseWrite ==
  /\ tx_done' \in IF tx_write # 0 THEN {tx_done, 1} ELSE {tx_done}
  /\ tx_write' = IF tx_done' # tx_done THEN 0 ELSE tx_write

\* a word has gone out, the next one is read
NextWord ==
  /\ tx_en /\ ~sending_preamble /\ tx_counter > 1
  /\ tx_counter' = tx_counter - 1 /\ mem_tx_addr' = mem_tx_addr + 1
  /\ wire' = Append(wire, Read(mem_tx_addr + 1))
  /\ MayLoseWrite
  /\ UNCHANGED <<tx_en, sending_preamble, sent, mem, tx_busy, driver>>

\* the last word has gone out; at the edge after that one tx_en falls and the
\* address is reset, before the system clock's flip-flops can tell
LastWord ==
  /\ tx_en /\ ~sending_preamble /\ tx_counter = 1
  /\ tx_counter' = 0 /\ tx_en' = FALSE /\ mem_tx_addr' = 1
  /\ sent' = Append(sent, wire) /\ wire' = <<>>
  /\ MayLoseWrite
  /\ UNCHANGED <<sending_preamble, mem, tx_busy, driver>>

Engine == WriteCounter \/ StartPreamble \/ EndPreamble \/ NextWord \/ LastWord

TxNext ==
  \/ \E c \in Callers : Call(c)
  \/ NotReady \/ (\E n \in Lengths : nic_setup_tx(n)) \/ Fill \/ nic_tx_packet \/ Acknowledge
  \/ SysEdge
  \/ Engine

\* both clocks run, and a driver that has begun to write a frame finishes it
TxSpec == TxInit /\ [][TxNext]_txVars
FairTxSpec == TxSpec /\ WF_txVars(Engine) /\ WF_txVars(SysEdge)
                 /\ WF_txVars(Fill) /\ WF_txVars(nic_tx_packet) /\ WF_txVars(Acknowledge)

-----------------------------------------------------------------------------
(* Properties *)

(***************************************************************************)
(* "Returns 1 if nic ready, 0 if not" (nic_ok_to_do_tx): whenever the      *)
(* driver could ask, an answer of "ready" means that no frame is on its    *)
(* way or on the wire.  The flag crosses clock domains beside the write    *)
(* that sets it; a read just after the write must not find the old value.  *)
(***************************************************************************)
ReadyIsTrue == pc \in {"idle", "ask"} /\ nic_ok_to_do_tx => ~tx_valid /\ tx_write = 0

(***************************************************************************)
(* The transmitter is a port of whole frames (TxPort): every frame the     *)
(* driver starts goes out once, complete, unmixed with the next one, in    *)
(* order, and it does go out.                                              *)
(***************************************************************************)
\* from the register write to the last word
InFlight == tx_write # 0 \/ tx_valid

Port == INSTANCE TxPort WITH
          Frames  <- {Frame(f, n) : f \in 1..MaxFrames, n \in Lengths},
          current <- IF InFlight THEN {Frame(frame, size)} ELSE {},
          sent    <- sent

SendsFrames == Port!Spec

(***************************************************************************)
(* The inductive invariant behind both, when every caller asks first: the  *)
(* frame in the buffer, the counter, the read address and the wire agree,  *)
(* and the flag is at most as far behind as the acknowledgement.           *)
(***************************************************************************)
DriverInv ==
  /\ pc # "setup" /\ (pc = "ask" => frame < MaxFrames)
  /\ pc = "fill" => ~InFlight /\ \A k \in 1..(txPointer - 1) : mem[k] = <<frame, k>>
  /\ pc \in {"fill", "wait"} \/ InFlight =>
       frame \in 1..MaxFrames /\ size \in Lengths /\ txPointer <= size + 1
  /\ InFlight => \A k \in 1..size : mem[k] = <<frame, k>>

BusInv ==
  /\ tx_write # 0 => pc = "wait" /\ tx_done = 0 /\ tx_write = size /\ ~tx_valid
  /\ pc = "wait" /\ tx_done = 0 => tx_write # 0
  /\ tx_done # 0 => pc = "wait"
  /\ tx_valid /\ tx_done >= 3 => tx_busy[1]
  /\ tx_valid /\ tx_done = 4 => tx_busy[2]
  /\ tx_valid /\ pc \in {"idle", "ask"} => tx_busy[1] /\ tx_busy[2]

EngineInv ==
  /\ ~tx_en => ~sending_preamble
  /\ ~tx_en \/ sending_preamble => mem_tx_addr = 1 /\ wire = <<>>
  /\ tx_valid /\ (~tx_en \/ sending_preamble) => tx_counter = size
  /\ tx_en => tx_valid
  /\ tx_en /\ ~sending_preamble =>
       /\ tx_counter + mem_tx_addr = size + 1 /\ Len(wire) = mem_tx_addr
       /\ \A k \in 1..Len(wire) : wire[k] = <<frame, k>>

IInv == TypeOK /\ DriverInv /\ BusInv /\ EngineInv

(***************************************************************************)
(* What is on the wire are words of one frame.                             *)
(***************************************************************************)
OneFrameOnWire == \A i, j \in DOMAIN wire : wire[i][1] = wire[j][1]
=============================================================================
