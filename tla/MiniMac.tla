------------------------------ MODULE MiniMac ------------------------------
(***************************************************************************)
(* The receive half of the Ethernet MAC and the driver that polls it:      *)
(*                                                                         *)
(*   hdl/myminimac/myminimac_ctlif_cd2.v   the slots, in the 50 MHz RMII   *)
(*                                         clock domain                    *)
(*   hdl/myminimac/myminimac_rx.v          the receive engine              *)
(*   application/libhw/minimac2.c          register access                 *)
(*   application/ibexukIP/eth-nic.c        nic_check_for_rx and the dump   *)
(*                                                                         *)
(* Two actors run in parallel.  The RMII domain advances one clock edge at *)
(* a time: an action below is one edge at which something happens, and any *)
(* edge may also carry the write pulse of the processor's bus write.  The  *)
(* processor runs the driver one bus access at a time: a read returns what *)
(* the two flip-flop synchronisers last sampled, a write blocks it until   *)
(* the RMII domain has acknowledged.                                       *)
(*                                                                         *)
(* Memory is kept in 32-bit words and a frame is a number of whole words;  *)
(* the checksum is ideal (it accepts a whole frame and nothing else).      *)
(***************************************************************************)
EXTENDS Integers, FiniteSets

CONSTANTS
  NumSlots,     \* MINIMAC_RX_SLOT_COUNT, the receive slots (4 in the code)
  MTU,          \* bytes the linker reserves for a slot (1530 in the code)
  MinWords,     \* ETHERNET_FRAME_SIZE_MIN in words
  MaxWords,     \* longest frame the peer sends, in words
  CountLimit,   \* values of a slot's counter, in words (11 bits of bytes: 512)
  MaxFrames     \* bound: frames of the wire that can be told apart

\* The slots fit the register map and a frame of the peer fits a slot (the
\* hardware does not check it: soc_fast.v says "ethernet frame size <= 1530").
ASSUME MiniMacAssumption ==
  /\ NumSlots \in 1..4
  /\ MTU \in Nat /\ MTU >= 4
  /\ MinWords \in Nat /\ MinWords >= 1
  /\ MaxWords \in Nat /\ MaxWords >= 1 /\ MaxWords <= MTU \div 4
  /\ CountLimit \in Nat /\ CountLimit > MaxWords
  /\ MaxFrames \in Nat \ {0}

Slots  == 0..(NumSlots - 1)
NoSlot == NumSlots                      \* MINIMAC_RX_SLOT_INVALID

\* slot_state_ctl: two bits per slot
DISABLED == 0
READY    == 1
DATA     == 2                           \* RX_SLOT_STATE_DATA_RESSIVED
INVALID  == 3
States   == DISABLED..INVALID

\* rst_ctl: bit 0 holds the receiver in reset, bit 1 the transmitter
RxInReset(r)  == r % 2 = 1
SetRx(r)      == 2 * (r \div 2) + 1
ClearRx(r)    == 2 * (r \div 2)
ClearTx(r)    == r % 2

(***************************************************************************)
(* Addresses, in words.  The hardware places slot i at MTU rounded up,     *)
(* times i; the driver rounds up the product.                              *)
(***************************************************************************)
Align32(v)    == IF v % 4 = 0 THEN v ELSE v - (v % 4) + 4
SlotWords     == Align32(MTU) \div 4
HwBase(i)     == SlotWords * i
SwBase(i)     == Align32(MTU * i) \div 4
HwRegion(i)   == HwBase(i)..(HwBase(i) + SlotWords - 1)
Addresses     == 0..(SlotWords * NumSlots)

Frames   == 1..MaxFrames
Endless  == MaxFrames + 1               \* the wire carries frames for ever, mangled
Word     == [f : 0..MaxFrames, k : 0..MaxWords, last : BOOLEAN]
Garbage  == [f |-> 0, k |-> 0, last |-> FALSE]

VARIABLES
  \* RMII clock domain: control logic
  slot_state, slot_count, active_slot, rst_ctl,
  \* RMII clock domain: receive engine
  rx_mode, rx_resetcount, rx_endframe, rx_byte_error, write_adr, mem,
  \* the wire: the frame on it and the number of frames begun, or Endless
  wire, begun,
  \* system clock domain: synchroniser outputs and the bus write in flight
  slot_state_sys, rst_ctl_sys, bus,
  \* the driver
  pc, slot, rxWorkingSlot, rxlen, rmw

ctlVars  == <<slot_state, slot_count, active_slot, rst_ctl>>
rxVars   == <<rx_mode, rx_resetcount, rx_endframe, rx_byte_error, write_adr, mem>>
wireVars == <<wire, begun>>
syncVars == <<slot_state_sys, rst_ctl_sys>>
drvVars  == <<pc, slot, rxWorkingSlot, rxlen, rmw>>
vars     == <<ctlVars, rxVars, wireVars, syncVars, bus, drvVars>>

NoFrame == [f |-> 0, sent |-> 0, len |-> 0]
NoWrite == [slots |-> {}, rst |-> FALSE, di |-> 0, armed |-> FALSE]
Pending == bus.slots # {} \/ bus.rst

PCs == {"enable_rx", "enable_tx", "init_slot", "check", "err_slot", "err_rmw",
        "find", "accept", "count", "crc", "reject", "app"}

TypeOK ==
  /\ slot_state  \in [Slots -> States]
  /\ slot_count  \in [Slots -> 0..(CountLimit - 1)]
  /\ active_slot \in SUBSET Slots
  /\ rst_ctl     \in 0..3
  /\ rx_mode     \in {"idle", "frame", "garbage"}
  /\ rx_resetcount \in BOOLEAN /\ rx_endframe \in BOOLEAN /\ rx_byte_error \in BOOLEAN
  /\ write_adr   \in Nat
  /\ mem         \in [Addresses -> Word]
  /\ wire        \in [f : 0..MaxFrames, sent : 0..MaxWords, len : 0..MaxWords]
  /\ begun       \in 0..Endless
  /\ slot_state_sys \in [Slots -> States]
  /\ rst_ctl_sys \in 0..3
  /\ bus         \in [slots : SUBSET Slots, rst : BOOLEAN, di : 0..3, armed : BOOLEAN]
  /\ pc          \in PCs
  /\ slot        \in Slots
  /\ rxWorkingSlot \in Slots \cup {NoSlot}
  /\ rxlen       \in Nat
  /\ rmw         \in 0..3

\* sys_rst: the reset values of the registers; the memory holds no frame.
Init ==
  /\ slot_state  = [i \in Slots |-> DISABLED]
  /\ slot_count  = [i \in Slots |-> 0]
  /\ active_slot = {}
  /\ rst_ctl     = 3
  /\ rx_mode = "idle" /\ write_adr = 0
  /\ rx_resetcount = FALSE /\ rx_endframe = FALSE /\ rx_byte_error = FALSE
  /\ mem   = [a \in Addresses |-> Garbage]
  /\ wire  = NoFrame /\ begun \in {0, Endless}
  /\ slot_state_sys = [i \in Slots |-> DISABLED]
  /\ rst_ctl_sys = 3
  /\ bus = NoWrite
  /\ pc = "enable_rx" /\ slot = 0 /\ rxWorkingSlot = NoSlot
  /\ rxlen = 0 /\ rmw = 0

-----------------------------------------------------------------------------
(* The RMII clock domain *)

\* mutant: a slot the processor took counts as ready
Ready_Disabled(i) == slot_state[i] # DATA

Ready(i)  == slot_state[i] % 2 = 1
rx_valid  == \E i \in Slots : Ready(i)
\* the one-hot vector "select": the lowest slot whose ready bit is set
Select    == {i \in Slots : Ready(i) /\ \A j \in Slots : j < i => ~Ready(j)}
\* rx_adr: the base of the selected slot, the last slot's when there is none
RxAdr     == HwBase(IF rx_valid THEN CHOOSE i \in Select : TRUE ELSE NumSlots - 1)

Pulse == rx_resetcount \/ rx_endframe \/ rx_byte_error

(***************************************************************************)
(* What the control logic does at an edge.  wr: the write pulse of the bus *)
(* write in flight falls on this edge (TaskAck_CrossDomain delivers it     *)
(* exactly once, at the earliest one edge after the request); incr: the    *)
(* engine stores a word.  A slot that is written ignores the engine's      *)
(* strobes on that edge, the choice of the active slot among them.         *)
(* A written register is fresh on the processor's side when the write is   *)
(* acknowledged: the acknowledge takes the longer way.                     *)
(***************************************************************************)
CtlEdge(wr, incr) ==
  LET written == IF wr THEN bus.slots ELSE {} IN
  /\ wr => Pending /\ bus.armed
  /\ slot_state' = [i \in Slots |->
        IF i \in written THEN bus.di
        ELSE IF rx_endframe /\ i \in active_slot THEN DATA
        ELSE slot_state[i]]
  /\ slot_count' = [i \in Slots |->
        IF i \in written THEN slot_count[i]
        ELSE IF rx_resetcount /\ i \in Select THEN 0
        ELSE IF incr /\ i \in active_slot THEN (slot_count[i] + 1) % CountLimit
        ELSE slot_count[i]]
  /\ active_slot' = (active_slot \cap written)
                    \cup ((IF rx_resetcount THEN Select ELSE active_slot) \ written)
  /\ rst_ctl' = IF wr /\ bus.rst THEN bus.di
                ELSE IF rx_byte_error THEN SetRx(rst_ctl) ELSE rst_ctl
  /\ slot_state_sys' = [i \in Slots |->
        IF i \in written THEN bus.di ELSE slot_state_sys[i]]
  /\ rst_ctl_sys' = IF wr /\ bus.rst THEN bus.di ELSE rst_ctl_sys
  /\ bus' = IF wr THEN NoWrite ELSE [bus EXCEPT !.armed = Pending]

EngineIs(mode, resetcount, endframe, byteerror) ==
  /\ rx_mode' = mode
  /\ rx_resetcount' = resetcount
  /\ rx_endframe'   = endframe
  /\ rx_byte_error' = byteerror

(***************************************************************************)
(* Edges.  The engine's three strobes are registers: the edge after the    *)
(* one that set a strobe is SettleEdge, and the dibits of a preamble keep  *)
(* every other event away from it.                                         *)
(***************************************************************************)

\* nothing of interest on the wire; strobes act and fall, a write may land
SettleEdge(wr) ==
  /\ Pulse \/ Pending
  /\ CtlEdge(wr, FALSE)
  /\ EngineIs(IF RxInReset(rst_ctl) THEN "idle" ELSE rx_mode, FALSE, FALSE, FALSE)
  /\ UNCHANGED <<write_adr, mem, wireVars, drvVars>>

\* a receiver in reset or without a ready slot does not see the delimiter
CanStart == ~RxInReset(rst_ctl) /\ rx_valid /\ rx_mode = "idle"

\* the start delimiter of a new frame of n words reaches the engine
FrameBegins(n, wr) ==
  /\ ~Pulse /\ wire = NoFrame /\ begun # MaxFrames
  /\ begun' = IF begun = Endless THEN Endless ELSE begun + 1
  /\ wire' = [f |-> IF begun = Endless THEN 0 ELSE begun + 1, sent |-> 0, len |-> n]
  /\ CtlEdge(wr, FALSE)
  /\ IF CanStart
     THEN EngineIs("frame", TRUE, FALSE, FALSE) /\ write_adr' = RxAdr
     ELSE EngineIs(rx_mode, FALSE, FALSE, FALSE) /\ UNCHANGED write_adr
  /\ UNCHANGED <<mem, drvVars>>

\* an engine enabled in the middle of a frame takes payload for a delimiter:
\* it counts dibits with bit 0 set, consecutive or not
FalseStart(wr) ==
  /\ ~Pulse /\ wire # NoFrame /\ wire.sent < wire.len /\ CanStart
  /\ CtlEdge(wr, FALSE)
  /\ EngineIs("garbage", TRUE, FALSE, FALSE)
  /\ write_adr' = RxAdr
  /\ UNCHANGED <<mem, wireVars, drvVars>>

\* the wire carries the next word of its frame; an engine in a frame stores it
WordArrives(wr) ==
  /\ ~Pulse /\ wire.sent < wire.len
  /\ wire' = [wire EXCEPT !.sent = @ + 1]
  /\ LET store == rx_mode # "idle" /\ rx_valid
         word  == IF rx_mode = "frame" /\ wire.f # 0
                  THEN [f |-> wire.f, k |-> wire.sent + 1, last |-> wire.sent + 1 = wire.len]
                  ELSE Garbage
     IN /\ CtlEdge(wr, store)
        /\ mem' = IF store THEN [mem EXCEPT ![write_adr] = word] ELSE mem
        /\ write_adr' = IF store THEN write_adr + 1 ELSE write_adr
  /\ EngineIs(rx_mode, FALSE, FALSE, FALSE)
  /\ UNCHANGED <<begun, drvVars>>

\* carrier is lost, at the end of the frame or before it: on a byte boundary,
\* or off it (aligned = FALSE), which is a receive error
FrameEnds(aligned, wr) ==
  /\ ~Pulse /\ wire # NoFrame
  /\ wire' = NoFrame
  /\ CtlEdge(wr, FALSE)
  /\ EngineIs("idle", FALSE, rx_mode # "idle" /\ aligned, rx_mode # "idle" /\ ~aligned)
  /\ UNCHANGED <<write_adr, mem, begun, drvVars>>

RmiiEdge(wr) ==
  \/ SettleEdge(wr)
  \/ \E n \in 1..MaxWords : FrameBegins(n, wr)
  \/ FalseStart(wr)
  \/ WordArrives(wr)
  \/ \E aligned \in BOOLEAN : FrameEnds(aligned, wr)

-----------------------------------------------------------------------------
(* Synchronisers into the system clock domain: each bit of a changed value *)
(* is sampled old or new (Signal_n_CrossDomain has one chain per bit).     *)

Torn(old, new) == {v \in States : /\ v % 2 \in {old % 2, new % 2}
                                  /\ v \div 2 \in {old \div 2, new \div 2}}

SyncSlot(i) ==
  /\ \E v \in Torn(slot_state_sys[i], slot_state[i]) \ {slot_state_sys[i]} :
        slot_state_sys' = [slot_state_sys EXCEPT ![i] = v]
  /\ UNCHANGED <<ctlVars, rxVars, wireVars, rst_ctl_sys, bus, drvVars>>

SyncReset ==
  /\ rst_ctl_sys # rst_ctl
  /\ rst_ctl_sys' = rst_ctl
  /\ UNCHANGED <<ctlVars, rxVars, wireVars, slot_state_sys, bus, drvVars>>

-----------------------------------------------------------------------------
(* The driver.  A bus write is issued by Write...(...); the processor goes *)
(* on when it has been acknowledged (~Pending).                            *)

WriteSlot(i, v) == bus' = [slots |-> {i}, rst |-> FALSE, di |-> v, armed |-> FALSE]
WriteReset(v)   == bus' = [slots |-> {}, rst |-> TRUE, di |-> v, armed |-> FALSE]

At(label) == pc = label /\ ~Pending
HwUnchanged == UNCHANGED <<ctlVars, rxVars, wireVars, syncVars>>

\* miniMAC_init: MINIMAC_ENABLE_RX(true), MINIMAC_ENABLE_TX(true)
EnableRx ==
  /\ At("enable_rx")
  /\ WriteReset(ClearRx(rst_ctl_sys))
  /\ pc' = "enable_tx"
  /\ HwUnchanged /\ UNCHANGED <<slot, rxWorkingSlot, rxlen, rmw>>

EnableTx ==
  /\ At("enable_tx")
  /\ WriteReset(ClearTx(rst_ctl_sys))
  /\ pc' = "init_slot" /\ slot' = 0
  /\ HwUnchanged /\ UNCHANGED <<rxWorkingSlot, rxlen, rmw>>

\* miniMAC_init: every slot is handed to the receiver
InitSlot ==
  /\ At("init_slot")
  /\ WriteSlot(slot, READY)
  /\ IF slot + 1 \in Slots THEN slot' = slot + 1 /\ UNCHANGED pc
                           ELSE slot' = 0 /\ pc' = "check"
  /\ HwUnchanged /\ UNCHANGED <<rxWorkingSlot, rxlen, rmw>>

\* miniMAC_resetIfError: the test of the reset bit
CheckError ==
  /\ At("check")
  /\ pc' = IF RxInReset(rst_ctl_sys) THEN "err_slot" ELSE "find"
  /\ slot' = 0
  /\ HwUnchanged /\ UNCHANGED <<bus, rxWorkingSlot, rxlen, rmw>>

\* miniMAC_resetIfError: a slot with a partial frame is made ready again
ErrorSlot ==
  /\ At("err_slot")
  /\ IF slot_count[slot] # 0 /\ slot_state_sys[slot] = READY
     THEN WriteSlot(slot, READY) ELSE UNCHANGED bus
  /\ IF slot + 1 \in Slots
     THEN slot' = slot + 1 /\ UNCHANGED <<pc, rmw>>
     ELSE slot' = 0 /\ pc' = "err_rmw" /\ rmw' = rst_ctl_sys
  /\ HwUnchanged /\ UNCHANGED <<rxWorkingSlot, rxlen>>

\* mutant: the read-modify-write clears the transmitter's bit
ErrorEnable_TxBit ==
  /\ At("err_rmw")
  /\ WriteReset(ClearTx(rmw))
  /\ pc' = "find" /\ slot' = 0
  /\ HwUnchanged /\ UNCHANGED <<rxWorkingSlot, rxlen, rmw>>

\* miniMAC_resetIfError: MINIMAC_ENABLE_RX(true) writes back what it read
ErrorEnable ==
  /\ At("err_rmw")
  /\ WriteReset(ClearRx(rmw))
  /\ pc' = "find" /\ slot' = 0 /\ rmw' = 0
  /\ HwUnchanged /\ UNCHANGED <<rxWorkingSlot, rxlen>>

\* mutant: the loop over the slots ends one slot early
FindReadySlot_ShortLoop ==
  /\ At("find")
  /\ IF slot_state_sys[slot] = DATA
     THEN rxWorkingSlot' = slot /\ pc' = "accept" /\ slot' = 0
     ELSE IF slot + 2 \in Slots
     THEN slot' = slot + 1 /\ UNCHANGED <<pc, rxWorkingSlot>>
     ELSE slot' = 0 /\ rxWorkingSlot' = NoSlot /\ pc' = "check"
  /\ HwUnchanged /\ UNCHANGED <<bus, rxlen, rmw>>

\* miniMAC_findReadySlot: one register read of its loop
FindReadySlot ==
  /\ At("find")
  /\ IF slot_state_sys[slot] = DATA
     THEN rxWorkingSlot' = slot /\ pc' = "accept" /\ slot' = 0
     ELSE IF slot + 1 \in Slots
     THEN slot' = slot + 1 /\ UNCHANGED <<pc, rxWorkingSlot>>
     ELSE slot' = 0 /\ rxWorkingSlot' = NoSlot /\ pc' = "check"
  /\ HwUnchanged /\ UNCHANGED <<bus, rxlen, rmw>>

AcceptSlot ==
  /\ At("accept")
  /\ WriteSlot(rxWorkingSlot, DISABLED)
  /\ pc' = "count"
  /\ HwUnchanged /\ UNCHANGED <<slot, rxWorkingSlot, rxlen, rmw>>

\* mutant: a short frame returns 0 without going to __ressive_error
ReadCount_NoReject ==
  /\ At("count")
  /\ rxlen' = slot_count[rxWorkingSlot]
  /\ IF slot_count[rxWorkingSlot] < MinWords
     THEN pc' = "check" /\ rxWorkingSlot' = NoSlot
     ELSE pc' = "crc" /\ UNCHANGED rxWorkingSlot
  /\ HwUnchanged /\ UNCHANGED <<bus, slot, rmw>>

ReadCount ==
  /\ At("count")
  /\ rxlen' = slot_count[rxWorkingSlot]
  /\ pc' = IF slot_count[rxWorkingSlot] < MinWords THEN "reject" ELSE "crc"
  /\ HwUnchanged /\ UNCHANGED <<bus, slot, rxWorkingSlot, rmw>>

\* the n words from address a on are one whole frame
WholeFrame(a, n) ==
  /\ n >= 1 /\ a + n - 1 \in Addresses
  /\ mem[a].f \in Frames
  /\ \A k \in 1..n : mem[a + k - 1] = [f |-> mem[a].f, k |-> k, last |-> (k = n)]

\* mutant: a frame of the right length is taken without its checksum
CrcOk_LengthOnly(i, n) == SwBase(i) + n - 1 \in Addresses /\ mem[SwBase(i)].f \in Frames

\* the checksum over what the driver takes for the slot's memory
CrcOk(i, n) == WholeFrame(SwBase(i), n)

CheckCrc ==
  /\ At("crc")
  /\ IF CrcOk(rxWorkingSlot, rxlen)
     THEN pc' = "app"
     ELSE pc' = "reject"
  /\ HwUnchanged /\ UNCHANGED <<bus, slot, rxWorkingSlot, rxlen, rmw>>

\* __ressive_error, and nic_rx_dump_packet when the stack is done: the slot
\* goes back to the receiver
ReturnSlot(label) ==
  /\ At(label)
  /\ WriteSlot(rxWorkingSlot, READY)
  /\ rxWorkingSlot' = NoSlot /\ pc' = "check" /\ slot' = 0 /\ rxlen' = 0
  /\ HwUnchanged /\ UNCHANGED rmw

RejectFrame == ReturnSlot("reject")
DumpPacket  == ReturnSlot("app")

Driver ==
  \/ EnableRx \/ EnableTx \/ InitSlot \/ CheckError \/ ErrorSlot \/ ErrorEnable
  \/ FindReadySlot \/ AcceptSlot \/ ReadCount \/ CheckCrc \/ RejectFrame \/ DumpPacket

Next ==
  \/ \E wr \in BOOLEAN : RmiiEdge(wr)
  \/ \E i \in Slots : SyncSlot(i)
  \/ SyncReset
  \/ Driver

Spec == Init /\ [][Next]_vars

(***************************************************************************)
(* Both clocks run: the processor executes its main loop, a write in       *)
(* flight lands, strobes fall, the synchronisers sample, and a frame on    *)
(* the wire comes to its end.  Nothing makes the peer send a frame.        *)
(***************************************************************************)
FrameGoesOn(wr) == WordArrives(wr) \/ \E aligned \in BOOLEAN : FrameEnds(aligned, wr)

Fairness ==
  /\ WF_vars(Driver)
  /\ WF_vars(RmiiEdge(TRUE))
  /\ WF_vars(\E wr \in BOOLEAN : SettleEdge(wr))
  /\ WF_vars(\E wr \in BOOLEAN : FrameGoesOn(wr))
  /\ WF_vars(SyncReset)
  /\ \A i \in Slots : WF_vars(SyncSlot(i))

FairSpec == Spec /\ Fairness

-----------------------------------------------------------------------------
(* Properties *)

(***************************************************************************)
(* While the stack works on a frame that nic_check_for_rx returned, the    *)
(* memory it reads holds that one frame, whole, at the length returned:    *)
(* whatever the races between the slot registers and the receive engine    *)
(* do to counts and states, no mixture of two frames gets past the driver  *)
(* and nothing is stored under the reader.                                 *)
(***************************************************************************)
HeldFrameIntact ==
  pc = "app" => WholeFrame(SwBase(rxWorkingSlot), rxlen)

(***************************************************************************)
(* From the moment the driver has found a received frame until it gives    *)
(* the slot back, the receive engine stores nothing into the slot's        *)
(* memory, although it fixed the address it writes to at the start of a    *)
(* frame and the slots change hands while that frame arrives.              *)
(***************************************************************************)
OwnedMemoryStable ==
  [][rxWorkingSlot # NoSlot =>
       \A a \in HwRegion(rxWorkingSlot) : mem'[a] = mem[a]]_vars

(***************************************************************************)
(* Once miniMAC_init is done a disabled slot has an owner that will give   *)
(* it back: it is the driver's working slot or its READY write is on the   *)
(* way.  (The slots are the MAC's only buffers: a leaked one is gone until *)
(* the next reset.)                                                        *)
(***************************************************************************)
Initialising == pc \in {"enable_rx", "enable_tx", "init_slot"}
NoSlotLeaked ==
  \A i \in Slots : slot_state[i] = DISABLED =>
     \/ Initialising
     \/ rxWorkingSlot = i
     \/ i \in bus.slots /\ bus.di = READY

(***************************************************************************)
(* nic_check_for_rx does not throw away a frame that was received whole:   *)
(* when it goes to __ressive_error, the memory the hardware filled for the *)
(* slot does not hold a whole frame of the length it read.                 *)
(***************************************************************************)
GoodFrameAccepted ==
  pc = "reject" => \/ rxlen < MinWords
                   \/ ~WholeFrame(HwBase(rxWorkingSlot), rxlen)

(***************************************************************************)
(* A receive error stops the receiver; polling the driver starts it again. *)
(***************************************************************************)
ReceiverRecovers == RxInReset(rst_ctl) ~> ~RxInReset(rst_ctl)

(***************************************************************************)
(* Every slot comes back to the receiver again and again, whatever the     *)
(* races do to its state, unless lower slots receive again and again: the  *)
(* receiver fills the lowest ready slot (myminimac_ctlif_cd2.v:172) and    *)
(* the driver empties the lowest filled one (minimac2.c:93-102), so that   *)
(* under traffic that never pauses nothing bounds the wait of the others.  *)
(***************************************************************************)
SlotsComeBack ==
  \A i \in Slots :
    \/ []<>(slot_state[i] = READY)
    \/ []<>(\E j \in Slots : j < i /\ slot_state[j] = DATA)

(***************************************************************************)
(* The inductive invariant behind OwnedMemoryStable and NoSlotLeaked.      *)
(***************************************************************************)

\* the driver holds a working slot between finding and returning it
WorkingPCs == {"accept", "count", "crc", "reject", "app"}
PcInv == pc \in WorkingPCs <=> rxWorkingSlot \in Slots

\* a disabling write is for the working slot, a making-ready write is not
BusInv ==
  \A i \in bus.slots :
    /\ bus.di \in {DISABLED, READY}
    /\ bus.di = DISABLED <=> i = rxWorkingSlot

\* what the processor sees of bit 1 is never ahead of the register
SyncInv ==
  \A i \in Slots : /\ slot_state[i] # INVALID
                   /\ slot_state_sys[i] >= DATA => slot_state[i] = DATA

\* the working slot is not ready, so the receiver cannot select it
OwnerInv == rxWorkingSlot \in Slots => slot_state[rxWorkingSlot] # READY

\* a receiving engine writes into a slot that is still ready, and has stored
\* no more words than the wire has carried
EngineInv ==
  /\ rx_endframe \/ rx_byte_error => rx_mode = "idle"
  /\ rx_mode # "idle" =>
       \E k \in Slots : /\ slot_state[k] = READY
                        /\ HwBase(k) <= write_adr
                        /\ write_adr <= HwBase(k) + wire.sent

\* the initialisation has made ready what is below its loop counter
InitInv ==
  \A i \in Slots : slot_state[i] = DISABLED =>
     \/ pc \in {"enable_rx", "enable_tx"}
     \/ pc = "init_slot" /\ slot <= i
     \/ rxWorkingSlot = i
     \/ i \in bus.slots /\ bus.di = READY

IInv == TypeOK /\ PcInv /\ BusInv /\ SyncInv /\ OwnerInv /\ EngineInv /\ InitInv

(***************************************************************************)
(* "current rx slot": at most one slot counts the words of a frame.        *)
(***************************************************************************)
OneCurrentSlot ==
  rx_mode # "idle" /\ ~rx_resetcount => Cardinality(active_slot) <= 1
=============================================================================
