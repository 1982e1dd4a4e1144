--------------------------- MODULE MiniMac_proofs ---------------------------
(***************************************************************************)
(* Theorems of MiniMac, for every number of slots of the register map,     *)
(* every slot size, every frame length that fits and any number of frames. *)
(***************************************************************************)
EXTENDS MiniMac, TLAPS

USE DEF DISABLED, READY, DATA, INVALID

-----------------------------------------------------------------------------
(* Facts about the operators *)

\* The slots' memories are disjoint: HwBase spaces them by SlotWords.
LEMMA RegionsDisjoint ==
  ASSUME NEW i \in Slots, NEW j \in Slots, i # j, NEW a \in HwRegion(i)
  PROVE  a \notin HwRegion(j)
<1>1. SlotWords \in Nat
  BY MiniMacAssumption DEF SlotWords, Align32
<1>2. i \in 0..3 /\ j \in 0..3
  BY MiniMacAssumption DEF Slots
<1> QED
  BY <1>1, <1>2 DEF HwRegion, HwBase

\* A frame of the longest length fits a slot.
LEMMA FrameFits == SlotWords \in Nat /\ MaxWords <= SlotWords
  BY MiniMacAssumption DEF SlotWords, Align32

\* Storing a word keeps the memory a memory.
LEMMA StoreType ==
  ASSUME NEW m \in [Addresses -> Word], NEW a, NEW w \in Word
  PROVE  [m EXCEPT ![a] = w] \in [Addresses -> Word]
  OBVIOUS

\* When a slot is ready, the lowest one is selected and its base is rx_adr.
LEMMA SelectedIsReady ==
  ASSUME TypeOK, SyncInv, rx_valid
  PROVE  \E k \in Slots : slot_state[k] = READY /\ RxAdr = HwBase(k)
<1>1. \A i \in Slots : Ready(i) <=> slot_state[i] = READY
  BY DEF TypeOK, SyncInv, Ready, States
<1>2. \E i \in Slots : Ready(i) /\ \A j \in Slots : j < i => ~Ready(j)
  <2>1. PICK i \in Slots : Ready(i)
    BY DEF rx_valid
  <2>2. CASE 0 \in Slots /\ Ready(0)
    BY <2>2 DEF Slots
  <2>3. CASE 1 \in Slots /\ Ready(1) /\ ~Ready(0)
    BY <2>3 DEF Slots
  <2>4. CASE 2 \in Slots /\ Ready(2) /\ ~Ready(0) /\ ~Ready(1)
    BY <2>4 DEF Slots
  <2>5. CASE 3 \in Slots /\ Ready(3) /\ ~Ready(0) /\ ~Ready(1) /\ ~Ready(2)
    BY <2>5 DEF Slots
  <2>6. i \in {0, 1, 2, 3}
    BY MiniMacAssumption DEF Slots
  <2>7. \A j \in Slots : 0 \in Slots /\ (j >= 1 => 1 \in Slots)
                         /\ (j >= 2 => 2 \in Slots) /\ (j >= 3 => 3 \in Slots)
    BY MiniMacAssumption DEF Slots
  <2> QED
    BY <2>1, <2>2, <2>3, <2>4, <2>5, <2>6, <2>7
<1>3. Select # {}
  BY <1>2 DEF Select
<1>4. (CHOOSE i \in Select : TRUE) \in Select
  BY <1>3
<1> QED
  BY <1>1, <1>4 DEF Select, RxAdr

-----------------------------------------------------------------------------
(* What an edge of the control logic preserves *)

LEMMA CtlEdgeType ==
  ASSUME TypeOK, NEW wr \in BOOLEAN, NEW incr \in BOOLEAN, CtlEdge(wr, incr)
  PROVE  /\ slot_state' \in [Slots -> States] /\ slot_count' \in [Slots -> 0..(CountLimit - 1)]
         /\ active_slot' \in SUBSET Slots /\ rst_ctl' \in 0..3
         /\ slot_state_sys' \in [Slots -> States] /\ rst_ctl_sys' \in 0..3
         /\ bus' \in [slots : SUBSET Slots, rst : BOOLEAN, di : 0..3, armed : BOOLEAN]
<1> USE DEF TypeOK
<1>1. slot_state' \in [Slots -> States]
  BY DEF CtlEdge, States
<1>2. slot_count' \in [Slots -> 0..(CountLimit - 1)]
  BY MiniMacAssumption DEF CtlEdge
<1>3. active_slot' \in SUBSET Slots
  BY DEF CtlEdge, Select
<1>4. rst_ctl' \in 0..3 /\ rst_ctl_sys' \in 0..3
  BY DEF CtlEdge, SetRx
<1>5. slot_state_sys' \in [Slots -> States]
  BY DEF CtlEdge, States
<1>6. bus' \in [slots : SUBSET Slots, rst : BOOLEAN, di : 0..3, armed : BOOLEAN]
  <2>1. CASE wr
    BY <2>1 DEF CtlEdge, NoWrite
  <2>2. CASE ~wr
    <3>1. bus' = [bus EXCEPT !.armed = Pending]
      BY <2>2 DEF CtlEdge
    <3>2. Pending \in BOOLEAN
      BY DEF Pending
    <3> QED
      BY <3>1, <3>2
  <2> QED
    BY <2>1, <2>2
<1> QED
  BY <1>1, <1>2, <1>3, <1>4, <1>5, <1>6

LEMMA CtlEdgeInv ==
  ASSUME IInv, NEW wr \in BOOLEAN, NEW incr \in BOOLEAN, CtlEdge(wr, incr),
         UNCHANGED drvVars
  PROVE  PcInv' /\ BusInv' /\ SyncInv' /\ OwnerInv' /\ InitInv'
<1> USE DEF IInv, TypeOK
<1>1. PcInv'
  BY DEF PcInv, drvVars
<1>2. BusInv'
  BY DEF BusInv, CtlEdge, NoWrite, drvVars
<1>3. SyncInv'
  BY DEF SyncInv, BusInv, CtlEdge, States
<1>4. OwnerInv'
  BY DEF OwnerInv, BusInv, CtlEdge, drvVars
<1>5. InitInv'
  BY DEF InitInv, BusInv, CtlEdge, NoWrite, drvVars
<1> QED
  BY <1>1, <1>2, <1>3, <1>4, <1>5

\* A ready slot stays ready as long as no frame ends: the only write that
\* takes the state away is for the working slot, which is not ready.
LEMMA ReadyStaysReady ==
  ASSUME IInv, NEW wr \in BOOLEAN, NEW incr \in BOOLEAN, CtlEdge(wr, incr),
         NEW k \in Slots, slot_state[k] = READY, ~rx_endframe
  PROVE  slot_state'[k] = READY
  BY DEF IInv, TypeOK, CtlEdge, BusInv, OwnerInv

-----------------------------------------------------------------------------
(* IInv is inductive *)

LEMMA InitIInv == Init => IInv
<1> SUFFICES ASSUME Init PROVE IInv
  OBVIOUS
<1>1. 0 \in Slots /\ NoSlot \notin Slots /\ 0 \in Addresses
  BY FrameFits, MiniMacAssumption DEF Slots, NoSlot, Addresses
<1>2. TypeOK
  <2>1. Garbage \in Word
    BY MiniMacAssumption DEF Garbage, Word
  <2>2. NoFrame \in [f : 0..MaxFrames, sent : 0..MaxWords, len : 0..MaxWords]
    BY MiniMacAssumption DEF NoFrame
  <2>3. NoWrite \in [slots : SUBSET Slots, rst : BOOLEAN, di : 0..3, armed : BOOLEAN]
    BY DEF NoWrite
  <2>4. begun \in 0..Endless /\ mem \in [Addresses -> Word]
    BY <2>1, MiniMacAssumption DEF Init, Endless
  <2>5. /\ slot_state \in [Slots -> States] /\ slot_count \in [Slots -> 0..(CountLimit - 1)]
        /\ active_slot \in SUBSET Slots /\ slot_state_sys \in [Slots -> States]
    BY MiniMacAssumption DEF Init, States
  <2>6. /\ rst_ctl \in 0..3 /\ rst_ctl_sys \in 0..3 /\ rmw \in 0..3
        /\ write_adr \in Nat /\ rxlen \in Nat /\ slot \in Slots
        /\ rxWorkingSlot \in Slots \cup {NoSlot}
    BY <1>1 DEF Init
  <2>7. /\ rx_mode \in {"idle", "frame", "garbage"} /\ pc \in PCs
        /\ rx_resetcount \in BOOLEAN /\ rx_endframe \in BOOLEAN /\ rx_byte_error \in BOOLEAN
    BY DEF Init, PCs
  <2>8. wire = NoFrame /\ bus = NoWrite
    BY DEF Init
  <2> QED
    BY <2>2, <2>3, <2>4, <2>5, <2>6, <2>7, <2>8 DEF TypeOK
<1>3. PcInv /\ BusInv /\ SyncInv /\ OwnerInv /\ EngineInv /\ InitInv
  BY <1>1 DEF Init, PcInv, WorkingPCs, BusInv, SyncInv, OwnerInv, EngineInv, InitInv, NoWrite
<1> QED
  BY <1>2, <1>3 DEF IInv

LEMMA SettleIInv ==
  ASSUME IInv, NEW wr \in BOOLEAN, SettleEdge(wr)
  PROVE  IInv'
<1>1. CtlEdge(wr, FALSE) /\ UNCHANGED <<write_adr, mem, wire, begun, drvVars>>
  BY DEF SettleEdge, wireVars
<1>2. TypeOK'
  BY <1>1, CtlEdgeType DEF IInv, TypeOK, SettleEdge, EngineIs, drvVars
<1>3. EngineInv'
  <2>1. rx_endframe' = FALSE /\ rx_byte_error' = FALSE
    BY DEF SettleEdge, EngineIs
  <2>2. ASSUME rx_mode' # "idle"
        PROVE  \E k \in Slots : /\ slot_state'[k] = READY
                                /\ HwBase(k) <= write_adr'
                                /\ write_adr' <= HwBase(k) + wire'.sent
    <3>1. rx_mode # "idle" /\ ~rx_endframe
      BY <2>2 DEF SettleEdge, EngineIs, IInv, EngineInv
    <3>2. PICK k \in Slots : /\ slot_state[k] = READY
                             /\ HwBase(k) <= write_adr
                             /\ write_adr <= HwBase(k) + wire.sent
      BY <3>1 DEF IInv, EngineInv
    <3> QED
      BY <1>1, <3>1, <3>2, ReadyStaysReady
  <2> QED
    BY <2>1, <2>2 DEF EngineInv, HwBase
<1> QED
  BY <1>1, <1>2, <1>3, CtlEdgeInv DEF IInv

\* The two ways a frame can start capture the address of the selected slot.
LEMMA CaptureEngineInv ==
  ASSUME IInv, NEW wr \in BOOLEAN, CtlEdge(wr, FALSE), CanStart, ~Pulse,
         write_adr' = RxAdr, wire'.sent \in Nat,
         rx_endframe' = FALSE, rx_byte_error' = FALSE
  PROVE  EngineInv'
<1>1. PICK k \in Slots : slot_state[k] = READY /\ RxAdr = HwBase(k)
  BY SelectedIsReady DEF CanStart, IInv
<1>2. slot_state'[k] = READY
  BY <1>1, ReadyStaysReady DEF Pulse
<1>3. HwBase(k) \in Nat
  BY FrameFits, MiniMacAssumption DEF HwBase, Slots
<1> QED
  BY <1>1, <1>2, <1>3 DEF EngineInv, HwBase

LEMMA FrameBeginsIInv ==
  ASSUME IInv, NEW wr \in BOOLEAN, NEW n \in 1..MaxWords, FrameBegins(n, wr)
  PROVE  IInv'
<1>1. CtlEdge(wr, FALSE) /\ UNCHANGED drvVars /\ ~Pulse
  BY DEF FrameBegins
<1>2. RxAdr \in Nat
  <2>1. NumSlots - 1 \in Slots
    BY MiniMacAssumption DEF Slots
  <2>2. CASE rx_valid
    BY <2>2, SelectedIsReady, FrameFits, MiniMacAssumption DEF IInv, HwBase, Slots
  <2>3. CASE ~rx_valid
    BY <2>1, <2>3, FrameFits, MiniMacAssumption DEF RxAdr, HwBase, Slots
  <2> QED
    BY <2>2, <2>3
<1>3. /\ wire' = [f |-> IF begun = Endless THEN 0 ELSE begun + 1, sent |-> 0, len |-> n]
      /\ begun' = IF begun = Endless THEN Endless ELSE begun + 1
      /\ begun # MaxFrames
  BY DEF FrameBegins
<1>4. TypeOK'
  <2>1. wire' \in [f : 0..MaxFrames, sent : 0..MaxWords, len : 0..MaxWords]
        /\ begun' \in 0..Endless
    BY <1>3, MiniMacAssumption DEF IInv, TypeOK, Endless
  <2> QED
    BY <1>1, <1>2, <2>1, CtlEdgeType DEF IInv, TypeOK, FrameBegins, EngineIs, drvVars
<1>5. EngineInv'
  <2>1. CASE CanStart
    <3>1. write_adr' = RxAdr /\ rx_endframe' = FALSE /\ rx_byte_error' = FALSE
      BY <2>1 DEF FrameBegins, EngineIs
    <3>2. wire'.sent \in Nat
      BY <1>3
    <3> QED
      BY <1>1, <2>1, <3>1, <3>2, CaptureEngineInv
  <2>2. CASE ~CanStart
    <3>1. rx_mode' = rx_mode /\ rx_endframe' = FALSE /\ rx_byte_error' = FALSE
      BY <2>2 DEF FrameBegins, EngineIs
    <3>2. wire = NoFrame /\ write_adr' = write_adr
      BY <2>2 DEF FrameBegins
    <3>3. wire'.sent = wire.sent
      BY <1>3, <3>2 DEF NoFrame
    <3> QED
      BY <1>1, <3>1, <3>2, <3>3, ReadyStaysReady DEF IInv, EngineInv, Pulse, HwBase
  <2> QED
    BY <2>1, <2>2
<1> QED
  BY <1>1, <1>4, <1>5, CtlEdgeInv DEF IInv

LEMMA FalseStartIInv ==
  ASSUME IInv, NEW wr \in BOOLEAN, FalseStart(wr)
  PROVE  IInv'
<1>1. CtlEdge(wr, FALSE) /\ UNCHANGED drvVars /\ ~Pulse /\ CanStart
  BY DEF FalseStart
<1>2. RxAdr \in Nat
  BY <1>1, SelectedIsReady, FrameFits, MiniMacAssumption DEF IInv, CanStart, HwBase, Slots
<1>3. TypeOK'
  BY <1>1, <1>2, CtlEdgeType DEF IInv, TypeOK, FalseStart, EngineIs, drvVars, wireVars
<1>4. EngineInv'
  <2>1. write_adr' = RxAdr /\ rx_endframe' = FALSE /\ rx_byte_error' = FALSE
    BY DEF FalseStart, EngineIs
  <2>2. wire'.sent \in Nat
    BY DEF FalseStart, wireVars, IInv, TypeOK
  <2> QED
    BY <1>1, <2>1, <2>2, CaptureEngineInv
<1> QED
  BY <1>1, <1>3, <1>4, CtlEdgeInv DEF IInv

LEMMA WordArrivesIInv ==
  ASSUME IInv, NEW wr \in BOOLEAN, WordArrives(wr)
  PROVE  IInv'
<1> DEFINE store == rx_mode # "idle" /\ rx_valid
           word  == IF rx_mode = "frame" /\ wire.f # 0
                    THEN [f |-> wire.f, k |-> wire.sent + 1, last |-> wire.sent + 1 = wire.len]
                    ELSE Garbage
<1>1. CtlEdge(wr, store) /\ UNCHANGED <<begun, drvVars>> /\ ~Pulse
  BY DEF WordArrives
<1>2. /\ mem' = IF store THEN [mem EXCEPT ![write_adr] = word] ELSE mem
      /\ write_adr' = IF store THEN write_adr + 1 ELSE write_adr
  BY DEF WordArrives
<1>3. /\ wire' = [wire EXCEPT !.sent = @ + 1] /\ wire.sent < wire.len
      /\ rx_mode' = rx_mode
      /\ rx_resetcount' = FALSE /\ rx_endframe' = FALSE /\ rx_byte_error' = FALSE
  BY DEF WordArrives, EngineIs
<1>4. wire' \in [f : 0..MaxFrames, sent : 0..MaxWords, len : 0..MaxWords]
      /\ wire'.sent = wire.sent + 1
  BY <1>3, MiniMacAssumption DEF IInv, TypeOK
<1>5. word \in Word
  BY <1>3, MiniMacAssumption DEF IInv, TypeOK, Word, Garbage
<1>s. store \in BOOLEAN
  OBVIOUS
<1> HIDE DEF store, word
<1>6. mem' \in [Addresses -> Word] /\ write_adr' \in Nat
  <2>1. mem \in [Addresses -> Word] /\ write_adr \in Nat
    BY DEF IInv, TypeOK
  <2>2. CASE store
    <3>1. mem' = [mem EXCEPT ![write_adr] = word] /\ write_adr' = write_adr + 1
      BY <1>2, <2>2
    <3> QED
      BY <1>5, <2>1, <3>1, StoreType
  <2>3. CASE ~store
    BY <1>2, <2>1, <2>3
  <2> QED
    BY <2>2, <2>3
<1>7. TypeOK'
  BY <1>1, <1>s, <1>3, <1>4, <1>6, CtlEdgeType DEF IInv, TypeOK, drvVars
<1>8. EngineInv'
  <2>1. ASSUME rx_mode # "idle"
        PROVE  \E k \in Slots : /\ slot_state'[k] = READY
                                /\ HwBase(k) <= write_adr'
                                /\ write_adr' <= HwBase(k) + wire'.sent
    <3>1. PICK k \in Slots : /\ slot_state[k] = READY
                             /\ HwBase(k) <= write_adr
                             /\ write_adr <= HwBase(k) + wire.sent
      BY <2>1 DEF IInv, EngineInv
    <3>2. slot_state'[k] = READY
      BY <1>1, <1>s, <3>1, ReadyStaysReady DEF Pulse
    <3>3. HwBase(k) \in Nat /\ write_adr \in Nat /\ wire.sent \in Nat
      BY FrameFits, MiniMacAssumption DEF HwBase, Slots, IInv, TypeOK
    <3> QED
      BY <1>2, <1>4, <3>1, <3>2, <3>3
  <2> QED
    BY <1>3, <2>1 DEF EngineInv, HwBase
<1> QED
  BY <1>1, <1>s, <1>7, <1>8, CtlEdgeInv DEF IInv

LEMMA FrameEndsIInv ==
  ASSUME IInv, NEW wr \in BOOLEAN, NEW aligned \in BOOLEAN, FrameEnds(aligned, wr)
  PROVE  IInv'
<1>1. CtlEdge(wr, FALSE) /\ UNCHANGED drvVars
  BY DEF FrameEnds
<1>2. TypeOK'
  <2>1. rx_mode' = "idle" /\ rx_resetcount' = FALSE
        /\ rx_endframe' \in BOOLEAN /\ rx_byte_error' \in BOOLEAN
    BY DEF FrameEnds, EngineIs
  <2>2. wire' \in [f : 0..MaxFrames, sent : 0..MaxWords, len : 0..MaxWords]
    BY MiniMacAssumption DEF FrameEnds, NoFrame
  <2>3. UNCHANGED <<write_adr, mem, begun>>
    BY DEF FrameEnds
  <2> QED
    BY <1>1, <2>1, <2>2, <2>3, CtlEdgeType DEF IInv, TypeOK, drvVars
<1>3. EngineInv'
  BY DEF FrameEnds, EngineIs, EngineInv
<1> QED
  BY <1>1, <1>2, <1>3, CtlEdgeInv DEF IInv

\* The synchronisers: the processor never sees bit 1 before it is set.
LEMMA SyncIInv ==
  ASSUME IInv, (\E i \in Slots : SyncSlot(i)) \/ SyncReset
  PROVE  IInv'
<1>1. ASSUME NEW i \in Slots, SyncSlot(i) PROVE IInv'
  <2>1. UNCHANGED <<ctlVars, rxVars, wireVars, rst_ctl_sys, bus, drvVars>>
    BY <1>1 DEF SyncSlot
  <2>2. PICK v \in Torn(slot_state_sys[i], slot_state[i]) :
            slot_state_sys' = [slot_state_sys EXCEPT ![i] = v]
    BY <1>1 DEF SyncSlot
  <2>3. v \in States /\ (v >= DATA => slot_state_sys[i] >= DATA \/ slot_state[i] >= DATA)
    <3>1. /\ v \in States
          /\ v \div 2 \in {slot_state_sys[i] \div 2, slot_state[i] \div 2}
      BY <2>2 DEF Torn
    <3>2. slot_state_sys[i] \in 0..3 /\ slot_state[i] \in 0..3 /\ v \in 0..3
      BY <3>1 DEF IInv, TypeOK, States
    <3> QED
      BY <3>1, <3>2
  <2>4. TypeOK'
    BY <2>1, <2>2, <2>3 DEF IInv, TypeOK, ctlVars, rxVars, wireVars, drvVars
  <2>5. SyncInv'
    BY <2>1, <2>2, <2>3 DEF IInv, TypeOK, SyncInv, States, ctlVars
  <2>6. PcInv' /\ BusInv' /\ OwnerInv' /\ EngineInv' /\ InitInv'
    BY <2>1 DEF IInv, PcInv, BusInv, OwnerInv, EngineInv, InitInv, HwBase,
                ctlVars, rxVars, wireVars, drvVars
  <2> QED
    BY <2>4, <2>5, <2>6 DEF IInv
<1>2. ASSUME SyncReset PROVE IInv'
  BY <1>2 DEF SyncReset, IInv, TypeOK, PcInv, BusInv, SyncInv, OwnerInv, EngineInv,
              InitInv, HwBase, ctlVars, rxVars, wireVars, drvVars
<1> QED
  BY <1>1, <1>2

-----------------------------------------------------------------------------
(* The driver's steps leave the hardware alone *)

\* No bus write is in flight when the driver goes on.
LEMMA NoWriteAtStep ==
  ASSUME TypeOK, NEW label, At(label)
  PROVE  bus.slots = {} /\ pc = label
  BY DEF At, Pending

LEMMA HwUnchangedInv ==
  ASSUME IInv, HwUnchanged
  PROVE  /\ SyncInv' /\ EngineInv'
         /\ UNCHANGED <<slot_state, slot_count, active_slot, rst_ctl, rx_mode, rx_resetcount,
                        rx_endframe, rx_byte_error, write_adr, mem, wire, begun,
                        slot_state_sys, rst_ctl_sys>>
<1>1. UNCHANGED <<slot_state, slot_count, active_slot, rst_ctl, rx_mode, rx_resetcount,
                  rx_endframe, rx_byte_error, write_adr, mem, wire, begun,
                  slot_state_sys, rst_ctl_sys>>
  BY DEF HwUnchanged, ctlVars, rxVars, wireVars, syncVars
<1> QED
  BY <1>1 DEF IInv, SyncInv, EngineInv, HwBase

LEMMA DriverType ==
  ASSUME IInv, Driver
  PROVE  TypeOK'
<1> USE DEF IInv, TypeOK, At, WriteSlot, WriteReset
<1>0. HwUnchanged
  BY DEF Driver, EnableRx, EnableTx, InitSlot, CheckError, ErrorSlot, ErrorEnable,
         FindReadySlot, AcceptSlot, ReadCount, CheckCrc, RejectFrame, DumpPacket, ReturnSlot
<1>1. UNCHANGED <<slot_state, slot_count, active_slot, rst_ctl, rx_mode, rx_resetcount,
                  rx_endframe, rx_byte_error, write_adr, mem, wire, begun,
                  slot_state_sys, rst_ctl_sys>>
  BY <1>0, HwUnchangedInv
<1>2. 0 \in Slots
  BY MiniMacAssumption DEF Slots
<1>3. CASE EnableRx
  BY <1>1, <1>3 DEF EnableRx, ClearRx, PCs
<1>4. CASE EnableTx
  BY <1>1, <1>2, <1>4 DEF EnableTx, ClearTx, PCs
<1>5. CASE InitSlot
  BY <1>1, <1>2, <1>5 DEF InitSlot, PCs
<1>6. CASE CheckError
  BY <1>1, <1>2, <1>6 DEF CheckError, PCs
<1>7. CASE ErrorSlot
  <2>1. bus' \in [slots : SUBSET Slots, rst : BOOLEAN, di : 0..3, armed : BOOLEAN]
    <3>1. bus' = bus \/ bus' = [slots |-> {slot}, rst |-> FALSE, di |-> READY, armed |-> FALSE]
      BY <1>7 DEF ErrorSlot
    <3>2. CASE bus' = bus
      BY <3>2
    <3>3. CASE bus' = [slots |-> {slot}, rst |-> FALSE, di |-> READY, armed |-> FALSE]
      BY <3>3
    <3> QED
      BY <3>1, <3>2, <3>3
  <2>2. slot' \in Slots /\ pc' \in PCs /\ rmw' \in 0..3
    BY <1>2, <1>7 DEF ErrorSlot, PCs
  <2>3. UNCHANGED <<rxWorkingSlot, rxlen>>
    BY <1>7 DEF ErrorSlot
  <2> QED
    BY <1>1, <2>1, <2>2, <2>3
<1>8. CASE ErrorEnable
  BY <1>1, <1>2, <1>8 DEF ErrorEnable, ClearRx, PCs
<1>9. CASE FindReadySlot
  BY <1>1, <1>2, <1>9 DEF FindReadySlot, PCs
<1>10. CASE AcceptSlot
  BY <1>1, <1>10 DEF AcceptSlot, PCs, PcInv, WorkingPCs
<1>11. CASE ReadCount
  BY <1>1, <1>11 DEF ReadCount, PCs, PcInv, WorkingPCs
<1>12. CASE CheckCrc
  BY <1>1, <1>12 DEF CheckCrc, CrcOk, WholeFrame, PCs
<1>13. ASSUME NEW label \in {"reject", "app"}, ReturnSlot(label) PROVE TypeOK'
  BY <1>1, <1>2, <1>13 DEF ReturnSlot, PCs, PcInv, WorkingPCs
<1> QED
  BY <1>3, <1>4, <1>5, <1>6, <1>7, <1>8, <1>9, <1>10, <1>11, <1>12, <1>13
  DEF Driver, RejectFrame, DumpPacket

LEMMA DriverInv ==
  ASSUME IInv, Driver
  PROVE  PcInv' /\ BusInv' /\ OwnerInv' /\ InitInv'
<1> USE DEF IInv, TypeOK, At, Pending, WriteSlot, WriteReset
<1>0. HwUnchanged
  BY DEF Driver, EnableRx, EnableTx, InitSlot, CheckError, ErrorSlot, ErrorEnable,
         FindReadySlot, AcceptSlot, ReadCount, CheckCrc, RejectFrame, DumpPacket, ReturnSlot
<1>1. slot_state' = slot_state
  BY <1>0, HwUnchangedInv
<1>2. NoSlot \notin Slots /\ \A i, j \in Slots : i < j \/ j <= i
  BY MiniMacAssumption DEF Slots, NoSlot
<1>3. CASE EnableRx
  BY <1>1, <1>2, <1>3 DEF EnableRx, PcInv, WorkingPCs, BusInv, OwnerInv, InitInv
<1>4. CASE EnableTx
  <2>1. \A i \in Slots : 0 <= i
    BY MiniMacAssumption DEF Slots
  <2> QED
    BY <1>1, <1>2, <1>4, <2>1 DEF EnableTx, PcInv, WorkingPCs, BusInv, OwnerInv, InitInv
\* the slot just written is covered by its write, the others by the counter
<1>5. CASE InitSlot
  <2>1. rxWorkingSlot = NoSlot /\ rxWorkingSlot' = rxWorkingSlot
    BY <1>2, <1>5 DEF InitSlot, PcInv, WorkingPCs
  <2>2. bus' = [slots |-> {slot}, rst |-> FALSE, di |-> READY, armed |-> FALSE]
    BY <1>5 DEF InitSlot
  <2>3. PcInv' /\ BusInv' /\ OwnerInv'
    BY <1>1, <1>2, <1>5, <2>1, <2>2 DEF InitSlot, PcInv, WorkingPCs, BusInv, OwnerInv
  <2>4. InitInv'
    <3> SUFFICES ASSUME NEW i \in Slots, slot_state'[i] = DISABLED
                 PROVE  (pc' = "init_slot" /\ slot' <= i) \/ i = slot
      BY <2>2 DEF InitInv
    <3>1. slot <= i
      BY <1>1, <1>2, <1>5, <2>1 DEF InitSlot, InitInv
    <3>2. i \in 0..(NumSlots - 1) /\ slot \in 0..(NumSlots - 1) /\ NumSlots \in Nat
      BY MiniMacAssumption DEF Slots
    <3>3. CASE slot + 1 \in Slots
      BY <1>5, <3>1, <3>2, <3>3 DEF InitSlot
    <3>4. CASE slot + 1 \notin Slots
      BY <3>1, <3>2, <3>4 DEF Slots
    <3> QED
      BY <3>3, <3>4
  <2> QED
    BY <2>3, <2>4
<1>6. CASE CheckError
  BY <1>1, <1>2, <1>6 DEF CheckError, PcInv, WorkingPCs, BusInv, OwnerInv, InitInv
<1>7. CASE ErrorSlot
  <2>1. rxWorkingSlot = NoSlot /\ rxWorkingSlot' = rxWorkingSlot /\ bus.slots = {}
    BY <1>2, <1>7 DEF ErrorSlot, PcInv, WorkingPCs
  <2>2. \A i \in bus'.slots : bus'.di = READY /\ i \in Slots
    BY <1>7, <2>1 DEF ErrorSlot
  <2>3. pc' \in {"err_slot", "err_rmw"}
    BY <1>7 DEF ErrorSlot
  <2>4. PcInv' /\ BusInv' /\ OwnerInv'
    BY <1>1, <1>2, <2>1, <2>2, <2>3 DEF PcInv, WorkingPCs, BusInv, OwnerInv
  <2>5. InitInv'
    BY <1>1, <1>7, <2>1, <2>3 DEF ErrorSlot, InitInv
  <2> QED
    BY <2>4, <2>5
<1>8. CASE ErrorEnable
  BY <1>1, <1>2, <1>8 DEF ErrorEnable, PcInv, WorkingPCs, BusInv, OwnerInv, InitInv
\* the slot found holds data: what the processor saw of it is true
<1>9. CASE FindReadySlot
  <2>1. bus' = bus /\ bus.slots = {}
    BY <1>9 DEF FindReadySlot
  <2>2. CASE slot_state_sys[slot] = DATA
    <3>1. slot_state[slot] = DATA
      BY <2>2 DEF SyncInv
    <3> QED
      BY <1>1, <1>9, <2>1, <2>2, <3>1
      DEF FindReadySlot, PcInv, WorkingPCs, BusInv, OwnerInv, InitInv
  <2>3. CASE slot_state_sys[slot] # DATA
    BY <1>1, <1>2, <1>9, <2>1, <2>3
    DEF FindReadySlot, PcInv, WorkingPCs, BusInv, OwnerInv, InitInv
  <2> QED
    BY <2>2, <2>3
<1>10. CASE AcceptSlot
  BY <1>1, <1>10 DEF AcceptSlot, PcInv, WorkingPCs, BusInv, OwnerInv, InitInv
<1>11. CASE ReadCount
  BY <1>1, <1>11 DEF ReadCount, PcInv, WorkingPCs, BusInv, OwnerInv, InitInv
<1>12. CASE CheckCrc
  BY <1>1, <1>12 DEF CheckCrc, PcInv, WorkingPCs, BusInv, OwnerInv, InitInv
\* the slot given up is covered by its READY write
<1>13. ASSUME NEW label \in {"reject", "app"}, ReturnSlot(label)
       PROVE  PcInv' /\ BusInv' /\ OwnerInv' /\ InitInv'
  <2>1. rxWorkingSlot \in Slots
    BY <1>13 DEF ReturnSlot, PcInv, WorkingPCs
  <2> QED
    BY <1>1, <1>2, <1>13, <2>1
    DEF ReturnSlot, PcInv, WorkingPCs, BusInv, OwnerInv, InitInv
<1> QED
  BY <1>3, <1>4, <1>5, <1>6, <1>7, <1>8, <1>9, <1>10, <1>11, <1>12, <1>13
  DEF Driver, RejectFrame, DumpPacket

LEMMA NextIInv == IInv /\ [Next]_vars => IInv'
<1> SUFFICES ASSUME IInv, [Next]_vars PROVE IInv'
  OBVIOUS
<1>1. CASE \E wr \in BOOLEAN : RmiiEdge(wr)
  BY <1>1, SettleIInv, FrameBeginsIInv, FalseStartIInv, WordArrivesIInv, FrameEndsIInv
  DEF RmiiEdge
<1>2. CASE (\E i \in Slots : SyncSlot(i)) \/ SyncReset
  BY <1>2, SyncIInv
<1>3. CASE Driver
  <2>1. HwUnchanged
    BY <1>3 DEF Driver, EnableRx, EnableTx, InitSlot, CheckError, ErrorSlot, ErrorEnable,
         FindReadySlot, AcceptSlot, ReadCount, CheckCrc, RejectFrame, DumpPacket, ReturnSlot
  <2> QED
    BY <1>3, <2>1, DriverType, DriverInv, HwUnchangedInv DEF IInv
<1>4. CASE UNCHANGED vars
  BY <1>4 DEF vars, IInv, TypeOK, PcInv, BusInv, SyncInv, OwnerInv, EngineInv, InitInv,
              HwBase, ctlVars, rxVars, wireVars, syncVars, drvVars
<1> QED
  BY <1>1, <1>2, <1>3, <1>4 DEF Next

-----------------------------------------------------------------------------
(* What the memory of the working slot holds *)

\* No step stores into the slot the driver works on.
LEMMA OwnedStep ==
  ASSUME IInv, [Next]_vars, rxWorkingSlot # NoSlot, NEW a \in HwRegion(rxWorkingSlot)
  PROVE  mem'[a] = mem[a]
<1>1. CASE mem' = mem
  BY <1>1
<1>2. ASSUME NEW wr \in BOOLEAN, WordArrives(wr), mem' # mem
      PROVE  mem'[a] = mem[a]
  <2>1. rx_mode # "idle" /\ \E w : mem' = [mem EXCEPT ![write_adr] = w]
    BY <1>2 DEF WordArrives
  <2>2. PICK k \in Slots : /\ slot_state[k] = READY
                           /\ HwBase(k) <= write_adr
                           /\ write_adr <= HwBase(k) + wire.sent
    BY <2>1 DEF IInv, EngineInv
  <2>3. rxWorkingSlot \in Slots /\ rxWorkingSlot # k
    BY <2>2 DEF IInv, TypeOK, OwnerInv
  <2>4. wire.sent < wire.len /\ wire.len <= MaxWords /\ wire.sent \in Nat /\ wire.len \in Nat
    BY <1>2, MiniMacAssumption DEF WordArrives, IInv, TypeOK
  <2>5. write_adr \in HwRegion(k)
    <3>1. HwBase(k) \in Nat /\ SlotWords \in Nat /\ MaxWords <= SlotWords
      BY FrameFits, MiniMacAssumption DEF HwBase, Slots
    <3> QED
      BY <2>2, <2>4, <3>1, MiniMacAssumption DEF HwRegion, IInv, TypeOK
  <2>6. a # write_adr
    BY <2>3, <2>5, RegionsDisjoint
  <2>7. mem \in [Addresses -> Word]
    BY DEF IInv, TypeOK
  <2> QED
    BY <2>1, <2>6, <2>7
<1>3. \/ mem' = mem
      \/ \E wr \in BOOLEAN : WordArrives(wr)
  BY DEF Next, RmiiEdge, SettleEdge, FrameBegins, FalseStart, FrameEnds, SyncSlot, SyncReset,
         Driver, EnableRx, EnableTx, InitSlot, CheckError, ErrorSlot, ErrorEnable,
         FindReadySlot, AcceptSlot, ReadCount, CheckCrc, RejectFrame, DumpPacket, ReturnSlot,
         HwUnchanged, rxVars, vars
<1> QED
  BY <1>1, <1>2, <1>3

\* A frame's first word lies at the beginning of a slot: the engine takes its
\* address from there when a frame begins, and stores the others after it.
HeadInv ==
  /\ wire = NoFrame => rx_mode = "idle"
  /\ rx_mode = "frame" /\ wire.sent = 0 => \E j \in Slots : write_adr = HwBase(j)
  /\ \A a \in Addresses : mem[a].k = 1 => \E j \in Slots : a = HwBase(j)

LEMMA HeadInit == Init => HeadInv
  BY DEF Init, HeadInv, NoFrame, Garbage

LEMMA HeadStep ==
  ASSUME IInv, HeadInv, [Next]_vars
  PROVE  HeadInv'
<1>a. mem \in [Addresses -> Word] /\ wire.sent \in Nat /\ wire.len \in Nat
  BY MiniMacAssumption DEF IInv, TypeOK
<1>1. ASSUME UNCHANGED <<mem, wire, write_adr>>, rx_mode' \in {rx_mode, "idle"}
      PROVE  HeadInv'
  BY <1>1 DEF HeadInv, HwBase, SlotWords
<1>2. ASSUME NEW wr \in BOOLEAN, SettleEdge(wr)
      PROVE  HeadInv'
  BY <1>1, <1>2 DEF SettleEdge, EngineIs, wireVars
<1>3. ASSUME NEW wr \in BOOLEAN, NEW n \in 1..MaxWords, FrameBegins(n, wr)
      PROVE  HeadInv'
  <2>1. mem' = mem /\ wire = NoFrame /\ wire' # NoFrame
    BY <1>3, MiniMacAssumption DEF FrameBegins, NoFrame, IInv, TypeOK
  <2>2. rx_mode = "idle"
    BY <2>1 DEF HeadInv
  <2>3. rx_mode' = "frame" => \E j \in Slots : write_adr' = HwBase(j)
    <3> SUFFICES ASSUME rx_mode' = "frame" PROVE \E j \in Slots : write_adr' = HwBase(j)
      OBVIOUS
    <3>1. CanStart /\ write_adr' = RxAdr
      BY <1>3, <2>2 DEF FrameBegins, EngineIs
    <3> QED
      BY <3>1, SelectedIsReady DEF CanStart, IInv
  <2> QED
    BY <2>1, <2>3 DEF HeadInv, HwBase, SlotWords
<1>4. ASSUME NEW wr \in BOOLEAN, FalseStart(wr)
      PROVE  HeadInv'
  BY <1>4 DEF FalseStart, EngineIs, wireVars, HeadInv, HwBase, SlotWords
<1>5. ASSUME NEW wr \in BOOLEAN, WordArrives(wr)
      PROVE  HeadInv'
  <2>1. wire' = [wire EXCEPT !.sent = @ + 1] /\ rx_mode' = rx_mode
    BY <1>5 DEF WordArrives, EngineIs
  <2>2. wire'.sent = wire.sent + 1
    BY <2>1 DEF IInv, TypeOK
  <2>3. wire'.sent # 0 /\ wire' # NoFrame
    BY <1>a, <2>2 DEF NoFrame
  <2>4. ASSUME NEW a \in Addresses, mem'[a].k = 1
        PROVE  \E j \in Slots : a = HwBase(j)
    <3>1. CASE mem'[a] = mem[a]
      BY <2>4, <3>1 DEF HeadInv
    <3>2. CASE mem'[a] # mem[a]
      <4> DEFINE word == IF rx_mode = "frame" /\ wire.f # 0
                         THEN [f |-> wire.f, k |-> wire.sent + 1, last |-> wire.sent + 1 = wire.len]
                         ELSE Garbage
      <4>1. mem' = [mem EXCEPT ![write_adr] = word]
        BY <1>5, <3>2 DEF WordArrives
      <4>2. a = write_adr /\ mem'[a] = word
        <5> HIDE DEF word
        <5> QED BY <1>a, <3>2, <4>1
      <4>3. rx_mode = "frame" /\ wire.sent = 0
        BY <1>a, <2>4, <4>2 DEF Garbage
      <4> QED
        BY <4>2, <4>3 DEF HeadInv
    <3> QED
      BY <3>1, <3>2
  <2> QED
    BY <2>1, <2>3, <2>4 DEF HeadInv, HwBase, SlotWords
<1>6. ASSUME NEW wr \in BOOLEAN, NEW aligned \in BOOLEAN, FrameEnds(aligned, wr)
      PROVE  HeadInv'
  BY <1>6 DEF FrameEnds, EngineIs, HeadInv, HwBase, SlotWords
<1>7. CASE (\E i \in Slots : SyncSlot(i)) \/ SyncReset \/ Driver \/ UNCHANGED vars
  <2>1. UNCHANGED <<mem, wire, write_adr, rx_mode>>
    BY <1>7 DEF SyncSlot, SyncReset, HwUnchanged, rxVars, wireVars, vars,
           Driver, EnableRx, EnableTx, InitSlot, CheckError, ErrorSlot, ErrorEnable,
           FindReadySlot, AcceptSlot, ReadCount, CheckCrc, RejectFrame, DumpPacket, ReturnSlot
  <2> QED
    BY <1>1, <2>1
<1> QED
  BY <1>2, <1>3, <1>4, <1>5, <1>6, <1>7 DEF Next, RmiiEdge

\* Where the driver's base of a slot is the hardware's base of any, it is that of
\* the same slot, for every size of a slot but one.
LEMMA BasesAgree ==
  ASSUME MTU # 5, NEW i \in Slots, NEW j \in Slots, SwBase(i) = HwBase(j)
  PROVE  i = j
<1>1. PICK q \in Nat, r \in 0..3 : MTU = 4 * q + r
  BY MiniMacAssumption
<1>2. q >= 1 /\ i \in 0..3 /\ j \in 0..3
  BY <1>1, MiniMacAssumption DEF Slots
<1>3. SlotWords = IF r = 0 THEN q ELSE q + 1
  BY <1>1 DEF SlotWords, Align32
<1>4. ASSUME NEW m \in Nat PROVE Align32(m) >= m /\ Align32(m) <= m + 3 /\ Align32(m) % 4 = 0
  BY DEF Align32
<1>5. /\ MTU * i \in Nat
      /\ 4 * SwBase(i) >= MTU * i /\ 4 * SwBase(i) <= MTU * i + 3 /\ SwBase(i) \in Nat
  <2>1. MTU * i \in Nat
    BY <1>2, MiniMacAssumption
  <2> DEFINE m == MTU * i
  <2>2. SwBase(i) = Align32(m) \div 4
    BY DEF SwBase
  <2> HIDE DEF m
  <2> QED BY <1>4, <2>1, <2>2 DEF m, Align32
<1>6. i = 0 \/ i = 1 \/ i = 2 \/ i = 3
  BY <1>2
<1>7. j = 0 \/ j = 1 \/ j = 2 \/ j = 3
  BY <1>2
<1>8. r = 0 \/ r = 1 \/ r = 2 \/ r = 3
  BY <1>1
<1>9. SwBase(i) = SlotWords * j
  BY DEF HwBase
<1> QED
  BY <1>1, <1>2, <1>3, <1>5, <1>6, <1>7, <1>8, <1>9

Held == pc = "app" => WholeFrame(SwBase(rxWorkingSlot), rxlen)

\* A whole frame at the driver's base of a slot lies in that slot.
LEMMA WholeInside ==
  ASSUME MTU # 5, IInv, HeadInv, NEW i \in Slots, NEW n \in Nat, WholeFrame(SwBase(i), n),
         NEW k \in 1..n
  PROVE  SwBase(i) + k - 1 \in HwRegion(i)
<1>0. SwBase(i) \in Int
  BY MiniMacAssumption DEF SwBase, Align32, Slots
<1>1. SwBase(i) \in Addresses /\ SwBase(i) + n - 1 \in Addresses
  BY <1>0, FrameFits, MiniMacAssumption DEF WholeFrame, Addresses, SwBase, Align32, Slots
<1>a. \A l \in 1..n : mem[SwBase(i) + l - 1].k = l
  <2> SUFFICES ASSUME NEW l \in 1..n PROVE mem[SwBase(i) + l - 1].k = l
    OBVIOUS
  <2> DEFINE word == [f |-> mem[SwBase(i)].f, k |-> l, last |-> (l = n)]
  <2>1. mem[SwBase(i) + l - 1] = word
    BY Zenon DEF WholeFrame
  <2>2. word.k = l
    OBVIOUS
  <2> HIDE DEF word
  <2> QED BY <2>1, <2>2
<1>b. n >= 1
  BY DEF WholeFrame
<1>2. mem[SwBase(i)].k = 1
  <2>1. mem[SwBase(i) + 1 - 1].k = 1
    BY <1>a, <1>b
  <2>2. SwBase(i) + 1 - 1 = SwBase(i)
    BY <1>0
  <2> QED BY <2>1, <2>2
<1>3. SwBase(i) = HwBase(i)
  BY <1>1, <1>2, BasesAgree DEF HeadInv
<1>4. mem[SwBase(i) + n - 1].k = n /\ mem[SwBase(i) + n - 1] \in Word
  BY <1>1, <1>a, <1>b DEF IInv, TypeOK
<1>5. n <= MaxWords
  BY <1>4, MiniMacAssumption DEF Word
<1> QED
  BY <1>0, <1>3, <1>5, FrameFits, MiniMacAssumption DEF HwRegion, HwBase, Slots

LEMMA HeldStep ==
  ASSUME MTU # 5, IInv, HeadInv, Held, [Next]_vars
  PROVE  Held'
<1> SUFFICES ASSUME pc' = "app"
             PROVE  WholeFrame(SwBase(rxWorkingSlot), rxlen)'
  BY DEF Held
<1>1. CASE CheckCrc
  <2>1. UNCHANGED <<mem, rxWorkingSlot, rxlen>> /\ WholeFrame(SwBase(rxWorkingSlot), rxlen)
    BY <1>1 DEF CheckCrc, CrcOk, HwUnchanged, rxVars
  <2> QED
    BY <2>1 DEF WholeFrame, SwBase
<1>2. CASE UNCHANGED <<pc, rxWorkingSlot, rxlen>>
  <2>1. rxWorkingSlot \in Slots /\ rxlen \in Nat
    BY <1>2 DEF IInv, TypeOK, PcInv, WorkingPCs
  <2>2. WholeFrame(SwBase(rxWorkingSlot), rxlen)
    BY <1>2 DEF Held
  <2>3. \A k \in 1..rxlen : mem'[SwBase(rxWorkingSlot) + k - 1] = mem[SwBase(rxWorkingSlot) + k - 1]
    <3>1. rxWorkingSlot # NoSlot
      BY <2>1, MiniMacAssumption DEF Slots, NoSlot
    <3> QED
      BY <2>1, <2>2, <3>1, WholeInside, OwnedStep
  <2>4. SwBase(rxWorkingSlot) \in Int /\ rxlen >= 1
    BY <2>1, <2>2, MiniMacAssumption DEF SwBase, Align32, Slots, WholeFrame
  <2>5. mem'[SwBase(rxWorkingSlot)] = mem[SwBase(rxWorkingSlot)]
    BY <2>1, <2>3, <2>4
  <2> QED
    BY <1>2, <2>2, <2>3, <2>5 DEF WholeFrame, SwBase
<1>3. CheckCrc \/ UNCHANGED <<pc, rxWorkingSlot, rxlen>>
  BY DEF Next, RmiiEdge, SettleEdge, FrameBegins, FalseStart, WordArrives, FrameEnds,
         SyncSlot, SyncReset, Driver, EnableRx, EnableTx, InitSlot, CheckError, ErrorSlot,
         ErrorEnable, FindReadySlot, AcceptSlot, ReadCount, CheckCrc, RejectFrame, DumpPacket,
         ReturnSlot, At, drvVars, vars
<1> QED
  BY <1>1, <1>2, <1>3

-----------------------------------------------------------------------------
(* Theorems *)

\* The inductive invariant holds of every behaviour of MAC and driver.
THEOREM Invariance == Spec => []IInv
<1>1. Init => IInv
  BY InitIInv
<1>2. IInv /\ [Next]_vars => IInv'
  BY NextIInv
<1> QED
  BY <1>1, <1>2, PTL DEF Spec

\* Type correctness of the registers of both clock domains and of the driver.
THEOREM TypeCorrect == Spec => []TypeOK
<1>1. IInv => TypeOK
  BY DEF IInv
<1> QED
  BY <1>1, Invariance, PTL

\* miniMAC_init, nic_check_for_rx and the dump never leave a slot disabled
\* without an owner, whatever the receive engine does meanwhile.
THEOREM SlotsHaveOwners == Spec => []NoSlotLeaked
<1>1. IInv => NoSlotLeaked
  BY DEF IInv, InitInv, NoSlotLeaked, Initialising
<1> QED
  BY <1>1, Invariance, PTL

\* The receive engine stores nothing into the slot the driver works on.
THEOREM OwnedStable == Spec => OwnedMemoryStable
<1>1. IInv /\ [Next]_vars =>
        [rxWorkingSlot # NoSlot => \A a \in HwRegion(rxWorkingSlot) : mem'[a] = mem[a]]_vars
  BY OwnedStep
<1> QED
  BY <1>1, Invariance, PTL DEF Spec, OwnedMemoryStable

\* What the stack reads is one whole frame from the moment nic_check_for_rx has
\* accepted it until the dump, although the driver computes the base of a slot
\* otherwise than the hardware (minimac2.c:88): at a base that is not the
\* hardware's no frame begins.  With slots of five bytes the driver's base of
\* slot 3 would be the hardware's base of slot 2.
THEOREM HeldIntact == ASSUME MTU # 5 PROVE Spec => []HeldFrameIntact
<1>1. Init => HeadInv /\ Held
  BY HeadInit DEF Init, Held
<1>2. IInv /\ HeadInv /\ Held /\ [Next]_vars => HeadInv' /\ Held'
  BY HeadStep, HeldStep
<1>3. Held => HeldFrameIntact
  BY DEF Held, HeldFrameIntact
<1> QED
  BY <1>1, <1>2, <1>3, Invariance, PTL DEF Spec
=============================================================================
