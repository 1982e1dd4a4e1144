----------------------------- MODULE Xip_proofs -----------------------------
(* Proofs about execution in place (Xip.tla): types, the inductive invariant, and
   the memory each side of the processor sees. The lemmas follow the hardware:
   the two masters, the session of the flash, the adapter between them.         *)
EXTENDS Xip, TLAPS

-----------------------------------------------------------------------------
(* The flash *)

\* One clock of the flash controller keeps the types of its registers, whatever
\* it is asked for.
LEMMA FlashTypes ==
  ASSUME FlashTypeOK, NEW sel \in BOOLEAN, NEW adr \in Nat, FlashClock(sel, adr)
  PROVE  FlashTypeOK'
<1> USE FlashAssumption DEF FlashTypeOK, NoAddress, CLK_COUNT_DESEL
<1>0. /\ FLASH_IDLE \in 0..FLASH_IDLE /\ SPI_ADR_BYTES \in 1..SPI_ADR_BYTES
      /\ CLK_COUNT_DESEL \in 0..CLK_COUNT_DESEL
  OBVIOUS
<1>1. tb' \in 0..TB_PERIOD - 1
  BY DEF FlashClock, Timebase, idle_tb_pulse
<1>2. Shifting => /\ spi_state' \in {"IDLE", "SEND_ADR", "SHIFT_ADR", "SHIFT_BYTE", "GIVE_ACK"}
                  /\ clk_count' \in 0..CLK_COUNT_DESEL
                  /\ adr_count' \in 1..SPI_ADR_BYTES
  BY DEF Shifting
<1>3. ShiftByte => /\ spi_state' \in {"IDLE", "SEND_ADR", "SHIFT_ADR", "SHIFT_BYTE", "GIVE_ACK"}
                   /\ clk_count' \in 0..CLK_COUNT_DESEL
                   /\ adr_count' \in 1..SPI_ADR_BYTES
  BY DEF ShiftByte
<1>4. Idling => idle_timer' \in 0..FLASH_IDLE
  BY DEF Idling
<1>5. CASE StayIdle(sel)
  <2>1. /\ fl_ack' = FALSE /\ Shifting /\ Idling
        /\ UNCHANGED <<fl_state, reg_ispi_adr, sr, dev>>
    BY <1>5, Zenon DEF StayIdle
  <2> QED
    BY <1>1, <1>2, <1>4, <2>1
<1>6. CASE OpenSession(sel, adr)
  <2>1. /\ fl_state' = "R_CMD" /\ reg_ispi_adr' = adr /\ idle_timer' = FLASH_IDLE
        /\ fl_ack' = FALSE /\ ShiftByte /\ UNCHANGED <<sr, dev>>
    BY <1>6, Zenon DEF OpenSession
  <2> QED
    BY <1>0, <1>1, <1>3, <2>1, Zenon
<1>7. CASE SendCommand
  BY <1>0, <1>1, <1>2, <1>4, <1>7 DEF SendCommand
<1>8. CASE SendAddress
  BY <1>1, <1>2, <1>3, <1>4, <1>8 DEF SendAddress
<1>9. CASE ReadByte(sel)
  <2>1. fl_ack' \in BOOLEAN
    BY <1>9 DEF ReadByte, spi_ack
  <2>2. sr' \in Nat \cup {NoAddress} /\ dev' \in Nat \cup {NoAddress} /\ reg_ispi_adr' \in Nat
    BY <1>9 DEF ReadByte
  <2>3. idle_timer' \in 0..FLASH_IDLE
    BY <1>4, <1>9 DEF ReadByte
  <2>4. fl_state' \in {"IDLE", "R_CMD", "R_ADR", "R_DAT", "R_WAIT"}
    BY <1>9 DEF ReadByte
  <2> QED
    BY <1>1, <1>2, <1>9, <2>1, <2>2, <2>3, <2>4 DEF ReadByte
<1>10. CASE ContinueSession(sel, adr)
  <2>1. /\ fl_state' = "R_DAT" /\ idle_timer' = FLASH_IDLE
        /\ fl_ack' = FALSE /\ ShiftByte /\ UNCHANGED <<reg_ispi_adr, sr, dev>>
    BY <1>10, Zenon DEF ContinueSession
  <2> QED
    BY <1>0, <1>1, <1>3, <2>1, Zenon
<1>11. CASE RestartSession(sel, adr)
  <2>1. /\ fl_state' = "IDLE" /\ spi_state' = "GIVE_ACK" /\ clk_count' = CLK_COUNT_DESEL
        /\ idle_timer' = FLASH_IDLE /\ fl_ack' = FALSE /\ dev' = NoAddress
        /\ UNCHANGED <<adr_count, reg_ispi_adr, sr>>
    BY <1>11, Zenon DEF RestartSession
  <2>2. spi_state' \in {"IDLE", "SEND_ADR", "SHIFT_ADR", "SHIFT_BYTE", "GIVE_ACK"}
    BY <2>1, Zenon
  <2> QED
    BY <1>0, <1>1, <2>1, <2>2, Zenon
<1>12. CASE AwaitNext(sel)
  BY <1>1, <1>2, <1>4, <1>12 DEF AwaitNext
<1> QED
  BY <1>5, <1>6, <1>7, <1>8, <1>9, <1>10, <1>11, <1>12 DEF FlashClock

\* The session stays at the byte that is asked for, if the adapter keeps its
\* request until the answer and withdraws it with the answer.
LEMMA SessionStep ==
  ASSUME FlashTypeOK, spi_transaction \in BOOLEAN, internal_addr \in Nat,
         spi_transaction' \in BOOLEAN, internal_addr' \in Nat,
         SessionInv, FlashClock(spi_transaction, internal_addr),
         spi_transaction /\ ~fl_ack => spi_transaction' /\ internal_addr' = internal_addr,
         spi_transaction /\ fl_ack => ~spi_transaction'
  PROVE  SessionInv'
<1> DEFINE sel == spi_transaction
           adr == internal_addr
<1> USE FlashAssumption DEF FlashTypeOK, SessionInv, spi_ack, idle_tb_pulse, idle_tb_hold, Timebase
<1>1. FlashTypeOK'
  BY FlashTypes
<1>2. CASE StayIdle(sel)
  BY <1>1, <1>2 DEF StayIdle, FlashClock
<1>3. CASE OpenSession(sel, adr)
  BY <1>1, <1>3 DEF OpenSession, FlashClock
<1>4. CASE SendCommand
  BY <1>1, <1>4 DEF SendCommand, FlashClock
<1>5. CASE SendAddress
  <2>1. spi_transaction /\ ~fl_ack /\ reg_ispi_adr = internal_addr /\ tb' = 0
    BY <1>5 DEF SendAddress, FlashClock
  <2>2. spi_transaction' /\ internal_addr' = internal_addr /\ ~fl_ack' /\ reg_ispi_adr' = internal_addr'
    BY <1>5, <2>1 DEF SendAddress
  <2>3. CASE spi_state = "GIVE_ACK"
    <3>1. /\ fl_state' = "R_DAT" /\ dev' = reg_ispi_adr'
          /\ spi_state' = "SHIFT_BYTE" /\ clk_count' = CLK_COUNT_1BYTE
      BY <1>5, <2>3 DEF SendAddress, ShiftByte
    <3>2. clk_count' > 0
      BY <3>1
    <3> QED
      BY <2>2, <3>1, <3>2
  <2>4. CASE spi_state /= "GIVE_ACK"
    <3>1. fl_state' = "R_ADR"
      BY <1>5, <2>4 DEF SendAddress
    <3> QED
      BY <2>1, <2>2, <3>1
  <2> QED
    BY <2>3, <2>4
<1>6. CASE ReadByte(sel)
  <2>1. CASE sel /\ idle_timer = 0
    BY <1>6, <2>1 DEF ReadByte
  <2>2. CASE ~sel
    BY <1>1, <1>6, <2>2 DEF ReadByte, Shifting, NoAddress
  <2>3. CASE sel /\ idle_timer /= 0
    <3>1. fl_state' = "R_DAT" /\ tb' = 0
      BY <1>6, <2>3 DEF ReadByte, FlashClock
    <3>2. dev' = reg_ispi_adr'
      BY <1>6, <2>3 DEF ReadByte, NoAddress
    <3>3. fl_ack' = (spi_state = "GIVE_ACK")
      BY <1>6 DEF ReadByte
    <3>4. CASE fl_ack
      BY <1>6, <2>3, <3>1, <3>2, <3>3, <3>4 DEF ReadByte, Shifting, Idling
    <3>5. CASE ~fl_ack
      <4>1. /\ spi_transaction' /\ internal_addr' = internal_addr
            /\ reg_ispi_adr = internal_addr /\ dev = internal_addr
        BY <1>6, <2>3, <3>5 DEF ReadByte
      <4>2. CASE spi_state = "GIVE_ACK"
        <5>1. /\ fl_ack' /\ sr' = internal_addr /\ reg_ispi_adr' = internal_addr + 1
              /\ spi_state' = "IDLE"
          BY <1>6, <3>3, <4>1, <4>2 DEF ReadByte, Shifting
        <5> QED
          BY <3>1, <3>2, <4>1, <5>1
      <4>3. CASE spi_state /= "GIVE_ACK"
        <5>1. ~fl_ack' /\ reg_ispi_adr' = internal_addr
          BY <1>6, <3>3, <4>1, <4>3 DEF ReadByte
        <5>2. idle_timer' = 0 => spi_state' /= "GIVE_ACK"
          BY <1>6, <2>3, <3>1, <3>5, <4>1, <4>3 DEF ReadByte, Shifting, Idling
        <5> QED
          BY <3>1, <3>2, <4>1, <5>1, <5>2
      <4> QED
        BY <4>2, <4>3
    <3> QED
      BY <3>4, <3>5
  <2> QED
    BY <2>1, <2>2, <2>3
<1>7. CASE ContinueSession(sel, adr)
  <2>1. /\ spi_transaction /\ ~fl_ack /\ internal_addr = reg_ispi_adr
        /\ fl_state' = "R_DAT" /\ fl_ack' = FALSE /\ idle_timer' = FLASH_IDLE
        /\ spi_state' = "SHIFT_BYTE" /\ clk_count' = CLK_COUNT_1BYTE
        /\ UNCHANGED <<reg_ispi_adr, sr, dev>> /\ dev = reg_ispi_adr
    BY <1>7 DEF ContinueSession, ShiftByte
  <2>2. spi_transaction' /\ internal_addr' = internal_addr
    BY <2>1
  <2>3. clk_count' > 0
    BY <2>1
  <2> QED
    BY <2>1, <2>2, <2>3
<1>8. CASE RestartSession(sel, adr)
  BY <1>1, <1>8 DEF RestartSession, FlashClock
<1>9. CASE AwaitNext(sel)
  BY <1>1, <1>9 DEF AwaitNext, Shifting, FlashClock
<1> QED
  BY <1>2, <1>3, <1>4, <1>5, <1>6, <1>7, <1>8, <1>9 DEF FlashClock
-----------------------------------------------------------------------------
(* The two masters *)

\* What a port shows in one clock: a cycle goes on until it is answered, a new one
\* begins with a strobe, and what is wanted advances with each answer.
PortStep(m) ==
  /\ m \in MmCyc \ mm_ack => /\ m \in MmCyc' /\ m \notin MmStb'
                            /\ Want'[m].next = Want[m].next
                            /\ Addr(m)' = Addr(m)
  /\ m \in mm_ack /\ m \in MmCyc' /\ m \notin MmStb' => Want'[m].next = Want[m].next + 1
  /\ m \in MmCyc' /\ m \notin MmCyc => m \in MmStb'
  /\ m \in MmStb' => m \in MmCyc' /\ Want'[m].next = Addr(m)'

\* The masters keep the types of their registers and do to their ports what
\* PortStep says.
LEMMA MastersStep ==
  ASSUME TypeOK, MastersInv, mm_ack \subseteq MmCyc, FetchClock, ExecClock
  PROVE  /\ state_q' \in {"CHECK", "FETCH", "WAIT"} /\ fresh' \in BOOLEAN
         /\ imem_cyc' \in BOOLEAN /\ imem_stb' \in BOOLEAN /\ imem_addr' \in Lines \cup {0}
         /\ resp_word' \in 0..LineWords - 1
         /\ rom_cyc' \in BOOLEAN /\ rom_stb' \in BOOLEAN /\ rom_addr' \in RomWords \cup {0}
         /\ issued' \in 0..InFlight
         /\ imem_cyc' <=> state_q' = "FETCH"
         /\ imem_cyc' => imem_addr' \in Lines
         /\ rom_cyc' => rom_addr' \in RomWords
         /\ PortStep(0) /\ PortStep(1)
<1> USE XipAssumption DEF MastersInv
<1> DEFINE FetchOK ==
             /\ state_q' \in {"CHECK", "FETCH", "WAIT"} /\ fresh' \in BOOLEAN
             /\ imem_cyc' \in BOOLEAN /\ imem_stb' \in BOOLEAN /\ imem_addr' \in Lines \cup {0}
             /\ resp_word' \in 0..LineWords - 1
             /\ imem_cyc' <=> state_q' = "FETCH"
             /\ imem_cyc' => imem_addr' \in Lines
           ExecOK ==
             /\ rom_cyc' \in BOOLEAN /\ rom_stb' \in BOOLEAN /\ rom_addr' \in RomWords \cup {0}
             /\ issued' \in 0..InFlight
             /\ rom_cyc' => rom_addr' \in RomWords
<1>1. /\ 0 \in MmCyc <=> imem_cyc
      /\ 0 \in MmCyc' <=> imem_cyc'
      /\ 0 \in MmStb' <=> imem_stb'
      /\ Addr(0) = imem_addr - FLASH_OFFSET /\ Addr(0)' = imem_addr' - FLASH_OFFSET
      /\ imem_cyc => Want[0].next = imem_addr - FLASH_OFFSET + resp_word
      /\ imem_cyc' => Want'[0].next = imem_addr' - FLASH_OFFSET + resp_word'
  BY DEF MmCyc, MmStb, Addr, Want, Masters
<1>2. /\ 1 \in MmCyc <=> rom_cyc
      /\ 1 \in MmCyc' <=> rom_cyc'
      /\ 1 \in MmStb' <=> rom_stb'
      /\ Addr(1) = rom_addr - FLASH_OFFSET /\ Addr(1)' = rom_addr' - FLASH_OFFSET
      /\ rom_cyc => Want[1].next = rom_addr - FLASH_OFFSET + 0
      /\ rom_cyc' => Want'[1].next = rom_addr' - FLASH_OFFSET + 0
  BY DEF MmCyc, MmStb, Addr, Want, Masters
<1>3. FetchOK /\ PortStep(0)
  <2>1. ASSUME NEW l \in Lines, Miss(l) PROVE FetchOK /\ PortStep(0)
    <3>1. /\ ~imem_cyc /\ imem_cyc' /\ imem_stb' /\ imem_addr' = l /\ resp_word' = 0
          /\ state_q' = "FETCH" /\ UNCHANGED fresh
      BY <2>1 DEF Miss
    <3>2. FetchOK
      BY <2>1, <3>1 DEF Miss, TypeOK
    <3>3. l - FLASH_OFFSET \in Int
      BY <2>1
    <3>4. PortStep(0)
      BY <1>1, <3>1, <3>3 DEF PortStep
    <3> QED
      BY <3>2, <3>4
  <2>2. CASE NoMiss \/ LineFetched
    <3>1. /\ ~imem_cyc /\ ~imem_cyc'
          /\ UNCHANGED <<imem_cyc, imem_stb, imem_addr, resp_word>>
      BY <2>2 DEF NoMiss, LineFetched, TypeOK
    <3>2. FetchOK
      BY <2>2, <3>1 DEF NoMiss, LineFetched, TypeOK
    <3>3. ~imem_stb
      BY <1>1, <3>1 DEF MmStb, MmCyc
    <3>4. PortStep(0)
      BY <1>1, <3>1, <3>3 DEF PortStep
    <3> QED
      BY <3>2, <3>4
  <2>3. CASE FetchLine
    <3>1. /\ imem_cyc /\ imem_addr \in Lines /\ resp_word \in 0..LineWords - 1
          /\ imem_stb' = FALSE /\ imem_addr' = imem_addr /\ fresh' \in BOOLEAN
      BY <2>3 DEF FetchLine, TypeOK
    <3>2. imem_addr - FLASH_OFFSET \in Int
      BY <3>1
    <3>3. CASE 0 \in mm_ack /\ resp_word = LineWords - 1
      <4>1. state_q' = "WAIT" /\ imem_cyc' = FALSE /\ resp_word' = 0
        BY <2>3, <3>3 DEF FetchLine
      <4>2. resp_word' \in 0..LineWords - 1
        BY <4>1
      <4>3. FetchOK
        BY <3>1, <4>1, <4>2
      <4> QED
        BY <1>1, <3>1, <3>3, <4>1, <4>3 DEF PortStep
    <3>4. CASE 0 \in mm_ack /\ resp_word /= LineWords - 1
      <4>1. state_q' = "FETCH" /\ imem_cyc' = TRUE /\ resp_word' = resp_word + 1
        BY <2>3, <3>4 DEF FetchLine
      <4>2. resp_word' \in 0..LineWords - 1
        BY <3>1, <3>4, <4>1
      <4>4. FetchOK
        BY <3>1, <4>1, <4>2
      <4>3. Want'[0].next = Want[0].next + 1
        BY <1>1, <3>1, <3>2, <4>1
      <4> QED
        BY <1>1, <3>1, <3>4, <4>1, <4>3, <4>4 DEF PortStep
    <3>5. CASE 0 \notin mm_ack
      <4>1. state_q' = "FETCH" /\ imem_cyc' = TRUE /\ resp_word' = resp_word
        BY <2>3, <3>5 DEF FetchLine
      <4>2. FetchOK
        BY <3>1, <3>5, <4>1 DEF TypeOK
      <4>3. Want'[0].next = Want[0].next
        BY <1>1, <3>1, <4>1
      <4> QED
        BY <1>1, <3>1, <3>5, <4>1, <4>2, <4>3 DEF PortStep
    <3> QED
      BY <3>3, <3>4, <3>5
  <2> QED
    BY <2>1, <2>2, <2>3 DEF FetchClock
<1>4. ExecOK /\ PortStep(1)
  <2>1. CASE \E w \in RomWords : Load(w)
    BY <1>2, <2>1 DEF Load, TypeOK, PortStep
  <2>2. CASE NoLoad
    <3>1. rom_stb' = FALSE /\ rom_cyc' = (rom_cyc /\ 1 \notin mm_ack) /\ rom_addr' = rom_addr
      BY <2>2 DEF NoLoad
    <3>2. issued' \in 0..InFlight
      BY <2>2 DEF NoLoad, TypeOK
    <3>3. CASE 1 \in mm_ack
      <4>1. rom_cyc' = FALSE
        BY <3>1, <3>3
      <4> QED
        BY <1>2, <3>1, <3>2, <3>3, <4>1 DEF TypeOK, PortStep
    <3>4. CASE 1 \notin mm_ack
      <4>1. rom_cyc' = rom_cyc
        BY <3>1, <3>4 DEF TypeOK
      <4>2. ExecOK
        BY <3>1, <3>2, <4>1 DEF TypeOK
      <4> QED
        BY <1>2, <3>1, <3>4, <4>1, <4>2 DEF PortStep
    <3> QED
      BY <3>3, <3>4
  <2> QED
    BY <2>1, <2>2 DEF ExecClock
<1> QED
  BY <1>3, <1>4
-----------------------------------------------------------------------------
(* The adapter *)

\* What is wanted is a word of the flash.
LEMMA WantsWords ==
  ASSUME TypeOK, MastersInv, StrobesAreOwed
  PROVE  /\ \A m \in MmCyc : Want[m].next \in Nat
         /\ \A m \in strobes : Addr(m) \in Nat
<1> USE XipAssumption
<1>1. imem_cyc => imem_addr - FLASH_OFFSET \in Nat
  BY DEF MastersInv
<1>2. rom_cyc => rom_addr - FLASH_OFFSET \in Nat
  BY DEF MastersInv
<1>3. imem_cyc => Want[0].next = imem_addr - FLASH_OFFSET + resp_word
  BY DEF Want, Masters
<1>4. rom_cyc => Want[1].next = rom_addr - FLASH_OFFSET + 0
  BY DEF Want, Masters
<1>5. resp_word \in Nat
  BY DEF TypeOK
<1>6. (0 \in MmCyc => imem_cyc) /\ (1 \in MmCyc => rom_cyc) /\ MmCyc \subseteq {0, 1}
  BY DEF MmCyc
<1>7. \A m \in strobes : m \in MmCyc
  BY DEF StrobesAreOwed
<1>8. Addr(0) = imem_addr - FLASH_OFFSET /\ Addr(1) = rom_addr - FLASH_OFFSET
  BY DEF Addr
<1>9. FLASH_OFFSET \in Int
  OBVIOUS
<1>10. imem_cyc => Want[0].next \in Nat
  BY <1>1, <1>3, <1>5
<1>11. rom_cyc => Want[1].next \in Nat
  BY <1>2, <1>4
<1> QED
  BY <1>1, <1>2, <1>6, <1>7, <1>8, <1>10, <1>11

\* While a word is read its master waits: the byte that came is stored, and with
\* the fourth the word is the one that is wanted.
LEMMA ReadingStep ==
  ASSUME TypeOK, StrobesAreOwed, MastersInv, ReaderInv, fl_ack => sr = internal_addr,
         PortStep(0), PortStep(1), ArbiterClock, ReaderClock, busy
  PROVE  /\ arbiter_state = "SEL" /\ arbiter_state' = "SEL" /\ selected' = selected
         /\ mm_ack = {} /\ selected \in MmCyc /\ selected \in MmCyc'
         /\ ~Start /\ continues' = {} /\ selected \notin strobes' \cup MmStb'
         /\ Want'[selected].next = Want[selected].next
         /\ (spi_transaction' <=> ~fl_ack)
         /\ ~fl_ack => busy' /\ ~word_ack' /\ internal_addr' = internal_addr /\ data_buf' = data_buf
         /\ fl_ack => /\ internal_addr' = internal_addr + 1
                      /\ data_buf' = [data_buf EXCEPT ![byte_n] = internal_addr]
                      /\ (busy' <=> byte_n /= 3) /\ (word_ack' <=> byte_n = 3)
<1>1. arbiter_state = "SEL" /\ ~word_ack /\ selected \in MmCyc /\ continues = {}
  BY DEF ReaderInv
<1>2. mm_ack = {}
  BY <1>1 DEF mm_ack
<1>3. ~Start
  BY DEF Start
<1>4. arbiter_state' = "SEL" /\ selected' = selected /\ continues' = {}
  BY <1>1 DEF ArbiterClock
<1>5. selected \notin strobes \cup MmStb
  BY DEF StrobesAreOwed, MastersInv
<1>6. strobes' = strobes \cup MmStb
  BY <1>3 DEF ArbiterClock, Strobes
<1>7. selected = 0 \/ selected = 1
  BY DEF TypeOK, Masters
<1>8. selected \in MmCyc' /\ selected \notin MmStb' /\ Want'[selected].next = Want[selected].next
  BY <1>1, <1>2, <1>7 DEF PortStep
<1>9. spi_transaction' <=> ~fl_ack
  BY DEF ReaderClock
<1>10. ~fl_ack => busy' /\ ~word_ack' /\ internal_addr' = internal_addr /\ data_buf' = data_buf
  BY <1>1, <1>3 DEF ReaderClock, ByteDone
<1>11. fl_ack => /\ internal_addr' = internal_addr + 1
                 /\ data_buf' = [data_buf EXCEPT ![byte_n] = internal_addr]
                 /\ (busy' <=> byte_n /= 3) /\ (word_ack' <=> byte_n = 3)
  BY <1>1, <1>3 DEF ReaderClock, ByteDone
<1> QED
  BY <1>1, <1>2, <1>3, <1>4, <1>5, <1>6, <1>8, <1>9, <1>10, <1>11

\* A word begins at the address that is wanted, for a strobe or for the next word
\* of the cycle.
LEMMA StartStep ==
  ASSUME TypeOK, StrobesAreOwed, MastersInv, ReaderInv,
         PortStep(0), PortStep(1), ArbiterClock, ReaderClock, Start
  PROVE  /\ ~busy /\ ~word_ack /\ ~spi_transaction /\ ~spi_transaction'
         /\ arbiter_state = "SEL" /\ arbiter_state' = "SEL" /\ selected' = selected
         /\ mm_ack = {} /\ selected \in MmCyc /\ selected \in MmCyc'
         /\ continues' = {} /\ selected \notin strobes' \cup MmStb'
         /\ Want'[selected].next = Want[selected].next
         /\ busy' /\ ~word_ack' /\ data_buf' = data_buf
         /\ internal_addr' = 4 * Want[selected].next
<1>1. ~busy /\ arbiter_state = "SEL" /\ selected \in MmCyc /\ selected \in strobes \cup continues
  BY DEF Start
<1>2. ~word_ack
  BY <1>1 DEF StrobesAreOwed, ReaderInv, mm_ack
<1>3. mm_ack = {}
  BY <1>2 DEF mm_ack
<1>4. arbiter_state' = "SEL" /\ selected' = selected /\ continues' = {}
  BY <1>1, <1>2 DEF ArbiterClock
<1>5. selected = 0 \/ selected = 1
  BY DEF TypeOK, Masters
<1>6. selected \in MmCyc' /\ selected \notin MmStb' /\ Want'[selected].next = Want[selected].next
  BY <1>1, <1>3, <1>5 DEF PortStep
<1>7. selected \notin strobes'
  BY DEF ArbiterClock, Strobes
<1>8. ~spi_transaction /\ ~spi_transaction'
  BY <1>1 DEF ReaderInv, ReaderClock
<1>9. ~word_ack' /\ data_buf' = data_buf
  BY <1>1 DEF ReaderClock, ByteDone
<1>10. busy'
  BY <1>1 DEF ReaderClock
<1>11. internal_addr' = 4 * Want[selected].next
  <2>1. CASE selected \in strobes
    <3>1. Want[selected].next = Addr(selected)
      BY <2>1 DEF MastersInv
    <3>2. flash_addr_corrected = Addr(selected)
      BY DEF flash_addr_corrected, Addr
    <3> QED
      BY <1>1, <2>1, <3>1, <3>2 DEF ReaderClock, ByteDone
  <2>2. CASE selected \notin strobes
    <3>1. selected \in continues /\ internal_addr' = internal_addr
      BY <1>1, <2>2 DEF ReaderClock, ByteDone
    <3> QED
      BY <1>1, <2>2, <3>1 DEF ReaderInv
  <2> QED
    BY <2>1, <2>2
<1> QED
  BY <1>1, <1>2, <1>3, <1>4, <1>6, <1>7, <1>8, <1>9, <1>10, <1>11

\* Between words only the arbiter moves: an answered master is let go, or goes on
\* to its next word.
LEMMA WaitingStep ==
  ASSUME TypeOK, StrobesAreOwed, MastersInv, ReaderInv,
         PortStep(0), PortStep(1), ArbiterClock, ReaderClock, ~busy, ~Start
  PROVE  /\ ~spi_transaction /\ ~spi_transaction' /\ ~busy' /\ ~word_ack' /\ mm_ack' = {}
         /\ internal_addr' = internal_addr /\ data_buf' = data_buf
         /\ ReaderInv'
<1>1. ~spi_transaction /\ ~spi_transaction'
  BY DEF ReaderInv, ReaderClock
<1>2. ~busy'
  BY DEF ReaderClock
<1>3. ~word_ack' /\ internal_addr' = internal_addr /\ data_buf' = data_buf
  BY DEF ReaderClock, ByteDone
<1>4. mm_ack' = {}
  BY <1>3 DEF mm_ack
<1>5. strobes' = strobes \cup MmStb
  BY DEF ArbiterClock, Strobes
<1>6. selected = 0 \/ selected = 1
  BY DEF TypeOK, Masters
<1> DEFINE Going  == arbiter_state' = "SEL" /\ selected' \in continues'
           Onward == selected' \in MmCyc' \ (MmStb' \cup strobes')
                       => internal_addr' = 4 * Want'[selected'].next
           Selection ==
             /\ continues' \subseteq {selected'}
             /\ continues' /= {} => arbiter_state' \in {"SEL", "DESEL"}
             /\ Going => selected' \notin MmStb'
             /\ arbiter_state' = "AWAIT_DESEL" \/ Going => Onward
<1>12. Selection => ReaderInv'
  BY <1>1, <1>2, <1>3, Zenon DEF ReaderInv
<1> HIDE DEF Selection, Going, Onward
<1>7. CASE arbiter_state = "NO_SELECTION"
  <2>1. ~word_ack /\ continues' = {} /\ arbiter_state' \in {"NO_SELECTION", "SEL"}
    BY <1>7 DEF ReaderInv, ArbiterClock
  <2>2. Selection
    BY <2>1 DEF Selection, Going, Onward
  <2> QED
    BY <1>1, <1>2, <1>3, <1>4, <1>12, <2>2
<1>8. CASE arbiter_state = "DESEL"
  <2>1. continues' = {} /\ arbiter_state' = "NO_SELECTION"
    BY <1>8 DEF ReaderInv, ArbiterClock
  <2>2. Selection
    BY <2>1 DEF Selection, Going, Onward
  <2> QED
    BY <1>1, <1>2, <1>3, <1>4, <1>12, <2>2
<1>9. CASE arbiter_state = "SEL" /\ ~word_ack
  <2>1. continues' = {} /\ arbiter_state' \in {"SEL", "DESEL"}
    BY <1>9 DEF ReaderInv, ArbiterClock
  <2>2. Selection
    BY <2>1 DEF Selection, Going, Onward
  <2> QED
    BY <1>1, <1>2, <1>3, <1>4, <1>12, <2>2
<1>10. CASE arbiter_state = "SEL" /\ word_ack
  <2>1. selected \in MmCyc /\ mm_ack = {selected} /\ internal_addr = 4 * Want[selected].next + 4
    BY <1>10 DEF ReaderInv, mm_ack
  <2>2. continues' = {} /\ arbiter_state' = "AWAIT_DESEL" /\ selected' = selected
    BY <1>10, <2>1 DEF ArbiterClock
  <2>3. ASSUME selected \in MmCyc', selected \notin MmStb'
        PROVE  internal_addr' = 4 * Want'[selected].next
    <3>1. Want'[selected].next = Want[selected].next + 1
      BY <1>6, <2>1, <2>3 DEF PortStep
    <3>2. Want[selected].next \in Int
      BY <2>1, WantsWords
    <3> QED
      BY <1>3, <2>1, <3>1, <3>2
  <2>4. Selection
    BY <2>2, <2>3 DEF Selection, Going, Onward
  <2> QED
    BY <1>1, <1>2, <1>3, <1>4, <1>12, <2>4
<1>11. CASE arbiter_state = "AWAIT_DESEL"
  <2>1. ~word_ack /\ mm_ack = {}
    BY <1>11 DEF ReaderInv, mm_ack
  <2>2. continues' = {selected} /\ selected' = selected
    BY <1>11, <2>1 DEF ArbiterClock
  <2>3. arbiter_state' = IF selected \in MmCyc THEN "SEL" ELSE "DESEL"
    BY <1>11, <2>1 DEF ArbiterClock
  <2>4. ASSUME selected \in MmCyc
        PROVE  /\ selected \notin MmStb' /\ Want'[selected].next = Want[selected].next
               /\ selected \in MmCyc'
    BY <1>6, <2>1, <2>4 DEF PortStep
  <2>5. selected \in MmCyc \ (MmStb \cup strobes) => internal_addr = 4 * Want[selected].next
    BY <1>11 DEF ReaderInv
  <2>6. Selection
    BY <1>3, <1>5, <2>2, <2>3, <2>4, <2>5 DEF Selection, Going, Onward
  <2> QED
    BY <1>1, <1>2, <1>3, <1>4, <1>12, <2>6
<1> QED
  BY <1>1, <1>2, <1>3, <1>4, <1>7, <1>8, <1>9, <1>10, <1>11 DEF TypeOK

\* A strobe stays with its master and its address until it is served.
LEMMA StrobesStep ==
  ASSUME TypeOK, StrobesAreOwed, MastersInv, PortStep(0), PortStep(1), ArbiterClock
  PROVE  /\ \A m \in strobes' : m \in MmCyc' /\ m \notin MmStb' /\ Want'[m].next = Addr(m)'
         /\ \A m \in MmStb' : m \in MmCyc' /\ Want'[m].next = Addr(m)'
         /\ strobes' \subseteq Masters
<1>1. MmStb \subseteq {0, 1} /\ MmStb' \subseteq {0, 1} /\ strobes \subseteq {0, 1}
  BY DEF MmStb, TypeOK, Masters
<1>2. strobes' \subseteq strobes \cup MmStb
  BY DEF ArbiterClock, Strobes
<1>3. \A m \in {0, 1} : PortStep(m)
  OBVIOUS
<1>4. ASSUME NEW m \in strobes'
      PROVE  m \in MmCyc' /\ m \notin MmStb' /\ Want'[m].next = Addr(m)'
  <2>1. m \in MmCyc \ mm_ack /\ Want[m].next = Addr(m)
    BY <1>2, <1>4 DEF StrobesAreOwed, MastersInv
  <2>2. PortStep(m)
    BY <1>1, <1>2, <1>3, <1>4
  <2> QED
    BY <2>1, <2>2 DEF PortStep
<1>5. ASSUME NEW m \in MmStb'
      PROVE  m \in MmCyc' /\ Want'[m].next = Addr(m)'
  <2>1. PortStep(m)
    BY <1>1, <1>3, <1>5
  <2> QED
    BY <1>5, <2>1 DEF PortStep
<1> QED
  BY <1>1, <1>2, <1>4, <1>5 DEF Masters

\* One clock of the adapter keeps its invariant, and does to the flash what
\* SessionStep asks for.
LEMMA AdapterStep ==
  ASSUME IInv, FetchClock, ExecClock, ArbiterClock, ReaderClock
  PROVE  /\ StrobesAreOwed' /\ MastersInv' /\ ReaderInv'
         /\ internal_addr' \in Nat /\ data_buf' \in [0..3 -> Nat \cup {NoAddress}]
         /\ spi_transaction /\ ~fl_ack => spi_transaction' /\ internal_addr' = internal_addr
         /\ spi_transaction /\ fl_ack => ~spi_transaction'
         /\ word_ack' => data_buf' = Rom!Word(Want'[selected'].next)
<1> USE DEF IInv
<1>1. mm_ack \subseteq MmCyc
  BY DEF mm_ack, ReaderInv
<1>2. /\ PortStep(0) /\ PortStep(1)
      /\ imem_cyc' <=> state_q' = "FETCH"
      /\ imem_cyc' => imem_addr' \in Lines
      /\ rom_cyc' => rom_addr' \in RomWords
  BY <1>1, MastersStep
<1>3. /\ \A m \in strobes' : m \in MmCyc' /\ m \notin MmStb' /\ Want'[m].next = Addr(m)'
      /\ \A m \in MmStb' : m \in MmCyc' /\ Want'[m].next = Addr(m)'
  BY <1>2, StrobesStep
<1>4. \A m \in MmCyc : Want[m].next \in Nat
  BY WantsWords
<1>5. internal_addr \in Nat /\ data_buf \in [0..3 -> Nat \cup {NoAddress}]
  BY DEF TypeOK
<1> DEFINE Served == \A m \in strobes' \cup MmStb' : ~(busy' /\ m = selected') /\ m \notin mm_ack'
<1>6. Served => StrobesAreOwed' /\ MastersInv'
  <2>1. Served => StrobesAreOwed'
    BY <1>3 DEF StrobesAreOwed
  <2>2. Served => MastersInv'
    BY <1>2, <1>3 DEF MastersInv
  <2> QED
    BY <2>1, <2>2
<1>7. CASE busy
  <2>1. fl_ack => sr = internal_addr
    BY DEF SessionInv
  <2>2. /\ arbiter_state = "SEL" /\ arbiter_state' = "SEL" /\ selected' = selected
        /\ selected \in MmCyc /\ selected \in MmCyc'
        /\ continues' = {} /\ selected \notin strobes' \cup MmStb'
        /\ Want'[selected].next = Want[selected].next
        /\ (spi_transaction' <=> ~fl_ack)
        /\ ~fl_ack => busy' /\ ~word_ack' /\ internal_addr' = internal_addr /\ data_buf' = data_buf
        /\ fl_ack => /\ internal_addr' = internal_addr + 1
                     /\ data_buf' = [data_buf EXCEPT ![byte_n] = internal_addr]
                     /\ (busy' <=> byte_n /= 3) /\ (word_ack' <=> byte_n = 3)
    BY <1>2, <1>7, <2>1, ReadingStep
  <2>3. Served
    BY <2>2 DEF mm_ack
  <2> DEFINE w == Want[selected].next
  <2>4. /\ w \in Nat /\ internal_addr \in 4 * w .. 4 * w + 3
        /\ \A k \in 0..3 : 4 * w + k < internal_addr => data_buf[k] = 4 * w + k
    BY <1>4, <1>7, <2>2 DEF ReaderInv
  <2> HIDE DEF w
  <2>5. byte_n = internal_addr - 4 * w /\ byte_n \in 0..3
    BY <2>4 DEF byte_n
  <2>6. internal_addr' \in Nat /\ data_buf' \in [0..3 -> Nat \cup {NoAddress}]
    BY <1>5, <2>2, <2>5
  <2>7. fl_ack => \A k \in 0..3 : k <= byte_n => data_buf'[k] = 4 * w + k
    <3>1. SUFFICES ASSUME fl_ack, NEW k \in 0..3, k <= byte_n
                   PROVE  data_buf'[k] = 4 * w + k
      OBVIOUS
    <3>2. CASE k = byte_n
      BY <1>5, <2>2, <2>4, <2>5, <3>1, <3>2
    <3>3. CASE k /= byte_n
      <4>1. data_buf'[k] = data_buf[k] /\ 4 * w + k < internal_addr
        BY <1>5, <2>2, <2>4, <2>5, <3>1, <3>3
      <4> QED
        BY <2>4, <4>1
    <3> QED
      BY <3>2, <3>3
  <2> DEFINE Read == /\ busy' => /\ ~word_ack'
                                 /\ internal_addr' \in 4 * w .. 4 * w + 3
                                 /\ \A k \in 0..3 : 4 * w + k < internal_addr'
                                                      => data_buf'[k] = 4 * w + k
                     /\ word_ack' => internal_addr' = 4 * w + 4
                     /\ spi_transaction' => busy'
  <2>8. Read
    <3>1. CASE ~fl_ack
      BY <2>2, <2>4, <3>1
    <3>2. CASE fl_ack /\ byte_n = 3
      <4>1. ~busy' /\ word_ack' /\ ~spi_transaction'
        BY <2>2, <3>2
      <4>2. internal_addr' = 4 * w + 4
        BY <2>2, <2>4, <2>5, <3>2
      <4> QED
        BY <4>1, <4>2
    <3>3. CASE fl_ack /\ byte_n /= 3
      <4>1. /\ busy' /\ ~word_ack' /\ ~spi_transaction'
            /\ internal_addr' = internal_addr + 1 /\ byte_n <= 2
        <5>1. busy' /\ ~word_ack' /\ ~spi_transaction'
          BY <2>2, <3>3
        <5>2. byte_n <= 2
          BY <2>5, <3>3
        <5> QED
          BY <2>2, <3>3, <5>1, <5>2
      <4>2. internal_addr' \in 4 * w .. 4 * w + 3
        BY <2>4, <2>5, <4>1
      <4>3. \A k \in 0..3 : 4 * w + k < internal_addr' => data_buf'[k] = 4 * w + k
        <5>1. \A k \in 0..3 : 4 * w + k < internal_addr' => k <= byte_n
          BY <2>4, <2>5, <4>1
        <5> QED
          BY <2>7, <3>3, <5>1
      <4> QED
        BY <4>1, <4>2, <4>3
    <3> QED
      BY <3>1, <3>2, <3>3
  <2>9. ReaderInv'
    <3>1. Want'[selected'].next = w
      BY <2>2 DEF w
    <3> QED
      BY <2>2, <2>8, <3>1 DEF ReaderInv
  <2>10. word_ack' => data_buf' = Rom!Word(w)
    <3>1. word_ack' => fl_ack /\ byte_n = 3
      BY <2>2
    <3>2. word_ack' => \A k \in 0..3 : data_buf'[k] = 4 * w + k
      BY <2>5, <2>7, <3>1
    <3> QED
      BY <2>6, <3>2 DEF Rom!Word
  <2> QED
    BY <1>6, <2>2, <2>3, <2>6, <2>9, <2>10 DEF w
<1>8. CASE Start
  <2>1. /\ ~busy /\ ~word_ack /\ ~spi_transaction /\ ~spi_transaction'
        /\ arbiter_state = "SEL" /\ arbiter_state' = "SEL" /\ selected' = selected
        /\ selected \in MmCyc /\ selected \in MmCyc'
        /\ continues' = {} /\ selected \notin strobes' \cup MmStb'
        /\ Want'[selected].next = Want[selected].next
        /\ busy' /\ ~word_ack' /\ data_buf' = data_buf
        /\ internal_addr' = 4 * Want[selected].next
    BY <1>2, <1>8, StartStep
  <2>2. Served
    BY <2>1 DEF mm_ack
  <2> DEFINE w == Want[selected].next
  <2>3. w \in Nat
    BY <1>4, <2>1
  <2>4. internal_addr' \in 4 * w .. 4 * w + 3 /\ \A k \in 0..3 : ~(4 * w + k < internal_addr')
    BY <2>1, <2>3
  <2>5. ReaderInv'
    <3>1. Want'[selected'].next = w
      BY <2>1
    <3> HIDE DEF w
    <3> QED
      BY <2>1, <2>4, <3>1 DEF ReaderInv
  <2>6. internal_addr' \in Nat
    BY <2>1, <2>3
  <2>7. data_buf' \in [0..3 -> Nat \cup {NoAddress}]
    BY <1>5, <2>1
  <2> HIDE DEF Served, w
  <2> QED
    BY <1>6, <2>1, <2>2, <2>5, <2>6, <2>7
<1>9. CASE ~busy /\ ~Start
  <2>1. /\ ~spi_transaction /\ ~spi_transaction' /\ ~busy' /\ ~word_ack' /\ mm_ack' = {}
        /\ internal_addr' = internal_addr /\ data_buf' = data_buf
        /\ ReaderInv'
    BY <1>2, <1>9, WaitingStep
  <2>2. Served
    BY <2>1
  <2>3. internal_addr' \in Nat /\ data_buf' \in [0..3 -> Nat \cup {NoAddress}]
    BY <1>5, <2>1
  <2> HIDE DEF Served
  <2> QED
    BY <1>6, <2>1, <2>2, <2>3
<1> QED
  BY <1>7, <1>8, <1>9

\* The registers of the adapter keep their types.
LEMMA AdapterTypes ==
  ASSUME TypeOK, ArbiterClock, ReaderClock
  PROVE  /\ arbiter_state' \in {"NO_SELECTION", "SEL", "AWAIT_DESEL", "DESEL"}
         /\ selected' \in Masters
         /\ strobes' \subseteq Masters /\ continues' \subseteq Masters
         /\ busy' \in BOOLEAN /\ spi_transaction' \in BOOLEAN /\ word_ack' \in BOOLEAN
<1>1. arbiter_state' \in {"NO_SELECTION", "SEL", "AWAIT_DESEL", "DESEL"}
  BY DEF TypeOK, ArbiterClock
<1>2. selected' \in Masters /\ continues' \subseteq Masters
  BY DEF TypeOK, ArbiterClock, Masters
<1>3. strobes' \subseteq Masters
  <2>1. MmStb \subseteq Masters
    BY DEF MmStb, Masters
  <2> QED
    BY <2>1 DEF TypeOK, ArbiterClock, Strobes
<1>4. Start \in BOOLEAN
  BY DEF Start
<1>5. busy' \in BOOLEAN /\ spi_transaction' \in BOOLEAN /\ word_ack' \in BOOLEAN
  BY <1>4, Zenon DEF TypeOK, FlashTypeOK, ReaderClock, ByteDone
<1> QED
  BY <1>1, <1>2, <1>3, <1>5
-----------------------------------------------------------------------------
(* The invariant *)

LEMMA InitIInv == Init => IInv
<1> SUFFICES ASSUME Init PROVE IInv
  OBVIOUS
<1> USE FlashAssumption, XipAssumption
<1>1. FlashTypeOK
  <2>1. /\ 0 \in 0..TB_PERIOD - 1 /\ TB_PERIOD \div 2 \in 0..TB_PERIOD - 1
        /\ CLK_COUNT_DESEL \in 0..CLK_COUNT_DESEL /\ 1 \in 1..SPI_ADR_BYTES
        /\ FLASH_IDLE \in 0..FLASH_IDLE
    BY DEF CLK_COUNT_DESEL
  <2> QED
    BY <2>1 DEF Init, FlashInit, FlashTypeOK, NoAddress
<1>2. TypeOK
  <2>1. 0 \in 0..LineWords - 1 /\ 0 \in 0..InFlight
    OBVIOUS
  <2> QED
    BY <1>1, <2>1 DEF Init, TypeOK, Masters, NoAddress
<1>3. MmCyc = {} /\ MmStb = {} /\ mm_ack = {}
  BY DEF Init, MmCyc, MmStb, mm_ack
<1>4. StrobesAreOwed
  BY DEF Init, StrobesAreOwed
<1>5. MastersInv
  BY <1>3 DEF Init, MastersInv
<1>6. ReaderInv
  BY DEF Init, ReaderInv
<1>7. SessionInv
  BY DEF Init, FlashInit, SessionInv
<1> QED
  BY <1>2, <1>4, <1>5, <1>6, <1>7 DEF IInv

LEMMA NextIInv == IInv /\ [Next]_vars => IInv'
<1> SUFFICES ASSUME IInv, [Next]_vars PROVE IInv'
  OBVIOUS
<1>1. CASE Next
  <2>1. FetchClock /\ ExecClock /\ ArbiterClock /\ ReaderClock
        /\ FlashClock(spi_transaction, internal_addr)
    BY <1>1 DEF Next
  <2>2. /\ StrobesAreOwed' /\ MastersInv' /\ ReaderInv'
        /\ internal_addr' \in Nat /\ data_buf' \in [0..3 -> Nat \cup {NoAddress}]
        /\ spi_transaction /\ ~fl_ack => spi_transaction' /\ internal_addr' = internal_addr
        /\ spi_transaction /\ fl_ack => ~spi_transaction'
    BY <2>1, AdapterStep
  <2>3. /\ spi_transaction \in BOOLEAN /\ internal_addr \in Nat
        /\ FlashTypeOK /\ SessionInv /\ TypeOK /\ MastersInv
    BY DEF IInv, TypeOK
  <2>4. /\ arbiter_state' \in {"NO_SELECTION", "SEL", "AWAIT_DESEL", "DESEL"}
        /\ selected' \in Masters
        /\ strobes' \subseteq Masters /\ continues' \subseteq Masters
        /\ busy' \in BOOLEAN /\ spi_transaction' \in BOOLEAN /\ word_ack' \in BOOLEAN
    BY <2>1, <2>3, AdapterTypes
  <2>5. FlashTypeOK'
    BY <2>1, <2>3, FlashTypes
  <2>6. SessionInv'
    BY <2>1, <2>2, <2>3, <2>4, SessionStep
  <2>7. mm_ack \subseteq MmCyc
    BY DEF IInv, mm_ack, ReaderInv
  <2>8. TypeOK'
    <3>1. /\ state_q' \in {"CHECK", "FETCH", "WAIT"} /\ fresh' \in BOOLEAN
          /\ imem_cyc' \in BOOLEAN /\ imem_stb' \in BOOLEAN /\ imem_addr' \in Lines \cup {0}
          /\ resp_word' \in 0..LineWords - 1
          /\ rom_cyc' \in BOOLEAN /\ rom_stb' \in BOOLEAN /\ rom_addr' \in RomWords \cup {0}
          /\ issued' \in 0..InFlight
      BY <2>1, <2>3, <2>7, MastersStep
    <3> QED
      BY <2>2, <2>4, <2>5, <3>1, Zenon DEF TypeOK
  <2> QED
    BY <2>2, <2>6, <2>8 DEF IInv
<1>2. CASE UNCHANGED vars
  <2> USE <1>2 DEF IInv, vars, fetchvars, execvars, arbitervars, readervars, flashvars
  <2>1. TypeOK'
    BY DEF TypeOK, FlashTypeOK
  <2>2. /\ UNCHANGED <<arbiter_state, selected, strobes, continues, busy, spi_transaction,
                       internal_addr, data_buf, word_ack, state_q, imem_cyc, imem_addr,
                       rom_cyc, rom_addr>>
        /\ MmCyc' = MmCyc /\ MmStb' = MmStb /\ mm_ack' = mm_ack /\ Want' = Want
        /\ \A m \in MmStb \cup strobes : Addr(m)' = Addr(m)
    BY DEF MmCyc, MmStb, mm_ack, Want, Addr
  <2>3. StrobesAreOwed'
    BY <2>2 DEF StrobesAreOwed
  <2>4. MastersInv'
    BY <2>2 DEF MastersInv
  <2>5. ReaderInv'
    BY <2>2 DEF ReaderInv
  <2>6. SessionInv'
    BY DEF SessionInv, idle_tb_pulse
  <2> QED
    BY <2>1, <2>3, <2>4, <2>5, <2>6
<1> QED
  BY <1>1, <1>2

\* Whatever is asked for, whatever session of the flash is open: the registers
\* stay in their ranges, a strobe that is kept belongs to a request that is not
\* answered, and the word that is read is the one its master wants.
THEOREM Invariance == Spec => []IInv
<1> QED
  BY InitIInv, NextIInv, PTL DEF Spec

THEOREM TypeCorrect == Spec => []TypeOK
<1>1. IInv => TypeOK
  BY DEF IInv
<1> QED
  BY <1>1, Invariance, PTL

\* No word is ever read for a strobe of the past.
THEOREM StrobesAlwaysOwed == Spec => []StrobesAreOwed
<1>1. IInv => StrobesAreOwed
  BY DEF IInv
<1> QED
  BY <1>1, Invariance, PTL
-----------------------------------------------------------------------------
(* The memory of each master *)

\* What the cache wants changes by the answers it is given, and by a new line
\* once it wants nothing.
LEMMA CacheWants ==
  ASSUME TypeOK, MastersInv, mm_ack \subseteq MmCyc, FetchClock
  PROVE  \/ Want'[0] = Rom!Rest(0)
         \/ Rom!Rest(0).left = 0 /\ Want'[0] \in Requests[0]
<1> USE XipAssumption
<1>1. 0 \in mm_ack => imem_cyc
  BY DEF MmCyc
<1>2. /\ imem_cyc => Want[0] = [next |-> imem_addr - FLASH_OFFSET + resp_word,
                                left |-> LineWords - resp_word]
      /\ ~imem_cyc => Want[0] = [next |-> imem_addr - FLASH_OFFSET + LineWords, left |-> 0]
  BY DEF Want, Masters
<1>3. /\ imem_cyc' => Want'[0] = [next |-> imem_addr' - FLASH_OFFSET + resp_word',
                                  left |-> LineWords - resp_word']
      /\ ~imem_cyc' => Want'[0] = [next |-> imem_addr' - FLASH_OFFSET + LineWords, left |-> 0]
  BY DEF Want, Masters
<1>4. /\ 0 \notin mm_ack => Rom!Rest(0) = Want[0]
      /\ 0 \in mm_ack => Rom!Rest(0) = [next |-> Want[0].next + 1, left |-> Want[0].left - 1]
  BY DEF Rom!Rest
<1>5. ASSUME NEW l \in Lines, Miss(l)
      PROVE  Rom!Rest(0).left = 0 /\ Want'[0] \in Requests[0]
  <2>1. ~imem_cyc /\ imem_cyc' /\ imem_addr' = l /\ resp_word' = 0
    BY <1>5 DEF Miss, MastersInv
  <2>2. Rom!Rest(0).left = 0
    BY <1>1, <1>2, <1>4, <2>1
  <2>3. l - FLASH_OFFSET + 0 = l - FLASH_OFFSET /\ LineWords - 0 = LineWords
    BY <1>5
  <2>4. Want'[0] = [next |-> l - FLASH_OFFSET, left |-> LineWords]
    BY <1>3, <2>1, <2>3
  <2> QED
    BY <1>5, <2>2, <2>4 DEF Requests, Masters
<1>6. CASE NoMiss \/ LineFetched
  <2>1. /\ ~imem_cyc /\ UNCHANGED <<imem_cyc, imem_addr, resp_word>>
    BY <1>6 DEF NoMiss, LineFetched, MastersInv
  <2> QED
    BY <1>1, <1>2, <1>3, <1>4, <2>1
<1>7. CASE FetchLine
  <2>1. imem_cyc /\ imem_addr' = imem_addr /\ imem_addr - FLASH_OFFSET \in Int /\ resp_word \in Nat
    BY <1>7 DEF FetchLine, MastersInv, TypeOK
  <2>2. CASE 0 \notin mm_ack
    <3>1. imem_cyc' /\ resp_word' = resp_word
      BY <1>7, <2>2 DEF FetchLine
    <3> QED
      BY <1>2, <1>3, <1>4, <2>1, <2>2, <3>1
  <2>3. CASE 0 \in mm_ack /\ resp_word /= LineWords - 1
    <3>1. imem_cyc' /\ resp_word' = resp_word + 1
      BY <1>7, <2>3 DEF FetchLine
    <3> QED
      BY <1>2, <1>3, <1>4, <2>1, <2>3, <3>1
  <2>4. CASE 0 \in mm_ack /\ resp_word = LineWords - 1
    <3>1. ~imem_cyc'
      BY <1>7, <2>4 DEF FetchLine
    <3> QED
      BY <1>2, <1>3, <1>4, <2>1, <2>4, <3>1
  <2> QED
    BY <2>2, <2>3, <2>4
<1> QED
  BY <1>5, <1>6, <1>7 DEF FetchClock

\* What the execution stage wants changes by the answer it is given, and by a new
\* load, which may come with the answer.
LEMMA ExecWants ==
  ASSUME TypeOK, MastersInv, mm_ack \subseteq MmCyc, ExecClock
  PROVE  \/ Want'[1] = Rom!Rest(1)
         \/ Rom!Rest(1).left = 0 /\ Want'[1] \in Requests[1]
<1> USE XipAssumption
<1>1. 1 \in mm_ack => rom_cyc
  BY DEF MmCyc
<1>2. /\ rom_cyc => Want[1] = [next |-> rom_addr - FLASH_OFFSET + 0, left |-> 1]
      /\ ~rom_cyc => Want[1] = [next |-> rom_addr - FLASH_OFFSET + 1, left |-> 0]
  BY DEF Want, Masters
<1>3. /\ rom_cyc' => Want'[1] = [next |-> rom_addr' - FLASH_OFFSET + 0, left |-> 1]
      /\ ~rom_cyc' => Want'[1] = [next |-> rom_addr' - FLASH_OFFSET + 1, left |-> 0]
  BY DEF Want, Masters
<1>4. /\ 1 \notin mm_ack => Rom!Rest(1) = Want[1]
      /\ 1 \in mm_ack => Rom!Rest(1) = [next |-> Want[1].next + 1, left |-> Want[1].left - 1]
  BY DEF Rom!Rest
<1>5. rom_cyc => rom_addr - FLASH_OFFSET \in Nat
  BY DEF MastersInv
<1>6. ASSUME NEW w \in RomWords, Load(w)
      PROVE  Rom!Rest(1).left = 0 /\ Want'[1] \in Requests[1]
  <2>1. (~rom_cyc \/ 1 \in mm_ack) /\ rom_cyc' /\ rom_addr' = w
    BY <1>6 DEF Load
  <2>2. Rom!Rest(1).left = 0
    BY <1>1, <1>2, <1>4, <2>1
  <2>3. w - FLASH_OFFSET + 0 = w - FLASH_OFFSET
    BY <1>6
  <2>4. Want'[1] = [next |-> w - FLASH_OFFSET, left |-> 1]
    BY <1>3, <2>1, <2>3
  <2> QED
    BY <1>6, <2>2, <2>4 DEF Requests, Masters
<1>7. CASE NoLoad
  <2>1. rom_cyc' = (rom_cyc /\ 1 \notin mm_ack) /\ rom_addr' = rom_addr
    BY <1>7 DEF NoLoad
  <2>2. CASE 1 \notin mm_ack
    <3>1. rom_cyc' = rom_cyc
      BY <2>1, <2>2 DEF TypeOK
    <3> QED
      BY <1>2, <1>3, <1>4, <2>1, <2>2, <3>1
  <2>3. CASE 1 \in mm_ack
    <3>1. rom_cyc /\ ~rom_cyc'
      BY <1>1, <2>1, <2>3
    <3> QED
      BY <1>2, <1>3, <1>4, <1>5, <2>1, <2>3, <3>1
  <2> QED
    BY <2>2, <2>3
<1> QED
  BY <1>6, <1>7 DEF ExecClock

\* Every clock of the hardware is a clock of the memory each master sees.
LEMMA ClockIsRomClock ==
  ASSUME IInv, Next
  PROVE  Rom!Clock
<1>1. FetchClock /\ ExecClock /\ ArbiterClock /\ ReaderClock
  BY DEF Next
<1>2. TypeOK /\ MastersInv /\ mm_ack \subseteq MmCyc
  BY DEF IInv, mm_ack, ReaderInv
<1>3. IInv'
  BY NextIInv
<1>4. \A m \in Masters : \/ Want'[m] = Rom!Rest(m)
                         \/ Rom!Rest(m).left = 0 /\ Want'[m] \in Requests[m]
  <2>1. \/ Want'[0] = Rom!Rest(0)
        \/ Rom!Rest(0).left = 0 /\ Want'[0] \in Requests[0]
    BY <1>1, <1>2, CacheWants
  <2>2. \/ Want'[1] = Rom!Rest(1)
        \/ Rom!Rest(1).left = 0 /\ Want'[1] \in Requests[1]
    BY <1>1, <1>2, ExecWants
  <2> QED
    BY <2>1, <2>2 DEF Masters
<1>5. ASSUME NEW m \in mm_ack'
      PROVE  Want'[m].left > 0 /\ data_buf' = Rom!Word(Want'[m].next)
  <2>1. m = selected' /\ word_ack' /\ arbiter_state' = "SEL"
    BY <1>5 DEF mm_ack
  <2>2. data_buf' = Rom!Word(Want'[m].next)
    BY <1>1, <2>1, AdapterStep
  <2>3. m \in MmCyc'
    BY <1>3, <2>1 DEF IInv, ReaderInv
  <2>6. resp_word' \in 0..LineWords - 1
    BY <1>3 DEF IInv, TypeOK
  <2>7. LineWords - resp_word' > 0
    <3>1. LineWords \in Nat
      BY XipAssumption
    <3>2. \A r \in 0..LineWords - 1 : LineWords - r > 0
      BY <3>1
    <3> QED
      BY <2>6, <3>2
  <2>4. CASE m = 0
    <3>1. Want'[0].left = LineWords - resp_word'
      BY <2>3, <2>4 DEF MmCyc, Want, Masters
    <3> QED
      BY <2>2, <2>4, <2>7, <3>1
  <2>5. CASE m = 1
    <3>1. Want'[1].left = 1
      BY <2>3, <2>5 DEF MmCyc, Want, Masters
    <3> QED
      BY <2>2, <2>5, <3>1
  <2> QED
    BY <2>3, <2>4, <2>5 DEF MmCyc
<1> QED
  BY <1>4, <1>5 DEF Rom!Clock, Rom!Answers

\* The adapter with its flash is a memory to each of its masters: every request
\* is answered by its own words, in order, once each, whatever the other master
\* does and whichever session of the flash is continued, restarted or cut off.
THEOREM AlwaysReadsAsRom == Spec => ReadsAsRom
<1>1. Init => Rom!Init
  <2> SUFFICES ASSUME Init PROVE Rom!Init
    OBVIOUS
  <2>1. ~imem_cyc /\ ~rom_cyc /\ mm_ack = {}
    BY DEF Init, mm_ack
  <2>2. Want[0].left = 0 /\ Want[1].left = 0
    BY <2>1 DEF Want, Masters
  <2> QED
    BY <2>1, <2>2 DEF Rom!Init, Masters
<1>2. IInv /\ [Next]_vars => [Rom!Clock]_<<Want, mm_ack, data_buf>>
  <2>1. CASE UNCHANGED vars
    BY <2>1 DEF vars, fetchvars, execvars, arbitervars, readervars, Want, mm_ack
  <2> QED
    BY <2>1, ClockIsRomClock
<1> QED
  BY <1>1, <1>2, Invariance, PTL DEF Spec, ReadsAsRom, Rom!Spec
=============================================================================
