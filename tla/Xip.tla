-------------------------------- MODULE Xip --------------------------------
(* Execution in place: xip_adapter.v between the two sides of the processor and
   the controller of the serial flash (SpiFlash.tla).

   Master 0 is the instruction cache, which asks for a line with one strobe and
   takes the words one after the other; master 1 is the execution stage, which
   asks for one word with one strobe and waits. A step is one system clock: all
   registers are read at its beginning and written at its end.

   Addresses of the processor are word addresses, internal_addr is the byte
   address in the flash.                                                       *)
EXTENDS SpiFlash

CONSTANTS
  Lines,           \* the first words of the lines the cache may miss
  LineWords,       \* words of a line, 8 in the code
  RomWords,        \* the words the program may load
  FLASH_OFFSET,    \* what is subtracted from an address, in words
  InFlight         \* loads that are still executed once the cache has missed

ASSUME XipAssumption ==
  /\ LineWords \in Nat \ {0}
  /\ InFlight \in Nat
  /\ FLASH_OFFSET \in Int
  /\ Lines \subseteq Nat /\ RomWords \subseteq Nat
  /\ \A w \in Lines \cup RomWords : w - FLASH_OFFSET \in Nat

Masters == {0, 1}

VARIABLES
  state_q,          \* the cache: CHECK, FETCH or WAIT
  fresh,            \* the first CHECK after a line was fetched, which cannot miss
  imem_cyc, imem_stb, imem_addr,   \* master 0
  resp_word,        \* words of the line that have come
  rom_cyc, rom_stb, rom_addr,      \* master 1
  issued,           \* loads issued since the cache missed
  arbiter_state, selected,         \* the two parts of arbiter_state: what, and for whom
  strobes,          \* masters whose strobe was seen and not served
  continues,        \* masters that go on to the next word
  busy,             \* a word is being read
  spi_transaction,  \* a byte is being asked for
  internal_addr, data_buf, word_ack

fetchvars   == <<state_q, fresh, imem_cyc, imem_stb, imem_addr, resp_word>>
execvars    == <<rom_cyc, rom_stb, rom_addr, issued>>
arbitervars == <<arbiter_state, selected, strobes, continues>>
readervars  == <<busy, spi_transaction, internal_addr, data_buf, word_ack>>
vars == <<fetchvars, execvars, arbitervars, readervars, flashvars>>

MmCyc  == (IF imem_cyc THEN {0} ELSE {}) \cup (IF rom_cyc THEN {1} ELSE {})
MmStb  == (IF imem_stb THEN {0} ELSE {}) \cup (IF rom_stb THEN {1} ELSE {})
mm_ack == IF arbiter_state = "SEL" /\ word_ack THEN {selected} ELSE {}
byte_n == internal_addr % 4
flash_addr_corrected == (IF selected = 0 THEN imem_addr ELSE rom_addr) - FLASH_OFFSET

TypeOK ==
  /\ FlashTypeOK
  /\ state_q \in {"CHECK", "FETCH", "WAIT"} /\ fresh \in BOOLEAN
  /\ imem_cyc \in BOOLEAN /\ imem_stb \in BOOLEAN /\ imem_addr \in Lines \cup {0}
  /\ resp_word \in 0..LineWords - 1
  /\ rom_cyc \in BOOLEAN /\ rom_stb \in BOOLEAN /\ rom_addr \in RomWords \cup {0}
  /\ issued \in 0..InFlight
  /\ arbiter_state \in {"NO_SELECTION", "SEL", "AWAIT_DESEL", "DESEL"}
  /\ selected \in Masters
  /\ strobes \subseteq Masters /\ continues \subseteq Masters
  /\ busy \in BOOLEAN /\ spi_transaction \in BOOLEAN /\ word_ack \in BOOLEAN
  /\ internal_addr \in Nat
  /\ data_buf \in [0..3 -> Nat \cup {NoAddress}]

Init ==
  /\ FlashInit
  /\ state_q = "CHECK" /\ fresh = TRUE
  /\ imem_cyc = FALSE /\ imem_stb = FALSE /\ imem_addr = 0 /\ resp_word = 0
  /\ rom_cyc = FALSE /\ rom_stb = FALSE /\ rom_addr = 0 /\ issued = 0
  /\ arbiter_state = "NO_SELECTION" /\ selected = 0
  /\ strobes = {} /\ continues = {}
  /\ busy = FALSE /\ spi_transaction = FALSE /\ word_ack = FALSE
  /\ internal_addr = 0 /\ data_buf = [k \in 0..3 |-> 0]
-----------------------------------------------------------------------------
(* The instruction cache and its fetch unit *)

\* mutant: the first look-up after a line was fetched may miss
Miss_Fresh(l) ==
  /\ state_q = "CHECK"
  /\ state_q' = "FETCH"
  /\ imem_cyc' = TRUE /\ imem_stb' = TRUE /\ imem_addr' = l /\ resp_word' = 0
  /\ UNCHANGED fresh

\* The instruction asked for is in no line: the whole line is fetched.
Miss(l) ==
  /\ state_q = "CHECK" /\ ~fresh
  /\ state_q' = "FETCH"
  /\ imem_cyc' = TRUE /\ imem_stb' = TRUE /\ imem_addr' = l /\ resp_word' = 0
  /\ UNCHANGED fresh

\* A hit, no request, or a new request, which is looked up in the next clock
NoMiss ==
  /\ state_q = "CHECK"
  /\ fresh' = FALSE
  /\ UNCHANGED <<state_q, imem_cyc, imem_stb, imem_addr, resp_word>>

\* The strobe lasts one clock; the cycle ends with the last word of the line.
FetchLine ==
  /\ state_q = "FETCH"
  /\ imem_stb' = FALSE
  /\ LET final == 0 \in mm_ack /\ resp_word = LineWords - 1
     IN /\ state_q' = IF final THEN "WAIT" ELSE "FETCH"
        /\ imem_cyc' = ~final
        /\ resp_word' = IF final THEN 0 ELSE IF 0 \in mm_ack THEN resp_word + 1 ELSE resp_word
  /\ UNCHANGED <<fresh, imem_addr>>

LineFetched ==
  /\ state_q = "WAIT"
  /\ state_q' = "CHECK" /\ fresh' = TRUE
  /\ UNCHANGED <<imem_cyc, imem_stb, imem_addr, resp_word>>

FetchClock == (\E l \in Lines : Miss(l)) \/ NoMiss \/ FetchLine \/ LineFetched
-----------------------------------------------------------------------------
(* The execution stage *)

\* A load from the flash, at the earliest in the clock in which the one before
\* is answered. Without new instructions only those in the pipeline come.
Load(w) ==
  /\ ~rom_cyc \/ 1 \in mm_ack
  /\ state_q = "CHECK" \/ issued < InFlight
  /\ rom_cyc' = TRUE /\ rom_stb' = TRUE /\ rom_addr' = w
  /\ issued' = IF state_q = "CHECK" THEN 0 ELSE issued + 1

NoLoad ==
  /\ rom_stb' = FALSE
  /\ rom_cyc' = (rom_cyc /\ 1 \notin mm_ack)
  /\ issued' = IF state_q = "CHECK" THEN 0 ELSE issued
  /\ UNCHANGED rom_addr

ExecClock == (\E w \in RomWords : Load(w)) \/ NoLoad
-----------------------------------------------------------------------------
(* The adapter *)

\* the selected master's word begins
Start == /\ arbiter_state = "SEL" /\ selected \in MmCyc
         /\ selected \in strobes \cup continues
         /\ ~busy

\* a byte of the word has come
ByteDone == busy /\ fl_ack

\* the strobes seen, without the one that is served
Strobes == (strobes \cup MmStb) \ (IF Start THEN {selected} ELSE {})

ArbiterClock ==
  /\ arbiter_state' =
       CASE arbiter_state = "NO_SELECTION" -> IF MmCyc = {} THEN "NO_SELECTION" ELSE "SEL"
         [] arbiter_state = "SEL" -> IF selected \notin MmCyc THEN "DESEL"
                                     ELSE IF word_ack THEN "AWAIT_DESEL" ELSE "SEL"
         [] arbiter_state = "AWAIT_DESEL" -> IF word_ack THEN "AWAIT_DESEL"
                                             ELSE IF selected \in MmCyc THEN "SEL" ELSE "DESEL"
         [] arbiter_state = "DESEL" -> "NO_SELECTION"
  /\ selected' = IF arbiter_state = "NO_SELECTION" /\ MmCyc /= {}
                 THEN IF 0 \in MmCyc THEN 0 ELSE 1
                 ELSE selected
  /\ strobes' = Strobes
  /\ continues' = IF arbiter_state = "AWAIT_DESEL" /\ ~word_ack THEN {selected} ELSE {}

ReaderClock ==
  /\ busy' = IF busy THEN arbiter_state /= "DESEL" /\ ~(fl_ack /\ byte_n = 3) ELSE Start
  /\ spi_transaction' = IF busy THEN ~fl_ack ELSE spi_transaction /\ arbiter_state /= "DESEL"
  /\ internal_addr' = IF ByteDone THEN internal_addr + 1
                      ELSE IF Start /\ selected \in strobes THEN 4 * flash_addr_corrected
                      ELSE internal_addr
  /\ data_buf' = IF ByteDone THEN [data_buf EXCEPT ![byte_n] = sr] ELSE data_buf
  /\ word_ack' = (ByteDone /\ byte_n = 3)

Next == /\ FetchClock
        /\ ExecClock
        /\ ArbiterClock
        /\ ReaderClock
        /\ FlashClock(spi_transaction, internal_addr)

Spec == Init /\ [][Next]_vars
FairSpec == Spec /\ WF_vars(Next)
-----------------------------------------------------------------------------
(* Properties *)

\* The words each master has asked for and not been given
Want == [m \in Masters |->
           IF m = 0
           THEN [next |-> imem_addr - FLASH_OFFSET + (IF imem_cyc THEN resp_word ELSE LineWords),
                 left |-> IF imem_cyc THEN LineWords - resp_word ELSE 0]
           ELSE [next |-> rom_addr - FLASH_OFFSET + (IF rom_cyc THEN 0 ELSE 1),
                 left |-> IF rom_cyc THEN 1 ELSE 0]]
Requests == [m \in Masters |->
               IF m = 0 THEN {[next |-> l - FLASH_OFFSET, left |-> LineWords] : l \in Lines}
               ELSE {[next |-> w - FLASH_OFFSET, left |-> 1] : w \in RomWords}]

\* The adapter with its flash is a memory to each of its masters (RomPort.tla):
\* whatever the other one does, whatever session of the flash is open and
\* whenever it is timed out, a request is answered by the words it names, in
\* order, once each, and a master that asked for nothing is given nothing.
Rom == INSTANCE RomPort WITH want <- Want, ack <- mm_ack, dat <- data_buf
ReadsAsRom == Rom!Spec

\* A strobe that is kept (xip_adapter.v ORs them together) belongs to a request
\* of its master that is not answered: no word is ever read for a strobe of the
\* past, with an address of the present.
StrobesAreOwed ==
  \A m \in strobes : m \in MmCyc /\ m \notin MmStb /\ ~(busy /\ m = selected) /\ m \notin mm_ack

\* What the masters have on their ports: a request is a cycle, its first clock
\* has the strobe, and until the strobe is served the address is what they want.
Addr(m) == (IF m = 0 THEN imem_addr ELSE rom_addr) - FLASH_OFFSET
MastersInv ==
  /\ imem_cyc <=> state_q = "FETCH"
  /\ imem_cyc => imem_addr \in Lines
  /\ rom_cyc => rom_addr \in RomWords
  /\ MmStb \subseteq MmCyc
  /\ \A m \in MmStb : ~(busy /\ m = selected) /\ m \notin mm_ack
  /\ \A m \in MmStb \cup strobes : Want[m].next = Addr(m)

\* The word that is read, and where the next one begins
ReaderInv ==
  /\ arbiter_state = "SEL" /\ (busy \/ word_ack) => selected \in MmCyc
  /\ busy => arbiter_state = "SEL" /\ ~word_ack
  /\ spi_transaction => busy
  /\ word_ack => arbiter_state = "SEL" /\ internal_addr = 4 * Want[selected].next + 4
  /\ busy => LET w == Want[selected].next
             IN /\ internal_addr \in 4 * w .. 4 * w + 3
                /\ \A k \in 0..3 : 4 * w + k < internal_addr => data_buf[k] = 4 * w + k
  /\ continues \subseteq {selected}
  /\ continues /= {} => ~busy /\ ~word_ack /\ arbiter_state \in {"SEL", "DESEL"}
  /\ arbiter_state = "SEL" /\ selected \in continues => selected \notin MmStb
  /\ \/ arbiter_state = "AWAIT_DESEL"
     \/ arbiter_state = "SEL" /\ selected \in continues
     => (selected \in MmCyc \ (MmStb \cup strobes) => internal_addr = 4 * Want[selected].next)

\* The session of the flash: where its stream is, and that the timeout never
\* falls together with the end of a byte
SessionInv ==
  /\ fl_ack => fl_state = "R_DAT"
  /\ fl_state \in {"R_CMD", "R_ADR"} => spi_transaction /\ reg_ispi_adr = internal_addr
  /\ fl_state = "R_ADR" => tb = 0
  /\ fl_state \in {"R_DAT", "R_WAIT"} => dev = reg_ispi_adr
  /\ fl_state = "R_WAIT" => spi_state = "IDLE"
  /\ fl_state = "R_DAT" =>
       /\ spi_transaction => reg_ispi_adr = internal_addr + (IF fl_ack THEN 1 ELSE 0)
       /\ fl_ack => spi_transaction /\ sr = internal_addr
       /\ fl_ack \/ ~spi_transaction => spi_state = "IDLE"
       /\ idle_timer = 0 => spi_state /= "GIVE_ACK"
       /\ idle_tb_pulse => spi_state = "SHIFT_BYTE" /\ clk_count > 0

\* Why ReadsAsRom holds: the word that is read is the one its master wants, byte
\* by byte, and the stream of the flash is at the byte that is asked for.
IInv == TypeOK /\ StrobesAreOwed /\ MastersInv /\ ReaderInv /\ SessionInv

\* Every line and every load is answered: the priority of the cache does not
\* keep a load waiting for ever, nor do loads keep the cache waiting, and the
\* timeout of the flash does not cut off the same byte again and again.
RequestsAnswered == (imem_cyc ~> ~imem_cyc) /\ (rom_cyc ~> 1 \in mm_ack)
=============================================================================
