# Verification of the or1k-spartan6 platform

A TLA+ development kept beside the code of the or1k-spartan6 platform: an AltOR32
softcore that executes in place from a serial flash, with an Ethernet MAC, software
timers, memory pools, a TCP/IP stack with an HTTP server, settings in a clock chip's
memory and a debugger stub, all in C. The modules model the parts where order, clocks,
interrupts and failures matter, TLC checks them on small instances, and the properties
that matter most are proved with TLAPS for every value of the constants.

Paths of the code are relative to the repository's source tree. `PROJECT.json` lists
every component, run, mutant, finding, hazard and theorem, and maps each definition to
the lines it models.

To check: `tlc -config MCXip_rom.cfg MCXip` and likewise for every pair of the table
of runs; `tlapm Xip_proofs.tla` and likewise for every `*_proofs.tla`.

## 1. The system

### What runs, and what runs beside it

One processor executes one program: a main loop that polls. Everything else is
concurrent with it:

* hardware in the system clock domain (flash adapter, interrupt controller, tick);
* hardware in the 50 MHz RMII clock domain (MAC), which the processor reaches through
  synchronisers and acknowledged register writes;
* interrupt handlers, which stop the program between any two instructions but not
  the hardware: the tick, which walks the software timers and counts for the stack;
* the network and the devices at its other end, which deliver frames at any moment,
  in any order and number, and repeat what they think lost;
* the debugger at the other end of a serial line, which repeats too;
* resets and power cuts, at any moment; the clock chip lives on.

### Components

| Component | State | Operations | Interacts through |
|---|---|---|---|
| MAC, receive (`hdl/myminimac`) and driver (`libhw/minimac2.c`, `ibexukIP/eth-nic.c`) | per slot: state, count; active slots; reset control; engine's address; driver's working slot | frame begins / word / ends / error, register write, sampling; initialise, check, accept, reject, dump | synchronised registers, slot memory, polling |
| MAC, transmit | counter, buffer, read address, busy flag | ask, set up, fill, start, acknowledge; preamble, word, end | one buffer shared by two clock domains |
| Packet loop (`eth-main.c`), UDP (`eth-udp.c`), DHCP (`eth-dhcp.c`) | dispatcher state, socket table, waiting datagram, client state and timers, address and its validity | one turn of the loop per state; open, close, check, read, dump; DHCP steps | calls in one loop; timers counted by interrupts; slots of the MAC |
| TCP (`eth-tcp.c`), ARP (`eth-arp.c`) | sockets with their sequence numbers, flags and timers; the segment that waits for its reader and the answer it is owed; the last ARP response | receive, time out, open, connect, send, close, disconnect | calls in the main loop, the network |
| HTTP (`eth-http.c`) | per socket: state, file, registers of what has been sent | connect, read a request, respond, send again, close | calls of TCP, files |
| Interrupts (`libhw/irq.c`, `hdl/soc/intr_periph.v`) | status, mask, SR_GIE, nesting counter, table | raise, take, walk, clear, enter and exit a critical section | SR, registers, handlers |
| Software timers and clock (`libhw/prog_timer.c`) | 64-bit clock, list of timers | new, change, set clock, delay; the tick's walk | memory shared with the interrupt |
| Memory pools (`libbase/heap_4.c`) | headers threaded through the pool, accounts | allocate, free | calls |
| Execution in place (`hdl/wb_spi_flash`) | arbiter, kept strobes, word being read; session, shifter, timeout | a system clock | two bus ports with strobe and cycle, one byte port |
| Settings (`libhw/settings.c`), clock (`rtc.c`, `ds1338z.c`), their bus (`i2c.c`, `bb_i2c.c`) | record and its checksum, time; the transfer in progress; the chip's cells | start: read, validate, repair, write back; save, set the time; each edge of the bus | two open-drain lines |
| Debugger stub (`gdb_stub`) with the UART | ring of characters, packet being read, last answer; debug bits, caches | enter on a trap, read and check a packet, execute, answer, repeat, resume | a serial line |
| PHY management, boot, system calls, multiplexers, memories, processor, port peripherals, pure libraries, tools | — | — | see section 8 |

### What is hard, and what would be right

* **Slots change hands under a receiver that has already chosen.** The engine fixes its
  address at the start delimiter, the control logic its slot one edge later, and the
  driver writes slot states from another clock domain in between. Right: what the stack
  reads is one whole frame; nothing is written under the reader; every slot comes back
  unless lower ones keep receiver and driver busy for ever.
* **One transmit buffer, two clocks.** Right: an answer of "ready" is true, and frames
  go out whole, once, in order.
* **Every path of a packet ends in exactly one dump**, although frames, lost links,
  closed sockets and retries cut across them. Right: no slot is lost, no datagram is
  given to the wrong socket, nothing halts the stack.
* **DHCP meets late, repeated and foreign messages** and has two sockets to share with
  the applications. Right: every socket has one owner and a lease that ran out is
  renewed or given up.
* **TCP keeps no copy of what it sends.** What is lost is computed again by an
  application whose registers may have moved on, and one received segment at a time
  stops all reception until it is read. Right: a client gets its response whole and in
  order, knows its end, has one socket; no handshake lasts for ever; the stack serves.
* **The tick interrupts anything.** Right: critical sections hold, no event is cleared
  unserved, a timer fires at the tick that completes its period, a delay is long enough.
* **Long sequences of splits and merges.** Right: the blocks tile the pool, the list
  holds the free ones in order, memory granted is nobody else's.
* **Two readers, one stream.** The adapter keeps strobes and serves them later; the
  flash controller continues, restarts or times out a session whoever asks. Right: each
  side of the processor sees a memory of its own and is answered.
* **A chip that outlives the processor.** A reset leaves it in the middle of a byte, a
  power cut in the middle of a record. Right: the record is the old one, the new one or
  the defaults, and what is read is what is stored.
* **Two ends that repeat.** Right: each command of the debugger is executed for the
  debugger that waits for it, answered with its own answer, and nobody waits for ever.

The hazards are listed one by one, each at its line, in `PROJECT.json`.

## 2. Modules and the code

| Module | Models | Abstract counterpart | Proofs |
|---|---|---|---|
| `MiniMac` | receive path and driver | — | `MiniMac_proofs` |
| `NicTx` | transmit path | `TxPort`: a port of whole frames | `Drivers_proofs` |
| `Udp`, `Dhcp`, `EthStack` | sockets, client, packet loop with applications; each extends the one before | — | `EthStack_proofs` |
| `Arp`, `Tcp`, `TcpProcess`, `HttpRequest`, `Http`, `TcpStack` | ARP; calls on sockets; received segments and timers; the reading of a request; the server; the main loop with the remote ends | `RequestMeans` (in `HttpRequest`): what a request asks for | `TcpStack_proofs` |
| `Irq`, `ProgTimer` | interrupts; timers and clock on top of them | — | `ProgTimer_proofs` |
| `Heap` | one pool | `Allocator`: memory that is nobody else's | `Heap_proofs` |
| `SpiFlash`, `Xip` | flash controller; adapter, cache, execution stage | `RomPort`: a memory for each master | `Xip_proofs` |
| `Ds1338`, `I2c`, `Calendar`, `Settings`, `Board` | the chip; the bus and its transactions; dates; the record; starts, saves, resets and power cuts | — | `Drivers_proofs` |
| `Gdb`, `GdbSession` | the stub; the stub against a debugger | — | `GdbSession_proofs` |
| `MC*` | instances for TLC | | |

**MiniMac.** An action of the RMII side is one clock edge at which something happens;
`wr` says whether the pulse of a register write lands on it, so a write can fall on the
edge of any event of the engine, which is where the code is delicate. `CtlEdge` is the
always block of `myminimac_ctlif_cd2.v`; `FrameBegins`, `WordArrives`, `FrameEnds` and
`FalseStart` are the engine. `SyncSlot` samples the two bits of a slot through separate
synchronisers (`Torn`). The driver is one action per bus access, labelled by `pc`.
Words and ideal checksums replace bytes and CRC: a word carries its frame, its number
and whether it is the last, so a mixture of two frames is never mistaken for a frame.
The frames a behaviour can tell apart are numbered and finite; in other behaviours the
wire carries mangled frames without end, so that traffic never has to pause.

**NicTx.** The driver asks, sets up, fills word by word, writes the length and waits for
the acknowledgement; `tx_done` is how far the acknowledgement has come; the engine raises
`tx_en`, sends the preamble and reads a word per count. `Callers` distinguishes those who
ask `nic_ok_to_do_tx` first (UDP, TCP) from those who rely on `nic_setup_tx` (ARP, ping).

**EthStack.** The C functions of `eth-nic.c`, `eth-udp.c` and `eth-dhcp.c` call each other
in one loop, so `Udp` and `Dhcp` define them as functions on the records `nic`, `udp`,
`dhcp` and `ip`; `EthStack` makes one action of each turn of `tcp_ip_process_stack`, of a
call of `process_dhcp`, of a call of an application, of an interrupt handler and of an
arrival. What `MiniMac` shows is assumed here: a slot is free, holds one whole frame, or
is with the stack. `scenario` says what may happen in a behaviour and is chosen at its
start: which packets arrive, how many wait together, whether settings are manual. A packet
may be empty or for port 65535; what these cost is named in the properties.

**TcpStack.** In the same way `Arp`, `Tcp`, `TcpProcess` and `Http` are functions on a
record w of the globals, with the segment received (`rx`), the one sent (`out`) and
whether the transmitter is free (`ok`) as fields; an action of `TcpStack` is one call of
`tcp_process_rx` or `arp_process_rx`, one socket of `process_tcp`, one socket of
`process_http`, or one call of the application that connects (the example client of
`eth-tcp.h`). `process_tcp`'s local `tcp_response_flags` outlives a socket of its loop
and is a variable (`flags`). A segment carries one unit of data or none, sequence numbers
wrap at `SeqSpace`, and a timer is a choice of the environment (`Expires`). The remote
ends are external and follow RFC 793 as far as the code depends on it. `HttpRequest`
reads a request byte by byte as `http_process_rx` does (functions over the places of the text, with no
RECURSIVE operator); `RequestMeans` says in a line each what domain, path, escapes, name,
extension and inputs are, from the positions of the separators.

**Irq, ProgTimer.** Each access of the program to memory the handlers touch is a step.
A 64-bit variable is read as a high and a low word, of `WordBase` values each. The compiler may choose either
order; the model reads the high word first and the other order fails in the same way.
The table keeps the entries its initialiser leaves out, which name source 0 and have no
handler.

**Heap.** The list is threaded through the headers as in the code: `StopsAt` is the scan
for the place of a block and `Inserted` the merging with both neighbours. The pools of
`heap_table` share no state, so one of them is modelled.

**SpiFlash, Xip.** A step is one system clock; each always block or state of the VHDL
process is an operator. Byte `a` of the flash holds `a`, so a byte read from the wrong
place is seen. The device is one variable, the next byte of its stream, forgotten when
it is deselected. `FetchClock` and `ExecClock` are what `altor32_wb_fetch.v` with
`altor32_icache.v` and `altor32_exec.v` put on the two ports.

**Board.** A step is a half clock of the bus: `I2c` moves the lines as `bb_i2c.c` does,
`Ds1338` follows their edges, and `Board` runs the start (`Settings_init`, `rtc_init`) and
the later uses over it. `Restart` leaves chip and lines as they are, `PowerCut` keeps only
the chip's cells, `Noise` loses one acknowledgement. `record` and `time` are history: what
the chip should hold. `Calendar` has the conversions of `ds1338z.c` and `bcd.c` as integer
functions and, beside them, what the chip makes of its registers (`ChipDate`, `OnCalendar`,
`CivilTime`): a calendar of its own, with no definition of the driver in it, for the
conversions to be compared with. The build is the one without the hardware I2C controller.

**GdbSession.** A character is a record of its kind and of the text it belongs to, so a
checksum tells every damage. `Getchar` is one character taken by whichever loop of the
stub waits; all that the stub does until it waits again belongs to the step. The line may
lose or damage a character, the UART's one-byte register may be overwritten (`Overrun`).
The debugger is GDB's remote target.

## 3. Runs

| Run | Module, configuration | Question | States |
|---|---|---|---|
| minimac | `MCMiniMac`, `_slots` | what the stack reads is one whole frame, nothing is stored under the reader, no slot is lost, errors are recovered from, every slot comes back unless lower ones receive again and again | 110,048 |
| minimac_dropped | `MCMiniMac`, `_dropped` | *violation*: whole frames in slot 2 are thrown away | |
| eth | `MCEthStack`, `_apps` | every kind of frame gives its slot back, but for the exceptions named; datagrams stay until they are read; sockets have one owner under DHCP; the stack serves unless port 65535 halts it, leases end | 171,134 |
| eth_linkloss | `MCEthStack`, `_linkloss` | *violation*: a lost link leaks a slot | |
| tcp | `MCTcp`, `_http` | requests are read as they are meant; responses arrive whole, in order and to their end; one socket per connection; the stack serves but for one deadlock, half-open connections end | 50,306 |
| nictx_udp | `MCNicTx`, `_udp` | "ready" is true; whole frames, once, in order, and they do go out | 1,841 |
| nictx_arp | `MCNicTx`, `_arp` | *violation*: a caller that does not ask mixes two frames | |
| ticks | `MCProgTimer`, `_ticks` | critical sections, periods, delays over a carry of the clock, no event skipped, all served | 109,787 |
| heap | `MCHeap`, `_pool` | tiling, list, refusals; implements `Allocator` | 4,290 |
| xip | `MCXip`, `_rom` | implements `RomPort`; fetches and loads are answered | 13,327 |
| board | `MCBoard`, `_boot` | the record survives resets and power cuts; what is read is what is stored; the chip's calendar says the time that was set, but for the first second of a month; every start ends | 203,619 |
| gdb | `MCGdb`, `_link` | right answers, no command executed that was not asked for, ready to resume, answered unless a stop reply is lost | 313,392 |

Every property of a passing run has a mutant of the code's definitions, one plausible
slip each, that makes TLC report that property.

These properties carry an exception, a state in which the code does not do what it should:
`SlotsComeBack`, `SlotsAccounted`, `StackServes` (of `EthStack`: `Halted`; of `TcpStack`:
`Deadlocked`), `DelayLongEnough` (`torn`), `Answered` (`BothWait`) and `ClockKept`
(`DayTooMany`) say where the failure is and that there is no other. The runs reach each of
them: without its exception the property is violated in the same run. Section 5 lists them.

`scenario` in `EthStack`, `TcpStack`, `GdbSession` and `bound` in `Board` are chosen at the
start of a behaviour: one run so covers several surroundings, each with bounds of its
own, instead of the product of all bounds.

### Bounds, and why they are enough

* *MiniMac*: two slots are the fewest at which the receiver has a choice and the driver
  another slot to hold; two frames let one be held while another arrives. (The safety
  properties were also checked with three frames, and all three are proved for all
  constants.) A frame has two words or is cut short after one, so it can be whole, short
  or mixed. `minimac_dropped` needs three slots, since the two address formulas first
  differ in slot 2, and an MTU of 10 which, like 1530, is 2 modulo 4. `MaxFrames` is the number of frames
  that are told apart, and with it the memory's contents; it does not end the traffic, for
  a behaviour may also carry mangled frames for ever (`Endless`). The counter of a slot
  wraps at `CountLimit`, above a frame's length as in the hardware.
* *EthStack*: two slots hold one packet while another arrives; two sockets are what the
  code is built with for UDP in the DHCP configuration with one application
  (`UDP_NO_OF_AVAILABLE_SOCKETS`); two senders are two hosts of the
  subnet, which the mask of the run (`Mask = "subnet"`) does not tell apart; a datagram has
  one unit of data or none, and less may be read of it. Leases are two ticks long, so renewal and expiry are
  different moments. The scenarios: DHCP from the start with messages of every kind; a
  changeover from manual settings to DHCP among every kind of frame the dispatcher tells
  apart; manual settings with two packets waiting at once; the same with
  empty datagrams among them; the same with datagrams to port 65535.
* *TcpStack*: three sockets, two of them the server's, and two ends; files of one and two
  parts, so that a response has a header, a first and a last part; sequence numbers modulo
  16, more than a connection uses; two retries. A mishap is a segment lost or a call that
  finds the transmitter busy. The scenarios: one client asking for a page, data, a file
  that cannot be read to its end or nonsense, with one mishap; the application as client,
  with one; the same when the server's address is unknown; a client that comes back, with
  one; a connection kept for a second request, with acknowledgements
  that come late, and with one mishap; a client that closes with its request; each
  request with late acknowledgements; two clients, one of which asks nothing. Timers run
  out when nothing of their connection is on its way (`timely`). `RequestRead` takes all
  texts of up to four characters of seven kinds after five beginnings that end within,
  at and past a buffer's end (name 6, extension 3, input 2 characters).
* *NicTx*: three words are a first, a middle and a last one; a third frame starts
  after an ended one while the busy flag of that one is still in the synchronisers.
* *ProgTimer*: two timers, periods 1 and 2, a clock to 3 (`MaxClock`), delays to 2
  (`MaxDelay`): a timer that fires each tick and one that must not. The table has the
  tick, the source with number 0, another source and a left-out entry, so that duplicate
  entries and their order matter. A word of the clock has
  two values (`WordBase` = 2), so that a carry falls between two loads wherever there are
  two.
* *Heap*: a pool of 96 bytes at an unaligned base, six sizes: none, the smallest, two
  that leave odd remainders, one larger than the pool, one with the top bit set. All
  sequences are explored, without a bound on their length.
* *Xip*: lines of two words have a first and a last; one load may follow a miss, as the
  pipeline lets it; bytes take two clocks and addresses one byte, so the timeout
  (`TB_PERIOD` = 9) can fall at every moment of a session and be longer than a byte, as it
  is in the hardware (64 clocks against 18). Lines and loads overlap, touch and lie apart,
  so sessions are continued across masters, restarted and timed out. The values the
  registers take are finite: nothing is capped.
* *Board*: bytes of eight bits and every half clock of the bus; a record of seven one-byte
  fields with a one-byte checksum that no mixture of the records happens to have. Two
  mishaps (reset, power cut, lost acknowledgement) during the starts of a chip in use; one mishap and one save or setting of the clock for a used and for a new chip. The clock
  is set to the first second of a month, which the driver stores as a day too many, or to
  the last second of a year. The conversions of dates are compared with the chip's calendar for the two seconds around each midnight up to 2067,
  where TLC's integers end.
* *GdbSession*: every command alone with two mishaps (a character lost or damaged, one
  overwritten in the UART, an interrupt by the user); every command before one that tells
  what it has done, with one; three sessions of three commands with one mishap and one
  system call. Texts of up to four characters and a ring that a packet fills.

### Fairness, and why the code justifies it

* *MiniMac*: weak fairness of the driver (the main loop polls), of the RMII edge that
  carries a write, of strobes falling and of a frame on the wire coming to its end (the
  clock runs), and of the synchronisers (the system clock runs). The peer need not send, and need not stop.
* *EthStack*: weak fairness of the packet loop, the main loop, DHCP, each application and
  the two timer handlers: the program runs and interrupts are on. Strong fairness of
  `ProcessDhcp(TRUE)` and of an application's response: the transmitter, asked again and
  again, is ready again and again, which `nictx_udp` shows of it. Nothing is assumed of
  the network.
* *TcpStack*: the loop goes on, a timer that is found running again and again runs out in
  the end, the application that waits has a timer of its own (`UserGivesUp`, as the example
  client has), a segment on its way to an end arrives or is lost, an end whose segment is
  never answered gives up. Nothing makes an end ask, answer or repeat.
* *NicTx*: weak fairness of the two clocks and of a driver that has begun a frame: the C
  function has no way to return before.
* *ProgTimer*: weak fairness of the dispatcher and of the program inside a critical
  section and its start. Strong fairness of taking an interrupt: a line that stays up is
  seen at one of the many instructions between two critical sections.
* *Xip*: weak fairness of `Next`: the clock runs. Everything else is hardware that does
  something in each clock.
* *Board*: weak fairness of program and bus together. Users, noise, resets and power cuts
  need not come.
* *GdbSession*: weak fairness of the stub and of the debugger, whose time limit is far
  above what the line takes (it runs out only when nothing is on the line). The user who may interrupt
  need not: nothing is assumed of `UserInterrupts`.

## 4. What is proved

All proofs are checked for every value of the constants under the named assumptions,
which TLC evaluates for each instance. Each `*_proofs` module proves inductive
invariants and draws the theorems from them. Every such invariant also holds in all
states of the instance of its run (TLC has checked that; `From` in `TcpStack_proofs` has
an unbounded quantifier and was given to TLC in the form "every segment in q is from
e"); the runs themselves list only the properties.

* **`MiniMac_proofs`** (from `MiniMacAssumption`: at most four slots, frames that fit
  a slot). `Invariance` establishes `IInv`; `SlotsHaveOwners` (`NoSlotLeaked`) and
  `OwnedStable` (`OwnedMemoryStable`) follow. `NoSlotLeaked` alone is not inductive: it
  says nothing of the write that is in flight or of a synchroniser that is behind. What
  carries the proof is that the processor's view of bit 1 of a state is never ahead of
  the register (`SyncInv`), so a slot the driver takes has really left the ready state
  (`OwnerInv`), while a receiving engine, whose address was fixed when the frame began,
  is inside a slot that is still ready (`EngineInv`); a write that disables is for the
  working slot only (`BusInv`). `HeldIntact` (`HeldFrameIntact`): what the stack reads is
  one whole frame, for every slot size but five bytes. A first word of a frame lies only
  at a base of the hardware (`HeadInv`), and where the driver's base of a slot is some
  base of the hardware it is that slot's (`BasesAgree`; not so with slots of five bytes),
  so what passes the checksum was stored there as one frame; after that nobody stores
  into a slot that is held (`OwnedStep`).
* **`EthStack_proofs`** (from `UdpAssumption`, `DhcpAssumption`, `EthStackAssumption`).
  There is one lemma for each C function, on the record of the globals, and one for each
  action. `SlotsStayAccounted` (`SlotsAccounted`) has no hypothesis on packets, link or mask:
  whatever arrives, a slot that is lost holds a UDP datagram, and where the link stays up
  and nothing is for port 65535 an empty one. It needs two invariants. `LossInv` holds
  always: what the dispatcher leaves without a dump is a datagram, since every other call
  dumps the packet or returns it as it was (`Yields`). `IInv` holds while a behaviour is
  `Calm` (a link that stays up, nothing to port 65535; `Invariance`): the slot held is the
  one disabled, the dispatcher's state says whether one is held, and a datagram that waits is
  held, at its first unread byte, until nothing of it is left. `AnnouncedStays`
  (`AnnouncedIntact`) follows from both, for a link that stays up and, where checksums are
  on, packets without IP options (section 5). `SocketsHaveOwners` (`SocketsOwned`), for a link
  that stays up and nothing to port 65535, from `OwnerInv`, where the client's socket variable
  needs four cases: none, an open socket while it waits, a stale one under manual settings,
  and the static 0 before it has run, which is harmless only because nothing is open yet.
* **`Drivers_proofs`**, of `NicTx` (from `NicTxAssumption` and callers that ask first).
  `ReadyIsAlwaysTrue` and, step by step, `SendsWholeFrames`: a step of driver or engine
  is a step of `TxPort` or invisible to it. The invariant says how far the busy flag may
  be behind the write (`BusInv`: no further than the acknowledgement) and that counter,
  read address and wire agree while a frame goes out (`EngineInv`). The fairness of
  `TxPort` is left to the run.
* **`Drivers_proofs`**, of `Board` (from `BoardAssumption`; nothing is assumed of the number
  of restarts, power cuts and disturbed bytes, of the chip's contents but their type, or of
  the records and times). `Agreement` establishes `LinkInv`: for each half clock of the
  driver, the byte the chip takes it for, the bits of it that have passed (`SendInv`,
  `ReadInv`), and who holds the data line between the bytes (`StopInv`, `QuietInv`). A chip
  left in the middle of a byte by a restart is in no relation to the driver at all; what
  saves the next transaction is that a start condition is only made on a free line, and
  makes the chip listen from the first bit on. `ReadsFaithfully` (`ReadFaithful`) and
  `StoresAsMeant` (`StoredAsMeant`) follow: they are not inductive, for neither says which
  bit is on the line. `Histories` adds what the cells hold between the writes, and
  `SettingsAreKept` (`SettingsSurvive`) and `TimeIsKept` (`ClockKept`) what a start makes of it.
  The part about dates needs no induction: the days before a month are a table, from which
  `MonthFound` finds the one month a day falls in. `ClockRegisters` is, for every second
  below 2099, what the driver's conversion leaves in the registers: digits that read back
  (`DigitsAre`, `DateRead`), a date whose time by the chip's own calendar is the one meant
  (`CivilDayIs`, `StoredDate`) or, for the first second of a month other than January, the
  day after the last of the month before (`DayTooMany`); and the driver's conversion back.
  `BoardAssumption` asks that the chips a behaviour starts with hold a date.
  Two hypotheses are about the behaviour. `ClockInCalendar`: the processor's clock is below
  2099, for later ones `ds1338z_setUnixTime` leaves the year unset. `ChecksumTells`, for
  `SettingsSurvive` alone: a record of which only a part was written does not have the
  right checksum by chance. No checksum can promise that and the code relies on it; both
  hold in every state of the instance of the run.
* **`TcpStack_proofs`** (from the assumptions of `Arp`, `Tcp`, `Http` and `TcpStack`; the
  HTTP port lies outside of the range of local ports, as in the code). `BytesStay`
  (`AnnouncedIntact`) and `OneSocket` (`OneSocketPerEnd`), for every number of sockets and
  ends, and for whatever is lost, repeated, late or timed out. Most calls are shown to be
  `Calm`: a socket keeps its port, its remote end and whether it is a server's, stays in
  its state, moves within a connection or ends, and its bytes stay with the packet held or
  go. What is left are the calls that put a socket to use. The invariant of the sockets
  (`Good`) says that a closed socket is no server's, since a close would otherwise bring a
  listener back beside the one that has replaced it (`ServersUsed`); that two used sockets
  differ in end or port, including one that only waits for an address (`Apart`); and that a
  socket's bytes are those of the packet that waits (`Ann`). The port of a socket opened by
  the application is free because before that all used ones are at the HTTP port
  (`HttpOnly`). `Serves` keeps the HTTP registers within the sockets they may close.
  `EveryTextRead`, and with it `RequestsRead` (`RequestRead`), is for a text of any length
  behind GET or HEAD. The relation between what the loops have read of the first n bytes and
  what these mean is kept by one byte more: for a path (`PathRead`) the last start of a name,
  the dots behind it and the characters between them, and that no dot lies before a slash of
  the name; for the inputs (`InputsRead`) where the present one started, its first '=', and
  the inputs complete so far. The recursions run over the places of the text and are shown to
  have a value; concatenation (`FlattenSeq`) is used by what one element more adds to it.
* **`GdbSession_proofs`** (from `GdbAssumption` and `GdbSessionAssumption`). `RunsReady`
  (`ResumesReady`) for every session, every length of the buffers and any damage on the
  line: debugging is enabled from the first trap on, whatever is written to SR, and the
  copy of memory in the cache is stale only while a flush is marked (`Marked`), which is
  never so where the stub goes on without looking at the mark, after a system call
  (`Settled`). `ExecutesOnlyAsked`: registers and memory are written, and the program is let
  go, only for a command of the session the debugger has asked by then, however many
  characters are lost or damaged. This rests on `AskedInv` (`DigitsNameCommands`): a packet
  on the line that still has its two digits has the text of a command asked, and so has what
  the stub has read of one once the sum is right; damage can take a packet away and never
  make another of it, as the debugger's checksums are taken to tell the commands apart.
  `FaultlessAnswers` (`AnswersRight`) and `FaultlessExecutes` (`ExecutesAsked`) are for the
  time until the first mishap, in sessions of any length (`ProperSessions`: the ring holds
  a character; a command fits the buffer, one with a value has its two parts, and the value
  is not the "O" that marks output for the console). The invariant, `Phases`, is a list of
  the joint states of the two ends and the line: no debugger yet, no command pending, a
  command on its way, half read, acknowledged, an answer being read, the program running,
  the end. In each, the rest of the one packet that moves is what is on the line and the
  part read is what the other end has kept (`Halfway`, `Telling`); the debugger's idea of
  registers and memory is the processor's, or what it will be once the command on its way is
  executed (`Agree`, `Foresees`); and an acknowledgement may still be on the line when the
  next command follows it (`Free`, `Asking`).
* **`ProgTimer_proofs`** (from `IrqAssumption` and `ProgTimerAssumption`).
  `CriticalAlwaysHolds` and `GieAlwaysMatches` from the section's state, counter and SR
  together: SR alone is not enough, since the counter is raised before SR is cleared.
  `NoEventIsSkipped` is for tables in which a source with a handler has one entry.
  `PeriodsAreKept` (`PeriodKept`) from `ClockInv`: the counter of a linked timer is the time
  of its last tick or of the last setting of the clock, except inside the critical section
  of `progtimer_setclock`, where no tick comes (`SectionInv`). `DelaysAreLongEnough`
  (`DelayLongEnough`), for a clock of any value and words of any size: the ticks counted for
  a delay are those since its first read of the clock, and a later read that a carry tears
  gives a time too early, never too late, so that the delay only goes on (`DelayInv`,
  `Words`). The one read that must not be torn is that of the start time, and the property
  says so (`torn`).
* **`Heap_proofs`** (from `HeapAssumption`): `AlwaysTiled`, `AlwaysFreeList` and
  `Implements` (`Allocator`). The shape of blocks and list must be carried together: the
  list alone does not say that a merge keeps within a neighbour, nor the tiling alone that
  the neighbour in the list is the neighbour in memory. `RefusesOnlyWhenFull`
  (`RefusedOnlyWhenFull`), for pools of up to 2^31 bytes: a gap between allocated blocks
  lies inside one free block, since two free blocks are never neighbours (`Covered`), and
  the scan stops at the first that is long enough.
* **`Xip_proofs`** (from `FlashAssumption` and `XipAssumption`): `TypeCorrect`,
  `Invariance`, `StrobesAlwaysOwed`, and `AlwaysReadsAsRom`: every clock of the hardware is
  a clock of `RomPort` for both masters at once. The lemmas follow the hardware.
  `MastersStep`: a request stays until it is answered. `ReadingStep`, `StartStep`,
  `WaitingStep`: the word being read is the one its master wants, byte by byte, and
  where the next word would begin. `SessionStep`: the stream of the flash is at the byte
  asked for, provided the adapter holds its request until the answer and drops it with
  the answer, which `AdapterStep` provides. In the invariant, the timeout that would cut
  a byte off just as it is answered is excluded by where the timebase is when it is held
  (`SessionInv`). This needs no relation between byte time and timeout period.

### Only model-checked

* Liveness and fairness, which the prover cannot do: `ReceiverRecovers`, `SlotsComeBack`,
  `StackServes`, `LeaseEnds`, `HalfOpenEnds`, `Served`, `RequestsAnswered`, `Answered`,
  `BootEnds` and the fair half of `SendsFrames`.
* `ResponseIntact` and `CompleteAtEnd`, and, once there has been a mishap, `AnswersRight` and
  `ExecutesAsked`: they hold for the mishaps of the runs and not for every number of them
  (section 5), so there is no theorem for every value of the constants; what their proof
  would need is an account of each segment or character on its way.

## 5. Findings

1. **`libhw/minimac2.c:88`**: the driver computes a slot's base as align32(MTU * slot),
   the hardware as slot * align32(MTU). With the MTU of 1530 slots 2 and 3 differ by four
   bytes; the driver rejects every frame received there (`minimac_dropped`).
2. **`ibexukIP/eth-main.c:175`**: a link lost while a datagram waits resets the state
   machine and forgets the slot (`eth_linkloss`).
3. **`ibexukIP/eth-nic.c:198`**: `nic_setup_tx` is documented to check the transmitter
   and returns TRUE; replies that rely on it overwrite the frame going out (`nictx_arp`).

### What else fails

Met while modelling. *In the runs* are the cases that a property names as its exception, in
brackets: the run reaches it, and the property shows that nothing else fails in this way.
The surroundings of the runs leave the others out, and this is where: a property in
parentheses is violated by the change named.

*In the runs*

* *Starvation of the higher slots* (`minimac2.c:93-102`, `myminimac_ctlif_cd2.v:172`): the
  receiver takes the lowest ready slot and the driver the lowest filled one, so that under
  traffic without a pause a frame in a higher slot may wait for ever [`SlotsComeBack`].
* *Zero-length datagrams* (`eth-udp.c:101`, `:255`): no bytes left means "processed", so an
  empty datagram is announced and its slot lost [`SlotsAccounted`].
* *Port 65535* (`eth-udp.c:289`): it is the mark of a closed socket, so a datagram to it
  finds one, is announced to nobody, and reception stops until somebody opens that socket;
  if he does, on another port, he reads a stranger's datagram [`StackServes` of `EthStack`,
  `Halted`; `SlotsAccounted`, `AnnouncedIntact`].
* *A next request that acknowledges the answer to the last one only late, or whose ACK was
  lost* (`eth-tcp.c:1385`): the request waits for its reader, the reader for its answer's
  acknowledgement, which no segment can bring while one waits. The watchdog of
  `eth-main.c:189-205` that would end it is never set [`StackServes` of `TcpStack`,
  `Deadlocked`].
* *A delay over the carry of the clock* (`prog_timer.c:239`, with the 64-bit clock of
  `prog_timer.h:15`): "Do delay for a given number of timer ticks" (`:235`) reads the clock
  in two loads with interrupts on; a tick that carries between those of `start_ticks` ends
  the delay at once. The low word wraps every 49.7 days [`DelayLongEnough`, `torn`].
* *The first second of a month* other than January is stored as the day after the last of
  the month before, 1 March as 30 February (`ds1338z.c:169`; line 179 says days 1 - 31).
  The driver reads it back as it was; the chip's calendar has no such day, and what the chip
  counts on to from there is not modelled [`ClockKept`, `DayTooMany`].
* *A lost stop reply* (`gdb.c:182-208`): the stub waits for the '+' to it and the debugger for
  the reply, both without limit, until a user interrupts [`Answered`, `BothWait`].

*Receive path and packet loop*

* *Peer match by subnet* (`eth-udp.c:294-295`): with a mask that is not all ones a datagram of
  any host of the subnet passes for the peer's, although the comment at line 299 calls it
  that of the remote end. No property says more of the sender than the code does.
* *IP options with checksums on* (`eth-udp.c:217`): the read pointer is put back to a
  constant place (`ChecksumsEnabled = TRUE`, `WithOptions`).

* *A client switched on again* (`eth-dhcp.c:124`): `dhcp_socket` is 0 until it is first
  opened, and the initial state closes it: socket 0, whoever owns it (`SocketsOwned`
  when settings change; it is stated without changes). *From manual settings to DHCP and
  back during a request* (`eth-dhcp.c:95`) leaves the client's socket open; *a renewal
  without a free socket* (`eth-dhcp.c:297`) goes on with none.
* *A flood of frames of unknown type* keeps the loop of `eth-main.c:247` going
  (`Unknown`): the call never returns. `LeaseEnds` assumes that it does.
* *Two current slots, and a frame delivered twice*: a slot register written on the edge of
  `rx_resetcount` (`myminimac_ctlif_cd2.v:240`, `:255`) violates `OneCurrentSlot`, which `MiniMac` states and no run checks; `HeldFrameIntact` holds in spite
  of it.

*TCP, ARP and HTTP*

* *Two mishaps, or a late acknowledgement and a loss* (`eth-tcp.c:600`): the sequence
  number moves past the last segment on any segment received, so what is sent again has
  the number after it (`ResponseIntact`). The same with timers that run out while
  segments are on their way (`timely` FALSE).

* *Two sockets in one pass of `process_tcp`* (`eth-tcp.c:103`, `:345`) with the transmitter
  free for both: the second sends the flags the first has left (`CompleteAtEnd`, with
  `drains`). *Two clients that ask, with a mishap*: a disconnect takes the answer stored
  for another socket (`eth-tcp.c:1237-1277`).
* *An unknown address*: `eth-tcp.c:1087` says "ARP will automatically be performed", but
  with `PACKED_STRUCT` (`main.h.in:129`) `arp_process_rx` stores of a response the MAC
  address only (`eth-arp.c:258`), so the wait never ends well, and the timeouts have no
  case for it: the request is not repeated. The application has to give up.
* *A file whose reading fails* ends in an error page in the place, and when it is sent
  again under the numbers, of the data (`ResponseIntact` exempts it so far as to allow the
  error page at the end).
* *A client that closes with its request* gets no response (`eth-tcp.c:415`).
* *Requests*: a name of exactly the buffer's length loses its last character
  (`eth-http.c:578`); inputs are handed to the application before a later error makes the
  request a bad one (`eth-http.c:2305`); a domain name without a dot, or a directory
  with one, is taken for part of the name; `&` or a space ends an escape in its middle; a
  request in two segments is a bad one. `RequestMeans` says so.
* *Read in the code, with no property*: a FIN is repeated without ACK (`eth-tcp.c:313`)
  and so ignored; a FIN with a wrong acknowledgement is accepted (`:681`, `:797`); the
  segment of an empty file takes no number and is never acknowledged; the reset to an
  unknown segment carries ack + length as its number (`:563`); a connection request is
  repeated without end; the example client has no time limit in `SM_TX_PACKET`.

*Flash*

* *Deselection*: `spi_pack.vhd:780` counts `CS_HIGH_CYCLES` for it, but a restarted session
  (lines 1109-1115) has the device deselected for two clocks only. Bytes are right in the
  model, which has no analogue timing.
* *A timeout about as long as a byte*: with the timebase's period near the time of a byte
  (5 clocks in the instance) a session is cut off again and again (`RequestsAnswered`).
  The hardware has 64 clocks against 18, the run 9 against 4.

*Settings and clock*

* *A chip that holds the data line after a reset*: the driver never clocks it free, so
  every start condition is refused until the power is cut; the program runs on the
  defaults and on the build's time. `SettingsSurvive` and `BootEnds` say that much.
* *Noise during the read at the start*: the result of `Settings_read` is dropped
  (`settings.c:121`), the zeroed record fails its checksum and the defaults are written
  over the good one (`SettingsSurvive` exempts noise).
* *The gateway of the defaults* may lie outside of the subnet of an address kept
  (`settings.c:172`), though validation is to bring the data to a valid form (`settings.h:49`).
* *Dates*: from 2099 on year and
  month are left unset, and the day of the week always is; a write of the clock that is
  cut off is noticed by nobody.
* *The base of the chip's memory is added twice*: the record lies at address 16, so that 48
  of the 56 bytes are left.

*Debugger stub*

* *More mishaps than in the sessions*: a character damaged into a '+', or an interrupt by
  the user with a lost reply, loses an answer (`AnswersRight`). With a lost '+' of the
  stub a command to continue or step is executed twice (`ExecutesAsked` exempts it). With
  three mishaps and a ring that has room for a whole packet (`MAX_RX_BUF` = 16; it is 128
  in the code) a repeated one stays in the ring while the program runs and is executed
  when the debugger no longer waits (`ExecutesAsked`); the sessions of the run are free of
  it with that ring, too.
* *A command longer than the buffer* (`gdb.c:247-289`) is answered by empty replies without
  end.
* *A step onto `l.trap`* leaves the step bit in ESR (`altor32_exec.v:505`, `gdb.c:585`).
* *Read in the code, with no property*: `l.sys 2` never advances its length (`gdb.c:334`);
  `l.sys 5` returns the old handler (`:366`); `inbuffer[2]` is compared before it is known to be
  of this packet (`:261`); a ring with 128 characters is an empty one (`gdb_hw.c:79`).

## 6. Plan

Done, in the order of importance: `MiniMac`; `EthStack` with `Udp` and `Dhcp`; `NicTx`;
`Irq` and `ProgTimer`; `Heap`; `SpiFlash` and `Xip`; then the debugger stub, the settings
with the clock chip and its bus, TCP with ARP and HTTP; the proofs of all safety
properties of `MiniMac`, `NicTx`, `ProgTimer`, `Heap`, `Xip`, `EthStack` and `Board`, of the
sockets and the reading of requests of `TcpStack`, and of the resumption, the commands
executed and the sessions without mishaps of `GdbSession`.

Next:

1. `TcpStack`: `ResponseIntact` for a network without faults, from the file's position, the
   sequence number and what is on its way.
2. `TcpStack` in place of the socket table of `EthStack`, so that TCP and UDP share the
   received packet.

## 7. Conventions

Names are the source's where TLA+ allows it. A definition preceded by `\* mutant:` is the
mutated form of the definition of the same name without the suffix and is used by no
specification. Constants are declared, with a named assumption, in the module that uses
them; an `MC` module only adds values a configuration cannot write. Deadlock is checked
in every run but `board` and `gdb`, where the bounds on mishaps and the end of the
session leave nothing to do.

`Asked`, a constant of `Http`, is what each request asks for; its assumption says that it
is what `ReadRequest` reads, and the configuration gives it that value: the text is read
once and not in every state.

## 8. Not modelled, and why

* *PHY management*: a shift register that the program polls; only the hardware test makes
  transfers beside those of the one-second interrupt, so nothing meets in it. The link
  status is an input of `EthStack`.
* *Hardware I2C controller* (`iicmb`): of another project. The default build has it in the
  place of `bb_i2c.c`, which is this project's own driver and the one modelled; the
  transactions, the clock and the settings above are the same in both.
* *UART*: what the stub sees of it is in `GdbSession`; the bits of a byte are not, nor
  `serial0.c`, which has neither a buffer nor an interrupt.
* *Boot code, system calls*: straight-line. The entry and exit of an exception are single
  steps of `Irq`.
* *Multiplexers, memories, processor, port peripherals*: combinational or arrays, or the
  work of another project. What a component relies on at its bus (a strobe of one clock, a
  cycle held until acknowledged) is stated where it is used.
* *Pure libraries* (Base64, SHA-1, Gray code, CRC, printf): no state; CRCs are ideal in the
  models.
* *Benchmark, board tests, image tools, unused bus components*: no logic of the system.
* *Within the modelled components*: long frames that run over a slot (nothing in the
  hardware stops them, `MiniMacAssumption` excludes them); bytes inside a word; contents
  of transmitted packets and parsing of options; `progtimer_free` and
  `setInterruptPriority`, which have no caller; heap memory with old contents under a new
  timer (`prog_timer.c:162` links a timer before it is filled in; `HeapContents` is the
  parameter); writes to the flash, its registers and its initialisation; POST requests,
  which are not compiled, and dynamic data in pages; TCP's headers, checksums and window,
  and segments of more than one unit; packets of the debugger with a sequence number; the
  system calls that install handlers or restart.
