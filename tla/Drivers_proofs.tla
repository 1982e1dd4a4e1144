--------------------------- MODULE Drivers_proofs ---------------------------
(***************************************************************************)
(* Proofs about the two drivers that talk to hardware half clock by half   *)
(* clock, or word by word: Board.tla, the settings and the time behind the *)
(* two-wire bus, for every chip, record and time and any number of         *)
(* restarts, power cuts and disturbed bytes; and NicTx.tla, for frames of  *)
(* any length and any number of them, when every caller asks               *)
(* nic_ok_to_do_tx first.                                                  *)
(*                                                                         *)
(* Of Board, LinkInv says for each half clock where the driver is, where   *)
(* the chip is in the same byte, and what the bits are that have passed;   *)
(* History what the cells hold between the writes.  Of both, the step      *)
(* lemmas treat one action each.                                           *)
(***************************************************************************)
EXTENDS Board, NicTx, SequenceTheorems, TLAPS

-----------------------------------------------------------------------------
(* Where the chip is in a byte, for each half clock of the driver *)

Sending == i2c.pc \in {"address", "pointer", "address_r"} \/ (i2c.pc = "data" /\ i2c.op = "write")

\* the first k bits of a byte
Top(v, k) == v \div 2^(BITS - k)

\* what the byte being sent is to the chip
Takes == CASE i2c.pc \in {"address", "address_r"} -> "address"
           [] i2c.pc = "pointer"                  -> "pointer"
           [] OTHER                               -> "store"

Chips(cells) ==
  [state : {"idle", "address", "pointer", "store", "send"}, n : Nat, shift : Nat,
   ptr : 0..CELLS - 1, sda : {0, 1}, mem : [cells -> Byte]]

ChipType ==
  /\ chip \in Chips(DOMAIN chip.mem)
  /\ ClockCells \cup RecordCells \subseteq DOMAIN chip.mem
  /\ scl \in {0, 1} /\ sda \in {0, 1}

Transfers ==
  [op : {"none", "read", "write"}, base : {0, NVRAM}, n : 0..7, data : Seq(Byte),
   pc : {"idle", "start", "address", "pointer", "restart", "address_r", "data", "stop", "done"},
   step : 0..2 * (BITS + 1), byte : Byte, ret : {"done", "nak", "arb_lost"}]

TransferType ==
  /\ i2c \in Transfers
  /\ i2c.pc \notin {"stop", "done"} => i2c.ret = "done"
  /\ i2c.op = "none" <=> i2c.pc = "idle"
  /\ i2c.op = "read" =>
       /\ i2c.n \in {1, 7} /\ Len(i2c.data) <= i2c.n
       /\ \A j \in 1..Len(i2c.data) : i2c.data[j] = chip.mem[i2c.base + j - 1]
       /\ i2c.pc \notin {"data", "stop", "done"} => i2c.data = <<>>
       /\ i2c.pc = "data" => Len(i2c.data) < i2c.n
       /\ i2c.pc \in {"stop", "done"} /\ i2c.ret = "done" => Len(i2c.data) = i2c.n
  /\ i2c.op = "write" =>
       /\ i2c.pc \notin {"restart", "address_r"}
       /\ Len(i2c.data) = 7
       /\ \A j \in 1..i2c.n : chip.mem[i2c.base + j - 1] = i2c.data[j]
       /\ (i2c.pc \notin {"data", "stop", "done"} \/ i2c.ret = "arb_lost") => i2c.n = 0
       /\ i2c.pc = "data" => i2c.n < 7
       /\ i2c.pc \in {"stop", "done"} /\ i2c.ret = "done" => i2c.n = 7

\* the bits and, from step 17 on, the acknowledgement of a byte sent
Acknowledged == chip.state = Takes /\ chip.sda = 0 /\ chip.shift = SentByte
                /\ (Takes = "store" => chip.mem[i2c.base + i2c.n] = SentByte)
Unheard      == chip.state = "idle" /\ chip.n = 0 /\ chip.sda = 1 /\ "noise" \in disturbed

SendInv == Sending =>
  /\ i2c.step <= 16 =>
       /\ chip.state = Takes /\ chip.sda = 1 /\ chip.n \in 0..BITS /\ i2c.byte = 0
       /\ chip.shift = Top(SentByte, chip.n)
       /\ \/ /\ i2c.step = 2 * chip.n
             /\ scl = 1 \/ i2c.step = 0
          \/ /\ i2c.step = 2 * chip.n + 1
             /\ scl = 0 /\ sda = Bit(SentByte, chip.n)
  /\ i2c.step = 17 => scl = 0 /\ sda = 1 /\ ((Acknowledged /\ chip.n = BITS) \/ Unheard)
  /\ i2c.step = 18 => scl = 1 /\ sda = 1 /\ ((Acknowledged /\ chip.n = BITS + 1 /\ i2c.byte = 0)
                                           \/ (Unheard /\ i2c.byte = 1))
  /\ i2c.pc \in {"address_r", "data"} => chip.ptr = i2c.base + (IF i2c.pc = "data" THEN i2c.n ELSE 0)

\* the bits and the acknowledgement of a byte read
ReadCell == chip.mem[i2c.base + Len(i2c.data)]
LastRead == IF Len(i2c.data) < i2c.n - 1 THEN 0 ELSE 1

ReadInv == Reads =>
  /\ chip.state = "send" /\ chip.ptr = i2c.base + Len(i2c.data)
  /\ i2c.step <= 16 =>
       /\ sda = 1 /\ chip.n \in 0..BITS /\ i2c.byte = Top(ReadCell, chip.n)
       /\ \/ (i2c.step = 2 * chip.n /\ i2c.step > 0 /\ scl = 1)
          \/ /\ (i2c.step = 2 * chip.n + 1) \/ (i2c.step = 0 /\ chip.n = 0)
             /\ scl = 0 /\ chip.sda = Bit(ReadCell, chip.n)
  /\ i2c.step > 16 => sda = LastRead /\ i2c.byte = ReadCell
  /\ i2c.step = 17 => scl = 0 /\ chip.n = BITS /\ chip.sda = 1
  /\ i2c.step = 18 => scl = 1 /\ chip.n = BITS + 1 /\ chip.shift = sda

\* the conditions before and after the bytes, and the bus between transactions
RestartInv == i2c.pc = "restart" =>
  /\ i2c.op = "read" /\ i2c.step \in {0, 1} /\ i2c.byte = 0
  /\ scl = i2c.step /\ sda = 1 /\ chip.state = "store" /\ chip.sda = 1 /\ chip.ptr = i2c.base

StopInv == i2c.pc = "stop" =>
  /\ i2c.step \in 0..2 /\ chip.sda = 1 /\ i2c.ret \in {"done", "nak"}
  /\ scl = (IF i2c.step = 2 THEN 1 ELSE 0) /\ (i2c.step > 0 => sda = 0)
  /\ i2c.ret = "nak" => "noise" \in disturbed

QuietInv ==
  /\ prog # "reset" /\ i2c.pc \in {"idle", "start", "done"} => scl = 1 /\ sda = 1
  /\ i2c.pc \in {"idle", "start", "done"} /\ chip.sda = 0 => "restart" \in disturbed
  /\ i2c.pc = "start" => i2c.step \in {0, 1} /\ i2c.byte = 0 /\ (i2c.step = 1 => chip.sda = 1)
  /\ i2c.pc = "done" => /\ (i2c.ret = "arb_lost") <=> (chip.sda = 0)
                        /\ i2c.ret = "nak" => "noise" \in disturbed

-----------------------------------------------------------------------------
(* What the program is doing, and what the chip should hold *)

ProgramInv ==
  /\ prog \in {"reset", "running", "probe", "read", "write", "rtc_probe", "rtc_get", "sync", "save", "set"}
  /\ prog \in {"reset", "running"} <=> i2c.pc = "idle"
  /\ prog \in {"probe", "rtc_probe"} => i2c.op = "read" /\ i2c.base = 0 /\ i2c.n = 1
  /\ prog = "read" => i2c.op = "read" /\ i2c.base = NVRAM /\ i2c.n = 7
  /\ prog = "rtc_get" => i2c.op = "read" /\ i2c.base = 0 /\ i2c.n = 7
  /\ prog \in {"write", "save"} => i2c.op = "write" /\ i2c.base = NVRAM /\ i2c.data = S!Bytes(settings)
  /\ prog \in {"sync", "set"} =>
       /\ i2c.op = "write" /\ i2c.base = 0
       /\ \E dow \in Garbage : i2c.data = Registers(RawClock(clock, dow))
  /\ settings \in Records
  /\ prog \in {"reset", "probe", "read"} => settings = S!Zeroed

Storing == i2c.pc \in {"data", "stop"} \/ (i2c.pc = "done" /\ i2c.ret # "arb_lost")

Fields(h) == h = [held |-> h.held, writing |-> h.writing, torn |-> h.torn] /\ h.torn \in BOOLEAN

RecordInv ==
  /\ Fields(record)
  /\ record.writing = IF prog \in {"write", "save"} THEN {settings} ELSE {}
  /\ \/ record.torn \/ RecordOf(chip.mem) \in record.held
     \/ (prog \in {"write", "save"} /\ Storing)

TimeInv ==
  /\ Fields(time)
  /\ time.writing = IF prog \in {"sync", "set"} THEN {clock} ELSE {}
  /\ \/ time.torn \/ ClockOf(chip.mem) \in time.held
     \/ (prog \in {"sync", "set"} /\ Storing)

Synchronised == prog = "sync" /\ i2c.pc = "start" =>
  time.torn \/ clock \in {Later(t, BULD_TIMESTAMP) : t \in time.held}

LinkInv == ChipType /\ TransferType /\ SendInv /\ ReadInv /\ RestartInv /\ StopInv /\ QuietInv /\ ProgramInv

\* what a start reads after a torn write: a mixture fails the checksum
ChecksumTells ==
  prog = "read" /\ i2c.pc = "done" /\ record.torn /\ S!verify_settings_crc32(RecordOf(chip.mem))
    => RecordOf(chip.mem) \in record.held

ClockInCalendar == InCalendar(clock)
-----------------------------------------------------------------------------
(* Bits *)

LEMMA BitType == ASSUME NEW v \in Byte, NEW k \in 0..BITS - 1 PROVE Bit(v, k) \in {0, 1}
<1>1. k \in 0..7
  BY DEF BITS
<1>2. CASE k = 0
  BY <1>2 DEF Bit, Byte, BITS
<1>3. CASE k = 1
  BY <1>3 DEF Bit, Byte, BITS
<1>4. CASE k = 2
  BY <1>4 DEF Bit, Byte, BITS
<1>5. CASE k = 3
  BY <1>5 DEF Bit, Byte, BITS
<1>6. CASE k = 4
  BY <1>6 DEF Bit, Byte, BITS
<1>7. CASE k = 5
  BY <1>7 DEF Bit, Byte, BITS
<1>8. CASE k = 6
  BY <1>8 DEF Bit, Byte, BITS
<1>9. CASE k = 7
  BY <1>9 DEF Bit, Byte, BITS
<1> QED
  BY <1>1, <1>2, <1>3, <1>4, <1>5, <1>6, <1>7, <1>8, <1>9

LEMMA TopEnds == ASSUME NEW v \in Byte PROVE Top(v, 0) = 0 /\ Top(v, BITS) = v
BY DEF Top, Byte, BITS

LEMMA TopNext ==
  ASSUME NEW v \in Byte, NEW k \in 0..BITS - 1
  PROVE  Top(v, k + 1) = 2 * Top(v, k) + Bit(v, k) /\ Top(v, k) \in 0..127
<1>1. k \in 0..7
  BY DEF BITS
<1>2. CASE k = 0
  BY <1>2 DEF Top, Bit, Byte, BITS
<1>3. CASE k = 1
  BY <1>3 DEF Top, Bit, Byte, BITS
<1>4. CASE k = 2
  BY <1>4 DEF Top, Bit, Byte, BITS
<1>5. CASE k = 3
  BY <1>5 DEF Top, Bit, Byte, BITS
<1>6. CASE k = 4
  BY <1>6 DEF Top, Bit, Byte, BITS
<1>7. CASE k = 5
  BY <1>7 DEF Top, Bit, Byte, BITS
<1>8. CASE k = 6
  BY <1>8 DEF Top, Bit, Byte, BITS
<1>9. CASE k = 7
  BY <1>9 DEF Top, Bit, Byte, BITS
<1> QED
  BY <1>1, <1>2, <1>3, <1>4, <1>5, <1>6, <1>7, <1>8, <1>9

LEMMA Parity == ASSUME NEW n \in Nat PROVE /\ (2 * n) % 2 = 0 /\ (2 * n) \div 2 = n
                                         /\ (2 * n + 1) % 2 = 1 /\ (2 * n + 1) \div 2 = n
OBVIOUS

\* the cells of a transaction are cells of the chip
LEMMA CellExists ==
  ASSUME ChipType, NEW base \in {0, NVRAM}, NEW k \in 0..6
  PROVE  /\ base + k \in DOMAIN chip.mem /\ base + k \in 0..CELLS - 1 /\ chip.mem[base + k] \in Byte
         /\ (base + k) % CELLS = base + k
BY DEF ChipType, Chips, ClockCells, RecordCells, NVRAM, DS1338Z_NVRAM_START, DS_1338Z_NVRAM_BASE, CELLS

LEMMA SentByteType == ASSUME TransferType, Sending PROVE SentByte \in Byte
<1>1. CASE i2c.pc = "address" \/ i2c.pc = "address_r"
  BY <1>1, BoardAssumption DEF SentByte, Byte
<1>2. CASE i2c.pc = "pointer"
  BY <1>2 DEF SentByte, Byte, TransferType, Transfers, NVRAM, DS1338Z_NVRAM_START, DS_1338Z_NVRAM_BASE
<1>3. CASE i2c.pc = "data" /\ i2c.op = "write"
  <2>1. SentByte = i2c.data[i2c.n + 1]
    BY <1>3 DEF SentByte
  <2>2. i2c.data \in Seq(Byte) /\ i2c.n \in 0..7
    BY DEF TransferType, Transfers
  <2>3. i2c.n < 7 /\ Len(i2c.data) = 7
    BY <1>3 DEF TransferType, Transfers
  <2> QED
    BY <2>1, <2>2, <2>3, ElementOfSeq
<1> QED
  BY <1>1, <1>2, <1>3 DEF Sending

LEMMA SentByteNext == (TransferType /\ Sending => SentByte \in Byte)'
<1>1. TransferType /\ Sending => SentByte \in Byte
  BY SentByteType
<1> QED
  BY <1>1, PTL

-----------------------------------------------------------------------------
(* The calendar *)

\* the year a day falls in
LEMMA YearFound ==
  ASSUME NEW t, InCalendar(t)
  PROVE  /\ t \in Nat /\ YearOf(t) \in 0..98
         /\ DaysBeforeYear[YearOf(t)] * DAY <= t /\ t < DaysBeforeYear[YearOf(t) + 1] * DAY
<1> DEFINE d == t \div DAY
           y == (4 * d) \div 1461
<1>1. t \in Nat /\ DAY = 86400
  BY DEF InCalendar, DAY, HOURS_IN_DAY, MINUTES_IN_HOUR, SECONDS_IN_MINUTE
<1>2. d \in Nat /\ d * 86400 <= t /\ t < (d + 1) * 86400
  BY <1>1
<1>3. \A k \in 0..99 : DaysBeforeYear[k] = k * 365 + (k + 3) \div 4 /\ DaysBeforeYear[k] \in Nat
  BY DEF DaysBeforeYear, DAYS_IN_YEAR
<1>4. d < 36160
  BY <1>3 DEF InCalendar
<1>5. y \in 0..98 /\ y * 365 + (y + 3) \div 4 <= d /\ d < (y + 1) * 365 + (y + 4) \div 4
  BY <1>2, <1>4
<1>6. y \in 0..98 /\ y + 1 \in 0..99 /\ DaysBeforeYear[y] <= d /\ d < DaysBeforeYear[y + 1]
  <2> HIDE DEF y
  <2>1. y + 1 \in 0..99 /\ y \in 0..99 /\ (y + 1) + 3 = y + 4
    BY <1>5
  <2> QED
    BY <2>1, <1>3, <1>5
<1> HIDE DEF d, y
<1>7. \E k \in 0..98 : DaysBeforeYear[k] * DAY <= t /\ t < DaysBeforeYear[k + 1] * DAY
  <2>1. DaysBeforeYear[y] \in Nat /\ DaysBeforeYear[y + 1] \in Nat
    BY <1>3, <1>6
  <2>2. DaysBeforeYear[y] * 86400 <= t /\ t < DaysBeforeYear[y + 1] * 86400
    BY <2>1, <1>1, <1>2, <1>6
  <2> QED
    BY <2>2, <1>1, <1>6
<1>8. YearOf(t) = CHOOSE k \in 0..98 : DaysBeforeYear[k] * DAY <= t /\ t < DaysBeforeYear[k + 1] * DAY
  BY DEF YearOf
<1> QED
  BY <1>1, <1>7, <1>8

\* the days of a year before each of its months
Before(year) ==
  IF year = 0 THEN <<0, 31, 60, 91, 121, 152, 182, 213, 244, 274, 305, 335>>
  ELSE <<0, 31, 59, 90, 120, 151, 181, 212, 243, 273, 304, 334>>

LEMMA MonthsBefore ==
  ASSUME NEW year \in 0..3, NEW m \in 1..12
  PROVE  /\ DaysBeforeMonth[year][m] = Before(year)[m]
         /\ DaysOf(year, m) = (IF m = 12 THEN 365 + (IF year = 0 THEN 1 ELSE 0) ELSE Before(year)[m + 1])
                              - Before(year)[m]
         /\ DaysOf(year, m) \in 28..31 /\ Before(year)[m] \in 0..335
<1> DEFINE Step(f) == [k \in 1..12 |-> IF k = 1 THEN 0 ELSE f[k - 1] + DaysOf(year, k - 1)]
           table == [k \in 1..12 |-> Before(year)[k]]
<1>1. /\ DaysOf(year, 1) = 31 /\ DaysOf(year, 2) = (IF year = 0 THEN 29 ELSE 28)
      /\ DaysOf(year, 3) = 31 /\ DaysOf(year, 4) = 30 /\ DaysOf(year, 5) = 31 /\ DaysOf(year, 6) = 30
      /\ DaysOf(year, 7) = 31 /\ DaysOf(year, 8) = 31 /\ DaysOf(year, 9) = 30 /\ DaysOf(year, 10) = 31
      /\ DaysOf(year, 11) = 30 /\ DaysOf(year, 12) = 31
  BY DEF DaysOf, daysinmonth, Leap
<1>2. ASSUME NEW k \in 2..12 PROVE Before(year)[k] = Before(year)[k - 1] + DaysOf(year, k - 1)
  <2>1. CASE year = 0
    BY <2>1, <1>1 DEF Before
  <2>2. CASE year # 0
    BY <2>2, <1>1 DEF Before
  <2> QED
    BY <2>1, <2>2
<1>3. Before(year)[1] = 0
  BY DEF Before
<1>4. table = Step(table)
  <2>1. ASSUME NEW k \in 1..12
        PROVE  table[k] = IF k = 1 THEN 0 ELSE table[k - 1] + DaysOf(year, k - 1)
    <3>1. CASE k = 1
      BY <3>1, <1>3
    <3>2. CASE k # 1
      <4>1. k \in 2..12 /\ k - 1 \in 1..12
        BY <3>2
      <4>2. table[k] = Before(year)[k] /\ table[k - 1] = Before(year)[k - 1]
        BY <4>1
      <4> QED
        BY <4>1, <4>2, <3>2, <1>2
    <3> QED
      BY <3>1, <3>2
  <2> QED
    BY <2>1
<1>5. DaysBeforeMonth[year] = CHOOSE f : f = Step(f)
  BY DEF DaysBeforeMonth
<1> HIDE DEF Step, table
<1>6. DaysBeforeMonth[year] = Step(DaysBeforeMonth[year])
  BY <1>4, <1>5
<1>7. ASSUME NEW k \in 1..12
      PROVE  DaysBeforeMonth[year][k] = IF k = 1 THEN 0 ELSE DaysBeforeMonth[year][k - 1] + DaysOf(year, k - 1)
  BY <1>6 DEF Step
<1>8. DaysBeforeMonth[year][1] = 0
  BY <1>7
<1>9. ASSUME NEW k \in 2..12
      PROVE  DaysBeforeMonth[year][k] = DaysBeforeMonth[year][k - 1] + DaysOf(year, k - 1)
  BY <1>7
<1>10. /\ DaysBeforeMonth[year][1] = Before(year)[1] /\ DaysBeforeMonth[year][2] = Before(year)[2]
       /\ DaysBeforeMonth[year][3] = Before(year)[3] /\ DaysBeforeMonth[year][4] = Before(year)[4]
       /\ DaysBeforeMonth[year][5] = Before(year)[5] /\ DaysBeforeMonth[year][6] = Before(year)[6]
  <2>1. DaysBeforeMonth[year][2] = Before(year)[2]
    BY <1>3, <1>8, <1>9, <1>2
  <2>2. DaysBeforeMonth[year][3] = Before(year)[3]
    BY <2>1, <1>9, <1>2
  <2>3. DaysBeforeMonth[year][4] = Before(year)[4]
    BY <2>2, <1>9, <1>2
  <2>4. DaysBeforeMonth[year][5] = Before(year)[5]
    BY <2>3, <1>9, <1>2
  <2>5. DaysBeforeMonth[year][6] = Before(year)[6]
    BY <2>4, <1>9, <1>2
  <2> QED
    BY <1>3, <1>8, <2>1, <2>2, <2>3, <2>4, <2>5
<1>11. /\ DaysBeforeMonth[year][7] = Before(year)[7] /\ DaysBeforeMonth[year][8] = Before(year)[8]
       /\ DaysBeforeMonth[year][9] = Before(year)[9] /\ DaysBeforeMonth[year][10] = Before(year)[10]
       /\ DaysBeforeMonth[year][11] = Before(year)[11] /\ DaysBeforeMonth[year][12] = Before(year)[12]
  <2>1. DaysBeforeMonth[year][7] = Before(year)[7]
    BY <1>10, <1>9, <1>2
  <2>2. DaysBeforeMonth[year][8] = Before(year)[8]
    BY <2>1, <1>9, <1>2
  <2>3. DaysBeforeMonth[year][9] = Before(year)[9]
    BY <2>2, <1>9, <1>2
  <2>4. DaysBeforeMonth[year][10] = Before(year)[10]
    BY <2>3, <1>9, <1>2
  <2>5. DaysBeforeMonth[year][11] = Before(year)[11]
    BY <2>4, <1>9, <1>2
  <2>6. DaysBeforeMonth[year][12] = Before(year)[12]
    BY <2>5, <1>9, <1>2
  <2> QED
    BY <2>1, <2>2, <2>3, <2>4, <2>5, <2>6
<1>12. DaysBeforeMonth[year][m] = Before(year)[m]
  <2>1. m \in {1, 2, 3, 4, 5, 6, 7, 8, 9, 10, 11, 12}
    OBVIOUS
  <2> QED
    BY <2>1, <1>10, <1>11
<1>13. DaysOf(year, m) = (IF m = 12 THEN 365 + (IF year = 0 THEN 1 ELSE 0) ELSE Before(year)[m + 1]) - Before(year)[m]
  <2>1. CASE m = 12
    BY <2>1, <1>1 DEF Before
  <2>2. CASE m # 12
    <3>1. m + 1 \in 2..12 /\ (m + 1) - 1 = m
      BY <2>2
    <3>2. Before(year)[m + 1] = Before(year)[m] + DaysOf(year, m)
      BY <3>1, <1>2
    <3>3. Before(year)[m] \in Int /\ DaysOf(year, m) \in Int
      BY <1>1 DEF Before
    <3> QED
      BY <3>2, <3>3, <2>2
  <2> QED
    BY <2>1, <2>2
<1>14. DaysOf(year, m) \in 28..31
  BY <1>1
<1>15. Before(year)[m] \in 0..335
  BY DEF Before
<1> QED
  BY <1>12, <1>13, <1>14, <1>15

LEMMA DayIs == DAY = 86400
BY DEF DAY, HOURS_IN_DAY, MINUTES_IN_HOUR, SECONDS_IN_MINUTE

\* and the month a second of a year falls in
LEMMA YearLength ==
  ASSUME NEW year \in 0..98
  PROVE  DaysBeforeYear[year + 1] - DaysBeforeYear[year] = 365 + (IF year % 4 = 0 THEN 1 ELSE 0)
<1>1. /\ DaysBeforeYear[year] = year * 365 + (year + 3) \div 4
      /\ DaysBeforeYear[year + 1] = (year + 1) * 365 + (year + 4) \div 4
  BY DEF DaysBeforeYear, DAYS_IN_YEAR
<1>2. (year + 4) \div 4 - (year + 3) \div 4 = (IF year % 4 = 0 THEN 1 ELSE 0)
  OBVIOUS
<1> QED
  BY <1>1, <1>2

\* a second of a year, and the month it falls in
SecondOf(year, s) == s \in Nat /\ s < 86400 * (365 + (IF year % 4 = 0 THEN 1 ELSE 0))
Falls(s, m, before) ==
  m \in 1..12 /\ before \in 0..335 /\ before * 86400 <= s /\ s <= before * 86400 + 31 * 86400

LEMMA MonthFound ==
  ASSUME NEW year \in 0..98, NEW s \in Nat, SecondOf(year, s), NEW m, m = MonthOf(year, s)
  PROVE  /\ Falls(s, m, Before(year % 4)[m]) /\ MonthStart(year, m) = Before(year % 4)[m] * DAY
         /\ DaysBeforeMonth[year % 4][m] = Before(year % 4)[m]
         /\ s <= MonthStart(year, m) + DaysOf(year, m) * DAY
<1> DEFINE y == year % 4
           b == Before(y)
<1>1. y \in 0..3 /\ y % 4 = y
  OBVIOUS
<1>2. ASSUME NEW k \in 1..12
      PROVE  /\ MonthStart(year, k) = b[k] * 86400 /\ b[k] \in 0..335 /\ DaysOf(year, k) \in 28..31
             /\ DaysOf(year, k) = (IF k = 12 THEN 365 + (IF y = 0 THEN 1 ELSE 0) ELSE b[k + 1]) - b[k]
  <2>1. DaysOf(year, k) = DaysOf(y, k)
    BY <1>1 DEF DaysOf, Leap
  <2>2. MonthStart(year, k) = DaysBeforeMonth[y][k] * 86400
    BY DayIs DEF MonthStart
  <2> HIDE DEF y
  <2>3. /\ DaysBeforeMonth[y][k] = Before(y)[k]
        /\ DaysOf(y, k) = (IF k = 12 THEN 365 + (IF y = 0 THEN 1 ELSE 0) ELSE Before(y)[k + 1])
                              - Before(y)[k]
        /\ DaysOf(y, k) \in 28..31 /\ Before(y)[k] \in 0..335
    BY <1>1, MonthsBefore
  <2> QED
    BY <2>1, <2>2, <2>3
<1>13. \A k \in 1..12 : DaysBeforeMonth[y][k] = b[k]
  BY <1>1, MonthsBefore
<1>14. \A k \in 1..12 : b[k] \in 0..335
  BY <1>1, MonthsBefore
<1>3. s \in Nat /\ s < 86400 * (365 + (IF y = 0 THEN 1 ELSE 0))
  BY DEF SecondOf
<1> HIDE DEF y
<1>4. b[1] = 0
  BY DEF Before
<1> DEFINE fits(k) == s <= MonthStart(year, k) + DaysOf(year, k) * DAY /\ (k > 1 => s > MonthStart(year, k))
<1> HIDE DEF b
<1>5. ASSUME NEW k \in 1..11, k > 1 => s > b[k] * 86400, s <= b[k + 1] * 86400
      PROVE  fits(k)
  <2>1. /\ MonthStart(year, k) = b[k] * 86400 /\ b[k] \in Int /\ DaysOf(year, k) \in Int
        /\ DaysOf(year, k) = b[k + 1] - b[k] /\ b[k + 1] \in Int
    <3>1. k \in 1..12 /\ k + 1 \in 1..12 /\ k # 12
      BY <1>5
    <3>2. b[k] \in 0..335 /\ b[k + 1] \in 0..335
      BY <3>1, <1>14
    <3>3. MonthStart(year, k) = b[k] * 86400 /\ DaysOf(year, k) \in 28..31 /\ DaysOf(year, k) = b[k + 1] - b[k]
      BY <3>1, <1>2
    <3> QED
      BY <3>2, <3>3
  <2>2. MonthStart(year, k) + DaysOf(year, k) * 86400 = b[k + 1] * 86400
    BY <2>1
  <2> QED
    BY <2>1, <2>2, <1>3, <1>5, DayIs
<1>6. ASSUME s > b[12] * 86400 PROVE fits(12)
  <2>1. /\ MonthStart(year, 12) = b[12] * 86400 /\ b[12] \in Int
        /\ DaysOf(year, 12) = 365 + (IF y = 0 THEN 1 ELSE 0) - b[12]
    <3>1. 12 \in 1..12
      OBVIOUS
    <3>2. /\ MonthStart(year, 12) = b[12] * 86400 /\ b[12] \in 0..335
          /\ DaysOf(year, 12) = (IF 12 = 12 THEN 365 + (IF y = 0 THEN 1 ELSE 0) ELSE b[12 + 1]) - b[12]
      BY <1>2, <3>1
    <3> QED
      BY <3>2
  <2>2. MonthStart(year, 12) + DaysOf(year, 12) * 86400 = (365 + (IF y = 0 THEN 1 ELSE 0)) * 86400
    BY <2>1
  <2> QED
    BY <2>1, <2>2, <1>3, <1>6, DayIs
<1> HIDE DEF fits
<1>7. \E k \in 1..12 : fits(k)
  <2>1. ASSUME NEW k \in 1..12 PROVE b[k] * 86400 \in Int
    <3>1. b[k] \in 0..335
      BY <1>14
    <3>2. ASSUME NEW v \in 0..335 PROVE v * 86400 \in Int
      OBVIOUS
    <3> QED
      BY <3>1, <3>2
  <2>12. s > b[12] * 86400 => \E k \in 1..12 : fits(k)
    BY <1>6
  <2>11. s > b[11] * 86400 => \E k \in 1..12 : fits(k)
    BY <2>1, <2>12, <1>5
  <2>10. s > b[10] * 86400 => \E k \in 1..12 : fits(k)
    BY <2>1, <2>11, <1>5
  <2>9. s > b[9] * 86400 => \E k \in 1..12 : fits(k)
    BY <2>1, <2>10, <1>5
  <2>8. s > b[8] * 86400 => \E k \in 1..12 : fits(k)
    BY <2>1, <2>9, <1>5
  <2>7. s > b[7] * 86400 => \E k \in 1..12 : fits(k)
    BY <2>1, <2>8, <1>5
  <2>6. s > b[6] * 86400 => \E k \in 1..12 : fits(k)
    BY <2>1, <2>7, <1>5
  <2>5. s > b[5] * 86400 => \E k \in 1..12 : fits(k)
    BY <2>1, <2>6, <1>5
  <2>4. s > b[4] * 86400 => \E k \in 1..12 : fits(k)
    BY <2>1, <2>5, <1>5
  <2>3. s > b[3] * 86400 => \E k \in 1..12 : fits(k)
    BY <2>1, <2>4, <1>5
  <2>2. s > b[2] * 86400 => \E k \in 1..12 : fits(k)
    BY <2>1, <2>3, <1>5
  <2> QED
    BY <2>1, <2>2, <1>5
<1>8. MonthOf(year, s) = CHOOSE k \in 1..12 : fits(k)
  BY DEF MonthOf, fits
<1>9. m \in 1..12 /\ fits(m)
  BY <1>7, <1>8
<1>10. /\ MonthStart(year, m) = b[m] * 86400 /\ b[m] \in 0..335 /\ DaysOf(year, m) \in 28..31
  BY <1>9, <1>2
<1>11. MonthStart(year, m) <= s
  <2>1. CASE m = 1
    BY <2>1, <1>10, <1>4
  <2>2. CASE m # 1
    BY <2>2, <1>9, <1>10 DEF fits
  <2> QED
    BY <2>1, <2>2
<1>12. s <= MonthStart(year, m) + 31 * 86400
  BY <1>9, <1>10, DayIs DEF fits
<1> QED
  BY <1>9, <1>10, <1>11, <1>12, <1>13, DayIs DEF b, y, Falls, fits

\* The code's conversions against the chip's own calendar
LEMMA LastDayIs == ASSUME NEW year \in Nat, NEW m \in 1..12 PROVE DaysOf(year, m) = LastDay(year, m)
BY DEF DaysOf, LastDay, daysinmonth, Leap

LEMMA MonthDays ==
  ASSUME NEW year \in Nat, NEW m \in 1..12
  PROVE  /\ DaysBeforeMonth[year % 4][m] = Before(year % 4)[m] /\ Before(year % 4)[m] \in 0..335
         /\ LastDay(year, m) = (IF m = 12 THEN 365 + (IF year % 4 = 0 THEN 1 ELSE 0) ELSE Before(year % 4)[m + 1])
                                - Before(year % 4)[m]
         /\ LastDay(year, m) \in 28..31
<1> DEFINE y == year % 4
<1>1. y \in 0..3 /\ DaysOf(year, m) = DaysOf(y, m)
  BY DEF DaysOf, Leap
<1>2. LastDay(year, m) = DaysOf(year, m)
  BY LastDayIs
<1> HIDE DEF y
<1>3. /\ DaysBeforeMonth[y][m] = Before(y)[m]
      /\ DaysOf(y, m) = (IF m = 12 THEN 365 + (IF y = 0 THEN 1 ELSE 0) ELSE Before(y)[m + 1])
                            - Before(y)[m]
      /\ DaysOf(y, m) \in 28..31 /\ Before(y)[m] \in 0..335
  BY <1>1, MonthsBefore
<1> QED
  BY <1>1, <1>2, <1>3 DEF y

LEMMA CivilDayIs ==
  ASSUME NEW year \in 0..99, NEW m \in 1..12, NEW n \in Nat
  PROVE  DaysBeforeYear[year] + DaysBeforeMonth[year % 4][m] + n - 1 = CivilDay(year, m, n)
<1> DEFINE y == year % 4
           q == year \div 4
<1>1. y \in 0..3 /\ year = 4 * q + y /\ q \in Nat
  OBVIOUS
<1>2. DaysBeforeYear[year] = year * 365 + q + (IF y = 0 THEN 0 ELSE 1)
  <2>1. DaysBeforeYear[year] = year * 365 + (year + 3) \div 4
    BY DEF DaysBeforeYear, DAYS_IN_YEAR
  <2>2. (year + 3) \div 4 = q + (IF y = 0 THEN 0 ELSE 1)
    OBVIOUS
  <2> QED
    BY <2>1, <2>2
<1>3. (year - 1) \div 4 = (IF y = 0 THEN q - 1 ELSE q)
  OBVIOUS
<1>4. DaysBeforeMonth[y][m] = Before(y)[m]
  BY MonthDays
<1>5. CivilDay(year, m, n) =
        IF m < 3 THEN 60 + 365 * (year - 1) + (year - 1) \div 4 + (153 * (m + 9) + 2) \div 5 + n - 1
        ELSE 60 + 365 * year + q + (153 * (m - 3) + 2) \div 5 + n - 1
  BY DEF CivilDay
<1> HIDE DEF y, q
<1>6. m \in {1, 2, 3, 4, 5, 6, 7, 8, 9, 10, 11, 12}
  OBVIOUS
<1>7. Before(y)[m] = IF m < 3 THEN (153 * (m + 9) + 2) \div 5 - 306
                     ELSE 59 + (IF y = 0 THEN 1 ELSE 0) + (153 * (m - 3) + 2) \div 5
  BY <1>1, <1>6 DEF Before
<1>8. (153 * (m + 9) + 2) \div 5 \in Int /\ (153 * (m - 3) + 2) \div 5 \in Int
  OBVIOUS
<1>9. DaysBeforeYear[year] + DaysBeforeMonth[y][m] + n - 1 = CivilDay(year, m, n)
  BY <1>1, <1>2, <1>3, <1>4, <1>5, <1>7, <1>8
<1> QED
  BY <1>9 DEF y

LEMMA DigitsAre == ASSUME NEW v \in Byte PROVE u8_bcd2dec(v) = Digits(v)
BY DEF u8_bcd2dec, Digits, Byte

\* of registers that are a date, ds1338z_getUnixTime reads that date
LEMMA DateRead ==
  ASSUME NEW regs \in [1..7 -> Byte], OnCalendar(ChipDate(regs))
  PROVE  UnixTime(RawOf(regs)) = CivilTime(ChipDate(regs))
<1> DEFINE d == ChipDate(regs)
<1>1. RawOf(regs) = [second |-> d.second, minute |-> d.minute, hour |-> d.hour, DoW |-> Digits(regs[4]),
                     day |-> d.day, month |-> d.month, year |-> d.year]
  BY DigitsAre DEF RawOf, ChipDate
<1>2. /\ d.second \in Nat /\ d.minute \in Nat /\ d.hour \in Nat /\ d.day \in Nat
      /\ d.year \in 0..99 /\ d.month \in 1..12
  <2>1. LastDay(d.year, d.month) \in Nat
    BY DEF LastDay
  <2> QED
    BY <2>1 DEF OnCalendar
<1> HIDE DEF d
<1>3. UnixTime(RawOf(regs)) = (DaysBeforeYear[d.year] + DaysBeforeMonth[d.year % 4][d.month] + d.day - 1) * 86400
                                + d.hour * 60 * 60 + d.minute * 60 + d.second
  BY <1>1, <1>2, DayIs DEF UnixTime, SECONDS_IN_MINUTE, MINUTES_IN_HOUR
<1>4. DaysBeforeYear[d.year] + DaysBeforeMonth[d.year % 4][d.month] + d.day - 1 = CivilDay(d.year, d.month, d.day)
  BY <1>2, CivilDayIs
<1>5. d.hour * 60 * 60 = d.hour * 3600
  BY <1>2
<1> QED
  BY <1>3, <1>4, <1>5 DEF CivilTime, d

LEMMA Decimal ==
  ASSUME NEW v \in 0..99
  PROVE  u8_dec2bcd(v) \in Byte /\ u8_bcd2dec(u8_dec2bcd(v)) = v
<1> DEFINE q == v \div 10
           r == v % 10
<1>1. v = 10 * q + r /\ q \in 0..9 /\ r \in 0..9
  OBVIOUS
<1>2. u8_dec2bcd(v) = 16 * q + r
  BY <1>1 DEF u8_dec2bcd
<1> HIDE DEF q, r
<1>3. (16 * q + r) \div 16 = q
  BY <1>1
<1>4. u8_bcd2dec(16 * q + r) = v
  BY <1>1, <1>3 DEF u8_bcd2dec
<1> QED
  BY <1>1, <1>2, <1>4 DEF Byte

\* a day is its hours, minutes and seconds
LEMMA Clockwork ==
  ASSUME NEW s \in Nat
  PROVE  /\ s % 60 \in 0..59 /\ (s \div 60) % 60 \in 0..59 /\ (s % 86400) \div 3600 \in 0..23
         /\ (s \div 86400) * 86400 + ((s % 86400) \div 3600) * 3600 + ((s \div 60) % 60) * 60 + (s % 60) = s
<1>1. \E d \in Nat, h \in 0..23, m \in 0..59, x \in 0..59 : s = 60 * (60 * (24 * d + h) + m) + x
  <2> DEFINE X == s % 60
             P == s \div 60
             M == P % 60
             Q == P \div 60
             H == Q % 24
             D == Q \div 24
  <2>1. s = 60 * P + X /\ X \in 0..59 /\ P \in Nat
    OBVIOUS
  <2>2. P = 60 * Q + M /\ M \in 0..59 /\ Q \in Nat
    BY <2>1
  <2>3. Q = 24 * D + H /\ H \in 0..23 /\ D \in Nat
    BY <2>2
  <2> HIDE DEF X, P, M, Q, H, D
  <2>4. s = 60 * (60 * (24 * D + H) + M) + X
    BY <2>1, <2>2, <2>3, Zenon
  <2>5. D \in Nat /\ H \in 0..23 /\ M \in 0..59 /\ X \in 0..59
    BY <2>1, <2>2, <2>3
  <2> QED
    BY <2>4, <2>5
<1>2. PICK d \in Nat, h \in 0..23, m \in 0..59, x \in 0..59 : s = 60 * (60 * (24 * d + h) + m) + x
  BY <1>1
<1> DEFINE e == 3600 * h + 60 * m + x
           k == 1440 * d + 60 * h + m
<1>3. e \in Nat /\ 0 <= e /\ e <= 86399 /\ e \div 3600 = h
  OBVIOUS
<1>4. s = 86400 * d + e /\ s = 60 * k + x /\ k \in Nat /\ k = 60 * (24 * d + h) + m
  BY <1>2
<1>5. d * 86400 + h * 3600 + m * 60 + x = s
  BY <1>2
<1> HIDE DEF e, k
<1>6. s \div 86400 = d /\ s % 86400 = e
  BY <1>3, <1>4
<1>7. k % 60 = m
  <2> DEFINE g == 24 * d + h
  <2>1. g \in Nat /\ k = 60 * g + m
    BY <1>4
  <2> HIDE DEF g
  <2> QED
    BY <2>1
<1>8. s \div 60 = k /\ s % 60 = x
  BY <1>4
<1> QED
  BY <1>3, <1>5, <1>6, <1>7, <1>8

\* what ds1338z_setUnixTime stores of the rest of a month, in the chip's calendar
InMonthOf(t, year, m, s) ==
  /\ t = (DaysBeforeYear[year] + Before(year % 4)[m]) * 86400 + s
  /\ t < DaysBeforeYear[year + 1] * 86400 /\ s <= LastDay(year, m) * 86400

StoredAs(year, m, s) ==
  [second |-> s % 60, minute |-> (s \div 60) % 60, hour |-> (s % 86400) \div 3600,
   day |-> s \div 86400 + 1, month |-> m, year |-> year]

LEMMA StoredDate ==
  ASSUME NEW year \in 0..98, NEW m \in 1..12, NEW s \in Nat, NEW t \in Nat, InMonthOf(t, year, m, s)
  PROVE  Says(StoredAs(year, m, s), t)
<1> DEFINE sec == s % 60
           min == (s \div 60) % 60
           hour == (s % 86400) \div 3600
           day == s \div 86400 + 1
<1> DEFINE y == year % 4
           b == Before(y)
           D == DaysBeforeYear[year]
           L == LastDay(year, m)
           date == [second |-> sec, minute |-> min, hour |-> hour, day |-> day, month |-> m, year |-> year]
<1>1. y \in 0..3 /\ (year % 4) = y /\ year \in 0..99 /\ year \in Nat
  OBVIOUS
<1>2. D \in Nat /\ DaysBeforeYear[year + 1] = D + 365 + (IF y = 0 THEN 1 ELSE 0)
  <2>1. D \in Nat /\ DaysBeforeYear[year + 1] \in Nat
    BY DEF DaysBeforeYear, DAYS_IN_YEAR
  <2> QED
    BY <2>1, YearLength
<1>3. ASSUME NEW k \in 1..12, NEW n \in Nat PROVE D + b[k] + n - 1 = CivilDay(year, k, n)
  <2>1. DaysBeforeYear[year] + DaysBeforeMonth[year % 4][k] + n - 1 = CivilDay(year, k, n)
    BY <1>1, CivilDayIs, Zenon
  <2>2. DaysBeforeMonth[year % 4][k] = Before(year % 4)[k]
    BY <1>1, MonthDays
  <2> QED
    BY <2>1, <2>2
<1>4. ASSUME NEW k \in 1..12 PROVE b[k] \in Nat
  <2>1. b[k] \in 0..335
    BY <1>1, MonthDays, Zenon
  <2>2. ASSUME NEW v \in 0..335 PROVE v \in Nat
    OBVIOUS
  <2> QED
    BY <2>1, <2>2
<1>5. L \in 28..31 /\ L = (IF m = 12 THEN 365 + (IF y = 0 THEN 1 ELSE 0) ELSE b[m + 1]) - b[m]
  BY <1>1, MonthDays
<1> HIDE DEF y
<1>6. t = (D + b[m]) * 86400 + s /\ t < DaysBeforeYear[year + 1] * 86400 /\ s <= L * 86400
  BY <1>1 DEF InMonthOf
<1> HIDE DEF b, D, L
<1>7. /\ sec \in 0..59 /\ min \in 0..59 /\ hour \in 0..23 /\ day \in Nat \ {0}
      /\ (day - 1) * 86400 + hour * 3600 + min * 60 + sec = s
  <2>1. /\ s % 60 \in 0..59 /\ (s \div 60) % 60 \in 0..59 /\ (s % 86400) \div 3600 \in 0..23
        /\ (s \div 86400) * 86400 + ((s % 86400) \div 3600) * 3600 + ((s \div 60) % 60) * 60 + (s % 60)
             = s
    BY Clockwork
  <2>2. day \in Nat \ {0} /\ day - 1 = s \div 86400
    OBVIOUS
  <2> QED
    BY <2>1, <2>2
<1>8. day \in Nat
  BY <1>7
<1>9. s % 60 = sec /\ (s \div 60) % 60 = min /\ (s % 86400) \div 3600 = hour /\ s \div 86400 = day - 1
  OBVIOUS
<1> HIDE DEF sec, min, hour, day
<1>10. CivilTime(date) = CivilDay(year, m, day) * 86400 + hour * 3600 + min * 60 + sec
  BY DEF CivilTime
<1>11. CivilTime(date) = t
  <2>1. D + b[m] + day - 1 = CivilDay(year, m, day) /\ b[m] \in Nat
    BY <1>3, <1>4, <1>8, Zenon
  <2>3. CivilDay(year, m, day) \in Int
    BY <2>1, <1>2, <1>7
  <2>2. CivilDay(year, m, day) * 86400 = (D + b[m]) * 86400 + (day - 1) * 86400
    BY <2>1, <2>3, <1>2, <1>7
  <2> QED
    BY <2>1, <2>2, <2>3, <1>2, <1>6, <1>7, <1>10
<1>12. ASSUME day <= L PROVE Says(date, t)
  <2>1. day \in 1..LastDay(year, m)
    BY <1>5, <1>7, <1>12 DEF L
  <2>2. OnCalendar(date)
    BY <2>1, <1>7 DEF OnCalendar
  <2> QED
    BY <2>2, <1>11 DEF Says
<1>13. ASSUME day > L PROVE Says(date, t)
  <2>1. s = L * 86400
    <3>1. s <= L * 86400
      BY <1>6
    <3>2. s \div 86400 >= L
      BY <1>5, <1>7, <1>13, <1>9
    <3> QED
      BY <3>1, <3>2, <1>5
  <2>2. day = L + 1 /\ hour = 0 /\ min = 0 /\ sec = 0
    <3>1. s \div 86400 = L /\ s % 86400 = 0
      BY <1>5, <2>1
    <3>2. s % 60 = 0 /\ (s \div 60) % 60 = 0
      BY <1>5, <2>1
    <3> QED
      BY <3>1, <3>2, <1>7, <1>9
  <2>3. m # 12
    <3> SUFFICES ASSUME m = 12 PROVE FALSE
      OBVIOUS
    <3>1. b[12] \in Nat /\ L + b[12] = 365 + (IF y = 0 THEN 1 ELSE 0)
      BY <1>4, <1>5
    <3>2. t = (D + b[12] + L) * 86400
      BY <3>1, <2>1, <1>2, <1>5, <1>6
    <3> QED
      BY <3>1, <3>2, <1>2, <1>5, <1>6
  <2>4. m + 1 \in 1..12 /\ m \in 1..11 /\ b[m + 1] = b[m] + L
    <3>1. m + 1 \in 1..12 /\ m \in 1..11
      BY <2>3
    <3>2. b[m + 1] \in Nat /\ b[m] \in Nat
      BY <3>1, <1>4
    <3>3. L = b[m + 1] - b[m]
      BY <2>3, <1>5
    <3> QED
      BY <3>1, <3>2, <3>3
  <2>5. CivilDay(year, m + 1, 1) = CivilDay(year, m, day)
    <3>1. D + b[m + 1] + 1 - 1 = CivilDay(year, m + 1, 1) /\ D + b[m] + day - 1 = CivilDay(year, m, day)
      BY <1>3, <1>7, <2>4
    <3>2. b[m + 1] \in Nat /\ b[m] \in Nat
      BY <1>4, <2>4
    <3> QED
      BY <3>1, <3>2, <1>2, <1>5, <2>2, <2>4
  <2>8. t = CivilDay(year, m + 1, 1) * 86400
    <3>1. CivilDay(year, m, day) \in Int
      <4>1. D + b[m] + day - 1 = CivilDay(year, m, day) /\ b[m] \in Nat
        BY <1>3, <1>4, <1>8, Zenon
      <4> QED
        BY <4>1, <1>2, <1>7
    <3> QED
      BY <3>1, <2>2, <2>5, <1>10, <1>11
  <2>9. DayTooMany(date, t)
    BY <2>2, <2>4, <2>8, DayIs DEF DayTooMany, L
  <2> QED
    BY <2>9 DEF Says
<1>14. Says(date, t)
  BY <1>5, <1>7, <1>12, <1>13
<1> QED
  BY <1>14 DEF StoredAs, sec, min, hour, day

LEMMA ClockRegisters ==
  ASSUME NEW t, InCalendar(t), NEW dow \in Byte
  PROVE  /\ Registers(RawClock(t, dow)) \in Seq(Byte) /\ Len(Registers(RawClock(t, dow))) = 7
         /\ UnixTime(RawOf(Registers(RawClock(t, dow)))) = t
         /\ Says(ChipDate(Registers(RawClock(t, dow))), t)
<1> DEFINE yr == YearOf(t)
           left == t - DaysBeforeYear[yr] * DAY
           mon == MonthOf(yr, left)
           rest == left - MonthStart(yr, mon)
           raw == RawClock(t, dow)
<1>1. t \in Nat /\ yr \in 0..98 /\ DaysBeforeYear[yr] * DAY <= t /\ t < DaysBeforeYear[yr + 1] * DAY
  BY YearFound
<1>2. DaysBeforeYear[yr] \in Nat /\ DaysBeforeYear[yr + 1] \in Nat
  BY <1>1 DEF DaysBeforeYear, DAYS_IN_YEAR
<1> HIDE DEF yr
<1>3. SecondOf(yr, left) /\ left \in Nat
  <2>1. left < 86400 * (DaysBeforeYear[yr + 1] - DaysBeforeYear[yr]) /\ left \in Nat
    BY <1>1, <1>2, DayIs
  <2>2. DaysBeforeYear[yr + 1] - DaysBeforeYear[yr] = 365 + (IF yr % 4 = 0 THEN 1 ELSE 0)
    BY <1>1, YearLength
  <2> QED
    BY <2>1, <2>2 DEF SecondOf
<1>4. t = DaysBeforeYear[yr] * 86400 + left
  BY <1>1, <1>2, DayIs
<1> HIDE DEF left
<1> HIDE DEF mon
<1>5. /\ Falls(left, mon, Before(yr % 4)[mon]) /\ MonthStart(yr, mon) = Before(yr % 4)[mon] * DAY
      /\ DaysBeforeMonth[yr % 4][mon] = Before(yr % 4)[mon]
      /\ left <= MonthStart(yr, mon) + DaysOf(yr, mon) * DAY
  <2>1. mon = MonthOf(yr, left) /\ yr \in 0..98
    BY <1>1 DEF mon
  <2> QED
    BY <2>1, <1>3, MonthFound, Zenon
<1>6. mon \in 1..12 /\ Before(yr % 4)[mon] \in 0..335
  BY <1>5 DEF Falls
<1>7. rest \in Nat /\ rest <= 31 * 86400 /\ left = Before(yr % 4)[mon] * 86400 + rest
  <2> DEFINE B == Before(yr % 4)[mon]
  <2>1. B \in 0..335 /\ B * 86400 <= left /\ left <= B * 86400 + 31 * 86400 /\ rest = left - B * 86400
    BY <1>5, DayIs DEF Falls
  <2> HIDE DEF B, rest
  <2> QED
    BY <2>1, <1>3 DEF B
<1>19. /\ DaysOf(yr, mon) = LastDay(yr, mon) /\ LastDay(yr, mon) \in 28..31
       /\ rest <= LastDay(yr, mon) * 86400
  <2>1. DaysOf(yr, mon) = LastDay(yr, mon) /\ LastDay(yr, mon) \in 28..31
    BY <1>1, <1>6, LastDayIs DEF LastDay
  <2>2. MonthStart(yr, mon) \in Int /\ rest = left - MonthStart(yr, mon)
    BY <1>5, <1>6, DayIs
  <2> HIDE DEF rest
  <2> QED
    BY <2>1, <2>2, <1>3, <1>5, DayIs
<1> HIDE DEF rest
<1>8. raw = [second |-> rest % 60, minute |-> (rest \div 60) % 60, hour |-> (rest % 86400) \div 3600, DoW |-> dow,
             day |-> rest \div 86400 + 1, month |-> mon, year |-> yr]
  BY DayIs DEF RawClock, InYear, InMonth, yr, left, mon, rest, SECONDS_IN_MINUTE, MINUTES_IN_HOUR
<1>9. /\ rest % 60 \in 0..59 /\ (rest \div 60) % 60 \in 0..59 /\ (rest % 86400) \div 3600 \in 0..23
      /\ (rest \div 86400) * 86400 + ((rest % 86400) \div 3600) * 3600 + ((rest \div 60) % 60) * 60 + (rest % 60) = rest
      /\ rest \div 86400 + 1 \in 1..32
  <2>1. /\ rest % 60 \in 0..59 /\ (rest \div 60) % 60 \in 0..59 /\ (rest % 86400) \div 3600 \in 0..23
        /\ (rest \div 86400) * 86400 + ((rest % 86400) \div 3600) * 3600 + ((rest \div 60) % 60) * 60 + (rest % 60) = rest
    BY <1>7, Clockwork
  <2>2. rest \div 86400 + 1 \in 1..32
    BY <1>7
  <2> QED
    BY <2>1, <2>2
<1> DEFINE sec == rest % 60
           min == (rest \div 60) % 60
           hour == (rest % 86400) \div 3600
           day == rest \div 86400 + 1
<1>10. sec \in 0..99 /\ min \in 0..99 /\ hour \in 0..99 /\ day \in 0..99 /\ mon \in 0..99 /\ yr \in 0..99
  BY <1>1, <1>6, <1>9
<1>11. (day - 1) * 86400 + hour * 3600 + min * 60 + sec = rest
  <2>1. (rest \div 86400 + 1) - 1 = rest \div 86400
    BY <1>7
  <2> QED
    BY <2>1, <1>9
<1> HIDE DEF sec, min, hour, day
<1>12. raw = [second |-> sec, minute |-> min, hour |-> hour, DoW |-> dow, day |-> day, month |-> mon, year |-> yr]
  BY <1>8 DEF sec, min, hour, day
<1> HIDE DEF raw
<1>13. Registers(raw) = <<u8_dec2bcd(sec), u8_dec2bcd(min), u8_dec2bcd(hour), u8_dec2bcd(dow), u8_dec2bcd(day),
                          u8_dec2bcd(mon), u8_dec2bcd(yr)>>
  BY <1>12 DEF Registers
<1>14. u8_dec2bcd(dow) \in Byte
  BY DEF u8_dec2bcd, Byte
<1>15. Registers(raw) \in Seq(Byte) /\ Len(Registers(raw)) = 7
  BY <1>10, <1>13, <1>14, Decimal
<1>16. RawOf(Registers(raw)) = [second |-> sec, minute |-> min, hour |-> hour,
          DoW |-> u8_bcd2dec(u8_dec2bcd(dow)), day |-> day, month |-> mon, year |-> yr]
  BY <1>10, <1>13, Decimal DEF RawOf
<1>17. UnixTime(RawOf(Registers(raw)))
         = (DaysBeforeYear[yr] + DaysBeforeMonth[yr % 4][mon] + day - 1) * DAY + hour * 60 * 60 + min * 60 + sec
  BY <1>6, <1>16 DEF UnixTime, SECONDS_IN_MINUTE, MINUTES_IN_HOUR
<1>18. UnixTime(RawOf(Registers(raw))) = t
  <2> DEFINE D == DaysBeforeYear[yr]
             B == Before(yr % 4)[mon]
  <2>1. UnixTime(RawOf(Registers(raw))) = (D + B + day - 1) * 86400 + hour * 60 * 60 + min * 60 + sec
    BY <1>5, <1>17, DayIs
  <2>2. t = D * 86400 + (B * 86400 + rest) /\ D \in Nat /\ B \in Nat
    BY <1>2, <1>4, <1>6, <1>7
  <2> HIDE DEF D, B
  <2>3. hour * 60 * 60 = hour * 3600 /\ (D + B + day - 1) * 86400 = D * 86400 + B * 86400 + (day - 1) * 86400
    BY <2>2, <1>10
  <2> QED
    BY <2>1, <2>2, <2>3, <1>7, <1>10, <1>11
<1>20. ChipDate(Registers(raw)) =
         [second |-> sec, minute |-> min, hour |-> hour, day |-> day, month |-> mon, year |-> yr]
  <2>1. ASSUME NEW v \in 0..99 PROVE Digits(u8_dec2bcd(v)) = v
    BY Decimal, DigitsAre
  <2> QED
    BY <2>1, <1>10, <1>13 DEF ChipDate
<1>21. Says(ChipDate(Registers(raw)), t)
  <2> DEFINE D == DaysBeforeYear[yr]
             B == Before(yr % 4)[mon]
  <2>1. t = (D + B) * 86400 + rest
    <3>1. t = D * 86400 + (B * 86400 + rest) /\ D \in Nat /\ B \in Nat
      BY <1>2, <1>4, <1>6, <1>7
    <3> HIDE DEF D, B
    <3> QED
      BY <3>1, <1>7
  <2>2. t < DaysBeforeYear[yr + 1] * 86400
    BY <1>1, DayIs
  <2>3. sec = rest % 60 /\ min = (rest \div 60) % 60 /\ hour = (rest % 86400) \div 3600 /\ day = rest \div 86400 + 1
    BY DEF sec, min, hour, day
  <2>4. rest <= LastDay(yr, mon) * 86400 /\ t \in Nat
    BY <1>1, <1>19
  <2> HIDE DEF D, B
  <2>5. t = (DaysBeforeYear[yr] + Before(yr % 4)[mon]) * 86400 + rest
    BY <2>1 DEF D, B
  <2>6. yr \in 0..98 /\ mon \in 1..12 /\ rest \in Nat /\ t \in Nat
    BY <1>1, <1>6, <1>7
  <2>8. InMonthOf(t, yr, mon, rest)
    BY <2>2, <2>4, <2>5 DEF InMonthOf
  <2>7. Says(StoredAs(yr, mon, rest), t)
    BY <2>6, <2>8, StoredDate
  <2>9. ChipDate(Registers(raw)) = StoredAs(yr, mon, rest)
    BY <2>3, <1>20 DEF StoredAs
  <2> QED
    BY <2>7, <2>9
<1> QED
  BY <1>15, <1>18, <1>21 DEF raw

-----------------------------------------------------------------------------
(* Within a byte sent *)

\* a step of a command that is not its last
Within == i2c' = [i2c EXCEPT !.step = @ + 1, !.byte = Sampled]

\* the eight bits: even steps put one out, odd ones are seen by the chip
LEMMA SendsBit ==
  ASSUME ChipType, TransferType, SendInv, Sending, NEW hears \in BOOLEAN, BusStep(hears), i2c.step < 16
  PROVE  /\ Within /\ i2c'.byte = 0
         /\ i2c.step % 2 = 0 => /\ chip' = chip /\ scl' = 0 /\ sda' = Bit(SentByte, chip.n)
                                /\ i2c.step = 2 * chip.n /\ chip.n < BITS
         /\ i2c.step % 2 = 1 => /\ chip' = [chip EXCEPT !.n = @ + 1, !.shift = Top(SentByte, chip.n + 1)]
                                /\ scl' = 1 /\ i2c.step = 2 * chip.n + 1 /\ chip.n < BITS
<1>1. /\ chip.state = Takes /\ chip.sda = 1 /\ chip.n \in 0..BITS /\ i2c.byte = 0
      /\ chip.shift = Top(SentByte, chip.n) /\ ~Reads
      /\ i2c.pc \notin {"start", "restart", "stop"} /\ chip.state \in {"address", "pointer", "store"}
  <2>1. i2c.step \in Nat
    BY DEF TransferType, Transfers
  <2>2. ~Reads /\ i2c.pc \notin {"start", "restart", "stop"}
    BY DEF Sending, Reads
  <2>3. Takes \in {"address", "pointer", "store"}
    BY DEF Takes
  <2>4. /\ chip.state = Takes /\ chip.sda = 1 /\ chip.n \in 0..BITS /\ i2c.byte = 0
        /\ chip.shift = Top(SentByte, chip.n)
    BY <2>1 DEF SendInv
  <2> QED
    BY <2>2, <2>3, <2>4
<1>2. i2c.step \in Nat /\ LastStep = 18 /\ BITS = 8 /\ Within
  BY DEF TransferType, Transfers, BITS, LastStep, Sending, BusStep, Within
<1>3. PICK t \in {Target} : Drive(t[1], t[2], hears)
  BY DEF BusStep
<1>4. CASE i2c.step % 2 = 0
  <2>1. i2c.step = 2 * chip.n /\ chip.n < 8 /\ (scl = 1 \/ chip.n = 0)
    BY <1>1, <1>2, <1>4 DEF SendInv
  <2>2. Slot = chip.n
    BY <2>1, <1>1, <1>2, Parity DEF Slot
  <2>3. Target = <<0, Bit(SentByte, chip.n)>>
    BY <2>1, <2>2, <1>1, <1>2, <1>4 DEF Target, OutBit
  <2>4. Drive(0, Bit(SentByte, chip.n), hears)
    BY <2>3, <1>3
  <2>5. Fall(chip, hears) = chip
    BY <1>1, <1>2, <2>1 DEF Fall
  <2>6. chip' = chip /\ scl' = 0 /\ sda' = Bit(SentByte, chip.n)
    BY <2>4, <2>5, <2>1 DEF Drive, ChipType, Chips
  <2>7. Sampled = 0
    BY <1>1, <1>4 DEF Sampled
  <2> QED
    BY <2>1, <2>6, <2>7, <1>2, <1>4 DEF Within, TransferType, Transfers
<1>5. CASE i2c.step % 2 = 1
  <2>1. i2c.step = 2 * chip.n + 1 /\ chip.n < 8 /\ scl = 0 /\ sda = Bit(SentByte, chip.n)
    BY <1>1, <1>2, <1>5 DEF SendInv
  <2>2. Slot = chip.n
    BY <2>1, <1>1, <1>2, Parity DEF Slot
  <2>3. Target = <<1, sda>>
    BY <1>1, <1>2, <1>5 DEF Target
  <2>4. Drive(1, sda, hears)
    BY <2>3, <1>3
  <2>5. sda \in {0, 1} /\ Top(SentByte, chip.n + 1) = 2 * chip.shift + sda
    BY <2>1, <1>1, <1>2, TopNext, SentByteType DEF ChipType, Chips
  <2>6. Rise(chip, IF sda = 0 THEN 0 ELSE chip.sda)
          = [chip EXCEPT !.n = @ + 1, !.shift = Top(SentByte, chip.n + 1)]
    BY <2>5, <2>1, <1>1, <1>2 DEF Rise, Receiving
  <2>7. chip' = [chip EXCEPT !.n = @ + 1, !.shift = Top(SentByte, chip.n + 1)] /\ scl' = 1
    BY <2>4, <2>6, <2>1 DEF Drive
  <2>8. Sampled = 0
    BY <1>1, <1>2, <2>1, <2>2 DEF Sampled
  <2> QED
    BY <2>1, <2>7, <2>8, <1>2, <1>5 DEF Within, TransferType, Transfers
<1> QED
  BY <1>2, <1>4, <1>5

\* the chip takes the eight bits and answers, or noise keeps it from answering
LEMMA SendsAck ==
  ASSUME ChipType, TransferType, SendInv, Sending, NEW hears \in BOOLEAN, BusStep(hears), i2c.step = 16
  PROVE  /\ Within /\ i2c'.byte = 0 /\ scl' = 0 /\ sda' = 1
         /\ chip' = Taken(chip, hears)
         /\ chip.state = Takes /\ chip.n = BITS /\ chip.shift = SentByte /\ Receiving(chip)
         /\ chip.state = "address" => chip.shift \div 2 = DS1338Z_I2C_ADDR
<1>1. /\ chip.state = Takes /\ chip.sda = 1 /\ chip.n \in 0..BITS /\ i2c.byte = 0
      /\ chip.shift = Top(SentByte, chip.n) /\ chip.n = BITS /\ scl = 1
  BY DEF SendInv, BITS
<1>2. ~Reads /\ i2c.pc \notin {"start", "restart", "stop"} /\ Takes \in {"address", "pointer", "store"}
  BY DEF Sending, Reads, Takes
<1>3. LastStep = 18 /\ BITS = 8 /\ Within
  BY DEF TransferType, Transfers, BITS, LastStep, Sending, BusStep, Within
<1>4. PICK t \in {Target} : Drive(t[1], t[2], hears)
  BY DEF BusStep
<1>5. Slot = BITS
  BY <1>3 DEF Slot
<1>6. Target = <<0, 1>>
  BY <1>2, <1>3, <1>5 DEF Target, OutBit
<1>7. Drive(0, 1, hears)
  BY <1>6, <1>4
<1>8. Receiving(chip) /\ Fall(chip, hears) = Taken(chip, hears)
  BY <1>1, <1>2, <1>3 DEF Fall, Receiving
<1>9. scl' = 0 /\ sda' = 1 /\ chip' = Taken(chip, hears)
  BY <1>7, <1>8, <1>1 DEF Drive
<1>10. Sampled = 0
  BY <1>1 DEF Sampled
<1>11. chip.shift = SentByte
  BY <1>1, TopEnds, SentByteType
<1>12. chip.state = "address" => chip.shift \div 2 = DS1338Z_I2C_ADDR
  <2>1. chip.state = "address" => i2c.pc \in {"address", "address_r"}
    BY <1>1 DEF Takes
  <2>2. chip.state = "address" => SentByte \in {2 * DS1338Z_I2C_ADDR, 2 * DS1338Z_I2C_ADDR + 1}
    BY <2>1 DEF SentByte
  <2> QED
    BY <2>2, <1>11, BoardAssumption
<1> QED
  BY <1>1, <1>3, <1>8, <1>9, <1>10, <1>11, <1>12 DEF Within, TransferType, Transfers

LEMMA SendsClock ==
  ASSUME ChipType, TransferType, SendInv, Sending, NEW hears \in BOOLEAN, BusStep(hears), i2c.step = 17
  PROVE  /\ Within /\ i2c'.byte = chip.sda /\ scl' = 1 /\ sda' = 1
         /\ Acknowledged => chip' = [chip EXCEPT !.n = @ + 1]
         /\ Unheard => chip' = chip
<1>1. scl = 0 /\ sda = 1 /\ ((Acknowledged /\ chip.n = BITS) \/ Unheard)
  BY DEF SendInv
<1>2. /\ ~Reads /\ i2c.pc \notin {"start", "restart", "stop"} /\ Takes \in {"address", "pointer", "store"}
      /\ Takes # "idle"
  BY DEF Sending, Reads, Takes
<1>3. LastStep = 18 /\ BITS = 8 /\ Within
  BY DEF TransferType, Transfers, BITS, LastStep, Sending, BusStep, Within
<1>4. PICK t \in {Target} : Drive(t[1], t[2], hears)
  BY DEF BusStep
<1>5. Slot = BITS
  BY <1>3 DEF Slot
<1>6. Target = <<1, 1>>
  BY <1>1, <1>2 DEF Target
<1>7. Drive(1, 1, hears)
  BY <1>6, <1>4
<1>8. scl' = 1 /\ sda' = 1 /\ chip' = Rise(chip, chip.sda)
  BY <1>7, <1>1 DEF Drive
<1>9. Acknowledged => Rise(chip, chip.sda) = [chip EXCEPT !.n = @ + 1]
  <2>1. SUFFICES ASSUME Acknowledged PROVE Rise(chip, chip.sda) = [chip EXCEPT !.n = @ + 1]
    OBVIOUS
  <2>2. chip.state = Takes /\ chip.state # "idle" /\ Receiving(chip) /\ chip.n = BITS
    BY <2>1, <1>1, <1>2 DEF Acknowledged, Unheard, Receiving
  <2>3. Rise(chip, chip.sda) = [chip EXCEPT !.n = @ + 1, !.shift = chip.shift]
    BY <2>2, <1>3 DEF Rise
  <2> QED
    BY <2>3 DEF ChipType, Chips
<1>10. Unheard => Rise(chip, chip.sda) = chip
  BY DEF Unheard, Rise
<1>11. Sampled = chip.sda
  BY <1>1, <1>2, <1>5 DEF Sampled, SDA_STATUS
<1> QED
  BY <1>3, <1>8, <1>9, <1>10, <1>11 DEF Within, TransferType, Transfers

\* the only cell that may change is the one being written, see StoredAsMeant
Stores ==
  /\ DOMAIN chip'.mem = DOMAIN chip.mem
  /\ \A a \in DOMAIN chip.mem : chip'.mem[a] # chip.mem[a] =>
       /\ i2c.op = "write" /\ i2c.pc = "data"
       /\ a = i2c.base + i2c.n /\ chip'.mem[a] = i2c.data[i2c.n + 1]

LEMMA WithinFields ==
  ASSUME TransferType, Within
  PROVE  /\ i2c'.op = i2c.op /\ i2c'.base = i2c.base /\ i2c'.n = i2c.n /\ i2c'.data = i2c.data
         /\ i2c'.pc = i2c.pc /\ i2c'.ret = i2c.ret /\ i2c'.step = i2c.step + 1 /\ i2c'.byte = Sampled
BY DEF TransferType, Transfers, Within

\* the cells a transaction has been through stay as they are while it goes on
LEMMA CellsKept ==
  ASSUME ChipType, TransferType, Stores, i2c.op # "none"
  PROVE  /\ i2c.op = "read" => \A j \in 1..i2c.n : chip'.mem[i2c.base + j - 1] = chip.mem[i2c.base + j - 1]
         /\ i2c.op = "write" => \A j \in 1..i2c.n : chip'.mem[i2c.base + j - 1] = chip.mem[i2c.base + j - 1]
<1>1. i2c.base \in {0, NVRAM} /\ i2c.n \in 0..7
  BY DEF TransferType, Transfers
<1>2. ASSUME NEW j \in 1..i2c.n PROVE chip'.mem[i2c.base + j - 1] = chip.mem[i2c.base + j - 1]
  <2>1. j - 1 \in 0..6 /\ i2c.base + (j - 1) = i2c.base + j - 1
    BY <1>1 DEF NVRAM, DS1338Z_NVRAM_START, DS_1338Z_NVRAM_BASE
  <2>2. i2c.base + j - 1 \in DOMAIN chip.mem
    BY <2>1, <1>1, CellExists
  <2>3. i2c.base + j - 1 # i2c.base + i2c.n
    BY <1>1 DEF NVRAM, DS1338Z_NVRAM_START, DS_1338Z_NVRAM_BASE
  <2> QED
    BY <2>2, <2>3 DEF Stores
<1> QED
  BY <1>2

LEMMA WithinType ==
  ASSUME ChipType, TransferType, Within, Stores, i2c.op # "none", i2c.step + 1 \in 0..2 * (BITS + 1), Sampled \in Byte
  PROVE  TransferType'
<1>1. i2c' = [i2c EXCEPT !.step = i2c.step + 1, !.byte = Sampled]
  BY DEF Within, TransferType, Transfers
<1>2. i2c' \in Transfers
  <2>1. i2c \in Transfers
    BY DEF TransferType, Transfers
  <2> QED
    BY <2>1, <1>1 DEF Transfers
<1>3. ASSUME i2c.op = "read", NEW j \in 1..Len(i2c.data) PROVE i2c.data[j] = chip'.mem[i2c.base + j - 1]
  <2>1. i2c.data \in Seq(Byte) /\ i2c.n \in 0..7 /\ Len(i2c.data) <= i2c.n
    BY <1>3 DEF TransferType, Transfers
  <2>2. Len(i2c.data) \in Nat
    BY <2>1, LenProperties
  <2>3. j \in 1..i2c.n
    BY <2>1, <2>2
  <2>4. i2c.data[j] = chip.mem[i2c.base + j - 1]
    BY <1>3 DEF TransferType, Transfers
  <2> QED
    BY <2>3, <2>4, <1>3, CellsKept
<1>4. ASSUME i2c.op = "write", NEW j \in 1..i2c.n PROVE chip'.mem[i2c.base + j - 1] = i2c.data[j]
  <2>1. chip.mem[i2c.base + j - 1] = i2c.data[j]
    BY <1>4 DEF TransferType, Transfers
  <2> QED
    BY <2>1, <1>4, CellsKept
<1> QED
  BY <1>2, <1>3, <1>4, WithinFields DEF TransferType

LEMMA ProgramKept ==
  ASSUME ProgramInv, UNCHANGED program, i2c'.op = i2c.op, i2c'.base = i2c.base,
         i2c.op = "read" => i2c'.n = i2c.n, i2c.op = "write" => i2c'.data = i2c.data,
         i2c'.pc = "idle" <=> i2c.pc = "idle"
  PROVE  ProgramInv'
BY DEF ProgramInv, program

\* which of the parts of the invariant a phase of the transfer is about
LEMMA Phases ==
  /\ Sending => ~Reads /\ i2c.pc \notin {"idle", "start", "restart", "stop", "done"}
  /\ Reads => ~Sending /\ i2c.pc \notin {"idle", "start", "restart", "stop", "done"}
BY DEF Sending, Reads

LEMMA SendingKept ==
  ASSUME i2c'.pc = i2c.pc, i2c'.op = i2c.op, i2c'.base = i2c.base, i2c'.data = i2c.data, i2c'.n = i2c.n
  PROVE  Sending' = Sending /\ SentByte' = SentByte /\ Takes' = Takes /\ Reads' = Reads
BY DEF Sending, SentByte, Takes, Reads

LEMMA WithinSend ==
  ASSUME LinkInv, Sending, NEW hears \in BOOLEAN, BusStep(hears), i2c.step < 18,
         UNCHANGED program, disturbed' = IF hears THEN disturbed ELSE disturbed \cup {"noise"}
  PROVE  LinkInv' /\ Stores
<1> USE DEF LinkInv
<1>1. /\ i2c.step \in 0..18 /\ BITS = 8 /\ i2c.op # "none" /\ i2c.pc # "idle" /\ SentByte \in Byte
      /\ i2c.n \in 0..7 /\ i2c.base \in {0, NVRAM}
  BY SentByteType DEF TransferType, Transfers, BITS, Sending
<1>2. Within /\ Sampled = i2c'.byte
  BY SendsBit, SendsAck, SendsClock, WithinFields, <1>1
<1>3. Sending' /\ Sending' = Sending /\ SentByte' = SentByte /\ Takes' = Takes /\ Reads' = Reads
  BY <1>2, WithinFields, SendingKept
<1>4. /\ i2c'.op = i2c.op /\ i2c'.base = i2c.base /\ i2c'.n = i2c.n /\ i2c'.data = i2c.data
      /\ i2c'.pc = i2c.pc /\ i2c'.ret = i2c.ret /\ i2c'.step = i2c.step + 1
  BY <1>2, WithinFields
<1>5. ProgramInv'
  BY <1>4, ProgramKept
<1>6. ReadInv' /\ RestartInv' /\ StopInv' /\ QuietInv'
  BY <1>3, <1>4, Phases DEF ReadInv, RestartInv, StopInv, QuietInv
<1>7. i2c.pc \in {"address_r", "data"} => chip.ptr = i2c.base + (IF i2c.pc = "data" THEN i2c.n ELSE 0)
  BY DEF SendInv
<1>8. CASE i2c.step < 16
  <2>1. CASE i2c.step % 2 = 0
    <3>1. /\ chip' = chip /\ scl' = 0 /\ sda' = Bit(SentByte, chip.n) /\ i2c'.byte = 0
          /\ i2c.step = 2 * chip.n /\ chip.n < BITS
      BY <1>8, <2>1, SendsBit
    <3>2. /\ chip.state = Takes /\ chip.sda = 1 /\ chip.n \in 0..BITS /\ chip.shift = Top(SentByte, chip.n)
      BY <1>1, <1>8 DEF SendInv
    <3>3. sda' \in {0, 1}
      BY <3>1, <3>2, <1>1, BitType
    <3>4. ChipType' /\ Stores
      BY <3>1, <3>3 DEF ChipType, Chips, Stores
    <3>5. TransferType'
      BY <3>1, <3>4, <1>1, <1>2, <1>8, WithinType DEF Byte
    <3>6. SendInv'
      BY <3>1, <3>2, <1>1, <1>3, <1>4, <1>7, <1>8 DEF SendInv
    <3> QED
      BY <3>4, <3>5, <3>6, <1>5, <1>6
  <2>2. CASE i2c.step % 2 = 1
    <3>1. /\ chip' = [chip EXCEPT !.n = @ + 1, !.shift = Top(SentByte, chip.n + 1)]
          /\ scl' = 1 /\ i2c.step = 2 * chip.n + 1 /\ chip.n < BITS /\ i2c'.byte = 0
      BY <1>8, <2>2, SendsBit
    <3>2. /\ chip.state = Takes /\ chip.sda = 1 /\ chip.n \in 0..BITS /\ chip.shift = Top(SentByte, chip.n)
      BY <1>1, <1>8 DEF SendInv
    <3>3. /\ chip'.state = Takes /\ chip'.sda = 1 /\ chip'.n = chip.n + 1 /\ chip'.ptr = chip.ptr
          /\ chip'.shift = Top(SentByte, chip'.n) /\ chip'.mem = chip.mem
      BY <3>1, <3>2 DEF ChipType, Chips
    <3>4. Top(SentByte, chip.n + 1) \in Nat
      <4>1. chip.n \in 0..BITS - 1 /\ Top(SentByte, chip.n) \in Nat /\ Bit(SentByte, chip.n) \in Nat
        <5>1. chip.n \in 0..BITS - 1
          BY <3>1, <3>2 DEF BITS
        <5>2. SentByte \in Byte
          BY <1>1
        <5>3. Bit(SentByte, chip.n) \in {0, 1} /\ Top(SentByte, chip.n) \in 0..127
          BY <5>1, <5>2, TopNext, BitType
        <5> QED
          BY <5>1, <5>3
      <4> QED
        BY <4>1, <1>1, TopNext
    <3>5. sda' = sda
      BY <1>8, <2>2, <1>1, Phases DEF BusStep, Target, Drive, Reads, Sending
    <3>6. ChipType' /\ Stores
      <4>1. /\ chip.n + 1 \in Nat
            /\ chip' = [chip EXCEPT !.n = chip.n + 1, !.shift = Top(SentByte, chip.n + 1)]
        BY <3>1, <3>2, <1>1
      <4>2. chip' \in Chips(DOMAIN chip.mem)
        BY <4>1, <3>4 DEF ChipType, Chips
      <4> QED
        BY <4>2, <3>1, <3>3, <3>5 DEF ChipType, Chips, Stores
    <3>7. TransferType'
      BY <3>1, <3>6, <1>1, <1>2, <1>8, WithinType DEF Byte
    <3>8. SendInv'
      BY <3>1, <3>2, <3>3, <1>1, <1>3, <1>4, <1>7, <1>8 DEF SendInv
    <3> QED
      BY <3>6, <3>7, <3>8, <1>5, <1>6
  <2> QED
    BY <2>1, <2>2, <1>1
<1>9. CASE i2c.step = 16
  <2>1. /\ i2c'.byte = 0 /\ scl' = 0 /\ sda' = 1
        /\ chip' = Taken(chip, hears)
        /\ chip.state = Takes /\ chip.n = BITS /\ chip.shift = SentByte /\ Receiving(chip)
        /\ chip.state = "address" => chip.shift \div 2 = DS1338Z_I2C_ADDR
    BY <1>9, SendsAck
  <2>2. CASE hears
    <3>1. chip' = [chip EXCEPT !.sda = 0,
                     !.mem = IF chip.state = "store" THEN [@ EXCEPT ![chip.ptr] = chip.shift] ELSE @]
      BY <2>1, <2>2 DEF Taken
    <3>2. chip.state = "store" =>
            /\ i2c.pc = "data" /\ i2c.op = "write" /\ chip.ptr = i2c.base + i2c.n /\ i2c.n < 7
            /\ chip.shift = i2c.data[i2c.n + 1]
      BY <2>1, <1>7 DEF Takes, SentByte, Sending, TransferType, Transfers
    <3>3. chip.state = "store" => chip.ptr \in DOMAIN chip.mem
      <4>1. chip.state = "store" => i2c.n \in 0..6
        BY <3>2, <1>1
      <4> QED
        BY <4>1, <3>2, <1>1, CellExists
    <3>4. /\ chip'.state = chip.state /\ chip'.sda = 0 /\ chip'.n = chip.n /\ chip'.ptr = chip.ptr
          /\ chip'.shift = chip.shift
          /\ chip.state # "store" => chip'.mem = chip.mem
          /\ chip.state = "store" => chip'.mem = [chip.mem EXCEPT ![chip.ptr] = SentByte]
      BY <3>1, <2>1 DEF ChipType, Chips
    <3>5. chip'.mem \in [DOMAIN chip.mem -> Byte]
      BY <3>3, <3>4, <1>1 DEF ChipType, Chips
    <3>6. ChipType'
      BY <3>1, <3>4, <3>5, <2>1 DEF ChipType, Chips
    <3>7. Stores
      BY <3>2, <3>3, <3>4, <3>5, <2>1 DEF Stores, ChipType, Chips
    <3>8. TransferType'
      BY <2>1, <3>7, <1>1, <1>2, <1>9, WithinType DEF Byte
    <3>9. Takes = "store" => chip'.mem[i2c.base + i2c.n] = SentByte
      BY <3>2, <3>3, <3>4, <2>1 DEF ChipType, Chips
    <3>10. SendInv'
      BY <3>4, <3>9, <2>1, <1>1, <1>3, <1>4, <1>7, <1>9 DEF SendInv, Acknowledged
    <3> QED
      BY <3>6, <3>7, <3>8, <3>10, <1>5, <1>6
  <2>3. CASE ~hears
    <3>1. chip' = Idle(chip) /\ "noise" \in disturbed'
      BY <2>1, <2>3 DEF Taken
    <3>2. ChipType' /\ Stores
      <4>1. chip' \in Chips(DOMAIN chip.mem)
        BY <3>1 DEF ChipType, Chips, Idle
      <4>2. chip'.mem = chip.mem
        BY <3>1 DEF ChipType, Chips, Idle
      <4> QED
        BY <4>1, <4>2, <2>1 DEF ChipType, Chips, Stores
    <3>3. TransferType'
      BY <2>1, <3>2, <1>1, <1>2, <1>9, WithinType DEF Byte
    <3>4. /\ chip'.state = "idle" /\ chip'.n = 0 /\ chip'.sda = 1 /\ chip'.ptr = chip.ptr
      BY <3>1 DEF Idle, ChipType, Chips
    <3>5. SendInv'
      BY <3>1, <3>4, <2>1, <1>1, <1>3, <1>4, <1>7, <1>9 DEF SendInv, Unheard
    <3> QED
      BY <3>2, <3>3, <3>5, <1>5, <1>6
  <2> QED
    BY <2>2, <2>3
<1>10. CASE i2c.step = 17
  <2>1. /\ i2c'.byte = chip.sda /\ scl' = 1 /\ sda' = 1
        /\ Acknowledged => chip' = [chip EXCEPT !.n = @ + 1]
        /\ Unheard => chip' = chip
    BY <1>10, SendsClock
  <2>2. (Acknowledged /\ chip.n = BITS) \/ Unheard
    BY <1>10 DEF SendInv
  <2>3. /\ chip'.state = chip.state /\ chip'.sda = chip.sda /\ chip'.ptr = chip.ptr
        /\ chip'.shift = chip.shift /\ chip'.mem = chip.mem
        /\ Acknowledged => chip'.n = chip.n + 1
    BY <2>1, <2>2 DEF ChipType, Chips
  <2>4. ChipType' /\ Stores
    BY <2>1, <2>2 DEF ChipType, Chips, Stores
  <2>5. TransferType'
    <3>1. Sampled \in Byte
      BY <2>1, <1>2 DEF ChipType, Chips, Byte
    <3> QED
      BY <3>1, <2>4, <1>1, <1>2, <1>10, WithinType
  <2>6. Acknowledged => Acknowledged' /\ i2c'.byte = 0
    BY <2>1, <2>3, <1>3, <1>4 DEF Acknowledged
  <2>7. Unheard => Unheard' /\ i2c'.byte = 1
    BY <2>1, <2>3 DEF Unheard
  <2>8. SendInv'
    BY <2>1, <2>2, <2>3, <2>6, <2>7, <1>1, <1>3, <1>4, <1>7, <1>10 DEF SendInv
  <2> QED
    BY <2>4, <2>5, <2>8, <1>5, <1>6
<1> QED
  BY <1>1, <1>8, <1>9, <1>10

\* the clock falls after the ninth bit
LEMMA SendsEnd ==
  ASSUME ChipType, TransferType, SendInv, Sending, NEW hears \in BOOLEAN, BusStep(hears), i2c.step = 18
  PROVE  /\ i2c' = AfterCommand /\ scl' = 0 /\ sda' = 1
         /\ (Acknowledged /\ chip.n = BITS + 1 /\ i2c.byte = 0 /\ chip' = NextByte(chip))
            \/ (Unheard /\ i2c.byte = 1 /\ chip' = chip)
<1>1. scl = 1 /\ sda = 1 /\ ((Acknowledged /\ chip.n = BITS + 1 /\ i2c.byte = 0) \/ (Unheard /\ i2c.byte = 1))
  BY DEF SendInv
<1>2. /\ ~Reads /\ i2c.pc \notin {"start", "restart", "stop"} /\ Takes # "idle"
  BY DEF Sending, Reads, Takes
<1>3. LastStep = 18 /\ BITS = 8 /\ i2c' = AfterCommand
  BY DEF BITS, LastStep, Sending, BusStep
<1>4. PICK t \in {Target} : Drive(t[1], t[2], hears)
  BY DEF BusStep
<1>5. Slot > BITS
  BY <1>3 DEF Slot
<1>6. Target = <<0, 1>>
  BY <1>2, <1>5 DEF Target, OutBit
<1>7. Drive(0, 1, hears)
  BY <1>6, <1>4
<1>8. scl' = 0 /\ sda' = 1 /\ chip' = Fall(chip, hears)
  BY <1>7, <1>1 DEF Drive
<1>9. Acknowledged /\ chip.n = BITS + 1 => Fall(chip, hears) = NextByte(chip)
  BY <1>2, <1>3 DEF Fall, Acknowledged
<1>10. Unheard => Fall(chip, hears) = chip
  BY <1>3 DEF Fall, Unheard
<1> QED
  BY <1>1, <1>3, <1>8, <1>9, <1>10

\* the driver goes on with another command of the transaction
LEMMA GoesType ==
  ASSUME TransferType, NEW p \in {"address", "pointer", "restart", "address_r", "data", "stop"}, i2c' = Goes(p)
  PROVE  /\ i2c'.op = i2c.op /\ i2c'.base = i2c.base /\ i2c'.n = i2c.n /\ i2c'.data = i2c.data
         /\ i2c'.pc = p /\ i2c'.ret = i2c.ret /\ i2c'.step = 0 /\ i2c'.byte = 0
         /\ i2c' \in Transfers
<1>1. i2c \in Transfers
  BY DEF TransferType
<1>2. /\ i2c' = [i2c EXCEPT !.pc = p, !.step = 0, !.byte = 0]
      /\ 0 \in 0..2 * (BITS + 1) /\ 0 \in Byte
  BY DEF Goes, Byte, BITS
<1> QED
  BY <1>1, <1>2 DEF Transfers

LEMMA FailsType ==
  ASSUME TransferType, i2c' = Fails("nak")
  PROVE  /\ i2c'.op = i2c.op /\ i2c'.base = i2c.base /\ i2c'.n = i2c.n /\ i2c'.data = i2c.data
         /\ i2c'.pc = "stop" /\ i2c'.ret = "nak" /\ i2c'.step = 0 /\ i2c'.byte = 0
         /\ i2c' \in Transfers
<1>1. i2c \in Transfers
  BY DEF TransferType
<1>2. /\ i2c' = [i2c EXCEPT !.pc = "stop", !.step = 0, !.byte = 0, !.ret = "nak"]
      /\ 0 \in 0..2 * (BITS + 1) /\ 0 \in Byte
  BY <1>1 DEF Goes, Fails, Byte, BITS, Transfers
<1> QED
  BY <1>1, <1>2 DEF Transfers

\* a byte that is not acknowledged
LEMMA EndRefused ==
  ASSUME LinkInv, Sending, i2c.byte = 1, Unheard, i2c' = AfterCommand, scl' = 0, sda' = 1, chip' = chip,
         UNCHANGED program, disturbed \subseteq disturbed'
  PROVE  LinkInv' /\ Stores
<1> USE DEF LinkInv
<1>1. ~Reads /\ i2c.pc \in {"address", "pointer", "address_r", "data"} /\ (i2c.pc = "data" => i2c.op = "write")
  BY DEF Sending, Reads
<1>2. i2c' = Fails("nak")
  BY <1>1 DEF AfterCommand
<1>3. /\ i2c'.op = i2c.op /\ i2c'.base = i2c.base /\ i2c'.n = i2c.n /\ i2c'.data = i2c.data
      /\ i2c'.pc = "stop" /\ i2c'.ret = "nak" /\ i2c'.step = 0 /\ i2c'.byte = 0
  BY <1>2, FailsType
<1>4. ChipType' /\ Stores
  BY DEF ChipType, Chips, Stores
<1>5. TransferType'
  BY <1>1, <1>2, <1>3, FailsType DEF TransferType
<1>6. ~Sending' /\ ~Reads'
  BY <1>3 DEF Sending, Reads
<1>7. SendInv' /\ ReadInv' /\ RestartInv' /\ QuietInv'
  BY <1>3, <1>6 DEF SendInv, ReadInv, RestartInv, QuietInv
<1>8. StopInv'
  BY <1>3 DEF StopInv, Unheard
<1>9. ProgramInv'
  BY <1>1, <1>3, ProgramKept
<1> QED
  BY <1>4, <1>5, <1>7, <1>8, <1>9

LEMMA ChipReceives ==
  ASSUME ChipType, NEW st \in {"address", "pointer", "store"}, NEW p \in 0..CELLS - 1,
         chip' = Receives(chip, st, p), scl' \in {0, 1}, sda' \in {0, 1}
  PROVE  /\ ChipType' /\ Stores
         /\ chip'.state = st /\ chip'.ptr = p /\ chip'.sda = 1 /\ chip'.n = 0 /\ chip'.shift = 0
         /\ chip'.mem = chip.mem
<1>1. chip \in Chips(DOMAIN chip.mem)
  BY DEF ChipType
<1>2. chip' \in Chips(DOMAIN chip.mem) /\ chip'.mem = chip.mem
  BY <1>1 DEF Chips, Receives
<1>3. chip'.state = st /\ chip'.ptr = p /\ chip'.sda = 1 /\ chip'.n = 0 /\ chip'.shift = 0
  BY <1>1 DEF Chips, Receives
<1> QED
  BY <1>2, <1>3 DEF ChipType, Stores

LEMMA ChipSends ==
  ASSUME ChipType, NEW p \in 0..CELLS - 1, p \in DOMAIN chip.mem,
         chip' = Sends(chip, p), scl' \in {0, 1}, sda' \in {0, 1}
  PROVE  /\ ChipType' /\ Stores
         /\ chip'.state = "send" /\ chip'.ptr = p /\ chip'.sda = Bit(chip.mem[p], 0) /\ chip'.n = 0
         /\ chip'.mem = chip.mem
<1>1. chip \in Chips(DOMAIN chip.mem)
  BY DEF ChipType
<1>2. Bit(chip.mem[p], 0) \in {0, 1}
  <2>1. chip.mem[p] \in Byte /\ 0 \in 0..BITS - 1
    BY <1>1 DEF Chips, BITS
  <2> QED
    BY <2>1, BitType
<1>3. chip' \in Chips(DOMAIN chip.mem) /\ chip'.mem = chip.mem
  BY <1>1, <1>2 DEF Chips, Sends
<1>4. chip'.state = "send" /\ chip'.ptr = p /\ chip'.sda = Bit(chip.mem[p], 0) /\ chip'.n = 0
  BY <1>1 DEF Chips, Sends
<1> QED
  BY <1>3, <1>4 DEF ChipType, Stores

\* a byte that is acknowledged: the chip is ready for the next one
LEMMA EndAcknowledged ==
  ASSUME LinkInv, Sending, Acknowledged, chip.n = BITS + 1, i2c.byte = 0, i2c' = AfterCommand,
         scl' = 0, sda' = 1, chip' = NextByte(chip), i2c.step = 18,
         UNCHANGED program, disturbed \subseteq disturbed'
  PROVE  LinkInv' /\ Stores
<1> USE DEF LinkInv
<1>1. /\ i2c.op \in {"read", "write"} /\ i2c.base \in {0, NVRAM} /\ i2c.n \in 0..7 /\ BITS = 8
      /\ scl' \in {0, 1} /\ sda' \in {0, 1} /\ i2c.ret = "done" /\ ~Reads
  BY DEF TransferType, Transfers, BITS, Sending, Reads
<1>2. /\ chip.state = Takes /\ chip.shift = SentByte
      /\ i2c.pc \in {"address_r", "data"} => chip.ptr = i2c.base + (IF i2c.pc = "data" THEN i2c.n ELSE 0)
  BY DEF Acknowledged, SendInv
<1>3. chip.ptr \in 0..CELLS - 1
  BY DEF ChipType, Chips
<1>4. CASE i2c.pc = "address"
  <2>1. i2c' = Goes("pointer")
    BY <1>4, <1>1 DEF AfterCommand
  <2>2. chip' = Receives(chip, "pointer", chip.ptr)
    <3>1. chip.state = "address" /\ chip.shift = 2 * DS1338Z_I2C_ADDR
      BY <1>2, <1>4 DEF Takes, SentByte
    <3>2. chip.shift % 2 = 0
      BY <3>1, BoardAssumption
    <3> QED
      BY <3>1, <3>2 DEF NextByte
  <2>3. /\ ChipType' /\ Stores /\ chip'.state = "pointer" /\ chip'.sda = 1 /\ chip'.n = 0 /\ chip'.shift = 0
        /\ chip'.mem = chip.mem
    BY <2>2, <1>1, <1>3, ChipReceives
  <2>4. /\ i2c'.op = i2c.op /\ i2c'.base = i2c.base /\ i2c'.n = i2c.n /\ i2c'.data = i2c.data
        /\ i2c'.pc = "pointer" /\ i2c'.ret = i2c.ret /\ i2c'.step = 0 /\ i2c'.byte = 0 /\ i2c' \in Transfers
    BY <2>1, GoesType
  <2>5. TransferType'
    BY <2>3, <2>4, <1>1, <1>4 DEF TransferType
  <2>6. Sending' /\ ~Reads' /\ Takes' = "pointer" /\ SentByte' = i2c.base /\ i2c.base \in Byte
    BY <2>4, <1>1 DEF Sending, Reads, Takes, SentByte, Byte, NVRAM, DS1338Z_NVRAM_START, DS_1338Z_NVRAM_BASE
  <2>7. SendInv'
    BY <2>3, <2>4, <2>6, <1>1, TopEnds DEF SendInv
  <2>8. ReadInv' /\ RestartInv' /\ StopInv' /\ QuietInv'
    BY <2>4, <2>6 DEF ReadInv, RestartInv, StopInv, QuietInv
  <2>9. ProgramInv'
    BY <2>4, <1>4, ProgramKept
  <2> QED
    BY <2>3, <2>5, <2>7, <2>8, <2>9
<1>5. CASE i2c.pc = "pointer"
  <2>1. chip' = Receives(chip, "store", i2c.base)
    <3>1. chip.state = "pointer" /\ chip.shift = i2c.base
      BY <1>2, <1>5 DEF Takes, SentByte
    <3>2. i2c.base % CELLS = i2c.base
      BY <1>1 DEF CELLS, NVRAM, DS1338Z_NVRAM_START, DS_1338Z_NVRAM_BASE
    <3> QED
      BY <3>1, <3>2 DEF NextByte
  <2>2. i2c.base \in 0..CELLS - 1
    BY <1>1 DEF CELLS, NVRAM, DS1338Z_NVRAM_START, DS_1338Z_NVRAM_BASE
  <2>3. /\ ChipType' /\ Stores /\ chip'.state = "store" /\ chip'.sda = 1 /\ chip'.n = 0 /\ chip'.shift = 0
        /\ chip'.ptr = i2c.base /\ chip'.mem = chip.mem
    BY <2>1, <2>2, <1>1, ChipReceives
  <2>4. CASE i2c.op = "read"
    <3>1. i2c' = Goes("restart")
      BY <1>5, <1>1, <2>4 DEF AfterCommand
    <3>2. /\ i2c'.op = i2c.op /\ i2c'.base = i2c.base /\ i2c'.n = i2c.n /\ i2c'.data = i2c.data
          /\ i2c'.pc = "restart" /\ i2c'.ret = i2c.ret /\ i2c'.step = 0 /\ i2c'.byte = 0 /\ i2c' \in Transfers
      BY <3>1, GoesType
    <3>3. TransferType'
      BY <2>3, <2>4, <3>2, <1>1, <1>5 DEF TransferType
    <3>4. ~Sending' /\ ~Reads'
      BY <3>2 DEF Sending, Reads
    <3>5. SendInv' /\ ReadInv' /\ RestartInv' /\ StopInv' /\ QuietInv'
      BY <2>3, <2>4, <3>2, <3>4 DEF SendInv, ReadInv, RestartInv, StopInv, QuietInv
    <3>6. ProgramInv'
      BY <3>2, <1>5, ProgramKept
    <3> QED
      BY <2>3, <3>3, <3>5, <3>6
  <2>5. CASE i2c.op = "write"
    <3>1. i2c' = Goes("data")
      BY <1>5, <1>1, <2>5 DEF AfterCommand
    <3>2. /\ i2c'.op = i2c.op /\ i2c'.base = i2c.base /\ i2c'.n = i2c.n /\ i2c'.data = i2c.data
          /\ i2c'.pc = "data" /\ i2c'.ret = i2c.ret /\ i2c'.step = 0 /\ i2c'.byte = 0 /\ i2c' \in Transfers
      BY <3>1, GoesType
    <3>3. i2c.n = 0
      BY <1>5, <2>5 DEF TransferType
    <3>4. TransferType'
      BY <2>3, <2>5, <3>2, <3>3, <1>1, <1>5 DEF TransferType
    <3>5. Sending' /\ ~Reads' /\ Takes' = "store"
      BY <2>5, <3>2 DEF Sending, Reads, Takes
    <3>6. SentByte' \in Byte
      BY <3>4, <3>5, SentByteNext
    <3>7. SendInv'
      <4>1. Top(SentByte', 0) = 0
        BY <3>6, TopEnds
      <4>2. i2c.base + 0 = i2c.base
        BY <2>2 DEF CELLS
      <4> QED
        BY <2>3, <3>2, <3>3, <3>5, <4>1, <4>2, <1>1 DEF SendInv
    <3>8. ReadInv' /\ RestartInv' /\ StopInv' /\ QuietInv'
      BY <3>2, <3>5 DEF ReadInv, RestartInv, StopInv, QuietInv
    <3>9. ProgramInv'
      BY <3>2, <1>5, ProgramKept
    <3> QED
      BY <2>3, <3>4, <3>7, <3>8, <3>9
  <2> QED
    BY <2>4, <2>5, <1>1
<1>6. CASE i2c.pc = "address_r"
  <2>1. i2c.op = "read" /\ i2c.data = <<>> /\ i2c.n \in {1, 7} /\ chip.ptr = i2c.base
    <3>1. i2c.op = "read" /\ i2c.data = <<>> /\ i2c.n \in {1, 7}
      BY <1>1, <1>6 DEF TransferType
    <3>2. i2c.base + 0 = i2c.base
      BY <1>1 DEF NVRAM, DS1338Z_NVRAM_START, DS_1338Z_NVRAM_BASE
    <3> QED
      BY <3>1, <3>2, <1>2, <1>6
  <2>2. i2c' = Goes("data")
    BY <1>6, <1>1 DEF AfterCommand
  <2>3. chip' = Sends(chip, i2c.base)
    <3>1. chip.state = "address" /\ chip.shift = 2 * DS1338Z_I2C_ADDR + 1
      BY <1>2, <1>6 DEF Takes, SentByte
    <3>2. chip.shift % 2 = 1
      BY <3>1, BoardAssumption
    <3> QED
      BY <3>1, <3>2, <2>1 DEF NextByte
  <2>4. i2c.base \in 0..CELLS - 1 /\ i2c.base \in DOMAIN chip.mem /\ chip.mem[i2c.base] \in Byte
    <3>1. i2c.base + 0 = i2c.base /\ 0 \in 0..6
      BY <1>1 DEF NVRAM, DS1338Z_NVRAM_START, DS_1338Z_NVRAM_BASE
    <3> QED
      BY <3>1, <1>1, CellExists
  <2>5. /\ ChipType' /\ Stores
        /\ chip'.state = "send" /\ chip'.ptr = i2c.base /\ chip'.sda = Bit(chip.mem[i2c.base], 0) /\ chip'.n = 0
        /\ chip'.mem = chip.mem
    BY <2>3, <2>4, <1>1, ChipSends
  <2>6. /\ i2c'.op = i2c.op /\ i2c'.base = i2c.base /\ i2c'.n = i2c.n /\ i2c'.data = i2c.data
        /\ i2c'.pc = "data" /\ i2c'.ret = i2c.ret /\ i2c'.step = 0 /\ i2c'.byte = 0 /\ i2c' \in Transfers
    BY <2>2, GoesType
  <2>7. Len(i2c.data) = 0 /\ i2c.base + 0 = i2c.base
    <3>1. Len(<<>>) = 0
      OBVIOUS
    <3>2. Len(i2c.data) = 0
      BY <3>1, <2>1
    <3>3. i2c.base + 0 = i2c.base
      BY <2>4 DEF CELLS
    <3> QED
      BY <3>2, <3>3
  <2>8. TransferType'
    BY <2>1, <2>5, <2>6, <2>7, <1>1 DEF TransferType
  <2>9. ~Sending' /\ Reads' /\ ReadCell' = chip.mem[i2c.base]
    BY <2>1, <2>5, <2>6, <2>7 DEF Sending, Reads, ReadCell
  <2>10. SendInv' /\ RestartInv' /\ StopInv' /\ QuietInv'
    BY <2>6, <2>9 DEF SendInv, RestartInv, StopInv, QuietInv
  <2>11. ReadInv'
    BY <2>4, <2>5, <2>6, <2>7, <2>9, <1>1, TopEnds DEF ReadInv
  <2>12. ProgramInv'
    BY <2>6, <1>6, ProgramKept
  <2> QED
    BY <2>5, <2>8, <2>10, <2>11, <2>12
<1> HIDE DEF LinkInv
<1>7. CASE i2c.pc = "data" /\ i2c.op = "write"
  <2> USE DEF LinkInv
  <2>1. /\ Len(i2c.data) = 7 /\ i2c.n < 7 /\ i2c.data \in Seq(Byte)
        /\ \A j \in 1..i2c.n : chip.mem[i2c.base + j - 1] = i2c.data[j]
    BY <1>7 DEF TransferType, Transfers
  <2>2. chip.ptr = i2c.base + i2c.n /\ SentByte = i2c.data[i2c.n + 1] /\ Takes = "store"
    BY <1>2, <1>7 DEF SentByte, Takes
  <2>3. chip.mem[i2c.base + i2c.n] = i2c.data[i2c.n + 1]
    BY <2>2 DEF Acknowledged
  <2>4. /\ \A j \in 1..(i2c.n + 1) : chip.mem[i2c.base + j - 1] = i2c.data[j]
        /\ i2c.n + 1 \in 0..7
    <3>1. \A j \in 1..(i2c.n + 1) : j \in 1..i2c.n \/ (j = i2c.n + 1 /\ i2c.base + j - 1 = i2c.base + i2c.n)
      BY <1>1 DEF NVRAM, DS1338Z_NVRAM_START, DS_1338Z_NVRAM_BASE
    <3>2. ASSUME NEW j \in 1..(i2c.n + 1) PROVE chip.mem[i2c.base + j - 1] = i2c.data[j]
      <4>1. CASE j \in 1..i2c.n
        BY <4>1, <2>1
      <4>2. CASE j = i2c.n + 1 /\ i2c.base + j - 1 = i2c.base + i2c.n
        BY <4>2, <2>3
      <4> QED
        BY <4>1, <4>2, <3>1
    <3>3. i2c.n + 1 \in 0..7
      BY <2>1, <1>1
    <3> QED
      BY <3>2, <3>3
  <2>5. (chip.ptr + 1) % CELLS = i2c.base + (i2c.n + 1) /\ (chip.ptr + 1) % CELLS \in 0..CELLS - 1
    <3>1. /\ i2c.base \in {0, 16} /\ i2c.n \in 0..6
      BY <2>1, <1>1 DEF NVRAM, DS1338Z_NVRAM_START, DS_1338Z_NVRAM_BASE
    <3>2. /\ i2c.base + i2c.n + 1 = i2c.base + (i2c.n + 1) /\ (i2c.base + i2c.n + 1) \in 0..63
      BY <3>1
    <3>3. (i2c.base + i2c.n + 1) % 64 = i2c.base + i2c.n + 1
      BY <3>2
    <3> QED
      BY <3>2, <3>3, <2>2 DEF CELLS
  <2>6. chip' = Receives(chip, "store", i2c.base + (i2c.n + 1))
    BY <2>2, <2>5, <1>2 DEF NextByte
  <2>7. /\ ChipType' /\ Stores /\ chip'.state = "store" /\ chip'.sda = 1 /\ chip'.n = 0 /\ chip'.shift = 0
        /\ chip'.ptr = i2c.base + (i2c.n + 1) /\ chip'.mem = chip.mem
    BY <2>5, <2>6, <1>1, ChipReceives
  <2>8. i2c' = [Goes(IF i2c.n + 1 >= 7 THEN "stop" ELSE "data") EXCEPT !.n = @ + 1]
    BY <2>1, <1>1, <1>7 DEF AfterCommand
  <2>9. /\ i2c'.op = i2c.op /\ i2c'.base = i2c.base /\ i2c'.n = i2c.n + 1 /\ i2c'.data = i2c.data
        /\ i2c'.pc = (IF i2c.n + 1 >= 7 THEN "stop" ELSE "data")
        /\ i2c'.ret = i2c.ret /\ i2c'.step = 0 /\ i2c'.byte = 0 /\ i2c' \in Transfers
    <3>1. i2c \in Transfers
      BY DEF TransferType
    <3>2. i2c' = [i2c EXCEPT !.pc = IF i2c.n + 1 >= 7 THEN "stop" ELSE "data", !.step = 0, !.byte = 0,
                             !.n = i2c.n + 1]
      BY <2>8, <3>1 DEF Goes, Transfers
    <3>3. /\ (IF i2c.n + 1 >= 7 THEN "stop" ELSE "data") \in {"stop", "data"}
          /\ 0 \in 0..2 * (BITS + 1) /\ 0 \in Byte /\ i2c.n + 1 \in 0..7
      BY <2>4, <1>1 DEF Byte
    <3> QED
      BY <3>1, <3>2, <3>3 DEF Transfers
  <2>10. TransferType'
    BY <2>1, <2>4, <2>7, <2>9, <1>1, <1>7 DEF TransferType
  <2>11. SendInv'
    <3>1. CASE Sending'
      <4>1. SentByte' \in Byte
        BY <3>1, <2>10, SentByteNext
      <4>2. Takes' = "store" /\ i2c'.pc = "data"
        BY <3>1, <2>9 DEF Takes, Sending
      <4> QED
        BY <4>1, <4>2, <2>7, <2>9, <1>1, TopEnds DEF SendInv
    <3> QED
      BY <3>1 DEF SendInv
  <2>12. ReadInv' /\ RestartInv' /\ StopInv' /\ QuietInv'
    BY <2>7, <2>9, <1>1, <1>7 DEF ReadInv, RestartInv, StopInv, QuietInv, Reads
  <2>13. ProgramInv'
    BY <2>9, <1>7, ProgramKept
  <2> QED
    BY <2>7, <2>10, <2>11, <2>12, <2>13
<1> QED
  BY <1>4, <1>5, <1>6, <1>7 DEF Sending

LEMMA SendStep ==
  ASSUME LinkInv, Sending, NEW hears \in BOOLEAN, BusStep(hears),
         UNCHANGED program, disturbed' = IF hears THEN disturbed ELSE disturbed \cup {"noise"}
  PROVE  LinkInv' /\ Stores
<1>1. i2c.step \in 0..18 /\ disturbed \subseteq disturbed'
  BY DEF LinkInv, TransferType, Transfers, BITS
<1>2. CASE i2c.step < 18
  BY <1>2, WithinSend
<1>3. CASE i2c.step = 18
  <2>1. /\ i2c' = AfterCommand /\ scl' = 0 /\ sda' = 1
        /\ (Acknowledged /\ chip.n = BITS + 1 /\ i2c.byte = 0 /\ chip' = NextByte(chip))
           \/ (Unheard /\ i2c.byte = 1 /\ chip' = chip)
    BY <1>3, SendsEnd DEF LinkInv
  <2>2. CASE Acknowledged /\ chip.n = BITS + 1 /\ i2c.byte = 0 /\ chip' = NextByte(chip)
    BY <2>1, <2>2, <1>1, <1>3, EndAcknowledged
  <2>3. CASE Unheard /\ i2c.byte = 1 /\ chip' = chip
    BY <2>1, <2>3, <1>1, EndRefused
  <2> QED
    BY <2>1, <2>2, <2>3
<1> QED
  BY <1>1, <1>2, <1>3

-----------------------------------------------------------------------------
(* Within a byte read *)

LEMMA Reading ==
  ASSUME LinkInv, Reads
  PROVE  /\ i2c.step \in 0..18 /\ BITS = 8 /\ i2c.op = "read" /\ i2c.pc = "data" /\ i2c.ret = "done"
         /\ i2c.n \in {1, 7} /\ i2c.base \in {0, NVRAM} /\ i2c.data \in Seq(Byte)
         /\ Len(i2c.data) \in 0..6 /\ Len(i2c.data) < i2c.n /\ ReadCell \in Byte
         /\ i2c.base + Len(i2c.data) \in DOMAIN chip.mem /\ chip.mem[i2c.base + Len(i2c.data)] = ReadCell
         /\ LastStep = 18 /\ chip.state = "send" /\ chip.ptr = i2c.base + Len(i2c.data)
         /\ i2c \in Transfers /\ chip \in Chips(DOMAIN chip.mem)
<1> USE DEF LinkInv
<1>1. i2c.op = "read" /\ i2c.pc = "data" /\ i2c \in Transfers /\ LastStep = 18 /\ BITS = 8
  BY DEF Reads, TransferType, LastStep, BITS
<1>2. /\ i2c.step \in 0..18 /\ i2c.ret = "done" /\ i2c.n \in {1, 7} /\ i2c.base \in {0, NVRAM}
      /\ i2c.data \in Seq(Byte) /\ Len(i2c.data) < i2c.n
  BY <1>1 DEF TransferType, Transfers
<1>3. Len(i2c.data) \in 0..6
  <2>1. Len(i2c.data) \in Nat
    BY <1>2, LenProperties
  <2> QED
    <3>1. i2c.n \in 1..7 /\ Len(i2c.data) < i2c.n
      BY <1>2
    <3>2. \A l \in Nat, n \in 1..7 : l < n => l \in 0..6
      OBVIOUS
    <3> QED
      BY <3>1, <3>2, <2>1, Zenon
<1>4. i2c.base + Len(i2c.data) \in DOMAIN chip.mem /\ ReadCell \in Byte
  BY <1>2, <1>3, CellExists DEF ReadCell
<1>5. chip.state = "send" /\ chip.ptr = i2c.base + Len(i2c.data) /\ chip \in Chips(DOMAIN chip.mem)
  BY DEF ReadInv, ChipType
<1> QED
  BY <1>1, <1>2, <1>3, <1>4, <1>5 DEF ReadCell

\* what stays true of the link while a byte read goes on
LEMMA WithinRead ==
  ASSUME LinkInv, Reads, Within, i2c.step < 18, Sampled \in Byte, chip'.mem = chip.mem, ChipType',
         chip'.state = "send", chip'.ptr = chip.ptr, UNCHANGED program,
         /\ i2c.step + 1 <= 16 =>
              /\ sda' = 1 /\ chip'.n \in 0..BITS /\ Sampled = Top(ReadCell, chip'.n)
              /\ \/ (i2c.step + 1 = 2 * chip'.n /\ scl' = 1)
                 \/ (i2c.step + 1 = 2 * chip'.n + 1 /\ scl' = 0 /\ chip'.sda = Bit(ReadCell, chip'.n))
         /\ i2c.step + 1 > 16 => sda' = LastRead /\ Sampled = ReadCell
         /\ i2c.step + 1 = 17 => scl' = 0 /\ chip'.n = BITS /\ chip'.sda = 1
         /\ i2c.step + 1 = 18 => scl' = 1 /\ chip'.n = BITS + 1 /\ chip'.shift = sda'
  PROVE  LinkInv' /\ Stores
<1> USE DEF LinkInv
<1>1. Stores
  BY DEF Stores
<1>2. /\ i2c'.op = i2c.op /\ i2c'.base = i2c.base /\ i2c'.n = i2c.n /\ i2c'.data = i2c.data
      /\ i2c'.pc = i2c.pc /\ i2c'.ret = i2c.ret /\ i2c'.step = i2c.step + 1 /\ i2c'.byte = Sampled
  BY WithinFields
<1>3. TransferType'
  BY <1>1, Reading, WithinType
<1>4. Reads' /\ ~Sending' /\ ReadCell' = ReadCell /\ LastRead' = LastRead
  BY <1>2, Reading DEF Reads, Sending, ReadCell, LastRead
<1>5. SendInv' /\ RestartInv' /\ StopInv' /\ QuietInv'
  BY <1>2, <1>4, Phases, Reading DEF SendInv, RestartInv, StopInv, QuietInv
<1>6. ReadInv'
  <2>1. i2c.step \in 0..18 /\ chip'.state = "send" /\ chip'.ptr = i2c'.base + Len(i2c'.data)
    BY <1>2, Reading
  <2>2. i2c'.step <= 16 =>
          /\ sda' = 1 /\ chip'.n \in 0..BITS /\ i2c'.byte = Top(ReadCell', chip'.n)
          /\ \/ (i2c'.step = 2 * chip'.n /\ i2c'.step > 0 /\ scl' = 1)
             \/ (i2c'.step = 2 * chip'.n + 1 /\ scl' = 0 /\ chip'.sda = Bit(ReadCell', chip'.n))
    <3> SUFFICES ASSUME i2c'.step <= 16
                 PROVE  /\ sda' = 1 /\ chip'.n \in 0..BITS /\ i2c'.byte = Top(ReadCell', chip'.n)
                        /\ \/ (i2c'.step = 2 * chip'.n /\ i2c'.step > 0 /\ scl' = 1)
                           \/ (i2c'.step = 2 * chip'.n + 1 /\ scl' = 0 /\ chip'.sda = Bit(ReadCell', chip'.n))
      OBVIOUS
    <3>1. i2c.step + 1 <= 16 /\ i2c'.step > 0 /\ ReadCell' = ReadCell /\ i2c'.byte = Sampled
      BY <1>2, <1>4, <2>1
    <3>2. /\ sda' = 1 /\ chip'.n \in 0..BITS /\ Sampled = Top(ReadCell, chip'.n)
          /\ \/ (i2c.step + 1 = 2 * chip'.n /\ scl' = 1)
             \/ (i2c.step + 1 = 2 * chip'.n + 1 /\ scl' = 0 /\ chip'.sda = Bit(ReadCell, chip'.n))
      BY <3>1
    <3> QED
      BY <1>2, <3>1, <3>2
  <2>3. i2c'.step > 16 => sda' = LastRead' /\ i2c'.byte = ReadCell'
    BY <1>2, <1>4, <2>1
  <2>4. /\ i2c'.step = 17 => scl' = 0 /\ chip'.n = BITS /\ chip'.sda = 1
        /\ i2c'.step = 18 => scl' = 1 /\ chip'.n = BITS + 1 /\ chip'.shift = sda'
    BY <1>2
  <2> QED
    BY <2>1, <2>2, <2>3, <2>4 DEF ReadInv
<1>7. ProgramInv'
  BY <1>2, ProgramKept
<1> QED
  BY <1>1, <1>3, <1>5, <1>6, <1>7

LEMMA ReadsBit ==
  ASSUME LinkInv, Reads, NEW hears \in BOOLEAN, BusStep(hears), i2c.step < 16, UNCHANGED program
  PROVE  LinkInv' /\ Stores
<1>1. /\ i2c.step \in 0..18 /\ BITS = 8 /\ LastStep = 18 /\ ReadCell \in Byte /\ chip.state = "send"
      /\ chip.mem[chip.ptr] = ReadCell /\ chip \in Chips(DOMAIN chip.mem)
      /\ i2c.pc = "data" /\ i2c \in Transfers
  BY Reading
<1>2. /\ sda = 1 /\ chip.n \in 0..BITS /\ i2c.byte = Top(ReadCell, chip.n)
      /\ \/ (i2c.step = 2 * chip.n /\ i2c.step > 0 /\ scl = 1)
         \/ /\ (i2c.step = 2 * chip.n + 1) \/ (i2c.step = 0 /\ chip.n = 0)
            /\ scl = 0 /\ chip.sda = Bit(ReadCell, chip.n)
  BY <1>1 DEF LinkInv, ReadInv
<1>3. Within
  BY <1>1 DEF BusStep, Within
<1>4. PICK t \in {Target} : Drive(t[1], t[2], hears)
  BY DEF BusStep
<1>5. chip.n \in 0..BITS - 1 /\ Slot = chip.n
  BY <1>1, <1>2 DEF Slot
<1>6. Bit(ReadCell, chip.n) \in {0, 1} /\ ClockCells \cup RecordCells \subseteq DOMAIN chip.mem
  BY <1>1, <1>5, BitType DEF LinkInv, ChipType
<1>7. CASE i2c.step % 2 = 0
  <2>1. i2c.step = 2 * chip.n /\ (scl = 1 \/ (scl = 0 /\ chip.n = 0 /\ chip.sda = Bit(ReadCell, chip.n)))
    BY <1>1, <1>2, <1>7
  <2>2. Target = <<0, 1>>
    BY <1>1, <1>2, <1>5, <1>7 DEF Target, OutBit
  <2>3. Drive(0, 1, hears)
    BY <2>2, <1>4
  <2>4. chip' = [chip EXCEPT !.sda = Bit(ReadCell, chip.n)]
    <3>1. CASE scl = 1
      <4>1. Fall(chip, hears) = [chip EXCEPT !.sda = Bit(chip.mem[chip.ptr], chip.n)]
        BY <1>1, <1>5 DEF Fall, Receiving
      <4> QED
        BY <4>1, <3>1, <2>3, <1>1 DEF Drive
    <3>2. CASE scl = 0 /\ chip.n = 0 /\ chip.sda = Bit(ReadCell, chip.n)
      <4>1. chip' = chip
        BY <3>2, <2>3, <1>2 DEF Drive
      <4> QED
        BY <4>1, <3>2, <1>1 DEF Chips
    <3> QED
      BY <3>1, <3>2, <2>1
  <2>5. scl' = 0 /\ sda' = 1
    BY <2>3 DEF Drive
  <2>6. /\ chip' \in Chips(DOMAIN chip.mem) /\ chip'.mem = chip.mem /\ chip'.state = "send"
        /\ chip'.ptr = chip.ptr /\ chip'.n = chip.n /\ chip'.sda = Bit(ReadCell, chip.n)
    BY <2>4, <1>1, <1>6 DEF Chips
  <2>7. ChipType'
    BY <2>5, <2>6, <1>6 DEF ChipType
  <2>8. Sampled = Top(ReadCell, chip.n)
    BY <1>2, <1>7 DEF Sampled
  <2>9. Sampled \in Byte
    BY <2>8, <1>2, <1>1 DEF Transfers
  <2> QED
    BY <2>1, <2>5, <2>6, <2>7, <2>8, <2>9, <1>1, <1>2, <1>3, WithinRead
<1>8. CASE i2c.step % 2 = 1
  <2>1. i2c.step = 2 * chip.n + 1 /\ scl = 0 /\ chip.sda = Bit(ReadCell, chip.n)
    BY <1>1, <1>2, <1>8
  <2>2. Target = <<1, 1>>
    BY <1>1, <1>2, <1>8 DEF Target
  <2>3. Drive(1, 1, hears)
    BY <2>2, <1>4
  <2>4. Rise(chip, chip.sda) = [chip EXCEPT !.n = chip.n + 1, !.shift = chip.shift]
    <3>1. ~Receiving(chip) /\ chip.n # BITS /\ chip.state # "idle"
      BY <1>1, <1>5 DEF Receiving
    <3> QED
      BY <3>1 DEF Rise
  <2>5. scl' = 1 /\ sda' = 1 /\ chip' = [chip EXCEPT !.n = chip.n + 1, !.shift = chip.shift]
    BY <2>1, <2>3, <2>4 DEF Drive
  <2>6. /\ chip' \in Chips(DOMAIN chip.mem) /\ chip'.mem = chip.mem /\ chip'.state = "send"
        /\ chip'.ptr = chip.ptr /\ chip'.n = chip.n + 1
    <3>1. chip.n + 1 \in Nat
      BY <1>2
    <3> QED
      BY <3>1, <2>5, <1>1 DEF Chips
  <2>7. ChipType'
    BY <2>5, <2>6, <1>6 DEF ChipType
  <2>8. Sampled = 2 * i2c.byte + chip.sda
    BY <1>1, <1>2, <1>5, <1>8 DEF Sampled, SDA_STATUS
  <2>9. Sampled = Top(ReadCell, chip.n + 1) /\ Sampled \in Byte
    <3>1. /\ Top(ReadCell, chip.n + 1) = 2 * Top(ReadCell, chip.n) + Bit(ReadCell, chip.n)
          /\ Top(ReadCell, chip.n) \in 0..127
      BY <1>1, <1>5, TopNext
    <3> QED
      BY <3>1, <2>1, <2>8, <1>2, <1>6 DEF Byte
  <2> QED
    BY <2>1, <2>5, <2>6, <2>7, <2>9, <1>1, <1>3, <1>5, WithinRead
<1> QED
  BY <1>1, <1>7, <1>8

LEMMA ReadsAck ==
  ASSUME LinkInv, Reads, NEW hears \in BOOLEAN, BusStep(hears), i2c.step = 16 \/ i2c.step = 17,
         UNCHANGED program
  PROVE  LinkInv' /\ Stores
<1>1. /\ BITS = 8 /\ LastStep = 18 /\ ReadCell \in Byte /\ chip.state = "send"
      /\ chip \in Chips(DOMAIN chip.mem) /\ i2c.pc = "data" /\ i2c \in Transfers
      /\ ClockCells \cup RecordCells \subseteq DOMAIN chip.mem
      /\ LastRead \in {0, 1} /\ Slot = BITS
  BY Reading DEF LinkInv, ChipType, LastRead, Slot
<1>2. Within
  BY <1>1 DEF BusStep, Within
<1>3. PICK t \in {Target} : Drive(t[1], t[2], hears)
  BY DEF BusStep
<1>4. Top(ReadCell, BITS) = ReadCell
  BY <1>1, TopEnds
<1>5. CASE i2c.step = 16
  <2>1. scl = 1 /\ chip.n = BITS /\ i2c.byte = ReadCell
    BY <1>1, <1>4, <1>5 DEF LinkInv, ReadInv
  <2>2. Target = <<0, LastRead>>
    BY <1>1, <1>5 DEF Target, OutBit, LastRead, At
  <2>3. Drive(0, LastRead, hears)
    BY <2>2, <1>3
  <2>4. Fall(chip, hears) = [chip EXCEPT !.sda = 1]
    BY <1>1, <2>1 DEF Fall, Receiving
  <2>5. scl' = 0 /\ sda' = LastRead /\ chip' = [chip EXCEPT !.sda = 1]
    BY <2>1, <2>3, <2>4 DEF Drive
  <2>6. /\ chip' \in Chips(DOMAIN chip.mem) /\ chip'.mem = chip.mem /\ chip'.state = "send"
        /\ chip'.ptr = chip.ptr /\ chip'.n = BITS /\ chip'.sda = 1
    BY <2>1, <2>5, <1>1 DEF Chips
  <2>7. ChipType'
    BY <2>5, <2>6, <1>1 DEF ChipType
  <2>8. Sampled = ReadCell
    BY <2>1, <1>5 DEF Sampled
  <2> QED
    BY <2>5, <2>6, <2>7, <2>8, <1>1, <1>2, <1>5, WithinRead
<1>6. CASE i2c.step = 17
  <2>1. scl = 0 /\ chip.n = BITS /\ chip.sda = 1 /\ sda = LastRead /\ i2c.byte = ReadCell
    BY <1>6 DEF LinkInv, ReadInv
  <2>2. Target = <<1, sda>>
    BY <1>1, <1>6 DEF Target
  <2>3. Drive(1, sda, hears)
    BY <2>2, <1>3
  <2>4. (IF sda = 0 THEN 0 ELSE chip.sda) = sda
    BY <2>1, <1>1
  <2>5. Rise(chip, sda) = [chip EXCEPT !.n = @ + 1, !.shift = sda]
    BY <1>1, <2>1 DEF Rise, Receiving
  <2>6. scl' = 1 /\ sda' = sda /\ chip' = [chip EXCEPT !.n = @ + 1, !.shift = sda]
    BY <2>1, <2>3, <2>4, <2>5 DEF Drive
  <2>7. /\ chip' \in Chips(DOMAIN chip.mem) /\ chip'.mem = chip.mem /\ chip'.state = "send"
        /\ chip'.ptr = chip.ptr /\ chip'.n = BITS + 1 /\ chip'.shift = sda'
    <3>1. chip' = [chip EXCEPT !.n = 9, !.shift = sda] /\ sda \in Nat /\ 9 \in Nat
      BY <2>1, <2>6, <1>1
    <3>2. chip \in Chips(DOMAIN chip.mem) /\ chip.state = "send" /\ 9 = BITS + 1
      BY <1>1
    <3>3. chip' \in Chips(DOMAIN chip.mem) /\ chip'.mem = chip.mem
      BY <3>1, <3>2 DEF Chips
    <3>4. chip'.state = "send" /\ chip'.ptr = chip.ptr /\ chip'.n = BITS + 1 /\ chip'.shift = sda
      BY <3>1, <3>2 DEF Chips
    <3> QED
      BY <3>3, <3>4, <2>6
  <2>8. ChipType'
    BY <2>6, <2>7, <2>1, <1>1 DEF ChipType
  <2>9. Sampled = ReadCell
    BY <2>1, <1>1, <1>6 DEF Sampled
  <2> QED
    BY <2>1, <2>6, <2>7, <2>8, <2>9, <1>1, <1>2, <1>6, WithinRead
<1> QED
  BY <1>5, <1>6

\* the byte read is kept, and the driver asks for another or ends the transfer
LEMMA Keeps ==
  ASSUME LinkInv, Reads, i2c.byte = ReadCell, i2c' = AfterCommand, Stores
  PROVE  /\ TransferType'
         /\ i2c'.op = i2c.op /\ i2c'.base = i2c.base /\ i2c'.n = i2c.n /\ i2c'.ret = "done"
         /\ Len(i2c'.data) = Len(i2c.data) + 1 /\ i2c'.step = 0 /\ i2c'.byte = 0
         /\ i2c'.pc = (IF Len(i2c.data) + 1 >= i2c.n THEN "stop" ELSE "data")
<1> DEFINE p == IF Len(i2c.data) + 1 >= i2c.n THEN "stop" ELSE "data"
<1>1. /\ i2c.op = "read" /\ i2c.pc = "data" /\ i2c.ret = "done" /\ i2c.n \in {1, 7} /\ i2c.base \in {0, NVRAM}
      /\ i2c.data \in Seq(Byte) /\ Len(i2c.data) \in 0..6 /\ Len(i2c.data) < i2c.n /\ ReadCell \in Byte
      /\ i2c \in Transfers
  BY Reading
<1>2. p \in {"stop", "data"} /\ 0 \in 0..2 * (BITS + 1) /\ 0 \in Byte
  BY DEF Byte, BITS
<1>3. i2c' = [Goes(p) EXCEPT !.data = Append(@, i2c.byte)]
  BY <1>1 DEF AfterCommand, Reads, At
<1>4. i2c' = [i2c EXCEPT !.pc = p, !.step = 0, !.byte = 0, !.data = Append(i2c.data, ReadCell)]
  BY <1>1, <1>3 DEF Goes, Transfers
<1>5. /\ Append(i2c.data, ReadCell) \in Seq(Byte)
      /\ Len(Append(i2c.data, ReadCell)) = Len(i2c.data) + 1
      /\ \A j \in 1..Len(i2c.data) : Append(i2c.data, ReadCell)[j] = i2c.data[j]
      /\ Append(i2c.data, ReadCell)[Len(i2c.data) + 1] = ReadCell
  BY <1>1, AppendProperties
<1>6. i2c' \in Transfers
  BY <1>1, <1>2, <1>4, <1>5 DEF Transfers
<1>7. /\ i2c'.op = i2c.op /\ i2c'.base = i2c.base /\ i2c'.n = i2c.n /\ i2c'.ret = "done"
      /\ i2c'.data = Append(i2c.data, ReadCell) /\ i2c'.step = 0 /\ i2c'.byte = 0 /\ i2c'.pc = p
  BY <1>1, <1>4 DEF Transfers
<1>8. ASSUME NEW j \in 1..(Len(i2c.data) + 1) PROVE i2c'.data[j] = chip'.mem[i2c.base + j - 1]
  <2>1. j \in 1..i2c.n
    <3>1. \A l \in 0..6, n \in 1..7 : \A k \in 1..(l + 1) : l < n => k \in 1..n
      OBVIOUS
    <3>2. i2c.n \in 1..7
      BY <1>1
    <3> QED
      BY <3>1, <3>2, <1>1, Zenon
  <2>2. chip'.mem[i2c.base + j - 1] = chip.mem[i2c.base + j - 1]
    BY <2>1, <1>1, CellsKept DEF LinkInv
  <2>3. j \in 1..Len(i2c.data) \/ (j = Len(i2c.data) + 1 /\ i2c.base + j - 1 = i2c.base + Len(i2c.data))
    <3>1. \A l \in 0..6, b \in {0, 16} : \A k \in 1..(l + 1) : k \in 1..l \/ (k = l + 1 /\ b + k - 1 = b + l)
      OBVIOUS
    <3>2. i2c.base \in {0, 16}
      BY <1>1 DEF NVRAM, DS1338Z_NVRAM_START, DS_1338Z_NVRAM_BASE
    <3> QED
      BY <3>1, <3>2, <1>1, Zenon
  <2>4. CASE j \in 1..Len(i2c.data)
    <3>1. i2c.data[j] = chip.mem[i2c.base + j - 1]
      BY <2>4, <1>1 DEF LinkInv, TransferType
    <3> QED
      BY <3>1, <2>2, <2>4, <1>5, <1>7
  <2>5. CASE j = Len(i2c.data) + 1 /\ i2c.base + j - 1 = i2c.base + Len(i2c.data)
    BY <2>2, <2>5, <1>5, <1>7 DEF ReadCell
  <2> QED
    BY <2>3, <2>4, <2>5
<1>9. /\ Len(i2c.data) + 1 <= i2c.n
      /\ p = "data" => Len(i2c.data) + 1 < i2c.n
      /\ p = "stop" => Len(i2c.data) + 1 = i2c.n
  BY <1>1
<1>10. Len(i2c'.data) = Len(i2c.data) + 1
  BY <1>5, <1>7
<1> HIDE DEF p
<1>11. TransferType'
  BY <1>1, <1>2, <1>6, <1>7, <1>8, <1>9, <1>10 DEF TransferType
<1> QED
  BY <1>7, <1>10, <1>11 DEF p

LEMMA ReadsEnd ==
  ASSUME LinkInv, Reads, NEW hears \in BOOLEAN, BusStep(hears), i2c.step = 18, UNCHANGED program
  PROVE  LinkInv' /\ Stores
<1>1. /\ BITS = 8 /\ LastStep = 18 /\ ReadCell \in Byte /\ chip.state = "send"
      /\ chip \in Chips(DOMAIN chip.mem) /\ i2c.op = "read" /\ i2c.pc = "data" /\ i2c.n \in {1, 7}
      /\ i2c.base \in {0, NVRAM} /\ Len(i2c.data) \in 0..6 /\ Len(i2c.data) < i2c.n
      /\ chip.ptr = i2c.base + Len(i2c.data)
  BY Reading
<1>2. scl = 1 /\ chip.n = BITS + 1 /\ sda = LastRead /\ chip.shift = sda /\ i2c.byte = ReadCell
  BY <1>1 DEF LinkInv, ReadInv
<1>3. i2c' = AfterCommand
  BY <1>1 DEF BusStep
<1>4. PICK t \in {Target} : Drive(t[1], t[2], hears)
  BY DEF BusStep
<1>5. Slot > BITS
  BY <1>1 DEF Slot
<1>6. Target = <<0, 1>>
  BY <1>1, <1>5 DEF Target, OutBit
<1>7. Drive(0, 1, hears)
  BY <1>6, <1>4
<1>8. scl' = 0 /\ sda' = 1 /\ chip' = NextByte(chip)
  <2>1. Fall(chip, hears) = NextByte(chip)
    BY <1>1, <1>2 DEF Fall
  <2> QED
    BY <2>1, <1>2, <1>7 DEF Drive
<1>9. CASE Len(i2c.data) < i2c.n - 1
  <2>1. chip' = Sends(chip, (chip.ptr + 1) % CELLS)
    BY <1>1, <1>2, <1>8, <1>9 DEF NextByte, LastRead
  <2>2. i2c.base \in {0, 16} /\ Len(i2c.data) + 1 \in 0..6 /\ i2c.base + Len(i2c.data) + 1 = i2c.base + (Len(i2c.data) + 1)
    BY <1>1, <1>9 DEF NVRAM, DS1338Z_NVRAM_START, DS_1338Z_NVRAM_BASE
  <2>3. /\ i2c.base + (Len(i2c.data) + 1) \in DOMAIN chip.mem
        /\ i2c.base + (Len(i2c.data) + 1) \in 0..CELLS - 1
        /\ chip.mem[i2c.base + (Len(i2c.data) + 1)] \in Byte
        /\ (i2c.base + (Len(i2c.data) + 1)) % CELLS = i2c.base + (Len(i2c.data) + 1)
    BY <2>2, <1>1, CellExists DEF LinkInv
  <2>4. chip' = Sends(chip, i2c.base + (Len(i2c.data) + 1))
    BY <2>1, <2>2, <2>3, <1>1
  <2>5. /\ ChipType' /\ Stores
        /\ chip'.state = "send" /\ chip'.ptr = i2c.base + (Len(i2c.data) + 1)
        /\ chip'.sda = Bit(chip.mem[i2c.base + (Len(i2c.data) + 1)], 0) /\ chip'.n = 0
        /\ chip'.mem = chip.mem
    BY <2>3, <2>4, <1>8, ChipSends DEF LinkInv
  <2>6. /\ TransferType'
        /\ i2c'.op = i2c.op /\ i2c'.base = i2c.base /\ i2c'.n = i2c.n /\ i2c'.ret = "done"
        /\ Len(i2c'.data) = Len(i2c.data) + 1 /\ i2c'.step = 0 /\ i2c'.byte = 0 /\ i2c'.pc = "data"
    BY <2>5, <1>1, <1>2, <1>3, <1>9, Keeps
  <2>7. Reads' /\ ~Sending' /\ ReadCell' = chip.mem[i2c.base + (Len(i2c.data) + 1)]
    BY <2>5, <2>6, <1>1 DEF Reads, Sending, ReadCell
  <2>8. Top(ReadCell', 0) = 0
    BY <2>3, <2>7, TopEnds
  <2>9. ReadInv'
    <3>1. chip'.state = "send" /\ chip'.ptr = i2c'.base + Len(i2c'.data)
      BY <2>5, <2>6
    <3>2. sda' = 1 /\ chip'.n = 0 /\ 0 \in 0..BITS /\ i2c'.byte = Top(ReadCell', chip'.n)
      BY <2>5, <2>6, <2>8, <1>1, <1>8
    <3>3. i2c'.step = 0 /\ scl' = 0 /\ chip'.sda = Bit(ReadCell', chip'.n)
      BY <2>5, <2>6, <2>7, <1>8
    <3> QED
      BY <3>1, <3>2, <3>3 DEF ReadInv
  <2>10. SendInv' /\ RestartInv' /\ StopInv' /\ QuietInv'
    BY <2>6, <2>7 DEF SendInv, RestartInv, StopInv, QuietInv
  <2>11. ProgramInv'
    BY <2>6, <1>1, ProgramKept DEF LinkInv
  <2> QED
    BY <2>5, <2>6, <2>9, <2>10, <2>11 DEF LinkInv
<1>10. CASE ~(Len(i2c.data) < i2c.n - 1)
  <2>1. chip' = Idle(chip)
    <3>1. chip.shift = 1
      BY <1>2, <1>10 DEF LastRead
    <3> QED
      BY <3>1, <1>1, <1>8 DEF NextByte
  <2>2. /\ chip' \in Chips(DOMAIN chip.mem) /\ chip'.mem = chip.mem /\ chip'.sda = 1
    BY <2>1, <1>1 DEF Chips, Idle
  <2>3. ChipType' /\ Stores
    BY <2>2, <1>8 DEF LinkInv, ChipType, Stores
  <2>4. Len(i2c.data) + 1 >= i2c.n
    BY <1>1, <1>10
  <2>5. /\ TransferType'
        /\ i2c'.op = i2c.op /\ i2c'.base = i2c.base /\ i2c'.n = i2c.n /\ i2c'.ret = "done"
        /\ i2c'.step = 0 /\ i2c'.byte = 0 /\ i2c'.pc = "stop"
    BY <2>3, <2>4, <1>2, <1>3, Keeps
  <2>6. ~Reads' /\ ~Sending'
    BY <2>5 DEF Reads, Sending
  <2>7. SendInv' /\ ReadInv' /\ RestartInv' /\ StopInv' /\ QuietInv'
    BY <2>2, <2>5, <2>6, <1>8 DEF SendInv, ReadInv, RestartInv, StopInv, QuietInv
  <2>8. ProgramInv'
    BY <2>5, <1>1, ProgramKept DEF LinkInv
  <2> QED
    BY <2>3, <2>5, <2>7, <2>8 DEF LinkInv
<1> QED
  BY <1>9, <1>10

LEMMA ReadStep ==
  ASSUME LinkInv, Reads, NEW hears \in BOOLEAN, BusStep(hears), UNCHANGED program
  PROVE  LinkInv' /\ Stores
<1>1. i2c.step \in 0..18
  BY Reading
<1> QED
  BY <1>1, ReadsBit, ReadsAck, ReadsEnd

-----------------------------------------------------------------------------
(* The conditions before and after the bytes *)

LEMMA EndsType ==
  ASSUME TransferType, NEW r \in {"done", "nak", "arb_lost"}, i2c' = Ends(r)
  PROVE  /\ i2c'.op = i2c.op /\ i2c'.base = i2c.base /\ i2c'.n = i2c.n /\ i2c'.data = i2c.data
         /\ i2c'.pc = "done" /\ i2c'.ret = r /\ i2c'.step = 0 /\ i2c'.byte = 0
         /\ i2c' \in Transfers
<1>1. i2c \in Transfers
  BY DEF TransferType
<1>2. /\ i2c' = [i2c EXCEPT !.pc = "done", !.step = 0, !.byte = 0, !.ret = r]
      /\ 0 \in 0..2 * (BITS + 1) /\ 0 \in Byte
  BY <1>1 DEF Goes, Ends, Byte, BITS, Transfers
<1> QED
  BY <1>1, <1>2 DEF Transfers

LEMMA ChipStarts ==
  ASSUME ChipType, chip' = Start(chip), scl' \in {0, 1}, sda' \in {0, 1}
  PROVE  /\ ChipType' /\ Stores /\ chip'.state = "address" /\ chip'.n = 0 /\ chip'.shift = 0 /\ chip'.sda = 1
         /\ chip'.ptr = chip.ptr /\ chip'.mem = chip.mem
<1>1. chip \in Chips(DOMAIN chip.mem)
  BY DEF ChipType
<1>2. chip' \in Chips(DOMAIN chip.mem) /\ chip'.mem = chip.mem
  BY <1>1 DEF Chips, Start
<1>3. chip'.state = "address" /\ chip'.n = 0 /\ chip'.shift = 0 /\ chip'.sda = 1 /\ chip'.ptr = chip.ptr
  BY <1>1 DEF Chips, Start
<1> QED
  BY <1>2, <1>3 DEF ChipType, Stores

LEMMA ChipIdles ==
  ASSUME ChipType, chip' = Idle(chip), scl' \in {0, 1}, sda' \in {0, 1}
  PROVE  /\ ChipType' /\ Stores /\ chip'.state = "idle" /\ chip'.n = 0 /\ chip'.sda = 1
         /\ chip'.ptr = chip.ptr /\ chip'.mem = chip.mem
<1>1. chip \in Chips(DOMAIN chip.mem)
  BY DEF ChipType
<1>2. chip' \in Chips(DOMAIN chip.mem) /\ chip'.mem = chip.mem
  BY <1>1 DEF Chips, Idle
<1>3. chip'.state = "idle" /\ chip'.n = 0 /\ chip'.sda = 1 /\ chip'.ptr = chip.ptr
  BY <1>1 DEF Chips, Idle
<1> QED
  BY <1>2, <1>3 DEF ChipType, Stores

LEMMA ChipRises ==
  ASSUME ChipType, NEW level \in {0, 1}, chip' = Rise(chip, level), scl' \in {0, 1}, sda' \in {0, 1}
  PROVE  /\ ChipType' /\ Stores /\ chip'.state = chip.state /\ chip'.sda = chip.sda
         /\ chip'.ptr = chip.ptr /\ chip'.mem = chip.mem
<1>1. chip \in Chips(DOMAIN chip.mem)
  BY DEF ChipType
<1>2. CASE chip.state = "idle"
  BY <1>1, <1>2 DEF Rise, ChipType, Stores
<1>3. CASE chip.state # "idle"
  <2> DEFINE shift == IF Receiving(chip) /\ chip.n < BITS THEN 2 * chip.shift + level
                      ELSE IF ~Receiving(chip) /\ chip.n = BITS THEN level ELSE chip.shift
  <2>1. chip' = [chip EXCEPT !.n = chip.n + 1, !.shift = shift]
    BY <1>1, <1>3 DEF Rise, Chips
  <2>2. chip.n + 1 \in Nat /\ shift \in Nat
    BY <1>1 DEF Chips
  <2> HIDE DEF shift
  <2>3. chip' \in Chips(DOMAIN chip.mem) /\ chip'.mem = chip.mem
    BY <1>1, <2>1, <2>2 DEF Chips
  <2>4. chip'.state = chip.state /\ chip'.sda = chip.sda /\ chip'.ptr = chip.ptr
    BY <1>1, <2>1 DEF Chips
  <2> QED
    BY <2>3, <2>4 DEF ChipType, Stores
<1> QED
  BY <1>2, <1>3

LEMMA ChipStays ==
  ASSUME ChipType, chip' = chip, scl' \in {0, 1}, sda' \in {0, 1}
  PROVE  ChipType' /\ Stores
BY DEF ChipType, Stores

\* what a step of a condition leaves as it is
LEMMA Conditions ==
  ASSUME LinkInv, i2c.pc \in {"start", "restart", "stop"}
  PROVE  /\ ~Reads /\ ~Sending /\ i2c \in Transfers /\ i2c.op \in {"read", "write"} /\ i2c.pc # "idle" /\ i2c.pc # "done"
         /\ prog # "reset" /\ scl \in {0, 1} /\ sda \in {0, 1} /\ chip.sda \in {0, 1} /\ i2c.byte = i2c.byte
         /\ LastStep = (IF i2c.pc = "stop" THEN 2 ELSE 1) /\ Sampled = i2c.byte
<1>1. i2c \in Transfers /\ i2c.op \in {"none", "read", "write"}
  BY DEF LinkInv, TransferType, Transfers
<1> QED
  BY <1>1 DEF LinkInv, Reads, Sending, TransferType, ProgramInv, ChipType, Chips, LastStep, Sampled

LEMMA StartStep ==
  ASSUME LinkInv, i2c.pc = "start", NEW hears \in BOOLEAN, BusStep(hears), UNCHANGED program,
         disturbed \subseteq disturbed'
  PROVE  LinkInv' /\ Stores
<1>1. /\ scl = 1 /\ sda = 1 /\ i2c.step \in {0, 1} /\ i2c.byte = 0 /\ (i2c.step = 1 => chip.sda = 1)
      /\ LastStep = 1 /\ Sampled = 0 /\ ~Reads /\ ~Sending /\ i2c \in Transfers /\ i2c.ret = "done"
      /\ i2c.op \in {"read", "write"} /\ chip.sda \in {0, 1}
  BY Conditions DEF LinkInv, QuietInv, TransferType
<1>2. PICK t \in {Target} : Drive(t[1], t[2], hears)
  BY DEF BusStep
<1>3. CASE i2c.step = 0
  <2>1. chip.sda = 1
    BY <1>1, <1>3 DEF BusStep, Refused, SDA_STATUS
  <2>2. Within
    BY <1>1, <1>3 DEF BusStep, Within
  <2>3. Drive(1, 1, hears)
    BY <1>1, <1>2, <1>3 DEF Target
  <2>4. scl' = 1 /\ sda' = 1 /\ chip' = chip
    BY <2>3, <1>1 DEF Drive
  <2>5. ChipType' /\ Stores
    BY <2>4, ChipStays DEF LinkInv
  <2>6. /\ i2c'.op = i2c.op /\ i2c'.base = i2c.base /\ i2c'.n = i2c.n /\ i2c'.data = i2c.data
        /\ i2c'.pc = "start" /\ i2c'.ret = i2c.ret /\ i2c'.step = 1 /\ i2c'.byte = 0
    BY <2>2, <1>1, <1>3, WithinFields DEF LinkInv
  <2>7. TransferType'
    BY <2>2, <2>5, <1>1, <1>3, WithinType DEF LinkInv, Byte, BITS
  <2>8. ~Sending' /\ ~Reads'
    BY <2>6 DEF Sending, Reads
  <2>9. SendInv' /\ ReadInv' /\ RestartInv' /\ StopInv' /\ QuietInv'
    BY <2>1, <2>4, <2>6, <2>8 DEF SendInv, ReadInv, RestartInv, StopInv, QuietInv
  <2>10. ProgramInv'
    BY <2>6, ProgramKept DEF LinkInv
  <2> QED
    BY <2>5, <2>7, <2>9, <2>10 DEF LinkInv
<1>4. CASE i2c.step = 1
  <2>1. Drive(1, 0, hears)
    BY <1>1, <1>2, <1>4 DEF Target
  <2>2. scl' = 1 /\ sda' = 0 /\ chip' = Start(chip)
    BY <2>1, <1>1, <1>4 DEF Drive
  <2>3. /\ ChipType' /\ Stores /\ chip'.state = "address" /\ chip'.n = 0 /\ chip'.shift = 0 /\ chip'.sda = 1
        /\ chip'.mem = chip.mem
    BY <2>2, ChipStarts DEF LinkInv
  <2>4. i2c' = Goes("address")
    BY <1>1, <1>4 DEF BusStep, AfterCommand
  <2>5. /\ i2c'.op = i2c.op /\ i2c'.base = i2c.base /\ i2c'.n = i2c.n /\ i2c'.data = i2c.data
        /\ i2c'.pc = "address" /\ i2c'.ret = i2c.ret /\ i2c'.step = 0 /\ i2c'.byte = 0 /\ i2c' \in Transfers
    BY <2>4, GoesType DEF LinkInv
  <2>6. TransferType'
    BY <2>3, <2>5, <1>1 DEF LinkInv, TransferType
  <2>7. Sending' /\ ~Reads' /\ Takes' = "address" /\ SentByte' \in Byte
    BY <2>5, <2>6, SentByteNext DEF Sending, Reads, Takes
  <2>8. SendInv'
    <3>1. Top(SentByte', 0) = 0 /\ 0 \in 0..BITS
      BY <2>7, TopEnds DEF BITS
    <3> QED
      BY <2>3, <2>5, <2>7, <3>1 DEF SendInv
  <2>9. ReadInv' /\ RestartInv' /\ StopInv' /\ QuietInv'
    BY <2>5, <2>7 DEF ReadInv, RestartInv, StopInv, QuietInv
  <2>10. ProgramInv'
    BY <2>5, ProgramKept DEF LinkInv
  <2> QED
    BY <2>3, <2>6, <2>8, <2>9, <2>10 DEF LinkInv
<1> QED
  BY <1>1, <1>3, <1>4

LEMMA RestartStep ==
  ASSUME LinkInv, i2c.pc = "restart", NEW hears \in BOOLEAN, BusStep(hears), UNCHANGED program
  PROVE  LinkInv' /\ Stores
<1>1. /\ i2c.step \in {0, 1} /\ i2c.byte = 0 /\ i2c.op = "read" /\ scl = i2c.step /\ sda = 1
      /\ chip.state = "store" /\ chip.sda = 1 /\ chip.ptr = i2c.base
      /\ LastStep = 1 /\ Sampled = 0 /\ ~Reads /\ ~Sending /\ i2c \in Transfers /\ i2c.ret = "done"
  BY Conditions DEF LinkInv, RestartInv, TransferType
<1>2. PICK t \in {Target} : Drive(t[1], t[2], hears)
  BY DEF BusStep
<1>3. CASE i2c.step = 0
  <2>1. Within
    BY <1>1, <1>3 DEF BusStep, Within
  <2>2. Drive(1, 1, hears)
    BY <1>1, <1>2, <1>3 DEF Target
  <2>3. scl' = 1 /\ sda' = 1 /\ chip' = Rise(chip, 1)
    BY <2>2, <1>1, <1>3 DEF Drive
  <2>4. /\ ChipType' /\ Stores /\ chip'.state = "store" /\ chip'.sda = 1 /\ chip'.ptr = i2c.base
        /\ chip'.mem = chip.mem
    BY <2>3, <1>1, ChipRises DEF LinkInv
  <2>5. /\ i2c'.op = i2c.op /\ i2c'.base = i2c.base /\ i2c'.n = i2c.n /\ i2c'.data = i2c.data
        /\ i2c'.pc = "restart" /\ i2c'.ret = i2c.ret /\ i2c'.step = 1 /\ i2c'.byte = 0
    BY <2>1, <1>1, <1>3, WithinFields DEF LinkInv
  <2>6. TransferType'
    BY <2>1, <2>4, <1>1, <1>3, WithinType DEF LinkInv, Byte, BITS
  <2>7. ~Sending' /\ ~Reads'
    BY <2>5 DEF Sending, Reads
  <2>8. SendInv' /\ ReadInv' /\ RestartInv' /\ StopInv' /\ QuietInv'
    BY <2>3, <2>4, <2>5, <2>7, <1>1 DEF SendInv, ReadInv, RestartInv, StopInv, QuietInv
  <2>9. ProgramInv'
    BY <2>5, ProgramKept DEF LinkInv
  <2> QED
    BY <2>4, <2>6, <2>8, <2>9 DEF LinkInv
<1>4. CASE i2c.step = 1
  <2>1. Drive(1, 0, hears)
    BY <1>1, <1>2, <1>4 DEF Target
  <2>2. scl' = 1 /\ sda' = 0 /\ chip' = Start(chip)
    BY <2>1, <1>1, <1>4 DEF Drive
  <2>3. /\ ChipType' /\ Stores /\ chip'.state = "address" /\ chip'.n = 0 /\ chip'.shift = 0 /\ chip'.sda = 1
        /\ chip'.mem = chip.mem /\ chip'.ptr = i2c.base
    BY <2>2, <1>1, ChipStarts DEF LinkInv
  <2>4. i2c' = Goes("address_r")
    BY <1>1, <1>4 DEF BusStep, AfterCommand
  <2>5. /\ i2c'.op = i2c.op /\ i2c'.base = i2c.base /\ i2c'.n = i2c.n /\ i2c'.data = i2c.data
        /\ i2c'.pc = "address_r" /\ i2c'.ret = i2c.ret /\ i2c'.step = 0 /\ i2c'.byte = 0 /\ i2c' \in Transfers
    BY <2>4, GoesType DEF LinkInv
  <2>6. TransferType'
    BY <2>3, <2>5, <1>1 DEF LinkInv, TransferType
  <2>7. Sending' /\ ~Reads' /\ Takes' = "address" /\ SentByte' \in Byte
    BY <2>5, <2>6, SentByteNext DEF Sending, Reads, Takes
  <2>8. SendInv'
    <3>1. Top(SentByte', 0) = 0 /\ 0 \in 0..BITS
      BY <2>7, TopEnds DEF BITS
    <3>2. i2c.base + 0 = i2c.base
      BY <1>1 DEF Transfers, NVRAM, DS1338Z_NVRAM_START, DS_1338Z_NVRAM_BASE
    <3> QED
      BY <2>3, <2>5, <2>7, <3>1, <3>2 DEF SendInv
  <2>9. ReadInv' /\ RestartInv' /\ StopInv' /\ QuietInv'
    BY <2>5, <2>7 DEF ReadInv, RestartInv, StopInv, QuietInv
  <2>10. ProgramInv'
    BY <2>5, ProgramKept DEF LinkInv
  <2> QED
    BY <2>3, <2>6, <2>8, <2>9, <2>10 DEF LinkInv
<1> QED
  BY <1>1, <1>3, <1>4

LEMMA StopStep ==
  ASSUME LinkInv, i2c.pc = "stop", NEW hears \in BOOLEAN, BusStep(hears), UNCHANGED program,
         disturbed \subseteq disturbed'
  PROVE  LinkInv' /\ Stores
<1>1. /\ i2c.step \in 0..2 /\ chip.sda = 1 /\ i2c.ret \in {"done", "nak"}
      /\ scl = (IF i2c.step = 2 THEN 1 ELSE 0) /\ (i2c.step > 0 => sda = 0) /\ sda \in {0, 1}
      /\ i2c.ret = "nak" => "noise" \in disturbed
      /\ LastStep = 2 /\ Sampled = i2c.byte /\ ~Reads /\ ~Sending /\ i2c \in Transfers
      /\ i2c.op \in {"read", "write"}
  BY Conditions DEF LinkInv, StopInv
<1>2. PICK t \in {Target} : Drive(t[1], t[2], hears)
  BY DEF BusStep
<1>3. CASE i2c.step < 2
  <2>1. Within
    BY <1>1, <1>3 DEF BusStep, Within
  <2>2. /\ i2c'.op = i2c.op /\ i2c'.base = i2c.base /\ i2c'.n = i2c.n /\ i2c'.data = i2c.data
        /\ i2c'.pc = "stop" /\ i2c'.ret = i2c.ret /\ i2c'.step = i2c.step + 1 /\ i2c'.byte = i2c.byte
    BY <2>1, <1>1, <1>3, WithinFields DEF LinkInv
  <2>3. /\ ChipType' /\ Stores /\ chip'.sda = 1
        /\ scl' = (IF i2c.step + 1 = 2 THEN 1 ELSE 0) /\ sda' = 0
    <3>1. CASE i2c.step = 0
      <4>1. Drive(0, 0, hears)
        BY <3>1, <1>1, <1>2 DEF Target
      <4>2. scl' = 0 /\ sda' = 0 /\ chip' = chip
        BY <4>1, <3>1, <1>1 DEF Drive
      <4> QED
        BY <4>2, <3>1, <1>1, ChipStays DEF LinkInv
    <3>2. CASE i2c.step = 1
      <4>1. Drive(1, 0, hears)
        BY <3>2, <1>1, <1>2 DEF Target
      <4>2. scl' = 1 /\ sda' = 0 /\ chip' = Rise(chip, 0)
        BY <4>1, <3>2, <1>1 DEF Drive
      <4> QED
        BY <4>2, <3>2, <1>1, ChipRises DEF LinkInv
    <3> QED
      BY <3>1, <3>2, <1>1, <1>3
  <2>4. TransferType'
    BY <2>1, <2>3, <1>1, <1>3, WithinType DEF LinkInv, Transfers, BITS
  <2>5. ~Sending' /\ ~Reads'
    BY <2>2 DEF Sending, Reads
  <2>6. SendInv' /\ ReadInv' /\ RestartInv' /\ QuietInv'
    BY <2>2, <2>5 DEF SendInv, ReadInv, RestartInv, QuietInv
  <2>7. StopInv'
    BY <2>2, <2>3, <1>1, <1>3 DEF StopInv
  <2>8. ProgramInv'
    BY <2>2, ProgramKept DEF LinkInv
  <2> QED
    BY <2>3, <2>4, <2>6, <2>7, <2>8 DEF LinkInv
<1>4. CASE i2c.step = 2
  <2>1. Drive(1, 1, hears)
    BY <1>1, <1>2, <1>4 DEF Target
  <2>2. scl' = 1 /\ sda' = 1 /\ chip' = Idle(chip)
    BY <2>1, <1>1, <1>4 DEF Drive
  <2>3. ChipType' /\ Stores /\ chip'.sda = 1 /\ chip'.mem = chip.mem
    BY <2>2, ChipIdles DEF LinkInv
  <2>4. i2c' = Ends(i2c.ret)
    BY <1>1, <1>4 DEF BusStep, AfterCommand
  <2>5. /\ i2c'.op = i2c.op /\ i2c'.base = i2c.base /\ i2c'.n = i2c.n /\ i2c'.data = i2c.data
        /\ i2c'.pc = "done" /\ i2c'.ret = i2c.ret /\ i2c'.step = 0 /\ i2c'.byte = 0 /\ i2c' \in Transfers
    BY <2>4, <1>1, EndsType DEF LinkInv
  <2>6. TransferType'
    BY <2>3, <2>5, <1>1 DEF LinkInv, TransferType
  <2>7. ~Sending' /\ ~Reads'
    BY <2>5 DEF Sending, Reads
  <2>8. SendInv' /\ ReadInv' /\ RestartInv' /\ StopInv' /\ QuietInv'
    BY <2>2, <2>3, <2>5, <2>7, <1>1 DEF SendInv, ReadInv, RestartInv, StopInv, QuietInv
  <2>9. ProgramInv'
    BY <2>5, ProgramKept DEF LinkInv
  <2> QED
    BY <2>3, <2>6, <2>8, <2>9 DEF LinkInv
<1> QED
  BY <1>1, <1>3, <1>4

LEMMA LostStep ==
  ASSUME LinkInv, ArbitrationLost, UNCHANGED program, disturbed \subseteq disturbed'
  PROVE  LinkInv' /\ Stores
<1>1. /\ i2c.pc = "start" /\ i2c.step = 0 /\ chip.sda = 0 /\ scl = 1 /\ sda = 1
      /\ "restart" \in disturbed /\ i2c.op \in {"read", "write"}
  BY Conditions DEF LinkInv, ArbitrationLost, Refused, SDA_STATUS, RestartInv, QuietInv
<1>2. i2c' = Ends("arb_lost") /\ scl' = scl /\ sda' = sda /\ chip' = chip
  BY DEF ArbitrationLost, lines
<1>3. /\ i2c'.op = i2c.op /\ i2c'.base = i2c.base /\ i2c'.n = i2c.n /\ i2c'.data = i2c.data
      /\ i2c'.pc = "done" /\ i2c'.ret = "arb_lost" /\ i2c'.step = 0 /\ i2c'.byte = 0 /\ i2c' \in Transfers
  BY <1>2, EndsType DEF LinkInv
<1>4. ChipType' /\ Stores
  BY <1>1, <1>2, ChipStays DEF LinkInv
<1>5. TransferType'
  BY <1>1, <1>2, <1>3 DEF LinkInv, TransferType
<1>6. ~Sending' /\ ~Reads'
  BY <1>3 DEF Sending, Reads
<1>7. SendInv' /\ ReadInv' /\ RestartInv' /\ StopInv' /\ QuietInv'
  BY <1>1, <1>2, <1>3, <1>6 DEF SendInv, ReadInv, RestartInv, StopInv, QuietInv
<1>8. ProgramInv'
  BY <1>1, <1>3, ProgramKept DEF LinkInv
<1> QED
  BY <1>4, <1>5, <1>7, <1>8 DEF LinkInv

\* every step of the driver keeps the link as it should be
LEMMA LinkStep ==
  ASSUME LinkInv, NEW hears \in BOOLEAN, BusStep(hears), UNCHANGED program,
         disturbed' = IF hears THEN disturbed ELSE disturbed \cup {"noise"}
  PROVE  LinkInv' /\ Stores
<1>1. disturbed \subseteq disturbed'
  OBVIOUS
<1>2. i2c.pc \notin {"idle", "done"} /\ i2c \in Transfers /\ (i2c.op = "none" <=> i2c.pc = "idle")
  BY DEF LinkInv, TransferType, BusStep
<1>3. Sending \/ Reads \/ i2c.pc = "start" \/ i2c.pc = "restart" \/ i2c.pc = "stop"
  BY <1>2 DEF Transfers, Sending, Reads
<1> QED
  BY <1>1, <1>3, SendStep, ReadStep, StartStep, RestartStep, StopStep

-----------------------------------------------------------------------------
(* The program between transactions *)

Quiet == scl = 1 /\ sda = 1 /\ (chip.sda = 0 => "restart" \in disturbed)

LEMMA QuietNow ==
  ASSUME LinkInv, i2c.pc \in {"idle", "done"}
  PROVE  /\ prog # "reset" => scl = 1 /\ sda = 1
         /\ chip.sda = 0 => "restart" \in disturbed
         /\ ~Sending /\ ~Reads
BY DEF LinkInv, QuietInv, Sending, Reads

\* bb_i2c_init leaves the cells alone, and the bus free unless the chip holds the data line
LEMMA Frees ==
  ASSUME ChipType, bb_i2c_init
  PROVE  ChipType' /\ Stores /\ chip'.mem = chip.mem /\ scl' = 1 /\ sda' = 1 /\ (chip'.sda = 0 => chip.sda = 0)
<1> DEFINE after == CASE scl = 0 /\ sda = 0 /\ chip.sda = 1 -> {Rise(chip, 1), Idle(Rise(chip, 0))}
                      [] scl = 0 /\ (sda = 1 \/ chip.sda = 0) -> {Rise(chip, chip.sda)}
                      [] scl = 1 /\ sda = 0 /\ chip.sda = 1 -> {Idle(chip)}
                      [] OTHER                              -> {chip}
<1>1. scl' = 1 /\ sda' = 1 /\ chip' \in after
  BY DEF bb_i2c_init
<1>2. scl \in {0, 1} /\ sda \in {0, 1} /\ chip.sda \in {0, 1} /\ chip \in Chips(DOMAIN chip.mem)
  BY DEF ChipType, Chips
<1>3. chip' = Rise(chip, 1) \/ chip' = Idle(Rise(chip, 0)) \/ chip' = Rise(chip, chip.sda)
      \/ chip' = Idle(chip) \/ chip' = chip
  BY <1>1, <1>2
<1> HIDE DEF after
<1>4. CASE chip' = Rise(chip, 1) \/ chip' = Rise(chip, chip.sda)
  BY <1>1, <1>2, <1>4, ChipRises
<1>5. CASE chip' = Idle(Rise(chip, 0))
  <2>1. ASSUME NEW c \in Chips(DOMAIN chip.mem)
        PROVE  Idle(c) \in Chips(DOMAIN chip.mem) /\ Idle(c).mem = c.mem /\ Idle(c).sda = 1
    BY DEF Idle, Chips
  <2>2. Rise(chip, 0) \in Chips(DOMAIN chip.mem) /\ Rise(chip, 0).mem = chip.mem
    <3>1. CASE chip.state = "idle"
      BY <3>1, <1>2 DEF Rise
    <3>2. CASE chip.state # "idle"
      <4> DEFINE shift == IF Receiving(chip) /\ chip.n < BITS THEN 2 * chip.shift + 0
                          ELSE IF ~Receiving(chip) /\ chip.n = BITS THEN 0 ELSE chip.shift
      <4>1. Rise(chip, 0) = [chip EXCEPT !.n = chip.n + 1, !.shift = shift]
        BY <1>2, <3>2 DEF Rise, Chips
      <4>2. chip.n + 1 \in Nat /\ shift \in Nat
        BY <1>2 DEF Chips
      <4> HIDE DEF shift
      <4> QED
        BY <1>2, <4>1, <4>2 DEF Chips
    <3> QED
      BY <3>1, <3>2
  <2>3. chip' \in Chips(DOMAIN chip.mem) /\ chip'.mem = chip.mem /\ chip'.sda = 1
    BY <2>1, <2>2, <1>5
  <2> QED
    BY <2>3, <1>1 DEF ChipType, Stores
<1>6. CASE chip' = Idle(chip)
  BY <1>1, <1>6, ChipIdles
<1>7. CASE chip' = chip
  BY <1>1, <1>7, ChipStays
<1> QED
  BY <1>3, <1>4, <1>5, <1>6, <1>7

\* a transaction begins
LEMMA BeginsRead ==
  ASSUME ChipType', Quiet', NEW a \in {0, NVRAM}, NEW k \in {1, 7}, i2c_read_bus_mul(a, k)
  PROVE  /\ TransferType' /\ SendInv' /\ ReadInv' /\ RestartInv' /\ StopInv' /\ QuietInv'
         /\ i2c'.op = "read" /\ i2c'.base = a /\ i2c'.n = k /\ i2c'.pc = "start"
<1>1. i2c' = [op |-> "read", base |-> a, n |-> k, data |-> <<>>, pc |-> "start",
              step |-> 0, byte |-> 0, ret |-> "done"]
  BY DEF i2c_read_bus_mul, I2cIdle
<1>2. k \in 0..7 /\ 0 \in 0..2 * (BITS + 1) /\ 0 \in Byte /\ <<>> \in Seq(Byte) /\ Len(<<>>) = 0
  BY DEF BITS, Byte
<1>3. i2c' \in Transfers
  BY <1>1, <1>2 DEF Transfers
<1>4. TransferType'
  BY <1>1, <1>2, <1>3 DEF TransferType
<1>5. ~Sending' /\ ~Reads'
  BY <1>1 DEF Sending, Reads
<1>6. SendInv' /\ ReadInv' /\ RestartInv' /\ StopInv' /\ QuietInv'
  BY <1>1, <1>5 DEF SendInv, ReadInv, RestartInv, StopInv, QuietInv, Quiet
<1> QED
  BY <1>1, <1>4, <1>6

LEMMA BeginsWrite ==
  ASSUME ChipType', Quiet', NEW a \in {0, NVRAM}, NEW d \in Seq(Byte), Len(d) = 7, i2c_write_bus_mul(a, d)
  PROVE  /\ TransferType' /\ SendInv' /\ ReadInv' /\ RestartInv' /\ StopInv' /\ QuietInv'
         /\ i2c'.op = "write" /\ i2c'.base = a /\ i2c'.data = d /\ i2c'.pc = "start"
<1>1. i2c' = [op |-> "write", base |-> a, n |-> 0, data |-> d, pc |-> "start",
              step |-> 0, byte |-> 0, ret |-> "done"]
  BY DEF i2c_write_bus_mul, I2cIdle
<1>2. 0 \in 0..7 /\ 0 \in 0..2 * (BITS + 1) /\ 0 \in Byte
  BY DEF BITS, Byte
<1>3. i2c' \in Transfers
  BY <1>1, <1>2 DEF Transfers
<1>4. TransferType'
  BY <1>1, <1>2, <1>3 DEF TransferType
<1>5. ~Sending' /\ ~Reads'
  BY <1>1 DEF Sending, Reads
<1>6. SendInv' /\ ReadInv' /\ RestartInv' /\ StopInv' /\ QuietInv'
  BY <1>1, <1>5 DEF SendInv, ReadInv, RestartInv, StopInv, QuietInv, Quiet
<1> QED
  BY <1>1, <1>4, <1>6

LEMMA BeginsIdle ==
  ASSUME ChipType', chip'.sda = 0 => "restart" \in disturbed', prog' = "reset" \/ (scl' = 1 /\ sda' = 1),
         i2c' = I2cIdle
  PROVE  /\ TransferType' /\ SendInv' /\ ReadInv' /\ RestartInv' /\ StopInv' /\ QuietInv'
         /\ i2c'.op = "none" /\ i2c'.pc = "idle"
<1>1. i2c' = [op |-> "none", base |-> 0, n |-> 0, data |-> <<>>, pc |-> "idle",
              step |-> 0, byte |-> 0, ret |-> "done"]
  BY DEF I2cIdle
<1>2. 0 \in 0..7 /\ 0 \in 0..2 * (BITS + 1) /\ 0 \in Byte /\ <<>> \in Seq(Byte)
  BY DEF BITS, Byte
<1>3. i2c' \in Transfers
  BY <1>1, <1>2 DEF Transfers
<1>4. TransferType'
  BY <1>1, <1>2, <1>3 DEF TransferType
<1>5. ~Sending' /\ ~Reads'
  BY <1>1 DEF Sending, Reads
<1>6. SendInv' /\ ReadInv' /\ RestartInv' /\ StopInv' /\ QuietInv'
  BY <1>1, <1>5 DEF SendInv, ReadInv, RestartInv, StopInv, QuietInv
<1> QED
  BY <1>1, <1>4, <1>6

-----------------------------------------------------------------------------
(* The settings record *)

LEMMA ChecksumType == ASSUME NEW s \in Records PROVE S!crc32(s) \in Byte
<1> DEFINE sum == 73 + 3 * s.IP_addr + 7 * s.IP_mask + 29 * s.IP_gateway + 83 * s.MAC_ADDR
                   + 131 * s.DHCP + 151 * s.ReferenceFrequency
<1>1. sum \in Nat
  <2>1. /\ s.IP_addr \in Nat /\ s.IP_mask \in Nat /\ s.IP_gateway \in Nat /\ s.MAC_ADDR \in Nat
        /\ s.DHCP \in Nat /\ s.ReferenceFrequency \in Nat
    BY DEF Records, Byte
  <2> QED
    BY <2>1
<1>2. S!crc32(s) = sum % 256
  BY DEF S!crc32
<1> HIDE DEF sum
<1> QED
  BY <1>1, <1>2 DEF Byte

LEMMA UpdateType == ASSUME NEW s \in Records PROVE S!settings_update_crc32(s) \in Records
BY ChecksumType DEF S!settings_update_crc32, Records

LEMMA DefaultsType == S!Settings_defaults \in Records
BY UpdateType, BoardAssumption DEF S!Settings_defaults

LEMMA ValidType == ASSUME NEW s \in Records PROVE S!Settings_validate(s, S!Settings_defaults) \in Records
<1> DEFINE r == S!Settings_defaults
           ip == IF S!isIPInvalid(s.IP_addr) THEN r.IP_addr ELSE s.IP_addr
           mask == IF S!MaskInvalid(s.IP_mask) THEN r.IP_mask ELSE s.IP_mask
           gate == IF S!isIPInvalid(s.IP_gateway) \/ ~S!SameSubnet(ip, s.IP_gateway, mask)
                   THEN r.IP_gateway ELSE s.IP_gateway
           mac == IF s.MAC_ADDR % 4 # 0 THEN r.MAC_ADDR ELSE s.MAC_ADDR
           dhcp == IF s.DHCP > 1 THEN r.DHCP ELSE s.DHCP
           freq == IF s.ReferenceFrequency < REFERENCE_FREQ_MIN \/ s.ReferenceFrequency > REFERENCE_FREQ_MAX
                   THEN r.ReferenceFrequency ELSE s.ReferenceFrequency
           checked == [s EXCEPT !.IP_addr = ip, !.IP_mask = mask, !.IP_gateway = gate, !.MAC_ADDR = mac,
                                !.DHCP = dhcp, !.ReferenceFrequency = freq]
<1>1. r \in Records
  BY DefaultsType
<1> HIDE DEF r
<1>2. ip \in Byte /\ mask \in Byte
  BY <1>1 DEF Records
<1> HIDE DEF ip, mask
<1>3. gate \in Byte /\ mac \in Byte /\ dhcp \in Byte /\ freq \in Byte
  BY <1>1 DEF Records
<1>4. S!Settings_validate(s, r) = IF ~S!verify_settings_crc32(s) THEN r ELSE S!settings_update_crc32(checked)
  BY DEF S!Settings_validate, r, ip, mask, Records
<1> HIDE DEF gate, mac, dhcp, freq
<1>5. checked \in Records
  BY <1>2, <1>3 DEF Records
<1> HIDE DEF checked
<1>6. S!settings_update_crc32(checked) \in Records
  BY <1>5, UpdateType
<1> QED
  BY <1>1, <1>4, <1>6 DEF r

\* a wrong checksum gives the defaults
LEMMA InvalidDefaults ==
  ASSUME NEW s, ~S!verify_settings_crc32(s)
  PROVE  S!Settings_validate(s, S!Settings_defaults) = S!Settings_defaults
BY DEF S!Settings_validate

LEMMA BytesType ==
  ASSUME NEW s \in Records
  PROVE  S!Bytes(s) \in Seq(Byte) /\ Len(S!Bytes(s)) = 7 /\ S!Record(S!Bytes(s)) = s
BY DEF S!Bytes, S!Record, Records

LEMMA RecordType == ASSUME NEW d \in Seq(Byte), Len(d) = 7 PROVE S!Record(d) \in Records
<1>1. /\ d[1] \in Byte /\ d[2] \in Byte /\ d[3] \in Byte /\ d[4] \in Byte
      /\ d[5] \in Byte /\ d[6] \in Byte /\ d[7] \in Byte
  <2>1. \A i \in 1..Len(d) : d[i] \in Byte
    BY ElementOfSeq
  <2> QED
    BY <2>1
<1> QED
  BY <1>1 DEF S!Record, Records

LEMMA ZeroedWrong == S!Zeroed \in Records /\ ~S!verify_settings_crc32(S!Zeroed)
<1>1. S!Zeroed = [IP_addr |-> 0, IP_mask |-> 0, IP_gateway |-> 0, MAC_ADDR |-> 0, DHCP |-> 0,
                  ReferenceFrequency |-> 0, CRC32 |-> 0]
  BY DEF S!Zeroed, S!Record
<1>2. S!crc32(S!Zeroed) = 73
  BY <1>1 DEF S!crc32
<1> QED
  BY <1>1, <1>2 DEF S!verify_settings_crc32, Records, Byte

-----------------------------------------------------------------------------
(* The actions of the program keep the link as it should be *)

LEMMA UnchangedMem == ASSUME chip'.mem = chip.mem PROVE Stores
BY DEF Stores

LEMMA ReadsBegin ==
  ASSUME LinkInv, ChipType', Quiet', prog' # "reset", NEW a \in {0, NVRAM}, NEW k \in {1, 7}, i2c_read_bus_mul(a, k),
         settings' = settings,
         \/ prog' = "probe" /\ a = 0 /\ k = 1 /\ settings = S!Zeroed
         \/ prog' = "rtc_probe" /\ a = 0 /\ k = 1
         \/ prog' = "read" /\ a = NVRAM /\ k = 7 /\ settings = S!Zeroed
         \/ prog' = "rtc_get" /\ a = 0 /\ k = 7
  PROVE  LinkInv'
<1>1. /\ TransferType' /\ SendInv' /\ ReadInv' /\ RestartInv' /\ StopInv' /\ QuietInv'
      /\ i2c'.op = "read" /\ i2c'.base = a /\ i2c'.n = k /\ i2c'.pc = "start"
  BY BeginsRead
<1>2. settings \in Records
  BY DEF LinkInv, ProgramInv
<1>3. ProgramInv'
  BY <1>1, <1>2 DEF ProgramInv
<1> QED
  BY <1>1, <1>3 DEF LinkInv

LEMMA ProbeStep ==
  ASSUME LinkInv, Probe, disturbed' = disturbed
  PROVE  LinkInv' /\ Stores /\ chip'.mem = chip.mem
<1>1. /\ bb_i2c_init /\ i2c_read_bus_mul(0, 1) /\ prog = "reset" /\ prog' = "probe" /\ settings' = settings
  BY DEF Probe, ds1338z_init
<1>2. i2c.pc = "idle" /\ settings = S!Zeroed
  BY <1>1 DEF LinkInv, ProgramInv
<1>3. /\ ChipType' /\ Stores /\ chip'.mem = chip.mem /\ scl' = 1 /\ sda' = 1 /\ (chip'.sda = 0 => chip.sda = 0)
  BY <1>1, Frees DEF LinkInv
<1>4. Quiet'
  BY <1>2, <1>3, QuietNow DEF Quiet
<1>5. LinkInv'
  BY <1>1, <1>2, <1>3, <1>4, ReadsBegin
<1> QED
  BY <1>3, <1>5

LEMMA ProbeClockStep ==
  ASSUME LinkInv, rtc_init, disturbed' = disturbed
  PROVE  LinkInv' /\ Stores /\ chip'.mem = chip.mem
<1>1. /\ bb_i2c_init /\ i2c_read_bus_mul(0, 1) /\ i2c.pc = "done" /\ prog' = "rtc_probe" /\ settings' = settings
  BY DEF rtc_init, ds1338z_init, Awaits
<1>2. /\ ChipType' /\ Stores /\ chip'.mem = chip.mem /\ scl' = 1 /\ sda' = 1 /\ (chip'.sda = 0 => chip.sda = 0)
  BY <1>1, Frees DEF LinkInv
<1>3. Quiet'
  BY <1>1, <1>2, QuietNow DEF Quiet
<1>4. LinkInv'
  BY <1>1, <1>2, <1>3, ReadsBegin
<1> QED
  BY <1>2, <1>4

\* between transactions of one routine the lines stay as they are
LEMMA StaysQuiet ==
  ASSUME LinkInv, i2c.pc \in {"idle", "done"}, prog # "reset", UNCHANGED lines, disturbed' = disturbed
  PROVE  Quiet' /\ ChipType' /\ Stores /\ chip'.mem = chip.mem
<1>1. scl' = scl /\ sda' = sda /\ chip' = chip
  BY DEF lines
<1>2. Quiet'
  BY <1>1, QuietNow DEF Quiet
<1>3. ChipType' /\ Stores
  BY <1>1 DEF LinkInv, ChipType, Stores
<1> QED
  BY <1>1, <1>2, <1>3

LEMMA ReadSettingsStep ==
  ASSUME LinkInv, Settings_read, disturbed' = disturbed
  PROVE  LinkInv' /\ Stores /\ chip'.mem = chip.mem
<1>1. /\ i2c_read_bus_mul(NVRAM, 7) /\ prog' = "read" /\ i2c.pc = "done" /\ prog = "probe"
      /\ settings' = settings /\ UNCHANGED lines
  BY DEF Settings_read, Awaits
<1>2. settings = S!Zeroed
  BY <1>1 DEF LinkInv, ProgramInv
<1>3. Quiet' /\ ChipType' /\ Stores /\ chip'.mem = chip.mem
  BY <1>1, StaysQuiet
<1>4. LinkInv'
  BY <1>1, <1>2, <1>3, ReadsBegin
<1> QED
  BY <1>3, <1>4

LEMMA ReadClockStep ==
  ASSUME LinkInv, ds1338z_getUnixTime, disturbed' = disturbed
  PROVE  LinkInv' /\ Stores /\ chip'.mem = chip.mem
<1>1. /\ i2c_read_bus_mul(0, 7) /\ prog' = "rtc_get" /\ i2c.pc = "done" /\ prog = "rtc_probe"
      /\ settings' = settings /\ UNCHANGED lines
  BY DEF ds1338z_getUnixTime, Awaits
<1>2. Quiet' /\ ChipType' /\ Stores /\ chip'.mem = chip.mem
  BY <1>1, StaysQuiet
<1>3. LinkInv'
  BY <1>1, <1>2, ReadsBegin
<1> QED
  BY <1>2, <1>3

LEMMA WriteSettingsStep ==
  ASSUME LinkInv, i2c.pc \in {"idle", "done"}, prog # "reset", UNCHANGED lines, disturbed' = disturbed,
         NEW s \in Records, NEW then \in {"write", "save"}, Settings_write(s, then)
  PROVE  LinkInv' /\ Stores /\ chip'.mem = chip.mem /\ i2c'.pc = "start"
<1>1. i2c_write_bus_mul(NVRAM, S!Bytes(s)) /\ prog' = then /\ settings' = s
  BY DEF Settings_write
<1>2. S!Bytes(s) \in Seq(Byte) /\ Len(S!Bytes(s)) = 7
  BY BytesType
<1>3. Quiet' /\ ChipType' /\ Stores /\ chip'.mem = chip.mem
  BY StaysQuiet
<1>4. /\ TransferType' /\ SendInv' /\ ReadInv' /\ RestartInv' /\ StopInv' /\ QuietInv'
      /\ i2c'.op = "write" /\ i2c'.base = NVRAM /\ i2c'.data = S!Bytes(s) /\ i2c'.pc = "start"
  BY <1>1, <1>2, <1>3, BeginsWrite
<1>5. ProgramInv'
  BY <1>1, <1>4 DEF ProgramInv
<1> QED
  BY <1>3, <1>4, <1>5 DEF LinkInv

LEMMA WriteClockStep ==
  ASSUME LinkInv, i2c.pc \in {"idle", "done"}, prog # "reset", disturbed' = disturbed,
         NEW t, NEW then \in {"sync", "set"}, clock_settime(t, then), ClockInCalendar'
  PROVE  LinkInv' /\ Stores /\ chip'.mem = chip.mem /\ i2c'.pc = "start"
<1>1. clock' = t /\ prog' = then /\ UNCHANGED lines /\ settings' = settings /\ InCalendar(t)
  BY DEF clock_settime, ClockInCalendar
<1>2. PICK dow \in Garbage : i2c_write_bus_mul(0, Registers(RawClock(t, dow)))
  BY DEF clock_settime
<1>3. /\ Registers(RawClock(t, dow)) \in Seq(Byte) /\ Len(Registers(RawClock(t, dow))) = 7
  BY <1>1, ClockRegisters, BoardAssumption
<1>4. Quiet' /\ ChipType' /\ Stores /\ chip'.mem = chip.mem
  BY <1>1, StaysQuiet
<1>5. /\ TransferType' /\ SendInv' /\ ReadInv' /\ RestartInv' /\ StopInv' /\ QuietInv'
      /\ i2c'.op = "write" /\ i2c'.base = 0 /\ i2c'.data = Registers(RawClock(t, dow)) /\ i2c'.pc = "start"
  BY <1>2, <1>3, <1>4, BeginsWrite
<1>6. settings \in Records
  BY DEF LinkInv, ProgramInv
<1>7. ProgramInv'
  BY <1>1, <1>5, <1>6 DEF ProgramInv
<1> QED
  BY <1>4, <1>5, <1>7 DEF LinkInv

LEMMA RunsStep ==
  ASSUME LinkInv, Runs, disturbed' = disturbed
  PROVE  LinkInv' /\ Stores /\ chip'.mem = chip.mem
<1>1. i2c.pc = "done" /\ prog # "reset" /\ prog' = "running" /\ i2c' = I2cIdle /\ settings' = settings /\ UNCHANGED lines
  BY DEF Runs, Awaits
<1>2. Quiet' /\ ChipType' /\ Stores /\ chip'.mem = chip.mem
  BY <1>1, StaysQuiet
<1>3. /\ TransferType' /\ SendInv' /\ ReadInv' /\ RestartInv' /\ StopInv' /\ QuietInv'
      /\ i2c'.op = "none" /\ i2c'.pc = "idle"
  BY <1>1, <1>2, BeginsIdle DEF Quiet
<1>4. settings \in Records
  BY DEF LinkInv, ProgramInv
<1>5. ProgramInv'
  BY <1>1, <1>3, <1>4 DEF ProgramInv
<1> QED
  BY <1>2, <1>3, <1>5 DEF LinkInv

LEMMA RestartsStep ==
  ASSUME LinkInv, Restart \/ PowerCut
  PROVE  LinkInv' /\ Stores /\ chip'.mem = chip.mem
<1>1. prog' = "reset" /\ i2c' = I2cIdle /\ settings' = S!Zeroed
  BY DEF Restart, PowerCut, Restarts
<1>2. ChipType' /\ Stores /\ chip'.mem = chip.mem /\ (chip'.sda = 0 => "restart" \in disturbed')
  <2>1. CASE Restart
    BY <2>1 DEF Restart, lines, LinkInv, ChipType, Stores
  <2>2. CASE PowerCut
    <3>1. scl' = 1 /\ sda' = 1 /\ chip' = [Idle(chip) EXCEPT !.ptr = 0]
      BY <2>2 DEF PowerCut
    <3>2. chip \in Chips(DOMAIN chip.mem) /\ 0 \in 0..CELLS - 1
      BY DEF LinkInv, ChipType, CELLS
    <3>3. chip' \in Chips(DOMAIN chip.mem) /\ chip'.mem = chip.mem /\ chip'.sda = 1
      BY <3>1, <3>2 DEF Chips, Idle
    <3> QED
      BY <3>1, <3>3 DEF LinkInv, ChipType, Stores
  <2> QED
    BY <2>1, <2>2
<1>3. /\ TransferType' /\ SendInv' /\ ReadInv' /\ RestartInv' /\ StopInv' /\ QuietInv'
      /\ i2c'.op = "none" /\ i2c'.pc = "idle"
  BY <1>1, <1>2, BeginsIdle
<1>4. ProgramInv'
  BY <1>1, <1>3, ZeroedWrong DEF ProgramInv
<1> QED
  BY <1>2, <1>3, <1>4 DEF LinkInv

\* what a finished read has is what the cells hold
LEMMA ReadData ==
  ASSUME LinkInv, i2c.pc = "done", i2c.op = "read", ok
  PROVE  /\ i2c.data = Cells(i2c.base, i2c.n) /\ i2c.data \in Seq(Byte) /\ Len(i2c.data) = i2c.n
         /\ i2c.n = 7 => \A i \in 1..7 : i2c.data[i] = chip.mem[i2c.base + i - 1]
<1>1. /\ i2c.data \in Seq(Byte) /\ Len(i2c.data) = i2c.n /\ i2c.n \in Nat
      /\ \A j \in 1..Len(i2c.data) : i2c.data[j] = chip.mem[i2c.base + j - 1]
  BY DEF LinkInv, TransferType, Transfers, ok
<1>2. i2c.data = [i \in 1..Len(i2c.data) |-> i2c.data[i]]
  BY <1>1
<1> QED
  BY <1>1, <1>2 DEF Cells

LEMMA InitSettingsStep ==
  ASSUME LinkInv, Settings_init, disturbed' = disturbed
  PROVE  LinkInv' /\ Stores /\ chip'.mem = chip.mem /\ i2c'.pc = "start"
<1> DEFINE read == IF prog = "read" /\ ok THEN S!Record(i2c.data) ELSE settings
           s == S!Settings_validate(read, S!Settings_defaults)
<1>1. Settings_write(s, "write") /\ i2c.pc = "done" /\ prog # "reset" /\ UNCHANGED lines
  BY DEF Settings_init, Awaits
<1>2. read \in Records
  <2>1. settings \in Records
    BY DEF LinkInv, ProgramInv
  <2>2. CASE prog = "read" /\ ok
    <3>1. i2c.op = "read" /\ i2c.n = 7
      BY <2>2 DEF LinkInv, ProgramInv
    <3>2. i2c.data \in Seq(Byte) /\ Len(i2c.data) = 7
      BY <2>2, <3>1, <1>1, ReadData
    <3> QED
      BY <2>2, <3>2, RecordType
  <2> QED
    BY <2>1, <2>2
<1> HIDE DEF read
<1>3. s \in Records
  BY <1>2, ValidType
<1> HIDE DEF s
<1> QED
  BY <1>1, <1>3, WriteSettingsStep

LEMMA SaveStep ==
  ASSUME LinkInv, Save, disturbed' = disturbed
  PROVE  LinkInv' /\ Stores /\ chip'.mem = chip.mem
<1>1. PICK s \in Saved : Settings_write(S!settings_update_crc32(s), "save")
  BY DEF Save
<1>2. S!settings_update_crc32(s) \in Records
  BY UpdateType, BoardAssumption
<1>3. i2c.pc = "idle" /\ prog # "reset" /\ UNCHANGED lines
  BY DEF Save, LinkInv, ProgramInv
<1> QED
  BY <1>1, <1>2, <1>3, WriteSettingsStep

LEMMA SynchroniseStep ==
  ASSUME LinkInv, Synchronise, disturbed' = disturbed, ClockInCalendar'
  PROVE  LinkInv' /\ Stores /\ chip'.mem = chip.mem
<1>1. PICK t : clock_settime(t, "sync")
  BY DEF Synchronise
<1>2. i2c.pc = "done" /\ prog # "reset"
  BY DEF Synchronise, Awaits
<1> QED
  BY <1>1, <1>2, WriteClockStep

LEMMA SetClockStep ==
  ASSUME LinkInv, SetClock, disturbed' = disturbed, ClockInCalendar'
  PROVE  LinkInv' /\ Stores /\ chip'.mem = chip.mem
<1>1. PICK t \in Times : clock_settime(t, "set")
  BY DEF SetClock
<1>2. i2c.pc = "idle" /\ prog # "reset"
  BY DEF SetClock, LinkInv, ProgramInv
<1> QED
  BY <1>1, <1>2, WriteClockStep

LEMMA ProgramStep ==
  ASSUME LinkInv, Program, disturbed' = disturbed, ClockInCalendar'
  PROVE  LinkInv' /\ Stores /\ chip'.mem = chip.mem
BY ProbeStep, ReadSettingsStep, InitSettingsStep, ProbeClockStep, ReadClockStep, SynchroniseStep, RunsStep
   DEF Program

LEMMA NextLink ==
  ASSUME LinkInv, [Next]_vars, ClockInCalendar'
  PROVE  LinkInv' /\ Stores
<1>1. CASE GoesOn
  <2>1. disturbed' = disturbed /\ (Program \/ Bus)
    BY <1>1 DEF GoesOn
  <2>2. CASE Program
    BY <2>1, <2>2, ProgramStep
  <2>3. CASE Bus
    BY <2>1, <2>3, LostStep, LinkStep DEF Bus
  <2> QED
    BY <2>1, <2>2, <2>3
<1>2. CASE Uses
  BY <1>2, SaveStep, SetClockStep DEF Uses
<1>3. CASE Noise
  BY <1>3, LinkStep DEF Noise
<1>4. CASE Restart \/ PowerCut
  BY <1>4, RestartsStep
<1>5. CASE UNCHANGED vars
  <2>1. /\ scl' = scl /\ sda' = sda /\ chip' = chip /\ i2c' = i2c /\ prog' = prog /\ settings' = settings
        /\ clock' = clock /\ disturbed' = disturbed
    BY <1>5 DEF vars, lines, program
  <2>2. ChipType' /\ TransferType' /\ Stores
    BY <2>1 DEF LinkInv, ChipType, TransferType, Stores
  <2>3. SendInv' /\ ReadInv'
    BY <2>1 DEF LinkInv, SendInv, ReadInv, Sending, Reads, Acknowledged, Unheard, Takes, SentByte, LastRead, ReadCell,
                At
  <2>4. RestartInv' /\ StopInv' /\ QuietInv' /\ ProgramInv'
    BY <2>1 DEF LinkInv, RestartInv, StopInv, QuietInv, ProgramInv
  <2> QED
    BY <2>2, <2>3, <2>4 DEF LinkInv
<1> QED
  BY <1>1, <1>2, <1>3, <1>4, <1>5 DEF Next

LEMMA InitLink == Init => LinkInv
<1> SUFFICES ASSUME Init PROVE LinkInv
  OBVIOUS
<1>1. PICK c \in Scenarios :
        chip = [state |-> "idle", n |-> 0, shift |-> 0, ptr |-> 0, sda |-> 1, mem |-> c.mem]
  BY DEF Init
<1>2. c.mem \in [DOMAIN c.mem -> Byte] /\ ClockCells \cup RecordCells \subseteq DOMAIN c.mem
  BY BoardAssumption
<1>3. scl = 1 /\ sda = 1 /\ prog = "reset" /\ settings = S!Zeroed
  BY DEF Init
<1>4. i2c = [op |-> "none", base |-> 0, n |-> 0, data |-> <<>>, pc |-> "idle",
             step |-> 0, byte |-> 0, ret |-> "done"]
  BY DEF Init, I2cIdle
<1>5. 0 \in 0..CELLS - 1 /\ 0 \in 0..7 /\ 0 \in 0..2 * (BITS + 1) /\ 0 \in Byte /\ <<>> \in Seq(Byte)
  BY DEF CELLS, BITS, Byte
<1>6. ChipType
  BY <1>1, <1>2, <1>3, <1>5 DEF ChipType, Chips
<1>7. i2c \in Transfers
  BY <1>4, <1>5 DEF Transfers
<1>8. TransferType
  BY <1>4, <1>7 DEF TransferType
<1>9. SendInv /\ ReadInv /\ RestartInv /\ StopInv /\ QuietInv
  BY <1>1, <1>3, <1>4 DEF SendInv, ReadInv, RestartInv, StopInv, QuietInv, Sending, Reads
<1>10. ProgramInv
  BY <1>3, <1>4, ZeroedWrong DEF ProgramInv
<1> QED
  BY <1>6, <1>8, <1>9, <1>10 DEF LinkInv

\* At every half clock the driver of the bus (bb_i2c.c) and the chip are in the same
\* bit of the same byte, and what has passed of it is the same to both - or the
\* chip is where a restart or noise has left it, and the driver will find out.
\* The clock is a time that ds1338z_setUnixTime converts, see ClockInCalendar.
THEOREM Agreement == Spec /\ []ClockInCalendar => []LinkInv
<1>1. Init => LinkInv
  BY InitLink
<1>2. LinkInv /\ ClockInCalendar' /\ [Next]_vars => LinkInv'
  BY NextLink
<1> QED
  BY <1>1, <1>2, PTL DEF Spec

\* ReadFaithful: what i2c_read_bus_mul reports as read lies in the chip's cells.
THEOREM ReadsFaithfully == Spec /\ []ClockInCalendar => []ReadFaithful
<1>1. LinkInv => ReadFaithful
  BY ReadData DEF ReadFaithful
<1> QED
  BY <1>1, Agreement, PTL

\* StoredAsMeant: no cell changes but the one i2c_write_bus_mul is writing, to its byte.
THEOREM StoresAsMeant == Spec /\ []ClockInCalendar => StoredAsMeant
<1> DEFINE Changes == \A a \in DOMAIN chip.mem : chip'.mem[a] # chip.mem[a] =>
                         /\ i2c.op = "write" /\ i2c.pc = "data"
                         /\ a = i2c.base + i2c.n /\ chip'.mem[a] = i2c.data[i2c.n + 1]
<1>1. LinkInv /\ ClockInCalendar' /\ [Next]_vars => [Changes]_vars
  BY NextLink DEF Stores
<1>2. [][Changes]_vars <=> StoredAsMeant
  BY DEF StoredAsMeant
<1> HIDE DEF Changes
<1> QED
  BY <1>1, <1>2, Agreement, PTL DEF Spec

-----------------------------------------------------------------------------
(* What the chip should hold *)

LEMMA CutOffIs ==
  ASSUME NEW h, Fields(h)
  PROVE  /\ Fields(CutOff(h)) /\ CutOff(h).writing = {}
         /\ h.writing = {} => CutOff(h) = h
         /\ h.writing # {} => CutOff(h).torn
BY DEF CutOff, Fields

LEMMA WritingIs ==
  ASSUME NEW h, NEW v, Fields(h)
  PROVE  /\ Fields(Writing(h, v)) /\ Writing(h, v).writing = {v}
         /\ Writing(h, v).held = h.held /\ Writing(h, v).torn = h.torn
BY DEF Writing, Fields

\* a write that was finished, that never began, and that was cut off
LEMMA WrittenIs ==
  ASSUME NEW h, Fields(h), h.writing # {}
  PROVE  /\ Fields(Written(h)) /\ Written(h).writing = {}
         /\ i2c.ret = "done" => Written(h).held = h.writing
         /\ i2c.ret = "arb_lost" => Written(h).held = h.held /\ Written(h).torn = h.torn
         /\ i2c.ret \notin {"done", "arb_lost"} => Written(h).torn
<1>1. CASE i2c.ret = "done"
  BY <1>1 DEF Written, Fields
<1>2. CASE i2c.ret = "arb_lost"
  BY <1>2 DEF Written, Fields
<1>3. CASE i2c.ret \notin {"done", "arb_lost"}
  BY <1>3, CutOffIs DEF Written
<1> QED
  BY <1>1, <1>2, <1>3

\* once a write has begun to store, the driver does not go back
LEMMA StoringKept ==
  ASSUME LinkInv, NEW hears, BusStep(hears)
  PROVE  /\ Storing => Storing'
         /\ i2c'.pc = "start" => i2c.pc = "start" /\ chip.sda # 0
<1> DEFINE onward == IF i2c.op = "read" THEN "restart" ELSE "data"
<1>1. /\ i2c \in Transfers /\ i2c.pc \notin {"idle", "done"} /\ i2c.op \in {"read", "write"}
      /\ i2c.pc = "stop" => i2c.ret # "arb_lost"
  BY DEF LinkInv, TransferType, Transfers, BusStep, StopInv
<1>2. CASE i2c.step # LastStep
  <2>1. i2c' = [i2c EXCEPT !.step = @ + 1, !.byte = Sampled]
    BY <1>2 DEF BusStep
  <2>2. i2c'.pc = i2c.pc /\ i2c'.ret = i2c.ret
    BY <1>1, <2>1 DEF Transfers
  <2>3. i2c.pc = "start" => chip.sda # 0
    <3>1. SUFFICES ASSUME i2c.pc = "start" PROVE chip.sda # 0
      OBVIOUS
    <3>2. i2c.step \in {0, 1} /\ (i2c.step = 1 => chip.sda = 1)
      BY <3>1 DEF LinkInv, QuietInv
    <3>3. i2c.step = 0
      BY <3>1, <3>2, <1>2 DEF LastStep
    <3>4. SDA_STATUS # 0
      BY <3>1, <3>3 DEF BusStep, Refused
    <3> QED
      BY <3>4 DEF SDA_STATUS
  <2> QED
    BY <1>1, <2>2, <2>3 DEF Storing
<1>3. CASE i2c.step = LastStep
  <2>1. i2c' = AfterCommand
    BY <1>3 DEF BusStep
  <2>2. \A x : /\ Goes(x).pc = x /\ Goes(x).ret = i2c.ret
               /\ Ends(x).pc = "done" /\ Ends(x).ret = x /\ Fails(x).pc = "stop"
    BY <1>1 DEF Goes, Ends, Fails, Transfers
  <2>3. CASE i2c.pc = "data"
    <3> DEFINE last == IF i2c.op = "read" THEN At + 1 >= i2c.n ELSE i2c.n + 1 >= Len(i2c.data)
               following == Goes(IF last THEN "stop" ELSE "data")
    <3>1. following.pc \in {"stop", "data"}
      BY <2>2
    <3> HIDE DEF last
    <3>2. \/ i2c' = Fails("nak")
          \/ i2c' = [following EXCEPT !.data = Append(@, i2c.byte)]
          \/ i2c' = [following EXCEPT !.n = @ + 1]
      BY <2>1, <2>3, <1>1 DEF AfterCommand, Reads, last
    <3>3. /\ [following EXCEPT !.data = Append(@, i2c.byte)].pc = following.pc
          /\ [following EXCEPT !.n = @ + 1].pc = following.pc
      BY <1>1 DEF Goes, Transfers
    <3>4. i2c'.pc \in {"stop", "data"}
      BY <3>1, <3>2, <3>3, <2>2
    <3> QED
      BY <3>4 DEF Storing
  <2>4. CASE i2c.pc = "stop"
    <3>1. i2c' = Ends(i2c.ret)
      BY <2>1, <2>4 DEF AfterCommand, Reads
    <3> QED
      BY <3>1, <2>2, <2>4, <1>1 DEF Storing
  <2>5. CASE i2c.pc \in {"start", "restart", "address", "pointer", "address_r"}
    <3>1. \/ i2c' = Fails("nak") \/ i2c' = Goes("address") \/ i2c' = Goes("address_r") \/ i2c' = Goes("pointer")
          \/ i2c' = Goes("restart") \/ i2c' = Goes("data")
      BY <2>1, <2>5, <1>1 DEF AfterCommand, Reads
    <3>2. i2c'.pc # "start"
      BY <3>1, <2>2
    <3> QED
      BY <3>2, <2>5 DEF Storing
  <2> QED
    BY <2>3, <2>4, <2>5, <1>1 DEF Transfers
<1> QED
  BY <1>2, <1>3

\* a write to the clock leaves the record alone, and one to the record the clock
LEMMA RecordCellsKept ==
  ASSUME LinkInv, Stores, ~(prog \in {"write", "save"} /\ i2c.pc = "data")
  PROVE  RecordOf(chip'.mem) = RecordOf(chip.mem)
<1>1. ASSUME NEW i \in 1..7 PROVE chip'.mem[NVRAM + i - 1] = chip.mem[NVRAM + i - 1]
  <2>1. NVRAM + i - 1 \in DOMAIN chip.mem /\ NVRAM + i - 1 \notin ClockCells
    BY DEF LinkInv, ChipType, RecordCells, ClockCells, NVRAM, DS1338Z_NVRAM_START, DS_1338Z_NVRAM_BASE
  <2>2. SUFFICES ASSUME i2c.op = "write", i2c.pc = "data", NVRAM + i - 1 = i2c.base + i2c.n PROVE FALSE
    BY <2>1 DEF Stores
  <2>3. i2c.base = 0 /\ i2c.n \in 0..6
    BY <2>2 DEF LinkInv, ProgramInv, TransferType, Transfers
  <2> QED
    BY <2>1, <2>2, <2>3 DEF ClockCells
<1> QED
  BY <1>1 DEF RecordOf

LEMMA ClockCellsKept ==
  ASSUME LinkInv, Stores, ~(prog \in {"sync", "set"} /\ i2c.pc = "data")
  PROVE  ClockOf(chip'.mem) = ClockOf(chip.mem)
<1>1. ASSUME NEW i \in 1..7 PROVE chip'.mem[i - 1] = chip.mem[i - 1]
  <2>1. i - 1 \in DOMAIN chip.mem /\ i - 1 \in ClockCells
    BY DEF LinkInv, ChipType, ClockCells
  <2>2. SUFFICES ASSUME i2c.op = "write", i2c.pc = "data", i - 1 = i2c.base + i2c.n PROVE FALSE
    BY <2>1 DEF Stores
  <2>3. i2c.base = NVRAM /\ i2c.n \in 0..6
    BY <2>2 DEF LinkInv, ProgramInv, TransferType, Transfers
  <2> QED
    BY <2>1, <2>2, <2>3 DEF ClockCells, NVRAM, DS1338Z_NVRAM_START, DS_1338Z_NVRAM_BASE
<1> QED
  BY <1>1 DEF ClockOf, ClockRegs

\* a write without an error leaves what was to be written
LEMMA RecordStored ==
  ASSUME LinkInv, prog \in {"write", "save"}, i2c.pc = "done", ok
  PROVE  RecordOf(chip.mem) = settings
<1>1. i2c.op = "write" /\ i2c.base = NVRAM /\ i2c.data = S!Bytes(settings) /\ settings \in Records
  BY DEF LinkInv, ProgramInv
<1>2. i2c.n = 7 /\ \A j \in 1..i2c.n : chip.mem[i2c.base + j - 1] = i2c.data[j]
  BY <1>1 DEF LinkInv, TransferType, ok
<1>3. S!Bytes(settings) \in Seq(Byte) /\ Len(S!Bytes(settings)) = 7 /\ S!Record(S!Bytes(settings)) = settings
  BY <1>1, BytesType
<1>4. [i \in 1..7 |-> chip.mem[NVRAM + i - 1]] = [i \in 1..7 |-> S!Bytes(settings)[i]]
  BY <1>1, <1>2
<1>5. S!Bytes(settings) = [i \in 1..7 |-> S!Bytes(settings)[i]]
  BY <1>3
<1> QED
  BY <1>3, <1>4, <1>5 DEF RecordOf

LEMMA ClockStored ==
  ASSUME LinkInv, ClockInCalendar, prog \in {"sync", "set"}, i2c.pc = "done", ok
  PROVE  ClockOf(chip.mem) = clock /\ Says(ChipDate(ClockRegs(chip.mem)), clock)
<1>1. PICK dow \in Garbage : i2c.data = Registers(RawClock(clock, dow))
  BY DEF LinkInv, ProgramInv
<1>2. i2c.op = "write" /\ i2c.base = 0
  BY DEF LinkInv, ProgramInv
<1>3. i2c.n = 7 /\ \A j \in 1..i2c.n : chip.mem[i2c.base + j - 1] = i2c.data[j]
  BY <1>2 DEF LinkInv, TransferType, ok
<1>4. dow \in Byte /\ InCalendar(clock)
  BY BoardAssumption DEF ClockInCalendar
<1>5. /\ i2c.data \in Seq(Byte) /\ Len(i2c.data) = 7 /\ UnixTime(RawOf(i2c.data)) = clock
      /\ Says(ChipDate(i2c.data), clock)
  BY <1>1, <1>4, ClockRegisters
<1>6. i2c.data = [i \in 1..7 |-> i2c.data[i]]
  BY <1>5
<1>7. [i \in 1..7 |-> chip.mem[i - 1]] = [i \in 1..7 |-> i2c.data[i]]
  BY <1>2, <1>3
<1> QED
  BY <1>5, <1>6, <1>7 DEF ClockOf, ClockRegs

LEMMA BusKeepsRecord ==
  ASSUME LinkInv, RecordInv, Stores, Storing => Storing', UNCHANGED <<program, record>>
  PROVE  RecordInv'
<1>1. prog' = prog /\ settings' = settings /\ record' = record
  BY DEF program
<1>2. CASE prog \in {"write", "save"} /\ Storing
  BY <1>1, <1>2 DEF RecordInv, Fields
<1>3. CASE ~(prog \in {"write", "save"} /\ Storing)
  <2>1. RecordOf(chip'.mem) = RecordOf(chip.mem)
    BY <1>3, RecordCellsKept DEF Storing
  <2> QED
    BY <1>1, <1>3, <2>1 DEF RecordInv, Fields
<1> QED
  BY <1>2, <1>3

LEMMA BusKeepsTime ==
  ASSUME LinkInv, TimeInv, Stores, Storing => Storing', UNCHANGED <<program, time>>
  PROVE  TimeInv'
<1>1. prog' = prog /\ clock' = clock /\ time' = time
  BY DEF program
<1>2. CASE prog \in {"sync", "set"} /\ Storing
  BY <1>1, <1>2 DEF TimeInv, Fields
<1>3. CASE ~(prog \in {"sync", "set"} /\ Storing)
  <2>1. ClockOf(chip'.mem) = ClockOf(chip.mem)
    BY <1>3, ClockCellsKept DEF Storing
  <2> QED
    BY <1>1, <1>3, <2>1 DEF TimeInv, Fields
<1> QED
  BY <1>2, <1>3

\* the program begins and ends a write of the record, and of the time
LEMMA RecordBegins ==
  ASSUME RecordInv, prog \notin {"write", "save"}, chip'.mem = chip.mem,
         NEW s, NEW then \in {"write", "save"}, Settings_write(s, then)
  PROVE  RecordInv' /\ record'.held = record.held /\ record'.torn = record.torn
<1>1. record' = Writing(record, s) /\ settings' = s /\ prog' = then
  BY DEF Settings_write
<1>2. Fields(record) /\ (record.torn \/ RecordOf(chip.mem) \in record.held)
  BY DEF RecordInv
<1>3. /\ Fields(record') /\ record'.writing = {s} /\ record'.held = record.held /\ record'.torn = record.torn
  BY <1>1, <1>2, WritingIs
<1> QED
  BY <1>1, <1>2, <1>3 DEF RecordInv, Fields

LEMMA RecordEnds ==
  ASSUME LinkInv, RecordInv, prog \in {"write", "save"}, i2c.pc = "done", chip'.mem = chip.mem,
         record' = Written(record), prog' \notin {"write", "save"}
  PROVE  RecordInv'
<1>1. Fields(record) /\ record.writing = {settings}
  BY DEF RecordInv
<1>2. /\ Fields(record') /\ record'.writing = {}
      /\ i2c.ret = "done" => record'.held = {settings}
      /\ i2c.ret = "arb_lost" => record'.held = record.held /\ record'.torn = record.torn
      /\ i2c.ret \notin {"done", "arb_lost"} => record'.torn
  BY <1>1, WrittenIs
<1>3. record'.torn \/ RecordOf(chip.mem) \in record'.held
  <2>1. CASE i2c.ret = "done"
    BY <2>1, <1>2, RecordStored DEF ok
  <2>2. CASE i2c.ret = "arb_lost"
    BY <2>2, <1>2 DEF RecordInv, Storing
  <2>3. CASE i2c.ret \notin {"done", "arb_lost"}
    BY <2>3, <1>2
  <2> QED
    BY <2>1, <2>2, <2>3
<1> QED
  BY <1>2, <1>3 DEF RecordInv, Fields

LEMMA TimeBegins ==
  ASSUME TimeInv, prog \notin {"sync", "set"}, chip'.mem = chip.mem,
         NEW t, NEW then \in {"sync", "set"}, clock_settime(t, then)
  PROVE  TimeInv' /\ time'.held = time.held /\ time'.torn = time.torn
<1>1. time' = Writing(time, t) /\ clock' = t /\ prog' = then
  BY DEF clock_settime
<1>2. Fields(time) /\ (time.torn \/ ClockOf(chip.mem) \in time.held)
  BY DEF TimeInv
<1>3. /\ Fields(time') /\ time'.writing = {t} /\ time'.held = time.held /\ time'.torn = time.torn
  BY <1>1, <1>2, WritingIs
<1> QED
  BY <1>1, <1>2, <1>3 DEF TimeInv, Fields

LEMMA TimeEnds ==
  ASSUME LinkInv, TimeInv, ClockInCalendar, prog \in {"sync", "set"}, i2c.pc = "done", chip'.mem = chip.mem,
         time' = Written(time), prog' \notin {"sync", "set"}
  PROVE  TimeInv'
<1>1. Fields(time) /\ time.writing = {clock}
  BY DEF TimeInv
<1>2. /\ Fields(time') /\ time'.writing = {}
      /\ i2c.ret = "done" => time'.held = {clock}
      /\ i2c.ret = "arb_lost" => time'.held = time.held /\ time'.torn = time.torn
      /\ i2c.ret \notin {"done", "arb_lost"} => time'.torn
  BY <1>1, WrittenIs
<1>3. time'.torn \/ ClockOf(chip.mem) \in time'.held
  <2>1. CASE i2c.ret = "done"
    BY <2>1, <1>2, ClockStored DEF ok
  <2>2. CASE i2c.ret = "arb_lost"
    BY <2>2, <1>2 DEF TimeInv, Storing
  <2>3. CASE i2c.ret \notin {"done", "arb_lost"}
    BY <2>3, <1>2
  <2> QED
    BY <2>1, <2>2, <2>3
<1> QED
  BY <1>2, <1>3 DEF TimeInv, Fields

\* a step of the program that is not about the record, or not about the time
LEMMA RecordRests ==
  ASSUME RecordInv, prog \notin {"write", "save"}, prog' \notin {"write", "save"},
         chip'.mem = chip.mem, record' = record
  PROVE  RecordInv'
BY DEF RecordInv, Fields

LEMMA TimeRests ==
  ASSUME TimeInv, prog \notin {"sync", "set"}, prog' \notin {"sync", "set"},
         chip'.mem = chip.mem, time' = time
  PROVE  TimeInv'
BY DEF TimeInv, Fields

LEMMA RestartsHistory ==
  ASSUME RecordInv, TimeInv, Restarts, chip'.mem = chip.mem
  PROVE  RecordInv' /\ TimeInv'
<1>1. record' = CutOff(record) /\ time' = CutOff(time) /\ prog' = "reset"
  BY DEF Restarts
<1>2. RecordInv'
  <2>1. Fields(record)
    BY DEF RecordInv
  <2>2. /\ Fields(record') /\ record'.writing = {}
        /\ record.writing = {} => record' = record
        /\ record.writing # {} => record'.torn
    BY <1>1, <2>1, CutOffIs
  <2>3. CASE prog \in {"write", "save"}
    BY <1>1, <2>2, <2>3 DEF RecordInv
  <2>4. CASE prog \notin {"write", "save"}
    BY <1>1, <2>2, <2>4 DEF RecordInv
  <2> QED
    BY <2>3, <2>4
<1>3. TimeInv'
  <2>1. Fields(time)
    BY DEF TimeInv
  <2>2. /\ Fields(time') /\ time'.writing = {}
        /\ time.writing = {} => time' = time
        /\ time.writing # {} => time'.torn
    BY <1>1, <2>1, CutOffIs
  <2>3. CASE prog \in {"sync", "set"}
    BY <1>1, <2>2, <2>3 DEF TimeInv
  <2>4. CASE prog \notin {"sync", "set"}
    BY <1>1, <2>2, <2>4 DEF TimeInv
  <2> QED
    BY <2>3, <2>4
<1> QED
  BY <1>2, <1>3

History == RecordInv /\ TimeInv

LEMMA ProgramHistory ==
  ASSUME LinkInv, History, ClockInCalendar, Program, chip'.mem = chip.mem
  PROVE  History'
<1> USE DEF History
<1>1. CASE Probe \/ Settings_read \/ ds1338z_getUnixTime
  <2>1. prog \in {"reset", "probe", "rtc_probe"} /\ prog' \in {"probe", "read", "rtc_get"}
        /\ record' = record /\ time' = time
    BY <1>1 DEF Probe, ds1338z_init, Settings_read, ds1338z_getUnixTime, Awaits
  <2> QED
    BY <2>1, RecordRests, TimeRests
<1>2. CASE Settings_init
  <2>1. PICK s : Settings_write(s, "write")
    BY <1>2 DEF Settings_init
  <2>2. prog \in {"probe", "read"} /\ prog' = "write" /\ time' = time
    BY <1>2, <2>1 DEF Settings_init, Awaits, Settings_write
  <2> QED
    BY <2>1, <2>2, RecordBegins, TimeRests
<1>3. CASE rtc_init
  <2>1. prog = "write" /\ i2c.pc = "done" /\ record' = Written(record) /\ time' = time /\ prog' = "rtc_probe"
    BY <1>3 DEF rtc_init, Awaits, ds1338z_init
  <2> QED
    BY <2>1, RecordEnds, TimeRests
<1>4. CASE Synchronise
  <2>1. PICK t : clock_settime(t, "sync")
    BY <1>4 DEF Synchronise
  <2>2. prog = "rtc_get" /\ prog' = "sync" /\ record' = record
    BY <1>4, <2>1 DEF Synchronise, Awaits, clock_settime
  <2> QED
    BY <2>1, <2>2, RecordRests, TimeBegins
<1>5. CASE Runs
  <2>1. i2c.pc = "done" /\ prog' = "running"
    BY <1>5 DEF Runs, Awaits
  <2>2. CASE prog \in {"rtc_probe", "rtc_get"} /\ record' = record /\ time' = time
    BY <2>1, <2>2, RecordRests, TimeRests
  <2>3. CASE prog \in {"sync", "set"} /\ time' = Written(time) /\ record' = record
    BY <2>1, <2>3, RecordRests, TimeEnds
  <2>4. CASE prog = "save" /\ record' = Written(record) /\ time' = time
    BY <2>1, <2>4, RecordEnds, TimeRests
  <2> QED
    BY <1>5, <2>2, <2>3, <2>4 DEF Runs, Awaits
<1> QED
  BY <1>1, <1>2, <1>3, <1>4, <1>5 DEF Program

LEMMA UsesHistory ==
  ASSUME LinkInv, History, Uses, chip'.mem = chip.mem
  PROVE  History'
<1> USE DEF History
<1>1. CASE Save
  <2>1. PICK s : Settings_write(s, "save")
    BY <1>1 DEF Save
  <2>2. prog = "running" /\ prog' = "save" /\ time' = time
    BY <1>1, <2>1 DEF Save, Settings_write
  <2> QED
    BY <2>1, <2>2, RecordBegins, TimeRests
<1>2. CASE SetClock
  <2>1. PICK t : clock_settime(t, "set")
    BY <1>2 DEF SetClock
  <2>2. prog = "running" /\ prog' = "set" /\ record' = record
    BY <1>2, <2>1 DEF SetClock, clock_settime
  <2> QED
    BY <2>1, <2>2, RecordRests, TimeBegins
<1> QED
  BY <1>1, <1>2 DEF Uses

LEMMA LostNotStoring ==
  ASSUME LinkInv, ArbitrationLost
  PROVE  ~Storing /\ i2c'.pc = "done"
<1>1. i2c.pc \in {"start", "restart"} /\ i2c' = Ends("arb_lost") /\ i2c \in Transfers
  BY DEF ArbitrationLost, Refused, LinkInv, TransferType
<1> QED
  BY <1>1 DEF Storing, Ends, Goes, Transfers

LEMMA NextHistory ==
  ASSUME LinkInv, History, ClockInCalendar, ClockInCalendar', [Next]_vars
  PROVE  History'
<1> USE DEF History
<1>1. LinkInv' /\ Stores
  BY NextLink
<1>2. CASE GoesOn
  <2>1. disturbed' = disturbed /\ (Program \/ Bus)
    BY <1>2 DEF GoesOn
  <2>2. CASE Program
    <3>1. chip'.mem = chip.mem
      BY <2>1, <2>2, ProgramStep
    <3> QED
      BY <2>2, <3>1, ProgramHistory
  <2>3. CASE Bus
    <3>1. UNCHANGED <<program, record, time>>
      BY <2>3 DEF Bus
    <3>2. Storing => Storing'
      BY <2>3, StoringKept, LostNotStoring DEF Bus
    <3> QED
      BY <1>1, <3>1, <3>2, BusKeepsRecord, BusKeepsTime
  <2> QED
    BY <2>1, <2>2, <2>3
<1>3. CASE Uses
  <2>1. chip'.mem = chip.mem
    BY <1>3, SaveStep, SetClockStep DEF Uses
  <2> QED
    BY <1>3, <2>1, UsesHistory
<1>4. CASE Noise
  <2>1. BusStep(FALSE) /\ UNCHANGED <<program, record, time>>
    BY <1>4 DEF Noise
  <2> QED
    BY <1>1, <2>1, StoringKept, BusKeepsRecord, BusKeepsTime
<1>5. CASE Restart \/ PowerCut
  <2>1. chip'.mem = chip.mem /\ Restarts
    BY <1>5, RestartsStep DEF Restart, PowerCut
  <2> QED
    BY <2>1, RestartsHistory
<1>6. CASE UNCHANGED vars
  <2>1. /\ chip' = chip /\ i2c' = i2c /\ prog' = prog /\ settings' = settings
        /\ clock' = clock /\ record' = record /\ time' = time
    BY <1>6 DEF vars, lines, program
  <2> QED
    BY <2>1 DEF RecordInv, TimeInv, Fields, Storing
<1> QED
  BY <1>2, <1>3, <1>4, <1>5, <1>6 DEF Next

LEMMA InitHistory == Init => History
<1> SUFFICES ASSUME Init PROVE History
  OBVIOUS
<1>1. PICK c \in Scenarios :
        /\ chip = [state |-> "idle", n |-> 0, shift |-> 0, ptr |-> 0, sda |-> 1, mem |-> c.mem]
        /\ record = [Untouched(RecordOf(c.mem)) EXCEPT !.torn = ~S!verify_settings_crc32(RecordOf(c.mem))]
        /\ time = Untouched(CivilTime(ChipDate(ClockRegs(c.mem))))
  BY DEF Init
<1>5. CivilTime(ChipDate(ClockRegs(c.mem))) = ClockOf(c.mem)
  <2>1. c.mem \in [DOMAIN c.mem -> Byte] /\ ClockCells \subseteq DOMAIN c.mem
        /\ OnCalendar(ChipDate(ClockRegs(c.mem)))
    BY BoardAssumption DEF ClockRegs
  <2>2. ClockRegs(c.mem) \in [1..7 -> Byte]
    BY <2>1 DEF ClockRegs, ClockCells
  <2> QED
    BY <2>1, <2>2, DateRead DEF ClockOf
<1>2. prog = "reset" /\ chip.mem = c.mem
  BY <1>1 DEF Init
<1>3. record.held = {RecordOf(c.mem)} /\ record.writing = {} /\ Fields(record)
  BY <1>1 DEF Untouched, Fields
<1>4. time.held = {ClockOf(c.mem)} /\ time.writing = {} /\ Fields(time)
  BY <1>1, <1>5 DEF Untouched, Fields
<1> QED
  BY <1>2, <1>3, <1>4 DEF History, RecordInv, TimeInv

\* The cells hold a record, and a time, of the history's - except while a write
\* stores them, and after one was cut off.
THEOREM Histories == Spec /\ []ClockInCalendar => []History
<1>1. Init => History
  BY InitHistory
<1>2. LinkInv /\ History /\ ClockInCalendar /\ ClockInCalendar' /\ [Next]_vars => History'
  BY NextHistory
<1> QED
  BY <1>1, <1>2, Agreement, PTL DEF Spec

-----------------------------------------------------------------------------
(* What a start takes from the chip *)

\* without the cells, the start keeps what it had: nothing
LEMMA FailedRead ==
  ASSUME LinkInv, i2c.pc = "done", ~ok
  PROVE  "noise" \in disturbed \/ ("restart" \in disturbed /\ chip.sda = 0)
BY DEF LinkInv, QuietInv, TransferType, Transfers, ok

LEMMA StartTakes ==
  ASSUME LinkInv, History, ChecksumTells, Settings_init, disturbed' = disturbed
  PROVE  SettingsSurvive'
<1> DEFINE read == IF prog = "read" /\ ok THEN S!Record(i2c.data) ELSE settings
           s == S!Settings_validate(read, S!Settings_defaults)
<1>1. /\ Settings_write(s, "write") /\ i2c.pc = "done" /\ UNCHANGED lines
      /\ prog = "read" \/ (prog = "probe" /\ ~ok)
  BY DEF Settings_init, Awaits
<1>2. settings' = s /\ record'.held = record.held /\ record'.torn = record.torn
  <2>1. record' = Writing(record, s) /\ settings' = s /\ Fields(record)
    BY <1>1 DEF Settings_write, History, RecordInv
  <2> QED
    BY <2>1, WritingIs
<1>3. chip' = chip /\ sda' = sda /\ sda = 1
  BY <1>1, QuietNow DEF lines
<1>4. record.torn \/ RecordOf(chip.mem) \in record.held
  BY <1>1 DEF History, RecordInv
<1>5. CASE prog = "read" /\ ok
  <2>1. read = RecordOf(chip.mem)
    <3>1. i2c.op = "read" /\ i2c.base = NVRAM /\ i2c.n = 7
      BY <1>5 DEF LinkInv, ProgramInv
    <3>2. i2c.data = Cells(NVRAM, 7)
      BY <1>1, <1>5, <3>1, ReadData
    <3> QED
      BY <1>5, <3>2 DEF Cells, RecordOf
  <2> HIDE DEF read
  <2>2. CASE RecordOf(chip.mem) \in record.held
    BY <1>2, <2>1, <2>2 DEF SettingsSurvive
  <2>3. CASE record.torn /\ S!verify_settings_crc32(RecordOf(chip.mem))
    <3>1. RecordOf(chip.mem) \in record.held
      BY <1>1, <1>5, <2>3 DEF ChecksumTells
    <3> QED
      BY <2>2, <3>1
  <2>4. CASE record.torn /\ ~S!verify_settings_crc32(RecordOf(chip.mem))
    <3>1. s = S!Settings_defaults
      BY <2>1, <2>4, InvalidDefaults
    <3> QED
      BY <1>2, <2>4, <3>1 DEF SettingsSurvive
  <2> QED
    BY <1>4, <2>2, <2>3, <2>4
<1>6. CASE ~ok
  <2>1. read = settings /\ settings = S!Zeroed
    BY <1>1, <1>6 DEF LinkInv, ProgramInv
  <2> HIDE DEF read
  <2>2. s = S!Settings_defaults
    BY <2>1, ZeroedWrong, InvalidDefaults
  <2>3. "noise" \in disturbed \/ ("restart" \in disturbed /\ chip.sda = 0)
    BY <1>1, <1>6, FailedRead
  <2> QED
    BY <1>2, <1>3, <2>2, <2>3 DEF SettingsSurvive, SDA_STATUS
<1> QED
  BY <1>1, <1>5, <1>6

\* the start condition goes on as long as nobody holds the line
LEMMA StartGoesOn ==
  ASSUME LinkInv, SettingsSurvive, BusStep(TRUE) \/ BusStep(FALSE) \/ ArbitrationLost,
         UNCHANGED <<program, record>>, disturbed \subseteq disturbed'
  PROVE  SettingsSurvive'
<1>1. SUFFICES ASSUME prog = "write", i2c'.pc = "start" PROVE SettingsSurvive'
  BY DEF SettingsSurvive, program
<1>2. i2c.pc = "start" /\ chip.sda # 0
  BY <1>1, StoringKept, LostNotStoring
<1>3. SDA_STATUS # 0
  BY <1>1, <1>2 DEF LinkInv, QuietInv, SDA_STATUS
<1>4. \/ settings \in {S!Settings_validate(s, S!Settings_defaults) : s \in record.held}
      \/ settings = S!Settings_defaults /\ (record.torn \/ "noise" \in disturbed)
  BY <1>1, <1>2, <1>3 DEF SettingsSurvive
<1>5. settings' = settings /\ record' = record
  BY DEF program
<1> QED
  BY <1>4, <1>5 DEF SettingsSurvive

LEMMA NextSurvives ==
  ASSUME LinkInv, History, ChecksumTells, SettingsSurvive, [Next]_vars
  PROVE  SettingsSurvive'
<1>1. CASE GoesOn
  <2>1. disturbed' = disturbed /\ (Program \/ Bus)
    BY <1>1 DEF GoesOn
  <2>2. CASE Settings_init
    BY <2>1, <2>2, StartTakes
  <2>3. CASE Bus
    BY <2>1, <2>3, StartGoesOn DEF Bus
  <2>4. CASE Probe \/ Settings_read \/ rtc_init \/ ds1338z_getUnixTime \/ Synchronise \/ Runs
    <3>1. prog' # "write"
      BY <2>4 DEF Probe, ds1338z_init, Settings_read, rtc_init, ds1338z_getUnixTime, Synchronise, clock_settime, Runs
    <3> QED
      BY <3>1 DEF SettingsSurvive
  <2> QED
    BY <2>1, <2>2, <2>3, <2>4 DEF Program
<1>2. CASE Uses
  <2>1. prog' # "write"
    BY <1>2 DEF Uses, Save, SetClock, Settings_write, clock_settime
  <2> QED
    BY <2>1 DEF SettingsSurvive
<1>3. CASE Noise
  BY <1>3, StartGoesOn DEF Noise
<1>4. CASE Restart \/ PowerCut
  <2>1. prog' # "write"
    BY <1>4 DEF Restart, PowerCut, Restarts
  <2> QED
    BY <2>1 DEF SettingsSurvive
<1>5. CASE UNCHANGED vars
  BY <1>5 DEF vars, lines, program, SettingsSurvive, SDA_STATUS
<1> QED
  BY <1>1, <1>2, <1>3, <1>4, <1>5 DEF Next

\* SettingsSurvive: Settings_init gives the program the record saved last, or the
\* defaults when that cannot be read, for any chip and any number of mishaps, as
\* long as the checksum tells a record of which only a part was written.
THEOREM SettingsAreKept == Spec /\ []ClockInCalendar /\ []ChecksumTells => []SettingsSurvive
<1>1. Init => SettingsSurvive
  BY DEF Init, SettingsSurvive
<1>2. LinkInv /\ History /\ ChecksumTells /\ SettingsSurvive /\ [Next]_vars => SettingsSurvive'
  BY NextSurvives
<1> QED
  BY <1>1, <1>2, Agreement, Histories, PTL DEF Spec

-----------------------------------------------------------------------------
(* What a start makes of the time *)

LEMMA StartSynchronises ==
  ASSUME LinkInv, History, Synchronise
  PROVE  Synchronised'
<1>1. PICK t \in {Later(UnixTime(RawOf(i2c.data)), BULD_TIMESTAMP)} : clock_settime(t, "sync")
  BY DEF Synchronise
<1>2. prog = "rtc_get" /\ i2c.pc = "done" /\ ok
  BY DEF Synchronise, Awaits
<1>3. clock' = Later(ClockOf(chip.mem), BULD_TIMESTAMP)
  <2>1. i2c.op = "read" /\ i2c.base = 0 /\ i2c.n = 7
    BY <1>2 DEF LinkInv, ProgramInv
  <2>2. i2c.data = Cells(0, 7)
    BY <1>2, <2>1, ReadData
  <2>3. Cells(0, 7) = [i \in 1..7 |-> chip.mem[i - 1]]
    BY DEF Cells
  <2> QED
    BY <1>1, <2>2, <2>3 DEF clock_settime, ClockOf, ClockRegs
<1>4. time'.held = time.held /\ time'.torn = time.torn
  <2>1. time' = Writing(time, t) /\ Fields(time)
    BY <1>1 DEF clock_settime, History, TimeInv
  <2> QED
    BY <2>1, WritingIs
<1>5. time.torn \/ ClockOf(chip.mem) \in time.held
  BY <1>2 DEF History, TimeInv
<1> QED
  BY <1>3, <1>4, <1>5 DEF Synchronised

LEMMA NextSynchronised ==
  ASSUME LinkInv, History, Synchronised, [Next]_vars
  PROVE  Synchronised'
<1>1. CASE Synchronise
  BY <1>1, StartSynchronises
<1>2. CASE Bus \/ Noise
  <2>1. prog' = prog /\ clock' = clock /\ time' = time
    BY <1>2 DEF Bus, Noise, program
  <2>2. i2c'.pc = "start" => i2c.pc = "start"
    BY <1>2, StoringKept, LostNotStoring DEF Bus, Noise
  <2> QED
    BY <2>1, <2>2 DEF Synchronised
<1>3. CASE Probe \/ Settings_read \/ Settings_init \/ rtc_init \/ ds1338z_getUnixTime \/ Runs
           \/ Uses \/ Restart \/ PowerCut
  <2>1. prog' # "sync"
    BY <1>3 DEF Probe, ds1338z_init, Settings_read, Settings_init, Settings_write, rtc_init, ds1338z_getUnixTime, Runs,
                Uses, Save, SetClock, clock_settime, Restart, PowerCut, Restarts
  <2> QED
    BY <2>1 DEF Synchronised
<1>4. CASE UNCHANGED vars
  BY <1>4 DEF vars, lines, program, Synchronised
<1> QED
  BY <1>1, <1>2, <1>3, <1>4 DEF Next, GoesOn, Program

\* ClockKept: rtc_init takes the time of the chip; after a clock_settime without an
\* error the chip's own calendar says what was set, unless it is the first second of a
\* month other than January; and every time below 2099 converts there and back.
THEOREM TimeIsKept == Spec /\ []ClockInCalendar => []ClockKept
<1>1. Init => Synchronised
  BY DEF Init, Synchronised
<1>2. LinkInv /\ History /\ Synchronised /\ [Next]_vars => Synchronised'
  BY NextSynchronised
<1>3. LinkInv /\ ClockInCalendar /\ Synchronised => ClockKept
  <2> SUFFICES ASSUME LinkInv, ClockInCalendar, Synchronised PROVE ClockKept
    OBVIOUS
  <2>1. prog \in {"sync", "set"} /\ i2c.pc = "done" /\ ok => Says(ChipDate(ClockRegs(chip.mem)), clock)
    BY ClockStored
  <2>2. ASSUME NEW t \in Dates, NEW dow \in Garbage
        PROVE  /\ Says(ChipDate(Registers(RawClock(t, dow))), t)
               /\ UnixTime(RawOf(Registers(RawClock(t, dow)))) = t
    BY BoardAssumption, ClockRegisters
  <2> QED
    BY <2>1, <2>2 DEF ClockKept, Synchronised
<1> QED
  BY <1>1, <1>2, <1>3, Agreement, Histories, PTL DEF Spec

-----------------------------------------------------------------------------
(* The transmitter *)

LEMMA InitIInv == TxInit => IInv
<1> SUFFICES ASSUME TxInit PROVE IInv
  OBVIOUS
<1>1. <<>> \in Seq(Words) /\ <<>> \in Seq(Seq(Words))
  BY EmptySeq
<1>2. wire \in Seq(Words) /\ sent \in Seq(Seq(Words))
  BY <1>1 DEF TxInit
<1>3. mem \in [Lengths -> Words] /\ tx_busy \in [{1, 2} -> BOOLEAN]
  BY DEF TxInit, Words
<1>4. TypeOK
  <2>1. /\ tx_counter \in 0..MaxWords /\ tx_write \in 0..MaxWords /\ tx_done \in 0..4
        /\ mem_tx_addr \in Nat \ {0} /\ frame \in 0..MaxFrames /\ size \in 0..MaxWords
        /\ txPointer \in 1..(MaxWords + 1)
    BY NicTxAssumption DEF TxInit
  <2>2. tx_en \in BOOLEAN /\ sending_preamble \in BOOLEAN
    BY DEF TxInit
  <2>3. pc \in {"idle", "ask", "setup", "fill", "wait"}
    BY DEF TxInit
  <2> QED
    BY <2>1, <2>2, <2>3, <1>2, <1>3 DEF TypeOK
<1>5. DriverInv
  BY DEF TxInit, DriverInv, InFlight, tx_valid
<1>6. BusInv
  BY DEF TxInit, BusInv, tx_valid
<1>7. EngineInv
  BY DEF TxInit, EngineInv, tx_valid
<1> QED
  BY <1>4, <1>5, <1>6, <1>7 DEF IInv

LEMMA CallIInv == ASSUME IInv, Callers = {"udp"}, NEW c \in Callers, Call(c) PROVE IInv'
BY DEF Call, IInv, TypeOK, DriverInv, BusInv, EngineInv, InFlight, tx_valid, engine, bus

LEMMA RefusedIInv == ASSUME IInv, NotReady PROVE IInv'
BY DEF NotReady, IInv, TypeOK, DriverInv, BusInv, EngineInv, InFlight, tx_valid, engine, bus

LEMMA SetupIInv == ASSUME IInv, NEW n \in Lengths, nic_setup_tx(n) PROVE IInv'
BY NicTxAssumption DEF nic_setup_tx, nic_ok_to_do_tx, IInv, TypeOK, DriverInv, BusInv, EngineInv, InFlight,
       tx_valid, engine, bus, Lengths

LEMMA FillIInv == ASSUME IInv, Fill PROVE IInv'
BY NicTxAssumption DEF Fill, IInv, TypeOK, DriverInv, BusInv, EngineInv, InFlight, tx_valid, engine, bus, Lengths, Words

LEMMA StartIInv == ASSUME IInv, nic_tx_packet PROVE IInv'
BY NicTxAssumption DEF nic_tx_packet, IInv, TypeOK, DriverInv, BusInv, EngineInv, InFlight, tx_valid, engine, Lengths

LEMMA AcknowledgeIInv == ASSUME IInv, Acknowledge PROVE IInv'
BY DEF Acknowledge, IInv, TypeOK, DriverInv, BusInv, EngineInv, InFlight, tx_valid, engine

LEMMA SysEdgeIInv == ASSUME IInv, SysEdge PROVE IInv'
<1>1. PICK seen \in {tx_valid, tx_busy[1]} :
        /\ tx_busy' = [tx_busy EXCEPT ![1] = seen, ![2] = tx_busy[1]]
        /\ tx_done # 1 => seen = tx_valid
  BY DEF SysEdge
<1>2. tx_valid \in BOOLEAN /\ tx_busy \in [{1, 2} -> BOOLEAN]
  BY DEF tx_valid, IInv, TypeOK
<1>3. seen \in BOOLEAN /\ tx_busy' \in [{1, 2} -> BOOLEAN]
  BY <1>1, <1>2
<1>4. tx_busy'[1] = seen /\ tx_busy'[2] = tx_busy[1]
  BY <1>1, <1>2
<1>5. /\ UNCHANGED <<tx_counter, tx_en, sending_preamble, mem_tx_addr, wire, sent, mem, tx_write>>
      /\ UNCHANGED <<pc, frame, size, txPointer>>
      /\ tx_done' = IF tx_done \in 1..3 THEN tx_done + 1 ELSE tx_done
  BY DEF SysEdge, engine, driver
<1>6. TypeOK'
  BY <1>3, <1>5 DEF IInv, TypeOK
<1>7. DriverInv' /\ EngineInv'
  BY <1>5 DEF IInv, DriverInv, EngineInv, InFlight, tx_valid
<1>8. BusInv'
  <2>1. tx_valid' = tx_valid
    BY <1>5 DEF tx_valid
  <2>2. tx_valid /\ tx_done # 1 => tx_busy'[1]
    BY <1>1, <1>4, Zenon
  <2>3. tx_valid /\ tx_done' >= 3 => tx_busy'[1]
    BY <2>2, <1>5 DEF IInv, TypeOK
  <2>4. tx_valid /\ tx_done' = 4 => tx_busy[1]
    BY <1>5 DEF IInv, TypeOK, BusInv
  <2>5. tx_valid /\ tx_done' = 4 => tx_busy'[2]
    BY <2>4, <1>4, Zenon
  <2>6. pc \in {"idle", "ask"} => tx_done = 0
    BY DEF IInv, BusInv
  <2>7. tx_valid /\ pc \in {"idle", "ask"} => tx_busy'[1]
    BY <2>2, <2>6
  <2>8. tx_valid /\ pc \in {"idle", "ask"} => tx_busy[1]
    BY DEF IInv, BusInv
  <2>9. tx_valid /\ pc \in {"idle", "ask"} => tx_busy'[2]
    BY <2>8, <1>4, Zenon
  <2>10. /\ tx_write' # 0 => pc' = "wait" /\ tx_done' = 0 /\ tx_write' = size' /\ ~tx_valid
         /\ pc' = "wait" /\ tx_done' = 0 => tx_write' # 0
         /\ tx_done' # 0 => pc' = "wait"
    BY <1>5 DEF IInv, TypeOK, BusInv
  <2> QED
    BY <1>5, <2>1, <2>3, <2>5, <2>7, <2>9, <2>10 DEF BusInv
<1> QED
  BY <1>6, <1>7, <1>8 DEF IInv

LEMMA WriteCounterIInv == ASSUME IInv, WriteCounter PROVE IInv'
BY DEF WriteCounter, IInv, TypeOK, DriverInv, BusInv, EngineInv, InFlight, tx_valid, driver, Lengths

LEMMA StartPreambleIInv == ASSUME IInv, StartPreamble PROVE IInv'
BY DEF StartPreamble, IInv, TypeOK, DriverInv, BusInv, EngineInv, InFlight, tx_valid, driver, bus

\* the word read from the buffer is the next word of the frame
LEMMA NextRead ==
  ASSUME IInv, tx_en, ~sending_preamble \/ mem_tx_addr = 1, NEW a \in 1..size
  PROVE  Read(a) = <<frame, a>> /\ Read(a) \in Words
BY NicTxAssumption DEF IInv, TypeOK, DriverInv, EngineInv, InFlight, tx_valid, Read, Lengths, Words

LEMMA EndPreambleIInv == ASSUME IInv, EndPreamble PROVE IInv'
<1>1. /\ tx_en /\ tx_valid /\ mem_tx_addr = 1 /\ wire = <<>> /\ tx_counter = size
      /\ size \in Lengths /\ size \in Nat /\ size >= 1
  BY NicTxAssumption
     DEF EndPreamble, IInv, TypeOK, DriverInv, EngineInv, InFlight, tx_valid, Lengths
<1>2. Read(1) = <<frame, 1>> /\ Read(1) \in Words
  BY <1>1, NextRead
<1>3. /\ wire' \in Seq(Words) /\ Len(wire') = 1 /\ wire'[1] = <<frame, 1>>
  BY <1>1, <1>2, AppendProperties, EmptySeq DEF EndPreamble, IInv, TypeOK
<1>4. TypeOK'
  BY <1>3 DEF EndPreamble, IInv, TypeOK, bus, driver
<1>5. DriverInv' /\ BusInv'
  BY DEF EndPreamble, IInv, DriverInv, BusInv, InFlight, tx_valid, bus, driver
<1>6. EngineInv'
  BY <1>1, <1>3 DEF EndPreamble, IInv, TypeOK, EngineInv, tx_valid, bus, driver
<1> QED
  BY <1>4, <1>5, <1>6 DEF IInv

\* no write is on its way while a frame goes out, so none is lost
LEMMA NoWriteLost == ASSUME IInv, tx_valid, MayLoseWrite PROVE UNCHANGED bus
BY DEF IInv, TypeOK, BusInv, MayLoseWrite, bus

LEMMA NextWordIInv == ASSUME IInv, NextWord PROVE IInv'
<1>1. /\ tx_valid /\ UNCHANGED bus
      /\ tx_counter + mem_tx_addr = size + 1 /\ Len(wire) = mem_tx_addr
      /\ size \in Lengths /\ size \in Nat /\ mem_tx_addr + 1 \in 1..size
  BY NoWriteLost, NicTxAssumption
     DEF NextWord, IInv, TypeOK, DriverInv, EngineInv, InFlight, tx_valid, Lengths
<1>2. Read(mem_tx_addr + 1) = <<frame, mem_tx_addr + 1>> /\ Read(mem_tx_addr + 1) \in Words
  BY <1>1, NextRead DEF NextWord
<1>3. /\ wire' \in Seq(Words) /\ Len(wire') = Len(wire) + 1
      /\ \A k \in 1..Len(wire) : wire'[k] = wire[k]
      /\ wire'[Len(wire) + 1] = <<frame, mem_tx_addr + 1>>
  BY <1>2, AppendProperties DEF NextWord, IInv, TypeOK
<1>4. TypeOK'
  <2>1. UNCHANGED <<tx_write, tx_done, tx_en, sending_preamble, sent, mem, tx_busy, pc, frame, size,
                    txPointer>>
    BY <1>1 DEF NextWord, bus, driver
  <2>2. tx_counter \in 0..MaxWords /\ mem_tx_addr \in Nat \ {0}
    BY DEF IInv, TypeOK
  <2>3. tx_counter' \in 0..MaxWords /\ mem_tx_addr' \in Nat \ {0}
    BY <2>2, NicTxAssumption DEF NextWord
  <2> QED
    BY <2>1, <2>3, <1>3 DEF IInv, TypeOK
<1>5. DriverInv' /\ BusInv'
  <2>1. tx_valid /\ tx_valid'
    <3>1. tx_counter \in 0..MaxWords
      BY DEF IInv, TypeOK
    <3> QED
      BY <3>1, NicTxAssumption DEF NextWord, tx_valid
  <2>2. UNCHANGED <<tx_write, tx_done, tx_busy, mem, pc, frame, size, txPointer>>
    BY <1>1 DEF NextWord, bus, driver
  <2>3. DriverInv'
    BY <2>1, <2>2 DEF IInv, DriverInv, InFlight
  <2>4. BusInv'
    <3>1. tx_valid' = TRUE /\ tx_valid = TRUE /\ tx_busy' = tx_busy
      BY <2>1, <2>2 DEF tx_valid
    <3> QED
      BY <3>1, <2>2 DEF IInv, BusInv
  <2> QED
    BY <2>3, <2>4
<1>6. \A k \in 1..Len(wire') : wire'[k] = <<frame, k>>
  BY <1>1, <1>3 DEF NextWord, IInv, TypeOK, EngineInv
<1>7. EngineInv'
  BY <1>1, <1>3, <1>6 DEF NextWord, IInv, TypeOK, EngineInv, tx_valid, bus, driver
<1> QED
  BY <1>4, <1>5, <1>7 DEF IInv

\* what has gone out with the last word is the whole frame
LEMMA WholeFrame ==
  ASSUME IInv, tx_en, ~sending_preamble, tx_counter = 1
  PROVE  wire = Frame(frame, size) /\ frame \in 1..MaxFrames /\ size \in Lengths
<1>1. /\ frame \in 1..MaxFrames /\ size \in Lengths /\ size \in Nat
      /\ wire \in Seq(Words) /\ Len(wire) = size
      /\ \A k \in 1..size : wire[k] = <<frame, k>>
  BY NicTxAssumption DEF IInv, TypeOK, DriverInv, EngineInv, InFlight, tx_valid, Lengths
<1>2. wire = [k \in 1..size |-> wire[k]]
  BY <1>1, LenProperties
<1> QED
  BY <1>1, <1>2 DEF Frame

LEMMA LastWordIInv == ASSUME IInv, LastWord PROVE IInv'
<1>1. tx_valid /\ UNCHANGED bus
  BY NoWriteLost DEF LastWord, tx_valid
<1>2. sent' \in Seq(Seq(Words)) /\ wire' \in Seq(Words)
  BY AppendProperties, EmptySeq DEF LastWord, IInv, TypeOK
<1>3. TypeOK'
  <2>1. /\ tx_counter' = 0 /\ tx_en' = FALSE /\ mem_tx_addr' = 1
        /\ UNCHANGED <<tx_write, tx_done, sending_preamble, mem, tx_busy, pc, frame, size, txPointer>>
    BY <1>1 DEF LastWord, bus, driver
  <2>2. 0 \in 0..MaxWords /\ 1 \in Nat \ {0}
    BY NicTxAssumption
  <2> QED
    BY <2>1, <2>2, <1>2 DEF IInv, TypeOK
<1> QED
  BY <1>1, <1>3 DEF LastWord, IInv, TypeOK, DriverInv, BusInv, EngineInv, InFlight, tx_valid, bus, driver

LEMMA NextIInv == ASSUME Callers = {"udp"}, IInv, [TxNext]_txVars PROVE IInv'
<1>1. CASE UNCHANGED txVars
  BY <1>1 DEF txVars, engine, bus, driver, IInv, TypeOK, DriverInv, BusInv, EngineInv, InFlight, tx_valid
<1>2. CASE TxNext
  BY <1>2, CallIInv, RefusedIInv, SetupIInv, FillIInv, StartIInv, AcknowledgeIInv, SysEdgeIInv,
     WriteCounterIInv, StartPreambleIInv, EndPreambleIInv, NextWordIInv, LastWordIInv
  DEF TxNext, Engine
<1> QED
  BY <1>1, <1>2

(***************************************************************************)
(* The invariant holds of every behaviour.                                 *)
(***************************************************************************)
THEOREM Invariance == ASSUME Callers = {"udp"} PROVE TxSpec => []IInv
<1>1. TxInit => IInv
  BY InitIInv
<1>2. IInv /\ [TxNext]_txVars => IInv'
  BY NextIInv
<1> QED
  BY <1>1, <1>2, PTL DEF TxSpec

(***************************************************************************)
(* nic_ok_to_do_tx tells the truth whenever the driver can ask: a frame    *)
(* just started is never taken for one that has gone out, although flag    *)
(* and write cross the clock domains separately.                           *)
(***************************************************************************)
THEOREM ReadyIsAlwaysTrue == ASSUME Callers = {"udp"} PROVE TxSpec => []ReadyIsTrue
<1>1. IInv => ReadyIsTrue
  BY DEF IInv, BusInv, ReadyIsTrue, nic_ok_to_do_tx
<1> QED
  BY <1>1, Invariance, PTL

-----------------------------------------------------------------------------
(* The transmitter implements the port of whole frames *)

PortCurrent == IF InFlight THEN {Frame(frame, size)} ELSE {}
PortFrames  == {Frame(f, n) : f \in 1..MaxFrames, n \in Lengths}

\* every step that leaves the frame in flight, or none, is invisible to the port
LEMMA Stutters ==
  ASSUME InFlight' = InFlight, InFlight => UNCHANGED <<frame, size>>, UNCHANGED sent
  PROVE  UNCHANGED <<PortCurrent, sent>>
BY DEF PortCurrent

LEMMA PortStep ==
  ASSUME Callers = {"udp"}, IInv, IInv', [TxNext]_txVars
  PROVE  [Port!Next]_<<PortCurrent, sent>>
<1> USE DEF PortCurrent, PortFrames
<1>1. CASE nic_tx_packet
  <2>1. /\ ~InFlight /\ InFlight' /\ UNCHANGED <<frame, size, sent>>
        /\ Frame(frame, size) \in PortFrames
    BY <1>1, NicTxAssumption
       DEF nic_tx_packet, IInv, TypeOK, DriverInv, InFlight, tx_valid, engine, Lengths
  <2>2. Port!Offer(Frame(frame, size))
    BY <2>1 DEF Port!Offer, InFlight, Frame
  <2> QED
    BY <2>1, <2>2 DEF Port!Next
<1>2. CASE LastWord
  <2>1. /\ InFlight /\ ~InFlight' /\ sent' = Append(sent, Frame(frame, size))
        /\ Frame(frame, size) \in PortFrames
    BY <1>2, WholeFrame, NoWriteLost
       DEF LastWord, IInv, TypeOK, BusInv, InFlight, tx_valid, bus
  <2>2. Port!Transmit(Frame(frame, size))
    BY <2>1 DEF Port!Transmit, InFlight
  <2> QED
    BY <2>1, <2>2 DEF Port!Next
<1>3. CASE WriteCounter \/ NextWord
  <2>1. InFlight' = InFlight /\ UNCHANGED <<frame, size, sent>>
    BY <1>3, NoWriteLost
       DEF WriteCounter, NextWord, IInv, TypeOK, InFlight, tx_valid, driver, bus
  <2> QED
    BY <2>1, Stutters
<1>4. ASSUME NEW n \in Lengths, nic_setup_tx(n) PROVE UNCHANGED <<PortCurrent, sent>>
  <2>1. ~InFlight /\ ~InFlight' /\ UNCHANGED sent
    BY <1>4 DEF nic_setup_tx, nic_ok_to_do_tx, IInv, DriverInv, BusInv, InFlight, tx_valid, engine, bus
  <2> QED
    BY <2>1, Stutters
<1>5. CASE UNCHANGED txVars \/ NotReady \/ Fill \/ Acknowledge \/ SysEdge \/ StartPreamble
           \/ EndPreamble \/ \E c \in Callers : Call(c)
  <2>1. UNCHANGED <<tx_write, tx_counter, frame, size, sent>>
    BY <1>5 DEF txVars, NotReady, Fill, Acknowledge, SysEdge, StartPreamble, EndPreamble, Call,
                engine, bus, driver
  <2> QED
    BY <2>1, Stutters DEF InFlight, tx_valid
<1> QED
  BY <1>1, <1>2, <1>3, <1>4, <1>5 DEF TxNext, Engine

(***************************************************************************)
(* The safety half of SendsFrames: whatever the driver, the two clocks and *)
(* the synchronisers do, frames go out whole, once and in order.           *)
(***************************************************************************)
THEOREM SendsWholeFrames ==
  ASSUME Callers = {"udp"}
  PROVE  TxSpec => Port!Init /\ [][Port!Next]_<<PortCurrent, sent>>
<1>1. TxInit => Port!Init
  BY DEF TxInit, Port!Init, InFlight, tx_valid, PortCurrent
<1>2. IInv /\ IInv' /\ [TxNext]_txVars => [Port!Next]_<<PortCurrent, sent>>
  BY PortStep
<1> QED
  BY <1>1, <1>2, Invariance, PTL DEF TxSpec
=============================================================================
