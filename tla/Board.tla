-------------------------------- MODULE Board --------------------------------
(***************************************************************************)
(* What survives a power cut: the settings record and the clock, kept in   *)
(* one chip, read, repaired and written back at each start (Settings_init, *)
(* then rtc_init) and written by the program later on.  The processor may  *)
(* be restarted, which leaves the lines and the chip as they are, and the  *)
(* power cut, which leaves only the chip's cells, before any step.         *)
(***************************************************************************)
EXTENDS I2c, Calendar

CONSTANTS
  Defaults, REFERENCE_FREQ_MIN, REFERENCE_FREQ_MAX,     \* see Settings
  BULD_TIMESTAMP,          \* in seconds from 2000 on
  Saved,                   \* what the program may save: records, their checksums to be computed
  Times,                   \* and the times it may set
  Dates,                   \* times to convert there and back
  Garbage,                 \* what the unset day of the week may be
  Scenarios                \* what the chip holds at first, and bounds: on mishaps - restarts, power
                           \* cuts, acknowledgements lost to noise - and on what is saved and set

S == INSTANCE Settings

DS_1338Z_NVRAM_BASE == 8
DS1338Z_NVRAM_START == 8
NVRAM == DS1338Z_NVRAM_START + DS_1338Z_NVRAM_BASE    \* both are added
RecordCells == NVRAM..NVRAM + 6
ClockCells  == 0..6

Byte    == 0..255
Records == [IP_addr : Byte, IP_mask : Byte, IP_gateway : Byte, MAC_ADDR : Byte, DHCP : Byte,
            ReferenceFrequency : Byte, CRC32 : Byte]

\* what Calendar converts
InCalendar(t) == t \in Nat /\ t \div DAY < DaysBeforeYear[99]

ASSUME BoardAssumption ==
  /\ DS1338Z_I2C_ADDR \in 0..127
  /\ Defaults \in Records /\ Saved \subseteq Records
  /\ Garbage \subseteq Byte /\ \A t \in Dates : InCalendar(t)
  /\ \A c \in Scenarios : /\ c.mem \in [DOMAIN c.mem -> Byte]
                          /\ ClockCells \cup RecordCells \subseteq DOMAIN c.mem
                          /\ OnCalendar(ChipDate([i \in 1..7 |-> c.mem[i - 1]]))

VARIABLES
  prog,              \* where the program is
  settings, clock,   \* its settings and its clock, in seconds
  record, time,      \* history: what the chip should hold, see Untouched
  disturbed,         \* history: "noise" ever, "restart" since the last power cut
  bound, mishaps, uses     \* the scenario's bounds, and what has happened so far

program == <<prog, settings, clock>>
vars == <<lines, i2c, program, record, time, disturbed, bound, mishaps, uses>>

Cells(from, n)  == [i \in 1..n |-> chip.mem[from + i - 1]]
ClockRegs(m)    == [i \in 1..7 |-> m[i - 1]]
ClockOf(m)      == UnixTime(RawOf(ClockRegs(m)))
RecordOf(m)     == S!Record([i \in 1..7 |-> m[NVRAM + i - 1]])

-----------------------------------------------------------------------------
(* History: the values of a write that was finished, of one under way, and   *)
(* whether one was cut off                                                   *)

Untouched(v)   == [held |-> {v}, writing |-> {}, torn |-> FALSE]
Writing(h, v)  == [h EXCEPT !.writing = {v}]
CutOff(h)      == IF h.writing = {} THEN h
                  ELSE [held |-> h.held \cup h.writing, writing |-> {}, torn |-> TRUE]
Written(h) ==
  CASE i2c.ret = "done"     -> [held |-> h.writing, writing |-> {}, torn |-> FALSE]
    [] i2c.ret = "arb_lost" -> [h EXCEPT !.writing = {}]
    [] OTHER                -> CutOff(h)

-----------------------------------------------------------------------------
(* The program *)

Init ==
  /\ scl = 1 /\ sda = 1
  /\ \E c \in Scenarios : LET m == c.mem IN
       /\ bound = [mishaps |-> c.mishaps, uses |-> c.uses]
       /\ chip = [state |-> "idle", n |-> 0, shift |-> 0, ptr |-> 0, sda |-> 1, mem |-> m]
       /\ record = [Untouched(RecordOf(m)) EXCEPT !.torn = ~S!verify_settings_crc32(RecordOf(m))]
       /\ time = Untouched(CivilTime(ChipDate(ClockRegs(m))))
  /\ i2c = I2cIdle /\ prog = "reset" /\ settings = S!Zeroed /\ clock = 0
  /\ disturbed = {} /\ mishaps = 0 /\ uses = 0

ok == i2c.ret = "done"
Awaits(where) == prog = where /\ i2c.pc = "done"

\* ds1338z_init, called by Settings_init and again by rtc_init
ds1338z_init(then) == bb_i2c_init /\ i2c_read_bus_mul(0, 1) /\ prog' = then

Probe ==
  /\ prog = "reset"
  /\ ds1338z_init("probe")
  /\ UNCHANGED <<settings, clock, record, time>>

Settings_read ==
  /\ Awaits("probe") /\ ok
  /\ i2c_read_bus_mul(NVRAM, 7) /\ prog' = "read"
  /\ UNCHANGED <<lines, settings, clock, record, time>>

Settings_write(s, then) ==
  /\ i2c_write_bus_mul(NVRAM, S!Bytes(s)) /\ prog' = then
  /\ settings' = s /\ record' = Writing(record, s)

\* the rest of Settings_init; the result of Settings_read is not looked at
Settings_init ==
  /\ (Awaits("probe") /\ ~ok) \/ Awaits("read")
  /\ LET read == IF prog = "read" /\ ok THEN S!Record(i2c.data) ELSE settings
     IN Settings_write(S!Settings_validate(read, S!Settings_defaults), "write")
  /\ UNCHANGED <<lines, clock, time>>

\* rtc_init
rtc_init ==
  /\ Awaits("write")
  /\ ds1338z_init("rtc_probe") /\ record' = Written(record)
  /\ UNCHANGED <<settings, clock, time>>

ds1338z_getUnixTime ==
  /\ Awaits("rtc_probe") /\ ok
  /\ i2c_read_bus_mul(0, 7) /\ prog' = "rtc_get"
  /\ UNCHANGED <<lines, settings, clock, record, time>>

\* clock_settime, of a time it does not refuse
clock_settime(t, then) ==
  /\ t >= BULD_TIMESTAMP
  /\ clock' = t /\ time' = Writing(time, t)
  /\ \E raw \in {RawClock(t, dow) : dow \in Garbage} : i2c_write_bus_mul(0, Registers(raw))
  /\ prog' = then
  /\ UNCHANGED <<lines, settings, record>>

Later(a, b) == IF a < b THEN b ELSE a
Synchronise ==
  /\ Awaits("rtc_get") /\ ok
  /\ \E t \in {Later(UnixTime(RawOf(i2c.data)), BULD_TIMESTAMP)} : clock_settime(t, "sync")

\* a failure ends rtc_init where it is; both writes of the program end here too
Runs ==
  /\ \/ (Awaits("rtc_probe") \/ Awaits("rtc_get")) /\ ~ok /\ UNCHANGED <<record, time>>
     \/ (Awaits("sync") \/ Awaits("set")) /\ time' = Written(time) /\ UNCHANGED record
     \/ Awaits("save") /\ record' = Written(record) /\ UNCHANGED time
  /\ prog' = "running" /\ i2c' = I2cIdle
  /\ UNCHANGED <<lines, settings, clock>>

\* the program changes the settings and saves them, unchecked
Save ==
  /\ prog = "running"
  /\ \E s \in Saved : Settings_write(S!settings_update_crc32(s), "save")
  /\ UNCHANGED <<lines, clock, time>>

SetClock == prog = "running" /\ \E t \in Times : clock_settime(t, "set")

Program == Probe \/ Settings_read \/ Settings_init \/ rtc_init \/ ds1338z_getUnixTime
           \/ Synchronise \/ Runs

Bus == /\ \/ ArbitrationLost \/ BusStep(TRUE)
       /\ UNCHANGED <<program, record, time>>

\* noise: the chip does not see the end of a byte it should acknowledge
Noise ==
  /\ mishaps < bound.mishaps /\ i2c.pc \notin {"idle", "done"}
  /\ scl = 1 /\ Target[1] = 0 /\ chip.n = BITS /\ Receiving(chip)
  /\ BusStep(FALSE) /\ disturbed' = disturbed \cup {"noise"} /\ mishaps' = mishaps + 1
  /\ UNCHANGED <<program, record, time, bound, uses>>

\* a restart of the program, by the debugger or by the system call for it
Restarts ==
  /\ mishaps < bound.mishaps /\ prog # "reset" /\ mishaps' = mishaps + 1
  /\ prog' = "reset" /\ i2c' = I2cIdle /\ settings' = S!Zeroed /\ clock' = 0
  /\ record' = CutOff(record) /\ time' = CutOff(time) /\ UNCHANGED <<bound, uses>>
Restart ==
  Restarts /\ disturbed' = disturbed \cup {"restart"} /\ UNCHANGED lines
PowerCut ==
  /\ Restarts /\ disturbed' = disturbed \ {"restart"}
  /\ scl' = 1 /\ sda' = 1 /\ chip' = [Idle(chip) EXCEPT !.ptr = 0]

Uses == uses < bound.uses /\ uses' = uses + 1 /\ (Save \/ SetClock) /\ UNCHANGED <<disturbed, bound, mishaps>>
GoesOn == (Program \/ Bus) /\ UNCHANGED <<disturbed, bound, mishaps, uses>>

Next == GoesOn \/ Uses \/ Noise \/ Restart \/ PowerCut

Spec == Init /\ [][Next]_vars
\* the program and the bus go on by themselves; users, noise and power cuts need not come
FairSpec == Spec /\ WF_vars(GoesOn)

-----------------------------------------------------------------------------
(* Properties *)

\* Settings_init (settings.c:119-129) gives the program the record saved last,
\* with its wrong fields repaired; one of the two of a write that was cut off
\* before its first or after its last byte; and the defaults only when a write
\* was cut off in the middle, when noise spoilt a transfer, or while the chip
\* still holds the line from before a restart, which a power cut ends.
SettingsSurvive ==
  prog = "write" /\ i2c.pc = "start" =>
    \/ settings \in {S!Settings_validate(s, S!Settings_defaults) : s \in record.held}
    \/ /\ settings = S!Settings_defaults
       /\ record.torn \/ "noise" \in disturbed \/ ("restart" \in disturbed /\ SDA_STATUS = 0)

\* What i2c_read_bus_mul (i2c.c:68-131) reports as read lies in the chip's
\* cells, whatever a restart in the middle of a byte has left on the bus.
ReadFaithful ==
  i2c.pc = "done" /\ i2c.op = "read" /\ ok => i2c.data = Cells(i2c.base, i2c.n)

\* No cell changes but the one i2c_write_bus_mul (i2c.c:133) is writing, and to
\* its byte: no rest of an older transfer is stored.
StoredAsMeant ==
  [][\A a \in DOMAIN chip.mem : chip'.mem[a] # chip.mem[a] =>
       /\ i2c.op = "write" /\ i2c.pc = "data"
       /\ a = i2c.base + i2c.n /\ chip'.mem[a] = i2c.data[i2c.n + 1]]_vars

\* ds1338z_setUnixTime (ds1338z.c:148-188) leaves a date of the chip's own calendar,
\* days 1 to the last of the month, that is t; but the first second of a month other
\* than January is left as the day after the last of the month before (:169, where
\* less than is asked for what the years' loop asks less or equal): a 30 February.
DayTooMany(d, t) ==
  /\ d.month \in 1..11 /\ d.day = LastDay(d.year, d.month) + 1
  /\ d.hour = 0 /\ d.minute = 0 /\ d.second = 0
  /\ t = CivilDay(d.year, d.month + 1, 1) * DAY
Says(d, t) == (OnCalendar(d) /\ CivilTime(d) = t) \/ DayTooMany(d, t)

\* rtc_init (rtc.c:64-76) takes the time the chip was set to, or the build's if
\* that is later.  After a clock_settime without an error the chip's own calendar
\* says what was set, with the exception of DayTooMany; and so says every time
\* converted by ds1338z_setUnixTime, which ds1338z_getUnixTime converts back.
ClockKept ==
  /\ prog = "sync" /\ i2c.pc = "start" =>
       time.torn \/ clock \in {Later(t, BULD_TIMESTAMP) : t \in time.held}
  /\ prog \in {"sync", "set"} /\ i2c.pc = "done" /\ ok => Says(ChipDate(ClockRegs(chip.mem)), clock)
  /\ prog = "reset" /\ mishaps = 0 =>
       \A t \in Dates, dow \in Garbage :
         LET regs == Registers(RawClock(t, dow))
         IN Says(ChipDate(regs), t) /\ UnixTime(RawOf(regs)) = t

\* A start always ends with a running program: the loops of the bus
\* (bb_i2c.c:102-236) do not wait for a line that is held.
BootEnds == []<>(prog = "running")
=============================================================================
