------------------------------ MODULE Calendar ------------------------------
(***************************************************************************)
(* The clock registers and the time they stand for (ds1338z.c, bcd.c).     *)
(* Times are in seconds from the year 2000 on, and below its 99th year:    *)
(* for a later one ds1338z_setUnixTime leaves the year unset.              *)
(***************************************************************************)
EXTENDS Integers, Sequences

SECONDS_IN_MINUTE == 60
MINUTES_IN_HOUR   == 60
HOURS_IN_DAY      == 24
DAYS_IN_YEAR      == 365
DAY  == HOURS_IN_DAY * MINUTES_IN_HOUR * SECONDS_IN_MINUTE
daysinmonth_Swapped == <<31, 28, 31, 30, 31, 30, 31, 30, 31, 31, 30, 31>>
daysinmonth == <<31, 28, 31, 30, 31, 30, 31, 31, 30, 31, 30, 31>>

u8_dec2bcd(v) == (v + 6 * (v \div 10)) % 256
u8_bcd2dec(v) == (v - 6 * (v \div 16)) % 256

Leap(year) == year % 4 = 0
DaysOf(year, month) == daysinmonth[month] + IF month = 2 /\ Leap(year) THEN 1 ELSE 0

DaysBeforeYear == [y \in 0..99 |-> y * DAYS_IN_YEAR + (y + 3) \div 4]
DaysBeforeMonth ==
  [year \in 0..3 |->
     LET before[m \in 1..12] == IF m = 1 THEN 0 ELSE before[m - 1] + DaysOf(year, m - 1) IN before]
MonthStart(year, month) == DaysBeforeMonth[year % 4][month] * DAY

\* ds1338z_getUnixTime, of registers in binary: a month of 0 adds no days
UnixTime(raw) ==
  (DaysBeforeYear[raw.year] + (IF raw.month = 0 THEN 0 ELSE DaysBeforeMonth[raw.year % 4][raw.month]) + raw.day - 1) * DAY
    + raw.hour * MINUTES_IN_HOUR * SECONDS_IN_MINUTE + raw.minute * SECONDS_IN_MINUTE + raw.second

\* ds1338z_setUnixTime: its loop over the years stops before a whole year is left, the one
\* over the months when no more than a whole month is left; the day of the week is not set
YearOf(t) == CHOOSE y \in 0..98 : DaysBeforeYear[y] * DAY <= t /\ t < DaysBeforeYear[y + 1] * DAY
MonthOf(year, seconds) ==
  CHOOSE m \in 1..12 : /\ seconds <= MonthStart(year, m) + DaysOf(year, m) * DAY
                       /\ m > 1 => seconds > MonthStart(year, m)
InMonth(year, month, seconds, dow) ==
  [second |-> seconds % SECONDS_IN_MINUTE,
   minute |-> (seconds \div SECONDS_IN_MINUTE) % MINUTES_IN_HOUR,
   hour   |-> (seconds % DAY) \div (MINUTES_IN_HOUR * SECONDS_IN_MINUTE),
   DoW    |-> dow,
   day    |-> seconds \div DAY + 1,
   month  |-> month,
   year   |-> year]
InYear(year, seconds, dow) ==
  LET month == MonthOf(year, seconds)
  IN InMonth(year, month, seconds - MonthStart(year, month), dow)
RawClock(t, dow) ==
  LET year == YearOf(t)
  IN InYear(year, t - DaysBeforeYear[year] * DAY, dow)

\* the seven registers, in the order of the chip, and back
Registers(raw) ==
  [i \in 1..7 |-> u8_dec2bcd(<<raw.second, raw.minute, raw.hour, raw.DoW, raw.day, raw.month, raw.year>>[i])]
RawOf(regs) ==
  LET d == [i \in 1..7 |-> u8_bcd2dec(regs[i])]
  IN [second |-> d[1], minute |-> d[2], hour |-> d[3], DoW |-> d[4], day |-> d[5], month |-> d[6], year |-> d[7]]

\* The chip's own calendar: what its registers say, two decimal digits each, and when that is.
\* The years are taken to begin in March, so that the leap day ends them.
Digits(reg) == 10 * (reg \div 16) + (reg % 16)
ChipDate(regs) ==
  [second |-> Digits(regs[1]), minute |-> Digits(regs[2]), hour |-> Digits(regs[3]),
   day |-> Digits(regs[5]), month |-> Digits(regs[6]), year |-> Digits(regs[7])]
LastDay(year, month) ==
  CASE month \in {4, 6, 9, 11} -> 30
    [] month = 2 -> IF year % 4 = 0 THEN 29 ELSE 28
    [] OTHER     -> 31
OnCalendar(d) ==
  /\ d.second \in 0..59 /\ d.minute \in 0..59 /\ d.hour \in 0..23
  /\ d.year \in 0..99 /\ d.month \in 1..12 /\ d.day \in 1..LastDay(d.year, d.month)
CivilDay(year, month, day) ==
  LET y == IF month < 3 THEN year - 1 ELSE year
      m == IF month < 3 THEN month + 9 ELSE month - 3
  IN 60 + 365 * y + y \div 4 + (153 * m + 2) \div 5 + day - 1
CivilTime(d) == CivilDay(d.year, d.month, d.day) * 86400 + d.hour * 3600 + d.minute * 60 + d.second
=============================================================================
