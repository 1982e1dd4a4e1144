------------------------------- MODULE MCBoard -------------------------------
(* Records, times and chips for TLC.                                        *)
EXTENDS Board, Integers, TLC

ip(high, low) == 16 * high + low
Factory == [IP_addr |-> ip(12, 2), IP_mask |-> 240, IP_gateway |-> ip(12, 1), MAC_ADDR |-> 0, DHCP |-> 1,
            ReferenceFrequency |-> 48, CRC32 |-> 0]
Good  == [IP_addr |-> ip(1, 5), IP_mask |-> 240, IP_gateway |-> ip(1, 9), MAC_ADDR |-> 4, DHCP |-> 0,
          ReferenceFrequency |-> 49, CRC32 |-> 0]
\* its address, mask and frequency are to be repaired
Wrong == [IP_addr |-> ip(15, 5), IP_mask |-> 160, IP_gateway |-> ip(12, 3), MAC_ADDR |-> 8, DHCP |-> 0,
          ReferenceFrequency |-> 90, CRC32 |-> 0]
Users == {Wrong}

\* the build, 2016-12-01, the first second of a month after a leap day, which is
\* stored as 30 February, and the last of a year
Built == DaysBeforeYear[16] * DAY + DaysBeforeMonth[0][12] * DAY
Date(y, mo, d, s) == (DaysBeforeYear[y] + DaysBeforeMonth[y % 4][mo] + d - 1) * DAY + s
SetTimes == {Date(20, 3, 1, 0), Date(20, 12, 31, DAY - 1)}

Chip(s, regs) == [a \in ClockCells |-> regs[a + 1]] @@ [a \in RecordCells |-> S!Bytes(s)[a - NVRAM + 1]]
New  == Chip(S!Record([i \in 1..7 |-> 255]), <<0, 0, 0, 1, 1, 1, 0>>)
Used == Chip(S!settings_update_crc32(Good), Registers(RawClock(Date(18, 2, 28, 86399), 3)))

\* the seconds around the beginning of every day up to 2067
DayBreaks == {d * DAY + s : d \in 1..24835, s \in {-1, 0}}

\* two mishaps during starts, or one when the program also saves or sets
SmallScenarios == {[mem |-> Used, mishaps |-> 2, uses |-> 0], [mem |-> Used, mishaps |-> 1, uses |-> 1],
                   [mem |-> New, mishaps |-> 1, uses |-> 1]}
=============================================================================
