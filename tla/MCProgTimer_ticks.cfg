SPECIFICATION FairSpec
CONSTANTS
  Table <- RealTable
  Handlers = {"progtimer_handler_bottom", "user"}
  NumTimers = 2
  Periods = {1, 2}
  WordBase = 2
  NewTimes = {1}
  MaxClock = 3
  MaxDelay = 2
  Unmasked = {"gpio"}
  HeapContents = {"none"}
INVARIANT CriticalHolds
PROPERTIES NoEventSkipped PeriodKept DelayLongEnough Served
