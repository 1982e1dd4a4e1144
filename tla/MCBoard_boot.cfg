\* See MCBoard for the records and the times.
SPECIFICATION FairSpec
CONSTANTS
  DS1338Z_I2C_ADDR = 104
  Defaults <- Factory
  REFERENCE_FREQ_MIN = 40
  REFERENCE_FREQ_MAX = 60
  BULD_TIMESTAMP <- Built
  Scenarios <- SmallScenarios
  Saved <- Users
  Times <- SetTimes
  Dates <- DayBreaks
  Garbage = {255}
INVARIANTS
  SettingsSurvive
  ReadFaithful
  ClockKept
PROPERTIES
  StoredAsMeant
  BootEnds
\* the bounds on uses and mishaps end a behaviour
CHECK_DEADLOCK FALSE
