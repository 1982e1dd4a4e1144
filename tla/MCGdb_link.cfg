\* Short commands and a ring that a packet fills; see MCGdb for the sessions.
SPECIFICATION FairSpec
CONSTANTS
  MAX_BUF_SIZE = 5
  MAX_RX_BUF = 4
  Scenarios <- SmallScenarios
INVARIANTS
  AnswersRight
  ResumesReady
PROPERTIES
  ExecutesAsked
  Answered
CHECK_DEADLOCK FALSE
