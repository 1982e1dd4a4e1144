SPECIFICATION FairTxSpec
CONSTANTS
  MaxWords = 3
  MaxFrames = 3
  Callers = {"udp"}
INVARIANT ReadyIsTrue
PROPERTY SendsFrames
