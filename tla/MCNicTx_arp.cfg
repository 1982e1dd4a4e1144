SPECIFICATION TxSpec
CONSTANTS
  MaxWords = 3
  MaxFrames = 2
  Callers = {"udp", "arp"}
INVARIANT OneFrameOnWire
