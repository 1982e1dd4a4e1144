SPECIFICATION Spec
CONSTANTS
  NumSlots = 3
  MTU = 10
  MinWords = 2
  MaxWords = 2
  MaxFrames = 3
  CountLimit = 4
INVARIANT GoodFrameAccepted
