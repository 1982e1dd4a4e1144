SPECIFICATION FairSpec
CONSTANTS
  NumSlots = 2
  MTU = 10
  MinWords = 2
  MaxWords = 2
  MaxFrames = 2
  CountLimit = 4
INVARIANTS
  HeldFrameIntact
  NoSlotLeaked
PROPERTIES
  OwnedMemoryStable
  ReceiverRecovers
  SlotsComeBack
