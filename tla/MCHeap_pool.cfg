SPECIFICATION Spec
CONSTANTS
  heap_base = 5
  configTOTAL_HEAP_SIZE = 104
  xBlockAllocatedBit = 128
  Requests = {0, 1, 18, 30, 127, 200}
INVARIANTS Tiled FreeList RefusedOnlyWhenFull
PROPERTY KeepsPromise
