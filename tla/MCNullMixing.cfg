CONSTANTS
  N = 1
  Slots = 40
  Gaps <- NoGaps
  Moves = FALSE
  IntMax = 1
  MaxBuf = 40
  MaxPsi = 1
SPECIFICATION Spec
INVARIANTS
  MixedInProportion
PROPERTIES
  EveryPacketReadIsPlaced
