CONSTANTS
  N = 2
  Slots = 3
  Gaps <- GapsToCheck
  Moves = TRUE
  IntMax = 3
  MaxBuf = 1
  MaxPsi = 1
  Far = 5
SPECIFICATION SFairSpec
INVARIANTS
  TypeOK
  NothingToReadNever
PROPERTIES
  EveryPacketReadIsPlaced
  FairTurns
  AtMostOneEarly
  EveryInputIsServed
