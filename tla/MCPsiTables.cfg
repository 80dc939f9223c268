CONSTANTS
  n1 = n1
  n2 = n2
  Channels <- OneChannel
  Entries = {n1, n2}
  NoEntry = NoEntry
  Contents <- Files
  Bad = Bad
  Absent = Absent
  NoEit = NoEit
  VersionMod = 2
  MaxClock = 2
  Size <- Sizes
  EitSize = 1
  Timeout <- Timeouts
  MaxLate = 1
  PsiMax = 5
  ContMod = 2
  NC = 1
  Watched <- NextOfOne
SPECIFICATION FairSpec
INVARIANTS
  TypeOK
  CountersContinue
  VersionTellsContent
  NotNewerIsOnAir
PROPERTIES
  EpgFollowsFile
  EveryTableIsSent
