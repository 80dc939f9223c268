CONSTANTS
  NumSrc = 2
  Rtp = {1}
  Versions = {1, 2, 3}
  Content <- SomeContent
  TwoPackets = {3}
  MaxZeroReads = 2
  FramePackets = 2
  EitMode = TRUE
SPECIFICATION FairSpec
INVARIANTS
  TypeOK
  EsOnlyWhenKnown
  PmtIsCurrent
  NoSocketLeaks
PROPERTIES
  FindsTheSource
