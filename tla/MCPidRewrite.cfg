CONSTANTS
  Inputs <- TwoInputs
  ChannelPids = 5
  RefSize = 5
  Sources <- SomeSources
  PmtSize = 1
  BufSize = 2
SPECIFICATION Spec
INVARIANTS
  TypeOK
  ChannelsApart
  AnnouncedIsSent
  PmtWhereAnnounced

  
