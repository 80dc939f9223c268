CONSTANTS
  Frames = 2
  Payload = {p, q}
  Null = null
  Network = TRUE
SPECIFICATION FairSpec
INVARIANTS
  TypeOK
  NoSharedBuffer
  EmptyIsWiped
  
PROPERTIES
  SendsWhatWasMixed
  KeepsSending
  StopsWhenKilled
