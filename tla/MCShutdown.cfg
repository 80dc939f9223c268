CONSTANTS
  Inputs = {in1, in2}
SPECIFICATION FairSpec
INVARIANTS
  TypeOK
  FreedAfterTheLoops
PROPERTIES
  SignalEnds
  OutputsLeave
