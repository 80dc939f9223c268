CONSTANTS
  Inputs = {in1, in2}
SPECIFICATION FairSpec
PROPERTIES
  InputsLeave
