SPECIFICATION FairCallSpec
CONSTANTS
  MaxSent = 3
INVARIANTS
  CallTypeOK
  SuccessIsReal
PROPERTIES
  CallEnds
