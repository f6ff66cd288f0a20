SPECIFICATION FairSpec
CONSTANTS
  MaxCalls = 3
  MaxHandlers = 3
  Parallelism = 2
INVARIANTS
  TypeOK
  ChecksComplete
PROPERTIES
  CallReturns
