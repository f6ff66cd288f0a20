SPECIFICATION FairSpec
CONSTANTS
  MaxUpdates = 3
  MaxRequests = 2
INVARIANTS
  TypeOK
  AtMostOneBehind
PROPERTIES
  ImplementsLifecycle
  CancelStops
  ErrorStops
