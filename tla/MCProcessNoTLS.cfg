SPECIFICATION FairSpec
CONSTANTS
  MaxUpdates = 3
  MaxRequests = 2
INVARIANT OpensWithoutTLS
