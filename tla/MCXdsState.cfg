SPECIFICATION FairSpec
CONSTANTS
  a = a
  b = b
  c1 = c1
  c2 = c2
  ra = ra
  rb = rb
  e1 = e1
  None = None
  Malformed = Malformed
  NoEndpoints = NoEndpoints
  Names <- MCNames
  Vals <- MCVals
  Refs <- MCRefs
  Inputs <- MCInputs
  Discoveries <- MCDiscoveries
INVARIANTS
  TypeOK
  PublishedIsTracked
  RoutesResolve
PROPERTIES
  ImplementsSnapshotStore
  SyncTerminates
  DiscoveryServed
  EndpointsConverge
