SPECIFICATION FairSpec
CONSTANTS
  long = long
  short = short
  other = other
  broken = broken
  None = None
  Contents <- MCContents
  Malformed <- MCMalformed
  Size <- MCSize
  MaxPages = 2
  MaxWrites = 4
INVARIANTS
  TypeOK
  NothingMissed
  NewestLast
PROPERTIES
  Converges
