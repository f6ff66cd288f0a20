SPECIFICATION FairSpec
CONSTANTS
  a = a
  b = b
  c = c
  NoParent = NoParent
  None = None
  Malformed = Malformed
  Names <- MCNames
  Inputs <- MCInputs
  MaxDependencies = 3
INVARIANTS
  TypeOK
  SortsWholeBuild
PROPERTIES
  GraphUsedSequentially
  BuildReturns
  UpdateServed
