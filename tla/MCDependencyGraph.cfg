SPECIFICATION FairSpec
CONSTANTS
  x = x
  y = y
  z = z
  xv = xv
  xw = xw
  yv = yv
  zv = zv
  None = None
  Vals <- MCVals
  Keys <- MCKeys
  KeyOf <- MCKeyOf
  MaxDependencies = 2
INVARIANTS
  TypeOK
  EachNodeOnce
  DependentsFirst
PROPERTIES
  SortReturns
