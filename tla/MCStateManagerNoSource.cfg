SPECIFICATION FairSpec
CONSTANTS
  g1 = g1
  g2 = g2
  g3 = g3
  NumManagers = 2
  MaxTfstates = 2
  Goroutines <- MCGoroutines
INVARIANT SourceDisabled
