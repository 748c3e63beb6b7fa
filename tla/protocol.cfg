SPECIFICATION MCSpec
CONSTANTS
  Usages <- Answers
  Windows = {3, 6, 11}
  BaselineTokens = 3
  NoUsage = NoUsage
  NoWindow = NoWindow
  NoInfo = NoInfo
  MaxReports = 5
  Unused = Unused
  t1 = t1  t2 = t2  c1 = c1  c2 = c2
SYMMETRY Symmetry
INVARIANT TotalsAddUp
INVARIANT SchemasHold
PROPERTY PercentsMakeSense
PROPERTY TurnsRebuilt
PROPERTY ItemsAndImagesKept
CHECK_DEADLOCK FALSE
