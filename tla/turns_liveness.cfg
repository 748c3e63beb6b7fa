SPECIFICATION MCSpec
CONSTANTS
  Threads = {t1}
  Sessions = {s1}
  None = None
  MaxTurns = 2
  MaxPrompts = 2
  MidTurnReset = FALSE
  Unused = Unused
PROPERTY TurnEnds
PROPERTY OwedIsGiven
CHECK_DEADLOCK FALSE
