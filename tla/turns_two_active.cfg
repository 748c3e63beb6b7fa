SPECIFICATION Spec
CONSTANTS
  Threads = {t1}
  Sessions = {s1}
  None = None
  MaxTurns = 2
  MaxPrompts = 2
  MidTurnReset = TRUE
INVARIANT AtMostOneActiveTurn
CHECK_DEADLOCK FALSE
