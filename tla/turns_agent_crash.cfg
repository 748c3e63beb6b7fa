SPECIFICATION Spec
CONSTANTS
  Threads = {t1}
  Sessions = {s1}
  None = None
  MaxTurns = 1
  MaxPrompts = 1
  MidTurnReset = FALSE
INVARIANT CrashEndsTurns
CHECK_DEADLOCK FALSE
