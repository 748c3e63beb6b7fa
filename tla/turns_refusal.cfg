SPECIFICATION Spec
CONSTANTS
  Threads = {t1}
  Sessions = {s1}
  None = None
  MaxTurns = 1
  MaxPrompts = 1
  MidTurnReset = FALSE
PROPERTY RefusalIsNotSuccess
CHECK_DEADLOCK FALSE
