SPECIFICATION Spec
CONSTANTS
  Threads = {t1}
  Sessions = {s1}
  None = None
  MaxTurns = 1
  MaxPrompts = 2
  MidTurnReset = FALSE
INVARIANT InterruptDelivered
CHECK_DEADLOCK FALSE
