SPECIFICATION Spec
CONSTANTS
  Threads = {t1}
  Sessions = {s1}
  None = None
  MaxTurns = 2
  MaxPrompts = 3
  MidTurnReset = TRUE
SYMMETRY Symmetry
INVARIANT ActiveTurnIsLive
PROPERTY EndedByNewestPrompt
CHECK_DEADLOCK FALSE
