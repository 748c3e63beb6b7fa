SPECIFICATION Spec
CONSTANTS
  Threads = {t1, t2}
  Sessions = {s1, s2}
  None = None
  MaxTurns = 2
  MaxPrompts = 2
  MidTurnReset = FALSE
SYMMETRY Symmetry
INVARIANT InProgressIsActive
INVARIANT OneTurnPerSession
INVARIANT InterruptIsolation
CHECK_DEADLOCK FALSE
