SPECIFICATION Spec
CONSTANTS
  Threads = {t1}
  Sessions = {s1, s2}
  None = None
  MaxTurns = 2
  MaxPrompts = 3
  MidTurnReset = FALSE
SYMMETRY Symmetry
INVARIANT TypeOK
INVARIANT AnswerEndsTurn
INVARIANT TurnStateReleased
PROPERTY EndsOnce
PROPERTY ImplementsContract
CHECK_DEADLOCK FALSE
