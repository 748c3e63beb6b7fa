SPECIFICATION MCSpec
CONSTANTS
  Requests = {r1, r2}
  ServerIds = {i1, i2, i3}
  NoReply = NoReply
  MaxId = 6
  t1 = t1  t2 = t2  s1 = s1  s2 = s2
  g1 = g1  g2 = g2  n1 = n1  low = low  hi = hi  c1 = c1  c2 = c2
  a1 = a1  a2 = a2
  None = None
  Threads = {t1, t2}
  Sessions = {s1, s2}
  GrokModels = {g1}
  NativeModels = {n1}
  Efforts = {low, hi}
  High = hi
  Options = {c1}
  Direct = FALSE
  ConfigModels = TRUE
  TurnModels = TRUE
  Rollbacks = FALSE
  AgentChanges = FALSE
  MaxNotes = 1
  MaxRestarts = 1
  Unused = Unused
INVARIANT ServerAnswersReachAsker
INVARIANT PinnedToBackend
INVARIANT ModelsOfOwner
INVARIANT AsksDecided
INVARIANT StreamKept
INVARIANT SettingsLast
PROPERTY ImplementsDialogue
PROPERTY PagesWhole
PROPERTY LinesKept
SYMMETRY Symmetry
CHECK_DEADLOCK FALSE
