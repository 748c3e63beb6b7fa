SPECIFICATION MCSpec
CONSTANTS
  orig = orig  new = new  local = local  p1 = p1  p2 = p2
  Names <- TwoNames
  Ignored = {}
  Patches <- TwoFiles
  Contents = {orig, new, local}
  Absent = Absent
  Marks = Marks
  Unmerged = Unmerged
  Blobs = TRUE
  NoPatch = NoPatch
  MaxEdits = 2
  Processes = {p1, p2}
  Words <- FourWords
  Commands <- AllCommands
  Calls <- UserCalls
  Approvable <- ThreePrefixes
  BaseFiles <- NoCalls
  LastFiles <- LastCases
  Nobody = Nobody
  NoPolicy = NoPolicy
  Unused = Unused
SYMMETRY Users
INVARIANT RevertUndoes
INVARIANT AppendedOnce
INVARIANT PatchesForetold
INVARIANT RulesHold
INVARIANT SnapshotsUndo
PROPERTY OnlyItsFiles
PROPERTY StillLoads
PROPERTY SearchesFindAll
CHECK_DEADLOCK FALSE
