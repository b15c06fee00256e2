SPECIFICATION Spec
CONSTANTS
  Sessions = {w1, w2}
  Names = {"srv", "a", "b"}
  Requested <- MCRequested
  Methods <- MCMethods
  Asked <- MCAsked
  Trees <- MCTrees
  Inodes = {i1, i2, i3}
  i1 = i1
  i2 = i2
  i3 = i3
  Username = "alice"
  SFTPRootDir = none
  HomeDir <- MCHomeDir
  Sensitive <- MCSensitive
  Protected = {}
  MaxHops = 3
  MaxRequests = 3
  None = none
SYMMETRY Interchangeable
CHECK_DEADLOCK FALSE
INVARIANTS
  CheckedIsInside
  SetstatTruth
PROPERTIES
  Confined
