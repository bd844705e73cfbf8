SPECIFICATION AppsSpec
CONSTANTS
  Path = {path1, path2}
  NoPath = NoPath
  Pack = {"agent", "ui"}
  MaxRuns = 3
  MaxFaults = 1
  a1 = a1
  a2 = a2
  t1 = t1
  t2 = t2
  NoOne = NoOne
  Char = {x, y}
  MaxText = 3
  RightToLeft = FALSE
  Managers = {m1, m2}
  MaxPages = 3
  Ids = {s}
  Dir = Dir
  Full = Full
  Name = {"x", "y"}
  Trees <- MCTrees
  Permissions <- MCPermissions
  MaxRequests = 2
INVARIANTS
  NoOrphanProcess
  DoneWhenTold
  InputsWhole
PROPERTIES
  LightFollows
CHECK_DEADLOCK FALSE
