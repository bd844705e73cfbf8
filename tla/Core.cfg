SPECIFICATION CoreSpec
CONSTANTS
  Size <- MCSizes
  Bytes = 4
  MaxWrite = 3
  MaxRead = 2
  OpenFirst = TRUE
  Packages <- MCPackages
  Changed <- MCChanged
  MaxCrashes = 1
  MaxFaults = 2
  x1 = x1
  x2 = x2
  s1 = s1
  s2 = s2
  Workers = {x1, x2}
  QueueSize = 3
  Tasks <- MCTasks
  NoTask = NoTask
  Sess = {s1, s2}
  Requesting = {s1}
  Requests = 2
  Losses = 1
  child1 = child1
  child2 = child2
  o1 = o1
  Thread = {t1, t2, t3}
  NoThread = NoThread
  MaxDepth = 2
  MaxSleeping = 3
  t1 = t1
  t2 = t2
  t3 = t3
  u1 = u1
INVARIANTS
  ResponsesKept
  ExecutedOnce
  AgentWhole
  NoGhostSession
PROPERTIES
  EndMeansAll
  ImplementsByteStream
CHECK_DEADLOCK FALSE
