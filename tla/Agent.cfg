SPECIFICATION AgentSpec
CONSTANTS
  Pids = {proc1, proc2}
  Objs = {o1, o2, o3}
  Owner <- MCOwner
  proc1 = proc1
  proc2 = proc2
  o1 = o1
  o2 = o2
  o3 = o3
  c1 = c1
  c2 = c2
  Value = {v1, v2}
  Empty = Empty
  Invalid = Invalid
  Clients = {c1, c2}
  MaxRequests <- MCRequests
  Caller = {t1, t2}
  Windows = TRUE
  MaxAttempts = 1
  Absent = Absent
  Partial = Partial
  t1 = t1
  t2 = t2
  w1 = w1
  w2 = w2
  NoSock = NoSock
  MaxKeys = 2
  MaxNodes = 1
  CntMin = 1
  CntMax = 2
  MaxChanges = 1
  MaxReads = 1
  Channel = {t1, t2}
  Ups = {t1}
  Transfer = {t1, t2}
  Gets = {t1}
  Socket = {s1, s2}
  Pieces = 2
  AppThread = {w1, w2}
  MaxSend = 1
  MaxPosted = 4
  MaxAsked = 3
  MaxAppSent = 3
  MaxBatch = 2
  Lib = {"screencapture", "soundcapture", "stdcpp", "gcc"}
  Deps <- MCDeps
  Users = {"screen", "sound"}
  Needs <- MCNeeds
  MaxRelease = 2
  MaxCrashes = 1
  MaxFailures = 1
INVARIANTS
  NamesKept
  RunOnce
  SurvivesCrash
  RemovedNotPresented
  LoadedWhenUsed
PROPERTIES
  StopHonoured
CHECK_DEADLOCK FALSE
