SPECIFICATION Spec
CONSTANTS
  Sockets = {s1, s2}
  First = s1
  NoSocket = NoSocket
  Senders = {m1}
INVARIANTS
  CloseFiredOnce
  RecoveringOwned
  NoOrphanSocket
PROPERTIES
  SenderReleased
  OwnerLearns
CHECK_DEADLOCK FALSE
