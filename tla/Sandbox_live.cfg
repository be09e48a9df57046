SPECIFICATION FairSpec
CONSTANTS
  c1 = c1
  c2 = c2
  k1 = k1
  k2 = k2
  p1 = p1
  Procs = {p1}
  Keys = {k1}
  Calls <- MCCalls
  Home <- SameHome
  KeyOf <- SameKey
  Boxes = {b1}
  NoBox = NoBox
  Locks = {l1, l2}
  NoLock = NoLock
  MaxSessions = 1
  Faults = {}
INVARIANTS
  TypeOK
PROPERTIES
  CallEnds
  SavedSandboxHandled
