SPECIFICATION Spec
CONSTANTS
  i1 = i1
  i2 = i2
  n1 = n1
  n2 = n2
  th1 = th1
  th2 = th2
  NoNode = NoNode
  NoInst = NoInst
  Instances = {i1}
  Nodes = {n1}
  Threads = {th1}
  Erasable = {i1}
  Silent = {}
  MaxInbox = 1
  MaxPending = 1
  MaxLosses = 0
CHECK_DEADLOCK FALSE
INVARIANTS
  TypeOK
  HttpSeesExistence
PROPERTIES
  ErasedStops
  JobStaysDeleted
