SPECIFICATION Spec
CONSTANTS
  i1 = i1
  i2 = i2
  n1 = n1
  n2 = n2
  th1 = th1
  th2 = th2
  NoNode = NoNode
  NoInst = NoInst
  Instances = {i1}
  Nodes = {n1}
  Threads = {}
  Erasable = {i1}
  Silent = {i1}
  MaxInbox = 1
  MaxPending = 1
  MaxLosses = 1
CHECK_DEADLOCK FALSE
PROPERTIES
  ErasedStops
  SilenceNoticed
