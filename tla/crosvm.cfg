SPECIFICATION Spec
CONSTANTS
  a = a
  None = None
  Ids = {a}
  MaxObjects = 2
  OneShot = {2}
  Overlay = TRUE
  MaxStarts = 2
CHECK_DEADLOCK FALSE
INVARIANTS
  TypeOK
  OneVmAtATime
  VmAccountedFor
PROPERTIES
  LifecycleKept
  OperationsEnd
