SPECIFICATION Spec
CONSTANTS
  t1 = t1
  d1 = d1
  d2 = d2
  u1 = u1
  None = None
  Tasks = {t1}
  Deployments = {d1, d2}
  Undeployments = {u1}
  TaskOf <- OneTask
  Overlay = TRUE
CHECK_DEADLOCK FALSE
INVARIANTS
  TypeOK
  KillQueueSound
PROPERTIES
  EveryCallReturns
  DeathHandled
