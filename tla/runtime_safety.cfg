SPECIFICATION Spec
CONSTANTS
  t1 = t1
  t2 = t2
  d1 = d1
  d2 = d2
  d3 = d3
  u1 = u1
  u2 = u2
  None = None
  Tasks = {t1}
  Deployments = {d1,d2}
  Undeployments = {u1}
  TaskOf <- OneTask
  Volumes = {}
  OneShot = {t1}
  CustomRuntime = {}
  Overlay = TRUE
  MaxRestarts = 1
CHECK_DEADLOCK FALSE
INVARIANTS
  TypeOK
  KillEntryOwned
  NetworkWhileRunning
  ReportsCoherent
  NoUnmanagedTask
  StopEndsWhatRan
SYMMETRY Symmetry
