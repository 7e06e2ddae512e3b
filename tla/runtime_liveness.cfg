SPECIFICATION Spec
CONSTANTS
  t1 = t1
  t2 = t2
  d1 = d1
  d2 = d2
  d3 = d3
  u1 = u1
  u2 = u2
  None = None
  Tasks = {t1}
  Deployments = {d1}
  Undeployments = {u1,u2}
  TaskOf <- OneTask
  Volumes = {t1}
  OneShot = {t1}
  CustomRuntime = {}
  Overlay = TRUE
  MaxRestarts = 1
CHECK_DEADLOCK FALSE
PROPERTIES
  AcceptedUndeployStops
  EveryDeployAnswered
  OrphanReaped
