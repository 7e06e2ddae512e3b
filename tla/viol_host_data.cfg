SPECIFICATION Spec
CONSTANTS
  v1 = v1
  v2 = v2
  s1 = s1
  s2 = s2
  d1 = d1
  d2 = d2
  d3 = d3
  None = None
  Volumes = {v1}
  Deployments = {d1, d2}
  Slots = {s1}
  QueueCap = 1
  Backoff = 2
  GiveUp = 3
  MaxCrashes = 1
SYMMETRY Symmetry
CHECK_DEADLOCK FALSE
INVARIANTS
  HostDataKept
