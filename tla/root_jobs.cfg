SPECIFICATION Spec
CONSTANTS
  c1 = c1
  c2 = c2
  NoCluster = NoCluster
  Clusters = {c1,c2}
  MaxCreates = 1
  MaxScaleUps = 1
  MaxInstances = 2
  MaxFaults = 2
CHECK_DEADLOCK FALSE
INVARIANTS
  TypeOK
  NumbersUnique
  OnlyOutdatedWiped
  NoOrphan
PROPERTIES
  DeletedStops
  StatusFollows
