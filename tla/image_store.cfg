SPECIFICATION Spec
CONSTANTS
  r1 = r1
  v1 = v1
  v2 = v2
  c1 = c1
  c2 = c2
  c3 = c3
  NoDir = NoDir
  Refs = {r1}
  Versions = {v1, v2}
  WithInitrd = {v2}
  Calls = {c1, c2}
  MaxRestarts = 2
CHECK_DEADLOCK FALSE
INVARIANTS
  TypeOK
  FilesOfOneVersion
  NoTemporaryLeft
PROPERTIES
  EveryRetrieveEnds
