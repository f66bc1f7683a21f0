SPECIFICATION Spec
CONSTANTS
  r1 = r1  r2 = r2  r3 = r3  i1 = i1  i2 = i2  i3 = i3  i4 = i4  b1 = b1  b2 = b2
  Requests = {r1, r2}
  Inodes = {i1, i2}
  Builds = {b1, b2}
  Leases = {1, 2}
  MaxLease = 2
  MaxTime = 3
  NoRequest = NoRequest  NoFile = NoFile  Empty = Empty  Bad = Bad
SYMMETRY Symmetry
INVARIANTS Inv WholeAtRest FileSurvives SoloLeavesAnswer
