SPECIFICATION Spec
CONSTANTS
  r1 = r1  r2 = r2  r3 = r3
  Requests = {r1, r2}
  TTLs = {2, 3}
  MaxTTL = 3
  EmptyLists = {1}
  ReadFaults = FALSE
  Lag = 1
  MaxTime = 6
  MaxVersion = 2
  Nil = Nil  NoRequest = NoRequest  NoFile = NoFile
SYMMETRY Symmetry
INVARIANTS Inv FetchGap MonotoneReads
PROPERTIES ServedInLease RegisterSpec
