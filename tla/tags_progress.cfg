SPECIFICATION FairSpec
CONSTANTS
  r1 = r1  r2 = r2  r3 = r3
  Requests = {r1, r2}
  TTLs = {2}
  MaxTTL = 2
  EmptyLists = {1}
  ReadFaults = TRUE
  Lag = 1
  MaxTime = 5
  MaxVersion = 1
  Nil = Nil  NoRequest = NoRequest  NoFile = NoFile
INVARIANTS FetchGap
PROPERTIES Answered
