SPECIFICATION FairSpec
CONSTANTS
  r1 = r1  r2 = r2  r3 = r3
  Requests = {r1, r2}
  NoRequest = NoRequest
  IdleTimeout = TRUE
INVARIANTS Inv FreeWhileUnbounded NoCircularWait
PROPERTIES TokenReturns TagsReturn AbandonedReturn
