SPECIFICATION Spec
CONSTANTS
  Rate = 2
  Second = 5
  Cors = TRUE
  MaxTime = 12
INVARIANTS TypeOK Inv WindowBound
PROPERTIES WindowSpec
