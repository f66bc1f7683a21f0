SPECIFICATION Spec
CONSTANTS
  Texts <- SmallTexts
  Formats <- SmallFormats
  Halves <- SmallHalves
  Mantissa = 4
  Spacings <- SmallSpacings
  MaxInts = {3, 7}
  MaxMessages = 2  MaxImages = 2  MaxStops = 3  MaxChunks = 3  MaxModels = 2
  Absent = Absent  Refused = Refused  Mistyped = Mistyped  NoCall = NoCall
INVARIANTS NothingLost OptionsKept GenerateIsChat SameAnswer ModelsListed
