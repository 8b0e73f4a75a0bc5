CONSTANTS
  Names = {p}
  FlagsWord = flags
  Vals = {0, 1}
  Bits = {0, 1}
  MaxFields = 1
  WithBots = FALSE
  Ids = {a, b}
  Foreign = z
  MaxCtors = 2
SPECIFICATION Spec
INVARIANTS
  GettersSafe
  RoundTrip
PROPERTIES
  ImplementsBoxedRead
