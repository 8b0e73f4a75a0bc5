CONSTANTS
  Names = {p, q}
  FlagsWord = flags
  Vals = {0, 1}
  Bits = {0, 1}
  MaxFields = 2
  WithBots = FALSE
SPECIFICATION Spec
INVARIANT
  WritesWireForm
PROPERTY ImplementsWireRead
