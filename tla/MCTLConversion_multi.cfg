CONSTANTS
  Names = {p, q}
  FlagsWord = flags
  MaxCtors = 2
  MaxFields = 1
SPECIFICATION Spec
INVARIANT FromMatchesCreator
