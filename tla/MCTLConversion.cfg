CONSTANTS
  Names = {p, q}
  FlagsWord = flags
  MaxCtors = 1
  MaxFields = 2
SPECIFICATION Spec
INVARIANTS
  FromMatchesCreator
  ToMatchesCreator
