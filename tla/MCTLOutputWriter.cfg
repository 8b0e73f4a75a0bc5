CONSTANTS
  WriteConversion = TRUE
  WriteSerialization = TRUE
  MaxCrashes = 2
SPECIFICATION Spec
INVARIANTS
  TypeOK
  FreshImpliesCurrent
PROPERTIES
  Converges
