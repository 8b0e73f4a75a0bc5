CONSTANTS
  Abstract <- MCAbstract
  Ctors <- MCCtors
  ParamsOf <- MCParamsOf
  Roots <- MCRoots
  Depth = 3
  IntVals = {0, 1}
  IntId = 101
  LongId = 102
  FlagsId = 103
  Flags64Id = 104
  RpcResultId = 105
  CoreMessageId = 106
SPECIFICATION Spec
INVARIANTS
  TypeOK
  DumpFaithful
PROPERTY
  Terminates
