CONSTANTS
  Ctors = {a, b, c}
  Names = {x, y}
  Bits = {0, 1}
SPECIFICATION Spec
INVARIANT
  ChildSubsetOfParent
