CONSTANTS
  Capacity = 4
  Values = {a, b, c}
SPECIFICATION Spec
INVARIANTS
  TypeOK
PROPERTIES
  DequeSpec
