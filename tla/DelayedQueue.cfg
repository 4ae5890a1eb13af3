CONSTANTS
  SignBit = 8
  Blocks = {b1, b2, b3}
  Delays = {1, 3, 7}
SPECIFICATION Spec
INVARIANTS
  NeverLate
PROPERTIES
  EarlyOnlyBeforeOverflow
