SPECIFICATION Spec
CONSTANTS
  a = a
  b = b
  NL = NL
  NUL = NUL
  Chars = {a, b}
  SIZE = 7
  WORD = 32
SYMMETRY Letters
INVARIANTS
  TypeOK
  Terminated
  LinesAsTyped
CHECK_DEADLOCK FALSE
