SPECIFICATION Spec
CONSTANTS
  r = r  s = s  v = v  w = w  x = x  y = y  z = z
  Readers = {r, w}
  Retirers = {w}
  Objects = {x}
  MaxThreads = 2
  MaxEpoch = 1
  RegisterOneByOne = FALSE
SYMMETRY ObjectSymmetry
CHECK_DEADLOCK FALSE
INVARIANTS TidsDistinct
