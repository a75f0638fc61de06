SPECIFICATION Spec
CONSTANTS
  r = r  s = s  v = v  w = w  x = x  y = y  z = z
  Readers = {r, s, w}
  Retirers = {w}
  Objects = {x, y, z}
  MaxThreads = 2
  MaxEpoch = 5
  RegisterOneByOne = TRUE
SYMMETRY ObjectSymmetry
CHECK_DEADLOCK FALSE
INVARIANTS NoUseAfterFree TidsDistinct
