SPECIFICATION Spec
CONSTANTS
  r = r  s = s  v = v  w = w  x = x  y = y  z = z
  Readers = {r}
  Retirers = {v, w}
  Objects = {x, y}
  MaxThreads = 1
  MaxEpoch = 3
  RegisterOneByOne = TRUE
SYMMETRY ObjectSymmetry
CHECK_DEADLOCK FALSE
INVARIANTS NoUseAfterFree
