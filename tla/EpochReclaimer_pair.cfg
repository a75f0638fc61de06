SPECIFICATION Spec
CONSTANTS
  r = r  s = s  v = v  w = w  x = x  y = y  z = z
  Readers = {r, w}
  Retirers = {v, w}
  Objects = {x, y, z}
  MaxThreads = 1
  MaxEpoch = 5
  RegisterOneByOne = TRUE
SYMMETRY ObjectSymmetry
CHECK_DEADLOCK FALSE
INVARIANTS OnlyLateFreedEarly EpochHeldBack RetiredOnce
