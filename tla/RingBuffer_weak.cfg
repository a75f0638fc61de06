SPECIFICATION Spec
CONSTANTS
  a = a  b = b  c = c  x = x  y = y
  Producers = {a, b}
  Consumers = {b, c}
  Items = {x, y}
  NoItem = NoItem
  Size = 2
  MaxBatch = 2
  MaxPushes = 2
  WeakLoads = TRUE
SYMMETRY ItemSymmetry
INVARIANTS Bounded SlotExclusive PopsInOrder Inv
