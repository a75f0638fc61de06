SPECIFICATION Spec
CONSTANTS
  a = a  b = b  c = c  x = x  y = y
  Producers = {a}
  Consumers = {c}
  Items = {x, y}
  NoItem = NoItem
  Size = 1
  MaxBatch = 1
  MaxPushes = 3
  WeakLoads = FALSE
INVARIANTS Bounded
