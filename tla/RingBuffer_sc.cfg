SPECIFICATION FairSpec
CONSTANTS
  a = a  b = b  c = c  x = x  y = y
  Producers = {a, b}
  Consumers = {c}
  Items = {x, y}
  NoItem = NoItem
  Size = 2
  MaxBatch = 1
  MaxPushes = 3
  WeakLoads = FALSE
PROPERTIES ImplementsQueue CallsReturn Delivered
