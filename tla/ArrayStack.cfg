SPECIFICATION Spec
CONSTANTS
  a = a  b = b  c = c  x = x  y = y
  Threads = {a, b, c}
  Items = {x, y}
  NoItem = NoItem
  Capacity = 2
  NULL_INDEX = NULL_INDEX
  TagMod = 4
SYMMETRY ThreadAndItemSymmetry
INVARIANTS TypeOK Linked Partition
PROPERTIES ImplementsStack
