SPECIFICATION Spec
CONSTANTS
  a = a  b = b  c = c  p = p  q = q  x = x  y = y
  Threads = {a, b}
  Keys = {p}
  Values = {x, y}
  None = None
  Size = 2
  Hash <- Colliding
INVARIANTS InsertedOnce
