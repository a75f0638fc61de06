SPECIFICATION FairSpec
CONSTANTS
  a = a  b = b  c = c  p = p  q = q  x = x  y = y
  Threads = {a, b}
  Keys = {p, q}
  Values = {x, y}
  None = None
  Size = 2
  Hash <- Colliding
INVARIANTS TypeOK FoundWasInserted FoundIsStable
PROPERTIES FindsWhatIsKnown CallsReturn
