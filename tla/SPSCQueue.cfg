SPECIFICATION ObservedSpec
CONSTANTS
  x = x  y = y
  Items = {x, y}
  NoItem = NoItem
  Size = 4
  MaxPushes = 6
  WeakLoads = FALSE
INVARIANTS SlotExclusive Inv
PROPERTIES ImplementsQueue EmptyReport
