CONSTANTS
  c1 = c1
  c2 = c2
  undefined = undefined
  fixed = fixed
  Children = {c1, c2}
  MaxEnds = 2
  MaxStops = 1
  MaxRemovals = 1
  None = undefined
  Fixed = fixed
SPECIFICATION FairSpec
INVARIANTS
  TypeOK
  HandleAlive
  NoReconnectWhenStopped
PROPERTIES
  ReconnectRepeats
  Restored
CHECK_DEADLOCK FALSE
