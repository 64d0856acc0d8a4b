CONSTANTS
  x = x
  y = y
  z = z
  Nil = Nil
  Conn = {x, y, z}
  Sends <- TwoOneOne
  Lost = {x, y}
  MaxRefused = 1
SPECIFICATION FairSpec
INVARIANT TypeOK
INVARIANT PointersAreLive
INVARIANT InOrder
PROPERTY ListIsFifo
PROPERTY ListedIsReceived
