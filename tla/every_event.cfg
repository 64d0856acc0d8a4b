CONSTANTS
  x = x
  y = y
  z = z
  Nil = Nil
  Conn = {x, y}
  Sends <- Uneven
  Lost = {x}
  MaxRefused = 0
SPECIFICATION Spec
INVARIANT EveryMessageIsKept
