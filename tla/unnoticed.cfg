CONSTANTS
  a1 = a1
  a2 = a2
  a3 = a3
  a4 = a4
  p1 = p1
  p2 = p2
  c1 = c1
  c2 = c2
  m1 = m1
  m2 = m2
  e1 = e1
  NoAgent = NoAgent
  Agent = {a1, a2, a3}
  Process = {p1}
  Client = {c1}
  Mask = {m1}
  Event = {e1}
  HostOf <- HostOne
  MatchedBy <- OneMask
  Boot <- Chain
  Local <- Home
  MaxOps = 2
  MaxFaults = 1
  MaxWriteErrors = 1
SPECIFICATION Spec
INVARIANT RegisteredIsPropagated
CHECK_DEADLOCK FALSE
