CONSTANTS
  a1 = a1
  a2 = a2
  a3 = a3
  a4 = a4
  p1 = p1
  p2 = p2
  c1 = c1
  c2 = c2
  m1 = m1
  m2 = m2
  e1 = e1
  NoAgent = NoAgent
  Agent = {a1, a2, a3}
  Process = {p1, p2}
  Client = {c1, c2}
  Mask = {m1, m2}
  Event = {e1}
  HostOf <- OneEach
  MatchedBy <- TwoMasks
  Boot <- Chain
  Local <- Ends
  MaxOps = 5
  MaxFaults = 0
  MaxWriteErrors = 0
SPECIFICATION Spec
INVARIANT InterestReaches
INVARIANT OwedIsDelivered
INVARIANT AtMostOnce
CHECK_DEADLOCK FALSE
