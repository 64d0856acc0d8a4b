CONSTANTS
  a1 = a1
  a2 = a2
  a3 = a3
  a4 = a4
  p1 = p1
  p2 = p2
  c1 = c1
  c2 = c2
  m1 = m1
  m2 = m2
  e1 = e1
  NoAgent = NoAgent
  Agent = {a1, a2}
  Process = {p1}
  Client = {c1, c2}
  Mask = {m1}
  Event = {}
  HostOf <- TwoOnOne
  MatchedBy <- NoEvents
  Boot <- Pair
  Local <- Away
  MaxOps = 5
  MaxFaults = 1
  MaxWriteErrors = 1
SPECIFICATION Spec
INVARIANT TablesAgreeEverywhere
INVARIANT PeersSettle
INVARIANT InterestReaches
CHECK_DEADLOCK FALSE
SYMMETRY Handles
