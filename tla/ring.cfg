CONSTANTS
  a1 = a1
  a2 = a2
  a3 = a3
  a4 = a4
  NoAgent = NoAgent
  Nowhere = Nowhere
  Agent = {a1, a2, a3, a4}
  Tries = 2
  Scenarios <- OneLeaves
SPECIFICATION Spec
INVARIANT NoRing
CHECK_DEADLOCK FALSE
