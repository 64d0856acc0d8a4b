CONSTANTS
  a1 = a1
  a2 = a2
  a3 = a3
  a4 = a4
  NoAgent = NoAgent
  Nowhere = Nowhere
  Agent = {a1, a2, a3}
  Tries = 2
  Scenarios <- Small
SPECIFICATION FairSpec
INVARIANT TypeOK
INVARIANT OneRootEntry
INVARIANT NoRing
PROPERTY TreeForms
CHECK_DEADLOCK FALSE
