CONSTANTS
  all = all
  bad = bad
  spaced = spaced
  All = all
  Bad = bad
  Spaced = spaced
  t1 = t1
  t2 = t2
  Thread = {t1, t2}
  String <- Strings
  Table <- Tables
  Schema <- Schemas
  Name <- Names4
  Severity <- Severities
  OwnSpace = "own"
  MaxEvents = 2
  MaxCalls = 3
SPECIFICATION Spec
INVARIANT ParsedAlone
INVARIANT NothingInvented
INVARIANT EachNameOnce
INVARIANT LimitNearlyKept
INVARIANT AcceptedIsDeclared
INVARIANT SameNumberOverlapped
CHECK_DEADLOCK FALSE
