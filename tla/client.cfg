CONSTANTS
  all = all
  All = all
  a1 = a1
  a2 = a2
  poller = poller
  notified = notified
  Polls = {poller}
  Notified = {notified}
  App = {a1, a2}
  Rx = Rx
  NoOne = NoOne
  Mask <- Masks
  Event <- Events
  QueueLen = 1
  Scenarios <- Small
SPECIFICATION FairSpec
INVARIANT TypeOK
INVARIANT OnePlace
INVARIANT InOrder
INVARIANT MapsHoldSubscriptions
INVARIANT SubscribedIsRegistered
CHECK_DEADLOCK FALSE
PROPERTY HandedOn
PROPERTY CallsReturn
