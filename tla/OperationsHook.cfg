SPECIFICATION FairSpec
CONSTANTS
  Class = "websocket"
  Downloads = FALSE
  Canceller = {c1}
  Waiter = {w1, w2}
  Connector = {k1}
  Runner = Runner
  Unseen = Unseen
INVARIANTS
  DoneOnce
  ResultSeen
PROPERTIES
  ImplementsLifecycle
  WaitersAnswered
CHECK_DEADLOCK FALSE
