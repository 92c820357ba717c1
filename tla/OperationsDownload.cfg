SPECIFICATION FairSpec
CONSTANTS
  Class = "task"
  Downloads = TRUE
  Canceller = {c1, c2}
  Waiter = {w1}
  Connector = {}
  Runner = Runner
  Unseen = Unseen
PROPERTIES
  LeavesList
CHECK_DEADLOCK FALSE
