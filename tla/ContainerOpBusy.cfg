SPECIFICATION TimedSpec
CONSTANTS
  Proc = {p1, p2, p3}
  None = None
  Calls = {"start"}
  SelfHalts = {}
  MaxTimeouts = 6
  HostShuts = TRUE
PROPERTY BusyEnds
CHECK_DEADLOCK FALSE
