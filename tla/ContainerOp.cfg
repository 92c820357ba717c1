SPECIFICATION Spec
CONSTANTS
  Proc = {p1, p2, p3}
  None = None
  Calls = {"start", "stop", "checkpoint", "shutdown"}
  SelfHalts = {"stop", "reboot", "unknown"}
  MaxTimeouts = 2
  HostShuts = FALSE
SYMMETRY CallSymmetry
INVARIANTS
  ClosedOnce
  StopJoinsOnlyStops
PROPERTY DoneIsFinal
CHECK_DEADLOCK FALSE
