SPECIFICATION FairClientSpec
CONSTANTS
  o1 = o1
  o2 = o2
  c1 = c1
  c2 = c2
  c3 = c3
  Keeper = Keeper
  None = None
  Op = {o1, o2}
  Caller = {c1, c2, c3}
  Adder = {c2}
  Of <- MCOf
  Envs <- MCEnvs
INVARIANTS WaitedIsFinal ListenersServed
PROPERTY WaitsReturn
CHECK_DEADLOCK FALSE
