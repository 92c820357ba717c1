SPECIFICATION IdmapSpec
CONSTANTS
  Ctn = {a, b}
  Req = {q1, q2}
  None = None
  HostBase = 2
  Span = 6
  Sizes = {1}
  Kinds = {"", "isolated", "privileged"}
  MaxDeaths = 0
INVARIANT UniqueRange
