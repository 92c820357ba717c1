SPECIFICATION Spec
CONSTANTS
  Ctn = {a, b, c}
  Req = {q1}
  None = None
  HostBase = 1
  Span = 6
  Sizes = {1, 2}
  Kinds = {"", "isolated"}
  MaxDeaths = 1
  Client = {r1, r2}
  Editor = {r2}
  Nobody = Nobody
  Maps = {"raw", "own", "whole"}
  Within <- MCWithin
  Wide = {"whole"}
  Limits = {1, 2}
  Wishes = {"map", "limit"}
  Created <- MCCreated
  Cuts = 1
  Sides = {"ids", "config"}
SYMMETRY Alike
CONSTRAINT Followed
INVARIANTS
  RangesApart
  FilesMapped
  LiveMatches
  EphemeralKept
CHECK_DEADLOCK FALSE
