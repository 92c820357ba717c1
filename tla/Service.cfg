SPECIFICATION MCSpec
CONSTANTS
  Services = {"images", "recovery", "edits", "files"}
  Fps = {"f1", "f2"}
  ImgPools = {"p1"}
  Names = {"n1"}
  ImgReqs = {r1, r2}
  MaxImgIds = 2
  MaxImgFaults = 1
  Cts = {"a", "b"}
  Snaps = {"s", "t"}
  Cfgs = {1, 2}
  MaxLosses = 2
  MaxRecFaults = 1
  Editors = {r1, r2}
  EditKinds = {"container", "profile", "server", "network", "pool", "volume", "certificate"}
  Values = {0, 1, 2}
  Hidden = Hidden
  MaxEdits = 2
  MaxEditFaults = 1
  FileReqs = {r1, r2}
  Maps = {0, 1}
  Templates <- MCTemplates
  MaxFileCmds = 2
  MaxFileStarts = 1
  MaxFileFaults = 1
INVARIANTS ImagesWhole Recoverable EditsKept FilesWhole
CONSTRAINT Followed
SYMMETRY Alike
CHECK_DEADLOCK FALSE
