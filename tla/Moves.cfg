SPECIFICATION MovesSpec
CONSTANTS
  Latest = 3
  Legacy = {2}
  Redoable = {3}
  NPatches = 3
  StorageApi = 2
  MaxFaults = 3
  Readiers = {r1, r2}
  Ctns <- MCCtns
  Snapped = {"c1", "c2"}
  Imgs <- MCImgs
  Types = {"dir", "btrfs", "lvm", "zfs"}
  DirBacked = {"c2"}
  Jobs <- MCJobs
  MaxMoveFaults = 2
  Moved = {"installation", "container"}
INVARIANTS UpToDate NothingLost Handover Transferred
PROPERTY MovesEnd
CHECK_DEADLOCK FALSE
