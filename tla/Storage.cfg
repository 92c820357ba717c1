SPECIFICATION Spec
CONSTANTS
  Container = {a, b, c}
  SnapName = {s1, s2}
  Image = {"i1"}
  Data = {"v1"}
  Drivers = {"dir","btrfs","lvm","lvmthin","zfs"}
  Overlap = FALSE
  MaxUuid = 2
  MaxSize = 5
SYMMETRY Sym
CONSTRAINT Followed
INVARIANTS VolumesHaveRows  ImageUsable
PROPERTY ImplementsVolumeStore
