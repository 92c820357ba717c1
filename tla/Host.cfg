SPECIFICATION Spec
CONSTANTS
  HostParts = {"pools", "attach", "networks", "cpus", "hotplug", "nics", "limits", "idmaps", "exec"}
  PoolDrivers = {"dir", "btrfs", "zfs", "lvm"}
  PoolReqs = {a, b}
  MaxPoolFaults = 2
  MaxReboots = 1
  VolDrivers = {"dir", "lvm", "zfs"}
  Users = {a, b}
  IdMaps = {0, 1, 2}
  Free = Free
  MaxVolFaults = 1
  MaxVolEdits = 1
  Nets = {"br", "brx"}
  Longer <- MCLonger
  Settings = {1, 2}
  Guests = {g1}
  NetReqs = {a, b}
  MaxNetFaults = 1
  MaxNetStarts = 1
  Cpus = {0, 1, 2}
  Loads = {a, b}
  CpuLimits <- MCCpuLimits
  MaxCpuEvents = 3
  HotKinds = {"usb", "gpu"}
  Boxes = {a, b}
  Parts = {"d1", "d2"}
  Entries = {"first", "second"}
  Matches <- MCMatches
  MaxPlugs = 2
  MaxHotFaults = 1
  NicReqs = {a, b}
  MaxMac = 4
  MaxNicFaults = 1
  None = None
  Gone = Gone
  Memories = {4, 8}
  Speeds = {2, 6}
  Ifaces = {"e0"}
  MaxLimitEdits = 2
  MaxLimitFaults = 1
  Hosts <- MCHosts
  RawLines <- MCRawLines
  Useful = 4
  Posix = 6
  AllIds = 40
  MaxRawLines = 2
  OutFds = {1}
  MaxOut = 2
  MaxExecFaults = 1
INVARIANTS StorageServes  Balanced DevicesKept LimitsHold IdsAsSaid ExecWhole
CONSTRAINT Followed
SYMMETRY Alike
CHECK_DEADLOCK FALSE
