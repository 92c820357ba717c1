SPECIFICATION FairSpec
CONSTANTS
  Downloader = {d1, d2, d3}
  Deleter = {x1}
  Private = {d3}
  None = None
  Whole = Whole
  Want <- WantPool
INVARIANTS EntryHasOwner ChannelClosedOnce ImageFileThere
 
CHECK_DEADLOCK FALSE
