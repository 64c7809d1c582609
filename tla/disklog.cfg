CONSTANTS
  Modes = {"writer", "watcher"}
  Mutation = {1, 2}
  MaxRecords = 4
  MaxFiles = 3
  MaxDiskFaults = 2
SPECIFICATION FairDiskSpec
INVARIANT IndexIsOnDisk
PROPERTIES ServedOnlyGrows EverythingIsServed
CHECK_DEADLOCK FALSE
