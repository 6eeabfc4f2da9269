SPECIFICATION WindowsSpec
CONSTANTS
  MaxBuild = 2
  Version = {1}
  Port = {1}
  MaxDeaths = 1
  MaxContent = 2
  MaxCommit = 5
  MaxEdits = 2
  MaxCalls = 3
  WinDisk = {1, 2}
  WinVolumes = 2
  NoDisk = 0
  MaxWrites = 2
  MaxSwaps = 2
  MaxFaults = 1
  MaxFailures = 2
  MaxSignals = 1
INVARIANTS ExportedInstalled WritersKnown CancelledIsStopped RootRestored
PROPERTY MaintainerExact
CHECK_DEADLOCK FALSE
