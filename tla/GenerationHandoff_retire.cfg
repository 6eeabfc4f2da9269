SPECIFICATION Spec
CONSTANTS
  Absent = Absent
  Unknown = Unknown
  MaxBytes = 3
  MaxStorage = 8
  MaxLineage = 1
  MaxRequests = 6
  Caller = {c1, c2}
  Capability <- MCCapability
  Operation = {"op"}
  Root <- MCRoot
  Cached <- MCCached
  Target = 1
  Start <- MCStart
  MaxSaves = 1
  MaxMeddling = 1
  MaxClock = 1
  Jobs <- MCJobs
  MaxLeases = 1
  MaxChanges = 1
  MaxFaults = 1
  MaxTampers = 0
INVARIANT RetirementFinishes
CHECK_DEADLOCK FALSE
SYMMETRY Callers
