SPECIFICATION Spec
CONSTANTS
  Absent = Absent
  Unknown = Unknown
  MaxBytes = 3
  MaxStorage = 8
  MaxLineage = 1
  MaxRequests = 6
  Caller = {c1, c2}
  Capability <- MCCapability
  Operation = {"op"}
  Root <- MCRoot
  Cached <- MCCached
  Target = 1
  Start <- MCStart
  MaxSaves = 3
  MaxMeddling = 1
  MaxClock = 3
  Jobs <- MCJobs
  MaxLeases = 2
  MaxChanges = 1
  MaxFaults = 2
  MaxTampers = 1
INVARIANTS HandoffWhole RestartRecovers
           ActiveDescends SaveJustified RevalidatedAtOnce
PROPERTY ForeignKept
CHECK_DEADLOCK FALSE
SYMMETRY Callers
