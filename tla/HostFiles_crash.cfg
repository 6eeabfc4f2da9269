\* Errors, kills, power losses and retries; no other program touches the outputs.
CONSTANTS
  Inode = {i1, i2, i3}
  None = None
  MaxFaults = 1
  MaxLosses = 1
  MaxTampers = 0
  App = {a1, a2}
  Session = {s1, s2}
  Nobody = nobody
  MaxStream = 5
  Limit = 4
  PipeSize = 1
  Exporter = {e1, e2}
  Number = {1, 2}
  Foreign = foreign
  Nothing = nothing
  MaxOthers = 3
  Proc = {p1, p2}
  Change = {c1, c2}
  Lock = {l1, l2}
  NoLock = nolock
  MaxCrashes = 1
  Call = {1, 2}
  Version = {1, 2}
  Reviewed = 1
  Stamp = {1, 2}
  MaxCalls = 4
  MaxChanges = 1
SPECIFICATION FilesSpec
INVARIANT ImageBeforeManifest
INVARIANT CompletionDurable
INVARIANT ReceiptMeansPublished
INVARIANT GuestSafe
INVARIANT SettingsKept
INVARIANT InputsExact
PROPERTY ImplementsOutputPair
PROPERTY RetriesConverge
PROPERTY ImagesWhole
CHECK_DEADLOCK FALSE
