SPECIFICATION MCSpec
CONSTANTS
  da = da  db = db
  None = None
  Disks <- MCDisks
  Workers <- MCWorkers
  Blocks = 2
  TTL = 2
  MaxTime = 2
  MaxArms = 2
  MaxPlugs = 2
INVARIANTS OneOperation NoResurrection RevokedStops
PROPERTIES DiskSafe Settles
