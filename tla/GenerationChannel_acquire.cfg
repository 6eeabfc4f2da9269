SPECIFICATION ChannelSpec
CONSTANTS
  Absent = Absent
  MaxBytes = 3
  MaxStorage = 8
  MaxLineage = 1
  MaxRequests = 6
  Discoveries <- MCDiscoveries
  Manifests <- MCManifests
  Signatures <- MCSignatures
  Policy = "installed"
  Primary = "primary"
  Target = 1
  MaxIntrusions = 1
  Limit = 1
  MaxWrites = 2
  MaxFaults = 1
INVARIANTS CommittedIsAuthentic ReservationCovers NoResidue VerdictSound
PROPERTY Returns
CHECK_DEADLOCK FALSE
