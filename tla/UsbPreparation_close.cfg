SPECIFICATION Spec
CONSTANTS
  None = None
  Disks = {da, db}
  Workers = {1, 2}
  Blocks = 2
  TTL = 2
  MaxTime = 2
  MaxArms = 2
  MaxPlugs = 2
PROPERTIES OpenUntilSettled
