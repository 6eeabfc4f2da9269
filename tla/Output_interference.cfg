SPECIFICATION MCSpec
CONSTANTS
  Proc = {p1, p2}
  Path = {s1, s2}
  File = {f1, f2}
  Inode = {i1, i2, i3}
  None = None
  Nil = Nil
  a = a
  b = b
  c = c
  Output <- MCOutput
  ManifestOf <- MCManifest
  MaxChanges = 1
  MaxReplacements = 2
  MaxDrops = 1
  MaxFaults = 1
  MaxLosses = 0
  MaxTampers = 2
SYMMETRY MCSymmetry
INVARIANTS Exclusive NoWaitCycle
PROPERTIES RecordsTrue CertifiedKept CompleteWitnessed
CHECK_DEADLOCK FALSE
