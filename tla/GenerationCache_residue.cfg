SPECIFICATION MCSpec
CONSTANTS
  i1 = i1  i2 = i2  i3 = i3  o1 = o1  o2 = o2  p1 = p1  p2 = p2  q1 = q1  q2 = q2  t1 = t1  t2 = t2
  None = None
  Id <- MCId
  SeqNo <- MCSeq
  Op <- MCOp
  Proc <- MCProc
  Token <- MCToken
  MaxRetained = 1
  MaxFootprint = 3
  MaxRevision = 3
  MaxFails <- MCFails
  MaxKills <- MCKills
  Caller <- MCCaller
  OpOf <- MCOpOf
  MaxSlotRevision = 5
  MaxSlotLosses = 1
  MaxSlotFails <- MCKills
  MaxSlotKills <- MCKills
  MaxLosses = 0
SYMMETRY MCSymmetry
INVARIANTS ResidueReconcilable
