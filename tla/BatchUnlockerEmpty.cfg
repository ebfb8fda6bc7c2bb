CONSTANTS
  o1 = o1
  o2 = o2
  o3 = o3
  o4 = o4
  c1 = c1
  c2 = c2
  OrderId = {o1, o2, o3, o4}
  Chain = {c1, c2}
  GiveChain <- MCGiveChain
  BatchSize <- MCBatchSizePairs
  MaxChecks = 1
SPECIFICATION Spec
INVARIANT
  NoEmptyBatch
