CONSTANTS
  p1 = p1
  p2 = p2
  o1 = o1
  o2 = o2
  o3 = o3
  Processor = {p1, p2}
  OrderId = {o1, o2, o3}
  TakeChain <- MCTakeChain
  UsdValue <- MCUsdValue
  Confirmations <- MCConfirmations
  Threshold <- MCThreshold
  None = None
SPECIFICATION Spec
INVARIANTS
  TypeOK
  LockedIsTotal
  BudgetReleased
  OvershootBounded
