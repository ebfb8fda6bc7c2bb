CONSTANTS
  p1 = p1
  p2 = p2
  o1 = o1
  o2 = o2
  o3 = o3
  Processor = {p1}
  OrderId = {o1, o2, o3}
  TakeChain <- MCOneTakeChain
  UsdValue <- MCUsdValue
  Confirmations <- MCConfirmations
  Threshold <- MCThreshold
  None = None
SPECIFICATION LimitSpec
INVARIANT
  ThroughputNotExceeded
