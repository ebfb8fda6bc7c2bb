CONSTANTS
  Avalanche = Avalanche
  Solana = Solana
  Polygon = Polygon
  Linea = Linea
  Neon = Neon
  Optimism = Optimism
  k1 = k1
  k2 = k2
  k3 = k3
  usdcA = usdcA
  usdcO = usdcO
  usdcS = usdcS
  eth = eth
  o1 = o1
  o2 = o2
  None = None
  Finalized = Finalized
  ChainId = {Avalanche, Solana, Polygon, Linea, Neon, Optimism}
  EvmChain = {Avalanche, Polygon, Linea, Neon, Optimism}
  Definition <- MCDefinition
  SharedConstraints <- MCShared
  GlobalFilters <- MCFilters
  Buckets <- MCBuckets
  Price <- MCPrice
  Decimals <- MCDecimals
  OrderId = {o1, o2}
  OrderData <- MCOrderData
  OpHorizonCampaign = TRUE
  PromiseId = {1, 2, 3, 4, 5, 6}
  Reserve <- MCReserve
  Finalization <- MCFinalization
  Balance = {0, 100}
  SwapOutcome = {2, 3}
  MaxTime = 1
SPECIFICATION FairSpec
INVARIANTS
  TypeOK
  UnfinalizedWithinRange
  AssertionsHold
  FlushedOrdersCounted
  SharedComputation
PROPERTIES
  AttemptsEnd
CHECK_DEADLOCK FALSE
