CONSTANTS
  c1 = c1
  c2 = c2
  Call = {c1, c2}
  Repeatable = {c2}
  CappedCall = {c1}
  Chains = {"Ethereum", "BSC", "Polygon"}
  Markets <- MCMarkets
  Scenarios <- MCScenarios
  Eip1559Compatible <- MCEip1559Compatible
  InputOpts <- MCInputOpts
  GasLimit = 21
  SendMaxAttempts = 3
  PollingMaxAttempts = 2
SPECIFICATION Spec
PROPERTIES
  AllBroadcastsSought
