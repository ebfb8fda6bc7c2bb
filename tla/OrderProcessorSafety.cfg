CONSTANTS
  o1 = o1
  o2 = o2
  OrderId = {o1, o2}
  FeedStatus <- MCFeedStatus
  MaxEvents = 2
  None = None
SPECIFICATION SafetySpec
INVARIANTS
  TypeOK
  MetadataPresent
  MutualExclusion
  NoLostWakeup
  NoOrderForgotten
  OneTimeoutPerOrder
PROPERTIES
  NoAttemptOfClosedOrder
  RevokedLiveOrderNotTaken
  ImplementsTakeSchedule
SYMMETRY Symmetry
