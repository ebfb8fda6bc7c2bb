CONSTANTS
  o1 = o1
  o2 = o2
  OrderId = {o1, o2}
  FeedStatus <- MCFeedStatusUnlock
  MaxEvents = 1
  None = None
SPECIFICATION Spec
PROPERTIES
  RevokeHonoured
