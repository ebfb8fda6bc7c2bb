CONSTANTS
  o1 = o1
  o2 = o2
  OrderId = {o1, o2}
  FeedStatus <- MCFeedStatusUnlock
  MaxEvents = 2
  None = None
SPECIFICATION Spec
PROPERTIES
  QueuedEventsHandled
  PriorityOrdersServed
  RevocationHandled
