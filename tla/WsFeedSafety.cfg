CONSTANTS
  o1 = o1
  o2 = o2
  k1 = k1
  k2 = k2
  rival = rival
  OrderId = {o1, o2}
  UnlockAuthorities <- MCUnlockAuthorities
  Taker <- MCTaker
  PingTimeout = 2
  MaxFaults = 2
  None = None
SPECIFICATION Spec
INVARIANTS
  TypeOK
  InSync
PROPERTIES
  NeverBackwards
  OrdersHanded
