CONSTANTS
  Addrs = {1, 2}
  Registered = {1}
  OpNames = {"x"}
  Rpcs = {1, 2, 3}
  MgmtTimeout = 2
  PickupTicks = 1
  BusyTicks = 3
  WindowTicks = 4
  LateTicks = 0
  MaxDelay = 1
  RecentIds = 1
  HeldUplinks = 1
  GapRetries = 1
  EngPlans <- MCPlans
SPECIFICATION EngSpec
INVARIANTS RequestsSettle MirrorHonest
CHECK_DEADLOCK FALSE
