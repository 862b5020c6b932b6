CONSTANTS
  a1 = a1
  Addrs = {a1}
  Locals = 2
  Persist = 2
  MaxFrame = 4
  Floors = {0, 2}
  MaxKeys = 2
  MaxOps = 5
  MaxFaults = 0
  AllFloors = TRUE
SPECIFICATION LaneSpec
INVARIANTS FloorHonoured
CHECK_DEADLOCK FALSE
