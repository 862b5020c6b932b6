CONSTANTS
  MaxCounter = 7
  Reserve = 2
  AnyImport = FALSE
  n1 = n1
  n2 = n2
  Addrs = {n1, n2}
  Locals = 2
  Persist = 2
  MaxFrame = 4
  Floors = {0, 2}
  MaxKeys = 2
  MaxOps = 4
  MaxFaults = 1
  AllFloors = FALSE
  h1 = h1
  Joiners = {n1}
  Hosts = {h1}
  Reserved = {}
  Ceiling = 4
  JoinKeys = 2
  JoinOps = 2
  Nobody = Nobody
SPECIFICATION MCSpec
INVARIANTS NonceUnique FloorRespected FloorCoversSent SkipBound LaneIsOwn WindowBounded FloorHonoured KeyedJoinSound
PROPERTY WatermarkMonotone
CHECK_DEADLOCK FALSE
