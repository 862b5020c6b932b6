SPECIFICATION Spec
CONSTANTS
  n1 = n1
  n2 = n2
  n3 = n3
  g1 = g1
  g2 = g2
  Nodes <- MCNodes
  Gateways <- MCGateways
  Starts <- MCStarts
  MaxDraws <- MCDraws
  BucketCount = 3
  PerBucket = 1
  Capacity = 2
  CommitAttempts = 2
  Window = 3
  MaxOps = 2
  MaxMishaps = 1
INVARIANTS PairingIsWhole PeersServeRegistry WindowIsHonest
PROPERTY JoinMeetsItsNode
CHECK_DEADLOCK FALSE
