CONSTANTS
  n1 = n1
  n2 = n2
  Devs = {n1, n2}
  Reps = 2
  P = 2
  Worlds <- FairWorlds
  QueueCap = 2
  PerNodeCap = 2
  MaxId = 3
  Nodes = {n1}
  Scenes <- FairScenes
SPECIFICATION MCFairSpec
PROPERTIES Settles NodeSleeps
CHECK_DEADLOCK FALSE
