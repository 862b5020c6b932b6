CONSTANTS
  n1 = n1
  n2 = n2
  Devs = {n1, n2}
  Reps = 2
  P = 2
  Worlds <- MCWorlds
  QueueCap = 2
  PerNodeCap = 2
  MaxId = 2
  Nodes = {n1, n2}
  Scenes <- MCScenes
SPECIFICATION MCSpec
INVARIANTS DeliveredIsTaken HandedOnce AckBudget HonestReply RunsInOrder QueueSound
PROPERTIES ImplementsDelivery
CHECK_DEADLOCK FALSE
