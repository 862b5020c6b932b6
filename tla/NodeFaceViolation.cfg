CONSTANTS
  DebouncePress = 1
  DebounceRelease = 1
  ClickTimeout = 1
  HoldTime = 3
  ButtonDepth = 2
  HeldCap = 5
  RepairHold = 5
  Period = 3
  Heartbeat = 6
  Delta = 2
  Temps = {0, 2}
  UnpairedCue = 4
  AccelUplinkMin = 3
  TiltInterval = 2
  BackoffMin = 1
  BackoffTop = 2
  Rearm = 1
  StuckReads = 2
  Faces = {1, 2}
  ResyncEvery = 4
  ResyncWait = 2
  ScanTicks = 2
  MissedSlots = 2
  Enabled = {"Press"}
  Worlds <- FaceWorlds
SPECIFICATION NodeSpec
INVARIANT LatestFace
CHECK_DEADLOCK FALSE
