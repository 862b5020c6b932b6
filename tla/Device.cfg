CONSTANTS
  Draws <- MCDraws
  FhssN = 3
  AcquireSlack = 1
  ResyncSlack = 1
  MissLimit = 2
  MaxStale = 3
  HopHorizon = 12
  MaxEvents = 1
  MaxReplays = 2
  Lengths <- MCLengths
  BulkChunk = 2
  ReqReps = 3
  MaxFetches = 3
  CapMs = 3
  Permil = 2
  Milli = 5
  MaxU = 23
  Steps = {1, 2, 4, 24}
  Toas = {1, 2, 3}
  MaxWindow = 26
  MaxTries = 3
  RxTimeout = 3
  SyncHold = 2
  FrameTime = 1
  MaxCalls = 3
  AfaN = 2
  OffTime = 2
  AfaReps = 2
  AfaHorizon = 3
  MaxSends = 2
  RingBytes = 9
  Lens = {1, 4}
  MaxPayload = 3
  Producers = {a1, a2}
  SeqWrap = 4
  MaxProduced = 3
  MaxLinks = 2
  Stalls = 1
  MinHold = 2
  LineSettle = 3
  OpenSettle = 4
  NoHost = 2
  Pulse = 5
  Gap = 1
  BackoffMax = 4
  MaxPrograms = 3
  MaxPlugs = 3
  DebouncePress = 1
  DebounceRelease = 1
  ClickTimeout = 2
  HoldTime = 3
  ButtonDepth = 2
  HeldCap = 5
  RepairHold = 5
  Period = 3
  Heartbeat = 6
  Delta = 2
  Temps = {0, 2}
  UnpairedCue = 4
  AccelUplinkMin = 3
  TiltInterval = 2
  BackoffMin = 1
  BackoffTop = 2
  Rearm = 1
  StuckReads = 2
  Faces = {1, 2}
  ResyncEvery = 4
  ResyncWait = 2
  ScanTicks = 2
  MissedSlots = 2
  Enabled = {"Press"}
  Worlds <- MCWorlds
  Nominal = 7
  Chips <- MCChips
  MaxAge = 3
  StallMax = 3
  LegitStall = 2
  HealthyUptime = 4
  LoopThreshold = 2
  MaxResets = 2
  Backgrounds <- MCBackgrounds
  Instants <- MCInstants
  Pulses <- MCPulses
  Delays = {0, 2}
  LedDepth = 2
  MaxCommands = 4
  MaxCheckinAge = 10
  PairSlice = 2
  Handshake = 4
  Ephemeral = 2
  Compaction = 6
  RetryTail = 2
  CommitGrace = 15
  CommitRound = 12
  Windows = {10, 30}
  Capacity = 2
  MaxWindows = 2
  MaxTurns = 7
SPECIFICATION MCSpec
INVARIANTS HopHolds BulkHolds ChannelHolds ConsoleHolds NodeHolds HealthHolds LoopHolds
CHECK_DEADLOCK FALSE
