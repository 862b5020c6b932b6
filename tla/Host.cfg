CONSTANTS
  ReqCap = 1
  Inflight = 1
  BacklogCap = 1
  SvcWorlds <- MCSvcWorlds
  MaxRuns = 3
  Handshakes = 1
  Connections = 2
  HandshakeTime = 2
  Peers = {p1, p2, p3}
  FamilyPages = 8
  Densities = {4, 8}
  EraseChunk = 3
  Images = {0, 1, 3, 5, 9}
  ConnectAttempts = 2
  FlashFaults = 1
  RespCap = 4
  ShellChunk = 3
  MaxTokens = 5
  RxDepth = 2
  WireCap = 2
  MaxResponse = 9
  FramingRun = 2
  Lines <- MCLines
  RemoteLines <- MCRemote
  TabLines <- MCTabs
  ExecIds = {1, 2}
  MaxReqs = 2
  MaxPrograms = 2
  MaxFaults = 1
  LineWords = {"a", "b"}
  MaxWords = 2
  MaxEntries = 3
  Screens = {s1, s2}
  StartFile <- MCFile
  MaxKeys = 5
  MaxHistRuns = 2
  PendingMax = 2
  PendingIdle = 2
  HelloRace = 1
  ReplyCap = 2
  Cap = 4
  CrcRun = 2
  SeqRange = 8
  PaneRows = 2
  PageRows = 2
  MaxLine = 3
  TuiWorlds <- MCTuiWorlds
  NodeAddrs = {1, 2, 3}
  UsbPorts = {1, 2}
  KeyShown = 2
  OtaWait = 2
  CatchTime = 2
  ChartCap = 3
  DialogCap = 3
  ChartBars = 2
  MaxWorkers = 2
  GtWorlds <- MCGtWorlds
SPECIFICATION MCSpec
INVARIANTS ServiceHolds ClientHolds FlashHolds SessionHolds ConsoleScreenHolds GatewayScreenHolds
CHECK_DEADLOCK FALSE
