CONSTANTS
  Parts = {"pool", "queue", "messages", "timers", "ring", "log", "flags", "coro", "devices"}
  Align = 4
  SizeMax = 1023
  TierStruct = 8
  PoolConfigs <- MCPools
  AllocSizes = {4, 6, 8, 12, 17}
  StrayAddrs <- MCStray
  QCapacities = {1, 3}
  QElements = {1, 2}
  QNone = 0
  HeaderSize = 4
  MsgLens = {2, 4}
  A = A
  B = B
  MsgQueues = {A, B}
  QueueLen = 1
  Groups <- MCGroups
  MsgBudget = 3
  Plans <- MCPlans
  TimerHead = "head"
  TickWrap = 6
  PassGap = 1
  CallbackMoves = 1
  RingCapacity = 4
  RingBytes = 3
  LogCapacity = 7
  LineMax = 4
  LineLens = {1, 2, 5}
  LogBudget = 3
  Modules = {"valve", "log"}
  Takers = {"main1", "main2"}
  RaiseBudget = 2
  CoroWrap = 8
  PollGap = 2
  Sleep = 2
  Period = 3
  Timeout = 3
  Level = 2
  KthAddrs = {255, 0}
  KthBytes = {0, 1}
  KtmPlain = {25}
  KtmSamples <- MCSamples
  KtmStored <- MCStored
  KtmNoise <- MCNoise
  LedCount = 3
  LedReset = 1
  LedColors <- MCColors
  LedLevels = {100}
  CrcStreams <- MCStreams
  ShaChunks = {0, 1, 3, 52, 63, 64, 65, 129}
  ShaMax = 140
  ShaHashed = {0, 3}
  BytesWidths = {16, 32, 64}
  BytesValues <- MCWord
  BytesTouched = {9}
SPECIFICATION MCSpec
INVARIANTS PoolSound MessagesHeld LinesKept AlgorithmsAgree
PROPERTIES QueueIsFifo MessagesComeBack TimersKeepTime FlagsArrive WaitsKept SensorsTrue StripTrue
CHECK_DEADLOCK FALSE
