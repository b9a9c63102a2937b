CONSTANTS
  Rows <- Conversation
  Default = "default"
  P2 = 1
  P2Adjust = 0
  P2Star = 1
  P4 = 2
  S3 = 2
  P4Nrc = "BRR"
  MaxPending = 1
  AppOutcomes <- Anything
  AppDrops = TRUE
  Requests <- ConversationRequests
  MaxRequests = 3
  None = None
  Ecu <- MCEcu
  Tester <- MCTester
  Control = "control"
  P2Unit = 2
  P2StarUnit = 1
  PairRequests <- MCPairRequests
  MaxAsks = 2
  InLen = 2
  OutLen = 1
  MaxTroubles = 1
  Nil = None
SPECIFICATION ConversationSpec
INVARIANTS SessionSound ActsOnAcceptance PoliteIsHeard WindowsCover
PROPERTIES EachAtHome
