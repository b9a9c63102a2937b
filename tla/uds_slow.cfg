CONSTANTS
  Rows <- Slow
  Default = "default"
  P2 = 2
  P2Adjust = 1
  P2Star = 2
  P4 = 3
  S3 = 3
  P4Nrc = "BRR"
  MaxPending = 1
  AppOutcomes <- Pends
  AppDrops = TRUE
  Requests <- SlowRequests
  MaxRequests = 2
  None = None
SPECIFICATION FairSpec
INVARIANTS AnsweredOnceInOrder ToldHowItEnded OwedAnswerSent
PROPERTIES ServerMovesOn
