CONSTANTS
  Rows <- Slow
  Default = "default"
  P2 = 1
  P2Adjust = 0
  P2Star = 2
  P4 = 3
  S3 = 2
  P4Nrc = "BRR"
  MaxPending = 2
  AppOutcomes <- Pends
  AppDrops = FALSE
  Requests <- SlowRequests
  MaxRequests = 1
  None = None
SPECIFICATION Spec
INVARIANTS ReportIsTheAnswers
