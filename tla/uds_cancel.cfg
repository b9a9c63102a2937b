CONSTANTS
  P2 = 1
  P2Star = 2
  SendTimeout = 1
  P2Unit = 1
  P2StarUnit = 2
  MaxPending = 1
  FixedTiming = FALSE
  Default = "default"
  Control = "control"
  Requests <- Mixed
  Bodies <- Answers
  AppTimings <- Longer
  SendCancels = TRUE
  MaxRequests = 1
  MaxAir = 2
  None = None
SPECIFICATION Spec
INVARIANTS CancelHonoured
