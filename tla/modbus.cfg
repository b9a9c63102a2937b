SPECIFICATION MCSpec
CONSTANTS
  Requests <- MCReqs
  SlaveAddr = 17
  AcceptBroadcast = TRUE
  MasterSubs <- MCMasterSubs
  SlaveSubs <- MCSlaveSubs
  Repliers = {"valve"}
  InboxLen = 1
  OutLen = 1
  RxSize <- MCRxSize
  BlockSizes <- MCBlocks
  Modes <- MCModes
  PipeLen = 12
  Gaps <- MCGaps
  ClockSpan = 2
  ReadSizes = {16}
  Underway <- MCUnderway
  Foreign <- MCForeign
  Trouble = 1
INVARIANTS TrafficSound
PROPERTIES NoFrameLost LineIsShared
