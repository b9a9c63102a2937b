CONSTANTS
  FrameLen = 8
  PadFrames = TRUE
  ConfirmTx = TRUE
  NAs = 2
  NAr = 2
  NBs = 2
  NCr = 2
  WftMax = 1
  FramesPerProcess = 2
  CanRxCap = 2
  CanTxCap = 2
  SduRxCap = 1
  SduTxCap = 3
  GapCap = 1
  None = None
  BlockA = 2
  BlockB = 5
  StminA = 241
  StminB = 0
  LensA <- Wrapping
  LensB <- OneLong
  MaxLoss = 0
  MayLose = {}
SPECIFICATION PromptSpec
INVARIANTS PromptSafe
PROPERTIES AllArrives
