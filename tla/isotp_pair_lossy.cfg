CONSTANTS
  FrameLen = 8
  PadFrames = TRUE
  ConfirmTx = FALSE
  NAs = 2
  NAr = 2
  NBs = 2
  NCr = 2
  WftMax = 1
  FramesPerProcess = 1
  CanRxCap = 2
  CanTxCap = 2
  SduRxCap = 1
  SduTxCap = 1
  GapCap = 0
  None = None
  BlockA = 1
  BlockB = 1
  StminA = 0
  StminB = 0
  LensA <- ThreeLong
  LensB <- Short
  MaxLoss = 2
  MayLose = {"CF", "FC"}
SPECIFICATION Spec
PROPERTIES Transfers
