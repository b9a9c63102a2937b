CONSTANTS
  FrameLen = 8
  PadFrames = TRUE
  ConfirmTx = TRUE
  FuncRx = TRUE
  FuncTx = TRUE
  NAs = 2
  NAr = 2
  NBs = 2
  NCr = 2
  WftMax = 2
  RxMaxLen = 24
  RxBlockSize = 2
  RxStmin = 0
  FramesPerProcess = 2
  CanRxCap = 1
  CanTxCap = 1
  SduRxCap = 1
  SduTxCap = 1
  GapCap = 1
  None = None
  PeerFrames <- AllFrames
  Messages <- Requests
SPECIFICATION MCSpec
INVARIANTS TransmissionSafe
PROPERTIES ReceptionSafe StminKept BothSidesEnd
