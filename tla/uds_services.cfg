CONSTANTS
  Serves = {"DOWNLOAD", "UPLOAD"}
  MaxReq = 7
  MaxRsp = 7
  MaxBlockLen = 0
  FullSize = TRUE
  AppBlocks = {2, 3}
  AddrMod = 1024
  Regions <- Lengths
  MaxTransfers = 1
  MaxFaults = 2
  NetCap = 2
  SecDeclared <- MCLevels
  SecSeedRoom = 4
  SecAttempts = 2
  SecDelay = 3
  SecOutCap = 5
  SecClock = 10
  SecPatience = 2
  SecSeeds = {1, 2}
SPECIFICATION MCSpec
INVARIANTS WrittenOnce TransferWhole
PROPERTIES TransferEnds SeedsAreSpent LockoutHolds
CHECK_DEADLOCK FALSE
