SPECIFICATION Spec
CONSTANTS
  NConns = 3
  NCrtcs = 2
  Boards <- MCBoards
  MaxSize = 6
  ImgWidth = 3
  ImgHeight = 2
  RleData <- MCRleData
  Pictures <- MCPictures
  MaxFails = 2
INVARIANTS
  TypeOK
  CrtcExclusive
  NothingLost
  EveryScreenLit
  BuiltInWhole
  ScreensAgree
  CrashReasons
PROPERTIES
  OffBeforeFree
  SetsUp
  GivesBack
CHECK_DEADLOCK FALSE
