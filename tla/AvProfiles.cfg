SPECIFICATION HistorySpec
CONSTANTS
  Config <- LinkConfigs
  DefaultConfig <- Base
  Table = {0}
  DefaultTable = 0
  Stored <- ReadBack
  Profile = {0, 1}
  BootProfiles <- LinkProfiles
  BootLinks <- LinkLinks
  Reading <- LinkReadings
  Unsupported = {}
  UserInput = {"AV1_RGBs", "AV3_RGBs"}
  BootInput = {"AV2_YPBPR", "AV_TESTPAT"}
  profile_link = TRUE
  auto_input = "all"
  auto_ypbpr <- YPbPr
  AutoMax = 4
  AutoCurrentMax = 2
  MinLines <- Lines
  PcntTolerance = 1
  WidthTolerance = 1
  Word32 = 100
  Standby = TRUE
  SaveSlots = {1}
INVARIANTS SyncedProfileIsLinked KeepsConnector
