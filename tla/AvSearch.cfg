SPECIFICATION SearchSpec
CONSTANTS
  Config <- SearchConfigs
  DefaultConfig <- Base
  Table = {0}
  DefaultTable = 0
  Stored <- ReadBack
  Profile = {0}
  BootProfiles <- SearchProfiles
  BootLinks <- SearchLinks
  Reading <- SearchReadings
  Unsupported = {}
  UserInput = {"AV1_RGsB", "AV2_YPBPR", "AV3_RGsB"}
  BootInput = {"AV_TESTPAT", "AV3_YPBPR"}
  profile_link = FALSE
  auto_input = "all"
  auto_ypbpr <- YPbPr
  AutoMax = 18
  AutoCurrentMax = 6
  MinLines <- Lines
  PcntTolerance = 1
  WidthTolerance = 1
  Word32 = 100
  Standby = TRUE
  SaveSlots = {}
  Lives = {{}, {"AV3_RGBs"}, {"AV1_RGsB"}, {"AV1_YPBPR"}}
  LiveSignal <- Good1
  NoSignal <- Bad1
PROPERTIES AutoFindsSignal SearchEnds
