SPECIFICATION Spec
CONSTANTS
  Config <- HwConfigs
  DefaultConfig <- Base
  Table = {0, 1}
  DefaultTable = 0
  Stored <- ReadBack
  Profile = {0, 1}
  BootProfiles <- HwProfiles
  BootLinks <- HwLinks
  Reading <- HwReadings
  Unsupported <- HwUnsupported
  UserInput = {"AV1_RGBs", "AV3_RGBHV"}
  BootInput = {"AV_TESTPAT", "AV1_RGBs"}
  profile_link = FALSE
  auto_input = "off"
  auto_ypbpr <- YPbPr
  AutoMax = 2
  AutoCurrentMax = 1
  MinLines <- Lines
  PcntTolerance = 1
  WidthTolerance = 1
  Word32 = 100
  Standby = FALSE
  SaveSlots = {}
INVARIANTS OutputMatchesMode CurrentConfiguration AudioRuns
