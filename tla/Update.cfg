SPECIFICATION Spec
CONSTANTS
  UserOffset = 4
  FlashBlocks = 6
  Sector = 2
  VectorLen = 7
  UpdaterAt = 3
  FLASH_UPDATER_OFFSET = 3
  OldImage <- FirstImage
  Cards <- SomeCards
  MaxFaults = 4
  MaxSwaps = 2
  PowerCuts = TRUE
  FW_UPDATE_RETRIES = 3
  VERIFY_ERROR = 204
INVARIANTS TouchedOnlyIfConfirmed ImageCopied SurvivesRetries
PROPERTY UpdateEnds
