SPECIFICATION MCSpec
CONSTANTS
  Cards <- MCCards
  Requests <- MCRequests
  b_max = 2
  OpPolls = 2
  StatusPolls = 2
  Retries = 1
  MaxFaults = 1
  MaxSwaps = 1
  MaxJobs = 3
  Sectors <- MCSectors
  Sizes = {1, 2, 4}
  MaxCuts = 2
  Values <- MCValues
  Modes <- MCModes
  MaxCalls = 2
  Disturb = FALSE
  Configs = {0, 1, 2}
  PLL_CONFIG_DATA_BITS = 4
  UnusedBits = 1
  CallGap = 12
  DefaultSettings <- Plainest
  ProfileSettings <- MCProfile
  ProfileTable <- MCTable
  MaxKeys = 6
  OutputModes <- MCOutputModes
  TxModes = {"RGB", "YCBCR444", "DVI"}
  Flags = {"itc", "dw"}
  Standby = FALSE
  Sinks <- MCSinks
  Timings = {6}
  Colors = {"RGB"}
  Freqs = {96000}
CHECK_DEADLOCK FALSE
INVARIANTS
  TransferIsExact
  FailsForCause
  VolumeReadable
  DoneAtReturn
  RegistersAsAsked
  
  NearestPreset
  OutputFollowsInput
  ShowsWhatItEdits
  FramesFitOutput
  SourceClock
