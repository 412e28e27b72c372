SPECIFICATION MCSpec
CONSTANTS
  Cards <- MCCards
  Requests <- MCRequests
  b_max = 2
  OpPolls = 2
  StatusPolls = 2
  Retries = 1
  MaxFaults = 0
  MaxSwaps = 0
  MaxJobs = 0
  Sectors <- MCSectors
  Sizes = {1, 2, 4}
  MaxCuts = 0
  Values <- MCValues
  Modes <- MCModes
  MaxCalls = 2
  Disturb = TRUE
  Configs = {0, 1, 2}
  PLL_CONFIG_DATA_BITS = 4
  UnusedBits = 1
  CallGap = 12
  DefaultSettings <- Plainest
  ProfileSettings <- MCProfile
  ProfileTable <- MCTable
  MaxKeys = 0
  OutputModes <- MCOutputModes
  TxModes = {"RGB"}
  Flags = {}
  Standby = FALSE
  Sinks <- MCSinks
  Timings = {6}
  Colors = {"RGB"}
  Freqs = {96000}
CHECK_DEADLOCK FALSE
INVARIANT AddressedFirst
