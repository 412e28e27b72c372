SPECIFICATION FairSpec
CONSTANTS
  NSlots = 1
  Callback = {hide}
  Nested = {hide}
  Sleeping = {hide}
  Delay = {2}
  Word = 9
  OpTicks = 1
  MaxClock <- FirstEpochEnd
  hide = hide
PROPERTIES CalledEvery100us
CHECK_DEADLOCK FALSE
