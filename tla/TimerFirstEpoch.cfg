SPECIFICATION FairSpec
CONSTANTS
  NSlots = 2
  Callback = {led, hide}
  Nested = {hide}
  Sleeping = {}
  Delay = {0, 2}
  Word = 9
  OpTicks = 1
  MaxClock <- FirstEpochEnd
  led = led
  hide = hide
INVARIANTS NoNullCall
PROPERTIES PromiseKept ArmedRuns SleepsItsTicks
CHECK_DEADLOCK FALSE
