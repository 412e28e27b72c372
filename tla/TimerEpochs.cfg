SPECIFICATION HistorySpec
CONSTANTS
  NSlots = 2
  Callback = {led, hide, sleepy}
  Nested = {hide}
  Sleeping = {sleepy}
  Delay = {0, 2}
  Word = 4
  OpTicks = 1
  MaxClock <- SecondEpochEnd
  led = led
  hide = hide
  sleepy = sleepy
INVARIANTS UninterruptedArmsAreExact
CHECK_DEADLOCK FALSE
