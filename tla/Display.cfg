SPECIFICATION Spec
CONSTANTS
  NSlots = 5
  OsdEnabled = TRUE
  osd_status_timeout = 1
  lcd_bl_timeout = 1
  LedTime = 1
  OsdTime <- OsdTimes
  LcdTime <- LcdTimes
  InfoTime = 4
  Keys = {"menu", "status", "prompt", "info", "standby"}
  LedOverlap = 2
  MaxInfo = 1
  MaxNow = 6
INVARIANT TimersKnown
 
INVARIANT OutlastsTimeouts
CHECK_DEADLOCK FALSE
