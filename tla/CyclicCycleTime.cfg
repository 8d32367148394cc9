SPECIFICATION Spec
CONSTANTS
  t1 = t1
  Callers = {t1}
  Calls <- OnlyAdd
  Frames <- TwoFrames
  CycleTimes = {100, 50}
  Counters <- NoCounters
  MAX_CAN_FRAMES_TO_STORE = 2
  EffFlag = 8
  ByteMod = 3
  MaxErrors = 0
  Junk <- JunkWord
  AccessOrder <- SourceOrder
  FlagStoreKept = FALSE
  LoaderCallsInit = TRUE
PROPERTIES FirstCycleTimeStays
