SPECIFICATION FairSpec
CONSTANTS
  t1 = t1
  Callers = {t1}
  Calls <- LiveCalls
  Frames <- TwoFrames
  CycleTimes = {2}
  Counters <- CounterOfA
  MAX_CAN_FRAMES_TO_STORE = 2
  EffFlag = 8
  ByteMod = 2
  MaxErrors = 0
  Junk <- JunkWord
  AccessOrder <- SourceOrder
  FlagStoreKept = TRUE
  LoaderCallsInit = TRUE
PROPERTIES FramesKeepFlowing
