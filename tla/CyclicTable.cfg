SPECIFICATION CallersSpec
CONSTANTS
  t1 = t1
  Callers = {t1}
  Calls <- OneCaller
  Frames <- TableFrames
  CycleTimes = {4}
  Counters <- NoCounters
  MAX_CAN_FRAMES_TO_STORE = 3
  EffFlag = 8
  ByteMod = 3
  MaxErrors = 0
  Junk <- JunkWord
  AccessOrder <- AnyOrder
  FlagStoreKept = FALSE
  LoaderCallsInit = TRUE
PROPERTIES ImplementsTable AnswersTruthful
