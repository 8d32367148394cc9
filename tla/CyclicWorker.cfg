SPECIFICATION HSpec
CONSTANTS
  t1 = t1
  Callers = {t1}
  Calls <- OneCaller
  Frames <- OneId
  CycleTimes = {3}
  Counters <- NoCounters
  MAX_CAN_FRAMES_TO_STORE = 2
  EffFlag = 8
  ByteMod = 3
  MaxErrors = 0
  Junk <- JunkWord
  AccessOrder <- CanidLast
  FlagStoreKept = TRUE
  LoaderCallsInit = TRUE
INVARIANTS IndexBound UniqueIds WorkerSleeps AtMostOneStaleFrame TornOnlyByOverwriting
