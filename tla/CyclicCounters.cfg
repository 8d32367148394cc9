SPECIFICATION HSpec
CONSTANTS
  t1 = t1
  Callers = {t1, t2}
  Calls <- OneEnables
  Frames <- OneFrame
  CycleTimes = {4}
  Counters <- CounterOfA
  MAX_CAN_FRAMES_TO_STORE = 2
  EffFlag = 8
  ByteMod = 2
  MaxErrors = 0
  Junk <- JunkWord
  AccessOrder <- SourceOrder
  FlagStoreKept = FALSE
  LoaderCallsInit = TRUE
INVARIANTS TypeOK CounterAdvances
