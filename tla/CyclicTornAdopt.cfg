SPECIFICATION Spec
CONSTANTS
  t1 = t1
  Callers = {t1}
  Calls <- AddAndAdopt
  Frames <- AdoptFrames
  CycleTimes = {100}
  Counters <- NoCounters
  MAX_CAN_FRAMES_TO_STORE = 1
  EffFlag = 8
  ByteMod = 3
  MaxErrors = 0
  Junk <- JunkWord
  AccessOrder <- SourceOrder
  FlagStoreKept = TRUE
  LoaderCallsInit = TRUE
INVARIANTS SentFramesAreWhole
