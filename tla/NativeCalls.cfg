SPECIFICATION CallSpec
CONSTANTS
  j1 = j1
  Jvms = {j1, j2}
  Dirs = {d1, d2}
  Machine = "x86_64"
  None = None
  Threads = {t1, t2}
  Jvm <- JvmOfThreads
  CanInterfaces = {all, if1, if2}
  CAN_ALL_INTERFACES = all
  Indexes = {1, 2}
  Names = {can0, can1}
SYMMETRY Symmetry
INVARIANTS LoadsItsOwnCopy FindsItsLibrary NothingAfterException NormalMeansDone NamesOnceTrue ResolvedUnlessFailed
PROPERTIES NothingIsLeft
CONSTRAINT NativesAlone
CHECK_DEADLOCK FALSE
