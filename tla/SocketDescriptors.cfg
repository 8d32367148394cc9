SPECIFICATION TaskSpec
CONSTANTS
  Sockets = {s1, s2}
  Threads = {t1, t2}
  Interfaces = {can0}
  ALL = ALL
  MaxDescriptor = 2
  Free = Free
  Foreign = Foreign
  CAN_NPROTO = 8
  SizeofAddr = 24
  KernelAddrLen = 8
  MAX_CAN_FRAMES_TO_STORE = 2
  None = None
  QueueMax = 1
  MaxErrors = 1
SYMMETRY Symmetry
INVARIANTS OwnDescriptor BoundAsRecorded ReceivesWhatItBound FramesGoHome AtMostOneAstray
CONSTRAINT InTime
