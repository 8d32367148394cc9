SPECIFICATION Spec
CONSTANTS
  Threads = {t1, t2}
  SffBits <- Sff
  HighBits <- High
  EFF <- FlagEFF
  RTR <- FlagRTR
  ERR <- FlagERR
  CanIds <- Objects
  Address <- Addresses
  Marked <- OnlyExtended
  Requests <- Arrays
  CAN_RAW_FILTER_MAX = 6
PROPERTIES FiltersAsMatchId ShowsWhatFilters
