SPECIFICATION Spec
CONSTANTS
  MaxPkts = 5
  MaxList = 3
  TxOutcomes <- Sometimes
  ZeroInterval = FALSE
  Reactive = TRUE
INVARIANT AlwaysPacketToSchedule
CHECK_DEADLOCK FALSE
