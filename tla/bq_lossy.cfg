SPECIFICATION FairSpec
CONSTANTS
  MaxPkts = 6
  MaxList = 3
  TxOutcomes <- Sometimes
  ZeroInterval = FALSE
  Reactive = TRUE
INVARIANTS TypeOK Fifo Conserved NoStall CertainTxIsSafe
PROPERTIES ImplementsLossyFifo Drains SilentAfterStop
CHECK_DEADLOCK FALSE
