SPECIFICATION Spec
CONSTANTS
  Sources <- ThreeSources
  Misfit <- OneMisfit
  MaxMeas = 5
  SeqSpace = 3
  SpatCompr = TRUE
  Settings <- Perfect
INVARIANTS CompleteBatches RowsMatchSeq
CHECK_DEADLOCK FALSE
