SPECIFICATION Spec
CONSTANTS
  Sources <- TwoSources
  Misfit = {}
  MaxMeas = 3
  SeqSpace = 8
  SpatCompr = TRUE
  Settings <- Timed
INVARIANT RowsMatchSeq
CHECK_DEADLOCK FALSE
