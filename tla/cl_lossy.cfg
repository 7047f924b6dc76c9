SPECIFICATION FairSpec
CONSTANTS
  Sources <- TwoSources
  Misfit = {}
  MaxMeas = 3
  SeqSpace = 8
  SpatCompr = TRUE
  Settings <- Lossy
INVARIANTS TypeOK SrcBufFresh RowsHaveTimer SourceRowsMatch NumbersFollow NoOverflow CompressedOnce
PROPERTIES TimelyOnlyOldExpire RowsAreSent
CHECK_DEADLOCK FALSE
