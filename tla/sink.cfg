SPECIFICATION FairSpec
CONSTANTS
  Clusters <- TwoClusters
  Nodes <- TwoNodes
  NodeSets <- TwoSets
  MaxBatches = 3
  MaxPerBatch = 1
  MaxSends <- Sends
  SeqSpace = 4
  MinPackets = 2
  WaitModes <- Both
  Ideals <- Both
INVARIANTS TypeOK BufferFresh DecodedAtOnce DecodedOrPending PrecodeMatches AllDecoded IdealCountPerSeq
PROPERTIES AttemptsImprove EventuallyDecoded
CHECK_DEADLOCK FALSE
