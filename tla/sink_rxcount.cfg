SPECIFICATION Spec
CONSTANTS
  Clusters <- TwoClusters
  Nodes <- TwoNodes
  NodeSets <- TwoSets
  MaxBatches = 3
  MaxPerBatch = 1
  MaxSends <- Sends
  SeqSpace = 4
  MinPackets = 0
  WaitModes <- No
  Ideals <- No
INVARIANT CountPerSeq
CHECK_DEADLOCK FALSE
