SPECIFICATION Spec
CONSTANTS
  Clusters <- TwoClusters
  Nodes <- TwoNodes
  NodeSets <- TwoSets
  MaxBatches = 3
  MaxPerBatch = 1
  MaxSends <- Sends
  SeqSpace = 4
  MinPackets = 0
  WaitModes <- Yes
  Ideals <- No
PROPERTY DecodedBeforeReset
CHECK_DEADLOCK FALSE
