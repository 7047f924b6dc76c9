SPECIFICATION FairSpec
CONSTANTS
  Lk <- ChainRows
  Out <- ChainOut
  NodeSets <- ChainNodes
  MaxClosed <- ChainClosed
  SeqNos <- TwoNumbers
  Coeffs <- Signs
  NcPktPLink = 1
  NcMax = 3
  Settings <- ManySettings
INVARIANTS TypeOK HeaderTellsPayload OneSequence SrcInfoTrue NothingVanishes CountCoversBuffer
PROPERTY AllArrive
CHECK_DEADLOCK FALSE
