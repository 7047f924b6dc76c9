SPECIFICATION Spec
CONSTANTS
  Lk <- ChainRows
  Out <- ChainOut
  NodeSets <- ChainNodes
  MaxClosed <- ChainClosed
  SeqNos <- TwoNumbers
  Coeffs <- Signs
  NcPktPLink = 1
  NcMax = 1
  Settings <- CodingOnly
INVARIANT AtMostNcMax
CHECK_DEADLOCK FALSE
