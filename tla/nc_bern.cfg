SPECIFICATION Spec
CONSTANTS
  Lk <- FiveRows
  Out <- ChainOut
  NodeSets <- ChainNodes
  MaxClosed <- ChainClosed
  SeqNos <- TwoNumbers
  Coeffs <- Signs
  NcPktPLink = 1
  NcMax = 3
  Settings <- Bernoulli
INVARIANT CoefficientsTrue
CHECK_DEADLOCK FALSE
