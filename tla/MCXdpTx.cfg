SPECIFICATION TxFairSpec
CONSTANTS
  Size = 2
  Wrap = 4
  MaxSegs = 2
  MaxCalls = 3
  NULL = NULL
INVARIANTS DescriptorOnePlace PacketsFramed
PROPERTIES HeaderIntactUnlessOvertaken SendReturns
