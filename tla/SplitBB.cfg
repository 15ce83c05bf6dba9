CONSTANTS
  NumInstr = 5
  MaxBlocks = 3
SPECIFICATION SplitSpec
INVARIANTS
  SplitTypeOK
  OneCallPerBlock
  OrderKept
