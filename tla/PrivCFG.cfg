CONSTANT NumBB = 4
SPECIFICATION MCSpec
INVARIANTS
  TypeOK
  OptimizedIsSafe
  Contraction
  LoopsKept
  LastBlockStaysExit
