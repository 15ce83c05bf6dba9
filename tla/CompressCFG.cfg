CONSTANTS
  Func = {main, f, g}
  Kept = {main, f}
  main = main
  None = None
  Cap = {1, 2, 3, f}
  BlockId = {1, 2, 3}
  entry = 1
  end = 3
SPECIFICATION MCSpec
INVARIANTS
  TypeOK
  LoopsExact
  BlocksExact
  SplitAsIntended
  ReadsStayExact
