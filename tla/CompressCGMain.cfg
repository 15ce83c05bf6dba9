CONSTANTS
  Func = {main, f, g, lib}
  main = main
  Ignorable = {lib}
  Cap = {main, f, g, lib}
  BlockId = {1}
  MaxCalls = 2
SPECIFICATION MCSpec
INVARIANT MainIsNotLost
