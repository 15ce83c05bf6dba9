CONSTANTS
  Func = {f, g}
  BlockId = {1, 2}
  User = {u1, u2, u3}
  ArgSets <- MCArgSets
SPECIFICATION MCSpec
SYMMETRY Symmetry
INVARIANTS
  TypeOK
  TablesAgree
  ExactInInt
