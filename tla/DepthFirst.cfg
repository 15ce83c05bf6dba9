CONSTANTS
  Node = {main, f, g}
  root = main
SPECIFICATION FairSpec
INVARIANTS
  TypeOK
  StackIsPath
  CollectsReachable
PROPERTIES
  MovesOn
  Terminates
