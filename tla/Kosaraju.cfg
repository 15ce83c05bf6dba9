CONSTANTS
  Node = {main, f, g, h}
  root = main
  MaxEdges = 5
SPECIFICATION MCSpec
INVARIANTS
  TypeOK
  ReturnOrder
  ProcessedIsUnionOfComponents
  RecordsComponents

PROPERTIES
  MovesOn
  ImplementsSCCSpec
