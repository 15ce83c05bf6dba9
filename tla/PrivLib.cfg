CONSTANTS
  LastCap = 2
  MaxArgs = 2
  Args <- MCArgs
SPECIFICATION Spec
INVARIANTS
  TypeOK
  HandlesBalanced
  FailsForAReason
PROPERTY ImplementsPrivSpec
