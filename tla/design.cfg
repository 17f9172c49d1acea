SPECIFICATION Spec
CONSTANTS
  Keys <- MCKeys
  File <- MCFile
  IntBits = 3
  MaxElements = 3
  MaxIterations = 9
  MaxDepth = 9
INVARIANTS GateSound HierarchyBounded BuiltAsDeclared
