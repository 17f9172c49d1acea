SPECIFICATION Spec
CONSTANTS
  Word = 2
  AmtBits = 4
  IntWidth = 2
  Samples <- MCSamples
  b = b
  s = s
  Slots = {b, s}
  Statics = {s}
  Declarations <- MCDeclarations
  Elements <- MCElements
  Indices <- MCIndices
  MaxLen = 2
INVARIANTS CopiesApart ElementsReadBack ForeachVisitsAll IntegersExact BitsExact
PROPERTY ChangesNotify
