SPECIFICATION Spec
CONSTANTS
  Strengths <- AllStrengths
  Bits = {"0", "1", "x", "z"}
  Resolutions = {"Wire", "Wand", "Wor"}
  MaxDrivers = 3
INVARIANTS ResolvedAsDefined StrongestDecides
