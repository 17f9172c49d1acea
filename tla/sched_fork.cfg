SPECIFICATION Spec
CONSTANTS
  MaxProcs = 5
  AddedProcs = 1
  MaxWaits = 2
  MaxCalls = 1
  ForkWidths = {0, 2}
  Nets = {n1}
  Vals <- MCOneBit
  InitVal <- MCLow
  Events = {}
  Delays = {1}
  TimeMax = 1
  Limits = {1}
  Sensitivities = {}
  Calls = {}
  Waits = {"Fork", "Delay"}
INVARIANT JoinSound
PROPERTY JoinExact
