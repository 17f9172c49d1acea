SPECIFICATION Spec
CONSTANTS
  MaxProcs = 3
  AddedProcs = 3
  MaxWaits = 2
  MaxCalls = 1
  ForkWidths = {}
  Nets = {n1, n2}
  Vals <- MCVals
  InitVal <- MCInitVal
  Events = {}
  Delays = {}
  TimeMax = 1
  Limits = {1}
  Sensitivities <- MCSensitivities
  Calls = {"write_net", "notify_runtime_change"}
  Waits = {"Edge", "Sensitivity", "Cond", "RuntimeCond"}
INVARIANT WaiterIndex
PROPERTY WakeExact
SYMMETRY NetSymmetry
