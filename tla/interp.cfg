SPECIFICATION Spec
CONSTANTS
  Procs = {p1, p2}
  Started = {p1}
  NumRegs = 2
  Statics = {s}
  Vals = {v}
  Null = null
  Signatures <- MCSignatures
  MaxDepth = 2
  MaxInsts = 3
INVARIANTS NoLostWakeup NbaInOwnFrame ApplyAfterNba
PROPERTY ReturnExact
CHECK_DEADLOCK FALSE
