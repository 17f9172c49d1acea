SPECIFICATION Spec
CONSTANTS
  MaxProcs = 3
  AddedProcs = 3
  MaxWaits = 2
  MaxCalls = 1
  ForkWidths = {}
  Nets = {n1}
  Vals <- MCOneBit
  InitVal <- MCLow
  Events = {e1}
  Delays = {0, 2}
  TimeMax = 3
  Limits = {1, 3}
  Sensitivities = {}
  Calls = {"schedule_nba", "trigger_event", "request_stop"}
  Waits = {"Delay", "Nba", "NamedEvent"}
INVARIANTS TypeOK TimedInFuture
PROPERTY SlotSettled
