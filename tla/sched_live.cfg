SPECIFICATION FairSpec
CONSTANTS
  MaxProcs = 3
  AddedProcs = 2
  MaxWaits = 1
  MaxCalls = 1
  ForkWidths = {1}
  Nets = {n1}
  Vals <- MCOneBit
  InitVal <- MCLow
  Events = {e1}
  Delays = {1}
  TimeMax = 2
  Limits = {1}
  Sensitivities = {}
  Calls = {"write_net", "trigger_event", "request_stop"}
  Waits = {"Delay", "Edge", "Nba", "RuntimeCond", "NamedEvent", "Fork"}
INVARIANT OnePlace
PROPERTIES ImplementsLifecycle QueuedRuns DelayExpires RunReturns
