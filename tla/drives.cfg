SPECIFICATION FairSpec
CONSTANTS
  d1 = d1
  d2 = d2
  d3 = d3
  n1 = n1
  Drivers = {d1, d2, d3}
  DrivenNets = {n1}
  NetOf <- MCNetOf
  Form <- MCForm
  Bits = {0, 1}
  DriveVals <- MCDriveVals
  DriveDelays <- MCDriveDelays
  DelayedNets = {n1}
  NetDelays <- MCNetDelays
  Resolve <- MCResolve
  SleepDelays = {1}
  TimeMax = 5
  MaxCalls = 3
INVARIANTS PendingExact NetResolved
PROPERTIES InertialExact NetInertialExact NoPhantomSlot Settles
CHECK_DEADLOCK FALSE
