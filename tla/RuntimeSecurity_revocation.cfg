SPECIFICATION FairSpec
CONSTANTS
  Producers = {planner}
  Schedule = Schedule
  Processes = {p1, p2}
  NoRequest = NoRequest
  NoHead = NoHead
  SecretTTL = 2
  ReconcileInterval = 2
  Timeout = 1
  BootUptimes = {2}
  MaxChanges = 2
  MaxFaults = 1
INVARIANTS
  WritesEnd
  LatencyBounded
PROPERTIES
  GrantHonoured
  EventuallyRetired
