SPECIFICATION Spec
CONSTANTS
  Scopes = {s1}
  Workers = {w1, w2}
  NoRow = NoRow
  NoItem = NoItem
  BatchLimit = 1
  Lease = 2
  Timeout = 1
  BackoffCap = 4
  MaxMoves = 3
  MaxFaults = 1
INVARIANTS
  NewerEnqueueKept
