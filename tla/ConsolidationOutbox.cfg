SPECIFICATION FairSpec
CONSTANTS
  Scopes = {s1, s2}
  Workers = {w1, w2}
  NoRow = NoRow
  NoItem = NoItem
  BatchLimit = 2
  Lease = 2
  Timeout = 1
  BackoffCap = 4
  MaxMoves = 2
  MaxFaults = 1
INVARIANTS
  ClaimExclusive
PROPERTIES
  ChangeIsDue
  ContractSpec
  EventuallyBuilt
  OutboxDrains
