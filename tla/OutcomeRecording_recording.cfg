SPECIFICATION Spec
CONSTANTS
  planner = planner
  executor = executor
  retry = retry
  team = team
  snap1 = snap1
  snap2 = snap2
  snap3 = snap3
  Receipts <- ContendedReceipts
  Replaceable <- LaterReceipts
  EpisodeIds = {e1, e2, e3}
  NoTarget = NoTarget
  NoCall = NoCall
  Workers = {w1, w2}
  ReceiptTTL = 0
  Timeout = 1
  MaxTime = 2
  MaxFaults = 1
SYMMETRY Interchangeable
VIEW Essential
INVARIANTS
  RepliesAgree
  ReplayAnswered
  RecordedFresh
PROPERTIES
  MemorySpec
