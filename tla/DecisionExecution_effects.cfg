SPECIFICATION Spec
CONSTANTS
  m1 = m1
  m2 = m2
  m3 = m3
  retry = retry
  Snapshots = {s1}
  NoSnapshot = NoSnapshot
  NoCall = NoCall
  NoFile = NoFile
  Agents = {planner}
  Strategies = {retry}
  Abstain = Abstain
  MemoryStates = {m1, m2, m3}
  Decides <- Policy
  Providers = {"sandbox", "github"}
  Workers = {w1, w2}
  SnapshotTTL = 1
  Timeout = 1
  Attempts = 2
  MaxTime = 3
SYMMETRY Interchangeable
INVARIANTS
  EffectsAuthorised
  ReceiptsAuthorised
  ReceiptsProveEffect
