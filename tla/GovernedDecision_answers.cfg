SPECIFICATION DecisionSpec
CONSTANTS
  p1 = p1
  p2 = p2
  p3 = p3
  generic = generic
  refresh = refresh
  team = team
  e5 = e5
  Scopes = {team}
  Producers = {p1, p2, p3}
  Strategies = {generic, refresh}
  Rules = {generic, refresh}
  Unclassified = Unclassified
  Spaces = {e5}
  NoSpace = NoSpace
  NoReceipt = NoReceipt
  Receipts <- MixedReceipts
  MinProducers <- OneQuorum
  GrantSets <- FixedRegistry
  MaxAge = 1
  ReceiptTTL = 1
  FutureSkew = 0
  MaxTime = 2
  Relevant <- SimilarReceipts
  Signal <- Signals
  Strength <- Strengths
  Intervention <- Same
  GenericRetry = generic
  RefreshToken = refresh
  NoStrategy = NoStrategy
  MinimumSignal = 1
  ConflictMargin = 1
  AdaptiveMargin = 1
  EvidenceAge = 1
  AnnLimit = 1
  NoDecision = NoDecision
VIEW Essential
INVARIANTS
  Unanimous
  FreshContradictionRevokes
PROPERTIES
  CoverageDecides
  EvidenceStands
  VetoHolds
  DisagreementTraced
