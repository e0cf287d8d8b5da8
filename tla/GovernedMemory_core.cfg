SPECIFICATION DealtSpec
VIEW Essential
CONSTANTS
  p1 = p1
  p2 = p2
  p3 = p3
  retry = retry
  refresh = refresh
  team = team
  private = private
  Scopes = {team, private}
  Producers = {p1, p2, p3}
  Strategies = {retry, refresh}
  Rules = {retry, refresh}
  Unclassified = Unclassified
  e5 = e5
  e6 = e6
  Spaces = {e5, e6}
  NoSpace = NoSpace
  NoReceipt = NoReceipt
  Receipts <- AllReceipts
  MinProducers <- ScopedQuorum
  GrantSets <- TwoRegistries
  MaxAge = 1
  ReceiptTTL = 1
  FutureSkew = 0
  MaxTime = 2
INVARIANTS
  SupportIsCurrent
  HeadIsWatermark
  EpisodeLineage
  RuleLineage
  NothingOverlooked
PROPERTIES
  NoResurrection
  LedgerSpec
  ContractSpec
