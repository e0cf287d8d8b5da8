SPECIFICATION MigrationSpec
CONSTANTS
  p1 = p1
  p2 = p2
  retry = retry
  team = team
  e5 = e5
  e6 = e6
  Scopes = {team}
  Producers = {p1, p2}
  Strategies = {retry}
  Rules = {retry}
  Unclassified = Unclassified
  Spaces = {e5, e6}
  NoSpace = NoSpace
  NoReceipt = NoReceipt
  Receipts <- MigratedReceipts
  MinProducers <- OneQuorum
  GrantSets <- TwoRegistries
  MaxAge = 2
  ReceiptTTL = 2
  FutureSkew = 0
  MaxTime = 3
  Target = e6
VIEW Essential
INVARIANTS
  EmbeddingIsOwn
  ReadyIsSound
