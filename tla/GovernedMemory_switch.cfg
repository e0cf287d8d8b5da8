SPECIFICATION Spec
CONSTANTS
  p1 = p1
  p2 = p2
  p3 = p3
  retry = retry
  refresh = refresh
  team = team
  private = private
  Scopes = {team}
  Producers = {p1, p2, p3}
  Strategies = {retry, refresh}
  Rules = {retry, refresh}
  Unclassified = Unclassified
  Spaces = {e5}
  NoSpace = NoSpace
  NoReceipt = NoReceipt
  Receipts <- SwitchReceipts
  MinProducers <- TeamQuorum
  GrantSets <- FixedRegistry
  MaxAge = 1
  ReceiptTTL = 2
  FutureSkew = 0
  MaxTime = 3
PROPERTIES
  LateReceiptStaysHistory
