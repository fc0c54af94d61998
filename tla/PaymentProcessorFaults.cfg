SPECIFICATION Spec
CONSTANTS
  Payment <- ThreePayments
  Amount <- ThreeAmounts
  Payable = {1, 2}
  BatchSize = 2
  BlockPeriod = 1
  MinimumBalance = 1
  Fee = 1
  Dust = 0
  Coin = {c1, c2}
  CoinValue = {2, 4}
  MaxMinted = 12
  Faults = {"crash", "rpc", "reply", "save", "load", "api", "notify"}
  MaxFaults = 2
  c1 = c1
  c2 = c2
INVARIANTS TypeOK CompletedIsPaid RecordedIsPaid OverpaidOnlyIfMisled
PROPERTIES MisledOnlyByLoss OldestFirst
CHECK_DEADLOCK FALSE
