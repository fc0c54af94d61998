SPECIFICATION FairSpec
CONSTANTS
  Payment <- TwoPayments
  Amount <- TwoAmounts
  Payable = {1, 2}
  BatchSize = 2
  BlockPeriod = 1
  MinimumBalance = 1
  Fee = 1
  Dust = 0
  Coin = {c1, c2, c3}
  CoinValue = {4}
  MaxMinted = 12
  Faults = {"notify"}
  MaxFaults = 1
  c1 = c1
  c2 = c2
  c3 = c3
PROPERTY EventuallyCompleted
CHECK_DEADLOCK FALSE
