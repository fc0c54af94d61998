SPECIFICATION FairSpec
CONSTANTS
  Sharer = {t1, t2}
  Loader = loader
  Copy <- TwoCopies
  None = None
  NumCaches = 2
  Lag = 0
  MaxEpoch = 2
  MaxFaults = 1
  PowerLoss = FALSE
INVARIANTS
  TypeOK
  ComputesOnOpenDag
  NoHandleLost
PROPERTIES
  NoTruncateWhileMapped
  StoreSpec
  SharesAnswered
