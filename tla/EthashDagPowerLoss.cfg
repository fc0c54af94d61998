SPECIFICATION Spec
CONSTANTS
  Sharer = {t1}
  Loader = loader
  Copy <- TwoCopies
  None = None
  NumCaches = 2
  Lag = 0
  MaxEpoch = 0
  MaxFaults = 1
  PowerLoss = TRUE
INVARIANT ServedIsComplete
