SPECIFICATION FairSpec
CONSTANTS
  alice = alice
  pool = pool
  Address <- Addresses
  PoolAddress = pool
  Cut <- Cuts
  Window = 2
  PerShare = 1
  PageSize = 1
  Threshold <- Thresholds
  MaxTime = 3
  MaxFaults = 1
INVARIANTS
  TypeOK
  NeverOverpaid
  NoGaps
  VerdictsHold
PROPERTIES
  MoneyOnlyBySettling
  PaidInFull
  EventuallySettled
  EventuallyQueued
