SPECIFICATION FairSpec
CONSTANTS
  xmr1 = xmr1
  xmr2 = xmr2
  alpha = alpha
  shared = shared
  alphas = alphas
  Hasher = {h1, h2}
  Realm <- Realms
  Manager <- Pools
  Rotating <- Cryptonote
  RealmOf <- RealmOfPool
  Seed = {s1, s2}
  NoSeed = NoSeed
  NoRealm = NoRealm
  Collection <- SixCollections
  Names <- NamesOfRealm
  Vm <- TwoVms
  MaxFaults = 1
INVARIANTS
  TypeOK
  ExclusiveLease
  NoUseAfterDispose
  HashesOwnSeed
  StrandedOnlyByRotation
  OneGeneration
  OldJobsStayHashable
PROPERTIES
  UnreadyOnlyByFailure
  LockReleased
  RotatedVmsReleased
