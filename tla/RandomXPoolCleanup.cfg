SPECIFICATION FairSpec
CONSTANTS
  xmr1 = xmr1
  xmr2 = xmr2
  alpha = alpha
  shared = shared
  alphas = alphas
  Hasher = {h1}
  Realm <- Realms
  Manager = {alpha}
  Rotating = {}
  RealmOf <- RealmOfPool
  Seed = {s1, s2}
  NoSeed = NoSeed
  NoRealm = NoRealm
  Collection <- SixCollections
  Names <- NamesOfRealm
  Vm <- OneVm
  MaxFaults = 0
PROPERTIES
  StaleVmsReleased
