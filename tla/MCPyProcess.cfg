SPECIFICATION Spec
CONSTANTS
  Request = {r1, r2, r3}
  nobody = nobody
  Workers = 2
  PoolSize = 1
  MinimalSize = 1
INVARIANTS
  ResourcesReady
PROPERTIES
  SettledForGood
  ReadersGoOn
