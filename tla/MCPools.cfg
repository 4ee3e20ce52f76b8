SPECIFICATION Spec
CONSTANTS
  Services = {"rust", "java", "node"}
  Request = {"r1", "r2", "r3"}
  Number = {"n1", "n2"}
  PoolSize = 1
INVARIANTS
  NothingLeaks
PROPERTIES
  EveryoneServed
