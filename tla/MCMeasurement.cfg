SPECIFICATION Spec
CONSTANTS
  Requests = 3
  Concurrency = 2
  Warmups = 1
  MaxTime = 4
INVARIANTS
  EveryRequestCounted
  OrderIrrelevant
  LatenciesOrdered
  LittlesLaw
