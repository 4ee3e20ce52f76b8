SPECIFICATION Spec
CONSTANTS
  Runs = 2
  Requests = 1
  Concurrency = 1
  Covers <- FirstCoversSecond
INVARIANTS
  NothingLeft
