SPECIFICATION Spec
CONSTANTS
  Runs = 2
  Requests = 2
  Concurrency = 1
  Covers <- FirstCoversSecond
INVARIANTS
  OwnRowsOnly
  CreatedAreDeleted
  LeftBehind
PROPERTIES
  Completes
