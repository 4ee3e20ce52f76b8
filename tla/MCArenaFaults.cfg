SPECIFICATION Spec
CONSTANTS
  r1 = r1
  r2 = r2
  n1 = n1
  Payload <- FaultPayload
  MaxQuantity = 999
  MaxAmount = 9999
  Services = {"py", "go", "dotnet", "java", "kotlin", "node", "rust"}
  Req = {r1, r2}
  Number = {n1}
  MaxFaults = 3
SYMMETRY Swap
VIEW View
INVARIANTS
  UniqueNumbers
  WholeBills
  EventHasBill
  AnswerMeansEffect
  BrokerErrorMeansStored
  NoStrandedRows
  ConflictIsReal
  SmoothRun
PROPERTIES
  EventAfterCommit
  NothingLate
  Contract
  OnlyDeadConnectionsLose
