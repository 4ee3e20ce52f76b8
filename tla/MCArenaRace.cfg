SPECIFICATION Spec
CONSTANTS
  r1 = r1
  r2 = r2
  n1 = n1
  Payload <- RacePayload
  MaxQuantity = 999
  MaxAmount = 9999
  Services = {"py", "go", "kotlin"}
  Req = {r1, r2}
  Number = {n1}
  MaxFaults = 1
PROPERTIES
  Answered
  EventFollowsCommit
