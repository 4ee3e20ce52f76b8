SPECIFICATION Spec
CONSTANTS
  r1 = r1
  r2 = r2
  n1 = n1
  Payload <- BigPayload
  MaxQuantity = 999
  MaxAmount = 9999
  Services = {"java"}
  Req = {r1, r2}
  Number = {n1}
  MaxFaults = 0
INVARIANTS
  AlreadyExists
