SPECIFICATION Spec
CONSTANTS
  Request = {r1, r2, r3}
  MaxFaults = 2
INVARIANTS
  RaisedSendsNothing
  RetryRecovers
  OneInTheMaking

  
