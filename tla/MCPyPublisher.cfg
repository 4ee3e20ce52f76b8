SPECIFICATION Spec
CONSTANTS
  Thread = {t1, t2, t3}
  nobody = nobody
  MaxFaults = 3
INVARIANTS
  QueueBeforeMessage
  RaisedSendsNothing
PROPERTIES
  ImplementsPublish
  Returns
