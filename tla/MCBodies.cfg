SPECIFICATION BodySpec
CONSTANTS
  Payload = {}
  MaxQuantity = 999
  MaxAmount = 9999
  Plainest <- MCPlainest
  Choices <- MCChoices
INVARIANTS
  PlainAgreement
  OneLimit
  JvmQuantities
