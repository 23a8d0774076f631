\* Every input of up to seven bytes, and correct data of every text of up to three lines.
CONSTANTS
  MaxInput = 7
  MaxLine = 3
  MaxLines = 3
  Inputs <- MCInputs
  Limits = {1, 4, 5, 8, 15}
SPECIFICATION Spec
INVARIANTS
  TypeOK
  ArrivesIntact
  StoredAsSubmitted
  RefusedOnlyAboveLimit
  DeliveredAsSubmitted
CHECK_DEADLOCK FALSE
