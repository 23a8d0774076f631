\* The same instance: what a reader makes of the decrypted entity.
CONSTANTS
  MaxLines = 4
  Name <- MCName
  Addressable <- MCAddressable
  Cases <- MCCases
SPECIFICATION Spec
INVARIANTS
  ReaderGetsTheBody
CHECK_DEADLOCK FALSE
