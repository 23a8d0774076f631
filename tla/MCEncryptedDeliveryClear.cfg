\* The same instance: what goes in clear around the ciphertext.
CONSTANTS
  MaxLines = 4
  Name <- MCName
  Addressable <- MCAddressable
  Cases <- MCCases
SPECIFICATION Spec
INVARIANTS
  NothingElseInClear
CHECK_DEADLOCK FALSE
