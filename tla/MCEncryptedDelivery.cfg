\* Every message of up to five lines, and every combination of a few sources of keys.
CONSTANTS
  MaxLines = 5
  Name <- MCName
  Addressable <- MCAddressable
  Cases <- MCCases
SPECIFICATION Spec
INVARIANTS
  TypeOK
  IndexComplete
  EncryptedForRecipients
  EachKeyOnce
  OnlyFieldsInClear
  DecryptsToTheSubmission
  PreparationRefusedForCause
CHECK_DEADLOCK FALSE
