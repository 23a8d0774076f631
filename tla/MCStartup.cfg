\* Configurations one field away from one that starts, and credentials of both kinds.
CONSTANTS
  Directory <- MCDirectory
  Filename <- MCFilename
  Starts <- MCStarts
  Replacements <- MCReplacements
  Recipients <- MCRecipients
  MaxSecretBytes = 3
  MaxReplacements = 1
SPECIFICATION Spec
INVARIANTS
  TypeOK
  SecretsAsConfigured
  ExceptionsMatchUpToBrackets
  PolicyIsFunction
  RefusedForCause
PROPERTIES
  StartEnds
CHECK_DEADLOCK FALSE
