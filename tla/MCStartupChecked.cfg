\* The same configurations: does what --check-config accepts start?
CONSTANTS
  Directory <- MCDirectory
  Filename <- MCFilename
  Starts <- MCStarts
  Replacements <- MCReplacements
  Recipients <- MCRecipients
  MaxSecretBytes = 3
  MaxReplacements = 0
SPECIFICATION Spec
INVARIANTS
  ValidConfigurationStarts
CHECK_DEADLOCK FALSE
