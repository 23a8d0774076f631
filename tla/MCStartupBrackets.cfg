\* The same configurations: are exceptions matched exactly?
CONSTANTS
  Directory <- MCDirectory
  Filename <- MCFilename
  Starts <- MCStarts
  Replacements <- MCReplacements
  Recipients <- MCRecipients
  MaxSecretBytes = 3
  MaxReplacements = 0
SPECIFICATION Spec
INVARIANTS
  ExceptionsMatchExactly
CHECK_DEADLOCK FALSE
