\* Both TLS modes, a one-step and a two-step mechanism, two recipients.
CONSTANTS
  TlsModes = {"Wrapper", "Starttls"}
  Mechanisms = {"PLAIN", "XOAUTH2"}
  RcptCount = 2
  MaxInFlight = 2
SPECIFICATION FairSpec
INVARIANTS
  TypeOK
  OnlyGreetingsInClear
  InStep
  MechanismListedOverTls
PROPERTIES
  ReturnsUnlessDripped
  IsAttempt
CHECK_DEADLOCK FALSE
