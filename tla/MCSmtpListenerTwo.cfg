\* One session, two messages one after the other in it.
CONSTANTS
  c1 = c1
  c2 = c2
  Conn = {c1}
  AllowedPeers = {c1}
  Sender = {"ann", ""}
  NoSender = NoSender
  Address <- MCTwoAddress
  Name <- MCName
  NoName = ""
  normalize_email <- MCTwoNormalizeEmail
  unencrypted_recipients <- MCUnencryptedRecipients
  Headers <- MCTwoHeaders
  MaxRcpt = 2
  MaxSubmissions = 2
SPECIFICATION Spec
INVARIANTS
  SameTransaction
PROPERTIES
  KeepsPromise
