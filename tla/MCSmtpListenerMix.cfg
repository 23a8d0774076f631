\* A session and a refused peer, one message, every mix of three recipients,
\* and the stop of the listener.
CONSTANTS
  c1 = c1
  c2 = c2
  Conn = {c1, c2}
  AllowedPeers = {c1}
  Sender = {"ann"}
  NoSender = NoSender
  Address <- MCAddress
  Name <- MCName
  NoName = ""
  normalize_email <- MCNormalizeEmail
  unencrypted_recipients <- MCUnencryptedRecipients
  Headers <- MCHeaders
  MaxRcpt = 3
  MaxSubmissions = 1
SPECIFICATION FairSpec
INVARIANTS
  TypeOK
  ClearOnlyByPolicy
  ConfirmedMeansTaken
  OnlyAuthenticatedSubmissions
PROPERTIES
  EveryMessageAnswered
  StopEndsSessions
