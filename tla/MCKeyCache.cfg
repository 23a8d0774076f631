\* Two sessions that look up the same recipients, in the local index and at two
\* key services.
CONSTANTS
  s1 = s1
  s2 = s2
  Session = {s1, s2}
  Name = {"alice", "bob", "carol"}
  Local = {"carol"}
  Orders <- MCOrders
  key_cache_ttl = 1
  http_timeout = 1
  Sources <- MCSources
  MaxTime = 1
  MaxRotations = 1
SPECIFICATION FairSpec
INVARIANTS
  TypeOK
  FreshWhenUsed
PROPERTIES
  OverwritesAreRecent
  PreparationEnds
