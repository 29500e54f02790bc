CONSTANTS
  r = r
  m = m
  n = n
  x = x
  y = y
  Author = {r, m, n}
  Root = r
  Relay = {x, y}
  Configured = {x}
  Trusted = {m, n}
  Identifier = {"roles", "users", "events", "blacklist", "theirs"}
  Governing = {"roles", "users", "events", "blacklist"}
  Sources <- MCSources
  Chunks <- MCChunks
  Pages <- MCPages
  FedKinds = {"canonical", "mutes"}
SPECIFICATION Spec
INVARIANTS TypeOK OnlyGenuine TrustGraphFound
PROPERTIES AnswersCount CacheNeverRegresses LoadsEnd
CHECK_DEADLOCK FALSE
