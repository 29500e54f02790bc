CONSTANTS
  r1 = r1
  r2 = r2
  x = x
  l = l
  s = s
  p = p
  Relay = {r1, r2}
  Unusable = {{}, {r2}}
  Outbox = {x}
  Named = {{x}, {r1, x}}
  List = {l}
  Sub = {s}
  Publish = {p}
SPECIFICATION Spec
INVARIANTS TypeOK NeverAbandoned RequestedOnce EventsKept PublishAccountsForAll
PROPERTY CallsEnd
CHECK_DEADLOCK FALSE
