SPECIFICATION Spec
CONSTANTS
  p1 = p1
  p2 = p2
  r1 = r1
  r2 = r2
  soul = soul
  user = user
  c0 = c0
  c1 = c1
  c2 = c2
  None = None
  Torn = Torn
  Runners = {p1, p2}
  Files = {soul, user}
  Contents = {c0, c1, c2}
  Revs = {r1, r2}
  Payload <- MCPayload
  Factory <- MCFactory
  MaxFaults = 3
INVARIANTS
  ReadyIsRunning
  RestoredIsBaseline
PROPERTIES
  GateOpensHonestly
  FollowsDevice
