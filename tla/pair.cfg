SPECIFICATION LiveSpec
CONSTANTS
  p1 = p1
  p2 = p2
  s1 = s1
  s2 = s2
  dog_a = dog_a
  dog_b = dog_b
  None = None
  Dogs = {dog_a, dog_b}
  Cautious = dog_a
  Outgoing = dog_b
  Texts = {"action_completed"}
  Ids <- MCIds
  Order <- MCOrder
  Gain <- MCGain
  Threshold = 60
  Procs = {p1, p2}
  Sessions = {s1}
  Times = {1, 2}
  MaxFaults = 1
INVARIANTS
  MemoriesAgree
  CreditOncePerSession
PROPERTIES
  CompletedIsShared
  RecordedIsNotRepeated
  PartialSessionsComplete
