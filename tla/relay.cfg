SPECIFICATION LiveSpec
CONSTANTS
  dog_a = dog_a  dog_b = dog_b  b1 = b1  b2 = b2  x = x  y = y  None = None
  Dogs = {dog_a, dog_b}
  Peer <- MCPeer
  Ids = {1}
  Bodies = {x, y}
  Texts <- MCTexts
  Bridges = {b1, b2}
  Times = {1}
  Limit = 1
  MaxConcurrent = 1
  MaxFaults = 1
INVARIANTS AcknowledgedIsRemembered MemoryIsOfTheMessage SuccessIsTrue
PROPERTIES VisibleIsAcknowledged
