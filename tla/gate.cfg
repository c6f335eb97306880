SPECIFICATION GateSpec
CONSTANTS
  Own = Own  Peer = Peer  Stranger = Stranger  Unseen = Unseen
  StableFrames = 3
  MaxGap = 2
  Cooldown = 4
  Instants = {0, 1, 2, 3, 4, 5, 6, 7}
  Detections <- MCDetections
INVARIANTS TagsAreStable SightingsAreAnswered
