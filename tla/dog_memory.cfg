SPECIFICATION Spec
CONSTANTS
  a = a  b = b  c = c  short = short  long = long  None = None
  Dogs = {a, b, c}
  Ids = {1, 2, 3, 4, 5}
  Texts = {short, long}
  Profiles <- MCProfiles
  Inputs <- MCInputs
  Length <- MCLength
  MaxOutput = 72
  MaxShown = 2
  Frame = 5
  ItemFrame = 4
  IdSize = 3
  Suffix = 3
  Limits = {1, 2, 3}
  Threshold = 60
INVARIANTS ThoughtsAreGrounded ScoreIsEarned AnswerIsExact AffinityIsExplained
