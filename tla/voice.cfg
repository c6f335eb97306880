SPECIFICATION VoiceSpec
CONSTANTS
  None = None
  MaxFaults = 3
INVARIANTS
  SavedIsOriginal
  NothingLeftBehind
PROPERTY
  ReportsAreTrue
