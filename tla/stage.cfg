\* Two routines and a stop at any moment; calls may fail, the deadline may pass.
SPECIFICATION FairSpec
CONSTANTS
    Nothing = Nothing
    Routine <- Varied
    HasEmotion = TRUE
    CallsFail = TRUE
    MaxRuns = 2
    MaxStops = 1
INVARIANTS AtMostOneLateOutput CancelledWasStopped StopClears
PROPERTY RoutineEnds
CHECK_DEADLOCK FALSE
