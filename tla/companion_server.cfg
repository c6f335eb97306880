\* The worker against the operator; writes of the memory may fail.
SPECIFICATION ServerSpec
CONSTANTS
    Null = Null
    Never <- MinusInfinity
    ResponseWindow = 1
    InteractionWindow = 1
    InvitationCooldown = 1
    MaxCooldown = 1
    ObservationTTL = 2
    ArrivalStability = 0
    GreetingWindow = 1
    AbsenceRearm = 1
    InvitationBudget = 1
    ProactiveBudget = 1
    BudgetWindow = 0
    IdleInterval = 1
    RestWindow = 0
    TouchGap = 0
    IgnoredCap = 1
    Holds = {"none"}
    Steps = {2}
    TouchTTL = 1
    QueueLimit = 4
    WriteMayFail = TRUE
    MaxTime = 1000
    MaxEvents = 1000
VIEW View
INVARIANTS HaltedIsQuiet FaultNeedsApproval
PROPERTIES NoCallAfterInterrupt ActsOnSavedMemory
CHECK_DEADLOCK FALSE
