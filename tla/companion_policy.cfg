\* One person, windows short enough for two budgets, two strikes and two
\* arrivals to overlap.  The view makes the clock unbounded in effect.
SPECIFICATION PolicySpec
CONSTANTS
    ResponseWindow = 1
    InteractionWindow = 1
    InvitationCooldown = 1
    MaxCooldown = 3
    ObservationTTL = 2
    ArrivalStability = 1
    GreetingWindow = 1
    AbsenceRearm = 2
    InvitationBudget = 2
    ProactiveBudget = 3
    BudgetWindow = 3
    IdleInterval = 1
    RestWindow = 1
    TouchGap = 1
    IgnoredCap = 2
    Never <- MinusInfinity
    Holds = {"none", "low"}
    MaxTime = 1000
VIEW View
INVARIANTS BudgetHolds IgnoredBacksOff
PROPERTY GreetsWhoStays
CHECK_DEADLOCK FALSE
