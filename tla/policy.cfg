SPECIFICATION Spec
CONSTANTS
    Unknown = Unknown
    Risks <- ShortRisks
    RunModes <- ShortModes
    Intents <- Calls
    Asked <- Approvable
    Malformed <- NotCanonical
    Policy <- Allowlist
    MaxLifetime = 1
    Nonces = {n1, n2}
    Worlds <- Robots
    Losable = {"fault"}
    MaxTime = 2
    MaxCalls = 2
    MaxIssued = 2
SYMMETRY AnyNonce
INVARIANTS RunsAreApproved MovesAreApart
PROPERTY StartsOnFreshFacts
CHECK_DEADLOCK FALSE
