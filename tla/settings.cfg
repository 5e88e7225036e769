SPECIFICATION Spec
CONSTANTS
    Word = 32
    Second = 1
    Hour = 2
    HoursPerDay = 2
    TTLSeconds = 2
    MinHours = 1
    MaxDays = 3
    Unset = Unset
    NotANumber = NotANumber
    Environments <- TheEnvironments
    Starts = {0, 2, 4, 5, 7, 12}
    Durations = {1, 2}
    Deadline = 2
    Lag = 1
    MaxTime = 7
INVARIANTS
    TypeOK
    HoldsLast
    AcceptedAsConfigured
    ConfirmedSoonEnough
CHECK_DEADLOCK FALSE
