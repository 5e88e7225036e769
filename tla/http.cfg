SPECIFICATION FairSpec
CONSTANTS
    a = a
    b = b
    c = c
    u1 = u1
    u2 = u2
    key1 = key1
    None = None
    Blank = Blank
    Malformed = Malformed
    SecondUser = u2
    Calls = {a, b, c}
    Scenarios <- TheScenarios
    ClientEditors <- NoEditors
    MaxTries = 2
    MaxFaults = 1
INVARIANTS
    TypeOK
    PartialOnlyAfterPanic
    AnswersAreTrue
    SameKeySameReservation
    RefusedMeansUndone
    ErrorsKeepTheirMeaning
    ActsForOneUser
    ReadsSeeWhatWasTold
    AnswerIsNotOverwritten
    EveryFailureIsLogged
PROPERTY
    EveryRequestEnds
CHECK_DEADLOCK FALSE
