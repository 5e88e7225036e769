SPECIFICATION Spec
CONSTANTS
    MaxBodyLogBytes = 5
    MaxArrayLogItems = 3
    MaxNesting = 4
    Bodies <- TheBodies
    Stderr = Stderr
    Stdout = Stdout
    Sinks = {Stderr, Stdout}
    Nothing = Nothing
INVARIANTS
    TypeOK
    LevelIsHonoured
    LongArraysAreShortened
    NothingIsLostUncounted
CHECK_DEADLOCK FALSE
