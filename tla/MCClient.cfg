SPECIFICATION FairSpec
CONSTANTS
    Main = main
    Other = other
    Signals = {1, 15}
    MaxSignals = 3
CHECK_DEADLOCK FALSE
INVARIANTS
    ReturnsACode
    TrueMeansConnected
PROPERTIES
    SleepersAreWoken
