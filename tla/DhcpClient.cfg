CONSTANTS
    Bsd = TRUE
    MaxDatagrams = 2
    Horizon = 4
    MaxTime = 5
    DrainTime = 2
    Unit = 2
    Early = 1
SPECIFICATION ClientFairSpec
INVARIANTS
    ClientTypeOK
    NoLostWakeup
    TimeoutBelongsToDrain
    EventFindsSocket
PROPERTIES
    DrainEnds
    EveryDatagramRead
    ImplementsConnection
CHECK_DEADLOCK FALSE
