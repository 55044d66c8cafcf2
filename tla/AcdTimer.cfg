CONSTANTS
    Probes = {p1, p2}
    Horizon = 4
    MaxTime = 5
    Unit = 2
    Early = 0
SPECIFICATION FairSpec
INVARIANTS
    TypeOK
    NoLostWakeup
    NeverEarly
    NoSpuriousTimeout
PROPERTIES
    EveryTimeoutHandled
    ImplementsDeadlineTimer
CHECK_DEADLOCK FALSE
