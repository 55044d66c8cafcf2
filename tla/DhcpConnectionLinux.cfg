CONSTANTS
    Bsd = FALSE
    MaxDatagrams = 4
SPECIFICATION Spec
INVARIANTS
    TypeOK
    SocketsMatchState
    AlwaysHears
    DrainedIsEmpty
    DrainedIsClosed
PROPERTY
    QueuedIsDelivered
