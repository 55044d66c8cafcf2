CONSTANTS
    Bsd = TRUE
    MaxDatagrams = 2
SPECIFICATION Spec
INVARIANT DrainedIsClosed
