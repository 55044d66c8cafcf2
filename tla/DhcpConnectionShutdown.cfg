CONSTANTS
    Bsd = TRUE
    MaxDatagrams = 2
SPECIFICATION Spec
PROPERTY QueuedIsDelivered
