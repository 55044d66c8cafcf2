CONSTANTS
    Acds = {a1, a2}
    Bufsizes = {1, 2}
    Kinds = {"arp"}
    Batch = 2
    MaxFrames = 2
    None = None
SPECIFICATION Spec
INVARIANTS
    BufferExact
