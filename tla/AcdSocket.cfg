CONSTANTS
    Acds = {a1}
    Bufsizes = {1, 2}
    Kinds = {"cut", "short", "padded", "other"}
    Batch = 2
    MaxFrames = 4
    None = None
SPECIFICATION FairSpec
INVARIANTS
    TypeOK
    NoLeak
    BufferFits
    OnlyWholeArp
PROPERTIES
    ImplementsChannel
    DiscardOnlyWhenPreempted
    EveryFrameRead
