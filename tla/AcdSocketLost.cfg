CONSTANTS
    Acds = {a1}
    Bufsizes = {1}
    Kinds = {"arp"}
    Batch = 2
    MaxFrames = 3
    None = None
SPECIFICATION Spec
PROPERTIES
    NothingDiscarded
