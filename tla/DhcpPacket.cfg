SPECIFICATION Spec
CONSTANTS
    Frames <- MCFrames
    Payloads = {240, 241}
    EtherLen = 14
    IpLen = 20
    UdpLen = 8
    MessageLen = 240
    Offset <- MCOffset
    Width <- MCWidth
    BpfHdrLen = 32
    HdrLen = 34
    Word = 8
    BufLen = 636
    NBuf = 241
    MaxFrames = 2
INVARIANT TypeOK
INVARIANT InBounds
INVARIANT SameAsLinux
INVARIANT OwnFrames
