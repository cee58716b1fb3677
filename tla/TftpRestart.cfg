CONSTANTS
    FileLen = 4
    DefBlk = 1
    OptBlk = 2
    SeqSize = 4
    ServerSizes = {1, 2}
    ServerRetries = {2}
    FixedPort = FALSE
    CountMax = 1
    RRQCountMax = 0
    retrycnt = 2
    MaxLoss = 0
    MaxDup = 0
    MaxErr = 0
SPECIFICATION FairSpec
INVARIANT FileIntact
INVARIANT BlockSizeAgreed
PROPERTY Terminates
