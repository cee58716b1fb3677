CONSTANTS
    FileLen = 3
    DefBlk = 1
    OptBlk = 2
    SeqSize = 8
    ServerSizes = {1, 2}
    ServerRetries = {1, 2}
    FixedPort = FALSE
    CountMax = 1
    RRQCountMax = 1
    retrycnt = 1
    MaxLoss = 1
    MaxDup = 1
    MaxErr = 1
SPECIFICATION Spec
INVARIANT TypeOK
INVARIANT FileIntact
INVARIANT WithinFile
INVARIANT AckedStored
