SPECIFICATION FairSpec
CONSTANTS
    FileLen = 3
    NFS_READ_SIZE = 2
    Links = 1
    NFS_RETRY_COUNT = 2
    retrycnt = 2
    MaxLate = 2
INVARIANTS TypeOK FileIntact PrefixStored
PROPERTIES Terminates
