SPECIFICATION Spec
CONSTANTS
    N = 2
    Kinds = {"noinit", "nomac", "slow"}
    Retries = {1}
    ARP_TIMEOUT_COUNT = 5
    TIMEOUT_COUNT = 1
    RRQCountMax = 1
    Protocols = {"tftp"}
    Delayed = {}
    MaxCalls = 1
    MaxSets = 0
    MaxErrs = 0
INVARIANT OnceTriesAll
CHECK_DEADLOCK TRUE
