SPECIFICATION FairSpec
CONSTANTS
    N = 2
    Kinds = {"noinit", "nomac", "slow", "live"}
    Retries = {2}
    ARP_TIMEOUT_COUNT = 5
    TIMEOUT_COUNT = 2
    RRQCountMax = 1
    Protocols = {"tftp", "ping", "bootp", "rarp"}
    Delayed = {"ping", "rarp"}
    MaxCalls = 2
    MaxSets = 1
    MaxErrs = 0
INVARIANTS TypeOK FailMeansNone BoundedAttempts 
PROPERTIES Returns Reaches
CHECK_DEADLOCK TRUE
