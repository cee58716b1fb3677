SPECIFICATION FairSpec
CONSTANTS
    EP0_MAX_PACKET_SIZE = 3
    Sections <- MCSections
    DeviceLen = 4
    StringLen = 3
    LineLen = 2
    StraySizes = {0, 4}
    Lengths = {1, 3, 7}
    MaxAborts = 2
    MaxResets = 1
INVARIANTS TypeOK DataRight StaysInside
PROPERTIES Completes
\* A host whose request was not read waits for ever once it has used up its aborts.
CHECK_DEADLOCK FALSE
