SPECIFICATION Spec
CONSTANTS
    WriteSize = 2
    EraseSize = 4
    NBlocks = 3
    RamSize = 12
    Offs = {0, 2, 4, 12}
    Sizes = {3, 4, 6, 12}
    MaxCmds = 2
    MaxFails = 1
INVARIANT TooLongRejected
