CONSTANTS
    Redundant = FALSE
    Name = {"ipaddr", "ethaddr", "baudrate", "stdin"}
    WriteOnce = {"ethaddr"}
    Console = {"stdin"}
    Baud = {"baudrate"}
    Unsupported = {2}
    MaxLen = 2
    EnvSize = 8
    Default <- MCDefault
    EnvRange = 3
    EnvBlocks = 2
    FlagMod = 3
    Faults = {"power", "write", "status", "erase", "flip"}
SPECIFICATION Spec
INVARIANT SavedIsLoaded
PROPERTY SaveTerminates
