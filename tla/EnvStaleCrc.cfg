CONSTANTS
    Redundant = FALSE
    Name = {"x", "y"}
    WriteOnce = {}
    Console = {}
    Baud = {}
    Unsupported = {}
    MaxLen = 2
    EnvSize = 3
    Default <- MCDefault
    EnvRange = 1
    EnvBlocks = 1
    FlagMod = 3
    Faults = {}
SPECIFICATION Spec
INVARIANT SavedIsLoaded
