CONSTANTS
    Redundant = TRUE
    Name = {"x"}
    WriteOnce = {}
    Console = {}
    Baud = {}
    Unsupported = {}
    MaxLen = 1
    EnvSize = 1
    Default <- MCDefault
    EnvRange = 3
    EnvBlocks = 2
    FlagMod = 4
    Faults = {"power"}
SPECIFICATION Spec
INVARIANTS Durable SaveInv
PROPERTY StoreSpec
