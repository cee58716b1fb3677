CONSTANTS
    Redundant = TRUE
    Name = {"x"}
    WriteOnce = {}
    Console = {}
    Baud = {}
    Unsupported = {}
    MaxLen = 2
    EnvSize = 2
    Default <- MCDefault
    EnvRange = 2
    EnvBlocks = 1
    FlagMod = 4
    Faults = {"power", "write", "status", "flip"}
SPECIFICATION Spec
INVARIANT TypeOK
PROPERTIES BadUntouched BackupSurvives
