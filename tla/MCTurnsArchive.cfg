\* One prompt and ArchiveThread.
SPECIFICATION Spec
CONSTANTS
    MaxPrompts = 1
    MaxSess = 1
    MaxAsks = 0
    MaxConfig = 0
    MaxCrashes = 0
    MaxChan = 3
    Ops <- OnlyArchive
PROPERTY ArchiveSparesTurns
CHECK_DEADLOCK FALSE
