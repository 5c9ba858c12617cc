\* Agents that fail and exit, shutdowns, and two ends of the server process.
SPECIFICATION Spec
CONSTANTS
    MaxPrompts = 2
    MaxSess = 2
    MaxAsks = 0
    MaxConfig = 0
    MaxCrashes = 2
    MaxChan = 3
    Ops <- Restart
PROPERTY BusyKeepsCause
PROPERTY ImplementsQueue
CHECK_DEADLOCK FALSE
