\* Three prompts, and agents that end every turn well.
SPECIFICATION FairSpec
CONSTANTS
    MaxPrompts = 3
    MaxSess = 2
    MaxAsks = 1
    MaxConfig = 0
    MaxCrashes = 0
    MaxChan = 3
    Ops <- Calm
INVARIANT TypeOK
INVARIANT OneTurn
INVARIANT ReapSparesTurns
INVARIANT ApprovalHasAgent
PROPERTY QueueDrains
CHECK_DEADLOCK FALSE
