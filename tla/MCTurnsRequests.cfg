\* Three prompts, and requests without promptMu beside their turns.
SPECIFICATION Spec
CONSTANTS
    MaxPrompts = 3
    MaxSess = 2
    MaxAsks = 0
    MaxConfig = 1
    MaxCrashes = 0
    MaxChan = 2
    Ops <- Requests
INVARIANT OneAgent
INVARIANT PromptsInOrder
CHECK_DEADLOCK FALSE
