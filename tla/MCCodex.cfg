\* Two sessions of one thread, the second resuming it while the first closes;
\* a turn, an approval or an error notification, and three calls, which the
\* server answers, refuses or leaves, and may exit.
SPECIFICATION Spec
CONSTANTS
    MaxThreads = 1
    MaxSess = 2
    MaxCalls = 3
    MaxTurns = 1
    MaxNotes = 1
INVARIANTS
    NoCallForgotten
    ClosedIsLast
    HeldIsRouted
    AnsweredOnce
    DeathEndsRegistered
CHECK_DEADLOCK FALSE
