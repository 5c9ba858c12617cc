\* Two turns, a stop, a permission and a request the adapter does not know.
CONSTANTS
    a1 = a1
    o1 = o1
    EventBuffer = 1
    PipeSize = 1
    Asks = {a1}
    Others = {o1}
    MaxTurns = 2
    MaxStops = 1
SPECIFICATION FairSpec
INVARIANTS
    TypeOK
    AskNotForgotten
    StopsReported
    LateStartFails
PROPERTIES
    CloseEnds
    SessionEnds
CHECK_DEADLOCK FALSE
