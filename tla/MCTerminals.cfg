\* Two streams with channels of one chunk, two shells of two chunks each, of which
\* the last is kept.
CONSTANTS
    c1 = c1
    c2 = c2
    Streams = {c1, c2}
    SubBuffer = 1
    Scrollback = 1
    MaxShells = 2
    MaxOutput = 2
SPECIFICATION FairSpec
INVARIANTS
    ClosedOnce
    InSync
    RunningIsKept
    ExitShowsAll
PROPERTY StreamsEnd
CHECK_DEADLOCK FALSE
