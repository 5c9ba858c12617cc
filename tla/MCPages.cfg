\* A page and the stream that replaces its first; a reply of two chunks, two
\* changes beside it, three messages on the bus, a channel of one.
CONSTANTS
    r1 = r1
    n1 = n1
    Subs = {1, 2}
    Replies = {r1}
    Note = n1
    Size = 1
    MaxPub = 3
    MaxBatch = 2
    MaxChunks = 2
    MaxHead = 2
SPECIFICATION PagesFairSpec
INVARIANTS
    RestingPage
    RestingOrder
PROPERTY
    PageCatchesUp
CHECK_DEADLOCK FALSE
