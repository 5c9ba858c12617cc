\* Two subscribers that may stop reading for good, a channel of one, three
\* messages in batches of up to two.
CONSTANTS
    s1 = s1
    s2 = s2
    Subs <- MCSubs
    Size = 1
    MaxPub = 3
    MaxBatch = 2
SPECIFICATION FairSpec
INVARIANTS
    LossOnlyAfterMarker
    NoSendOnClosed
    PublicationOrder
PROPERTIES
    OverflowEnds
    LeaverCloses
CHECK_DEADLOCK FALSE
