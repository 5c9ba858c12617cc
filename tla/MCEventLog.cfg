\* A prompt, a reply, a thought and two tools, and a log of up to six events;
\* a compaction of one group at a time.
SPECIFICATION Spec
CONSTANTS
    t1 = t1
    t2 = t2
    Prompts = {p}
    Replies = {r}
    Thoughts = {h}
    Tools <- MCTools
    BatchSize = 1
    MaxSeq = 6
    MaxBoots = 1
SYMMETRY MCSymmetry
INVARIANTS
    ReplayAgreesOnce
    IndexIsCurrent
CHECK_DEADLOCK FALSE
