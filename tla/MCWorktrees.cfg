\* Every operation but a second worktree: two turns, a sweep, and one removal,
\* deletion or rewind.
CONSTANTS
    Threads = {t1, t2}
    t1 = t1
    Founder = t1
    t2 = t2
    s1 = s1
    s2 = s2
    Senders = {s1}
    MaxTurns = 2
    MaxRequests = 1
    MaxSweeps = 1
    Ops <- All
SPECIFICATION Spec
INVARIANTS
    SweepSparesItsThread
    RemovedUnderLate
    SweepLosesOnlyLate
    RewindSparesOthers
CHECK_DEADLOCK FALSE
