\* A thread joins a worktree whose branch gets the name of a title.
CONSTANTS
    Threads = {t1, t2}
    t1 = t1
    Founder = t1
    t2 = t2
    s1 = s1
    s2 = s2
    Senders = {s1}
    MaxTurns = 2
    MaxRequests = 1
    MaxSweeps = 1
    Ops <- Titles
SPECIFICATION Spec
PROPERTY BranchComesBack
CHECK_DEADLOCK FALSE
