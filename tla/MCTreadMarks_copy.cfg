\* First touch of a page by each of two processes (spec scenario 6).
CONSTANTS
    Procs = {1, 2}
    l1 = l1
    l2 = l2
    Locks <- MCLocks
    Pages = {0}
    Prog <- CopyPrograms
SPECIFICATION FairSpec
PROPERTY AccessCompletes
\* Both faults block forever.
CHECK_DEADLOCK FALSE
