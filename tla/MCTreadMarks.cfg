\* Lock and barrier protocols driven by three programs that pass three
\* barriers, ask for one lock and end by touching two pages.
CONSTANTS
    Procs = {1, 2, 3}
    l1 = l1
    l2 = l2
    Locks <- MCOneLock
    Pages = {0, 1}
    Prog <- LockPrograms
SPECIFICATION FairSpec
INVARIANT TypeOK
PROPERTY ImplementsBarrier
PROPERTY BarrierReturns
\* Programs end, a handed-off lock is never granted and a first touch of a
\* page never returns: the system stops.
CHECK_DEADLOCK FALSE
