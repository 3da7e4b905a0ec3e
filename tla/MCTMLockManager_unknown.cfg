\* A program releases a lock it never acquired.
CONSTANTS
    Procs = {1, 2}
    l1 = l1
    l2 = l2
    Locks <- MCLocks
    Disciplined = FALSE
SPECIFICATION Spec
INVARIANT NoLeakedManagerLock
CHECK_DEADLOCK FALSE
