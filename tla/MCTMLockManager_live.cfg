\* Every AcquireLock returns, under the fairness of FairSpec.  One lock, so
\* the lm.last race of two locks cannot hide the hand-off.
CONSTANTS
    Procs = {1, 2}
    l1 = l1
    l2 = l2
    Locks <- MCOneLock
    Disciplined = TRUE
SPECIFICATION FairSpec
PROPERTY AcquireCompletes
CHECK_DEADLOCK FALSE
