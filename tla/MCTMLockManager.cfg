\* Lock protocol: three processes contend for one lock, programs that
\* release only what they hold.  One lock keeps the lm.last map race, which
\* MCTMLockManager_race.cfg shows, out of the liveness question.
CONSTANTS
    Procs = {1, 2, 3}
    l1 = l1
    l2 = l2
    Locks <- MCOneLock
    Disciplined = TRUE
SPECIFICATION FairSpec
INVARIANT TypeOK
INVARIANT MutualExclusion
PROPERTY FirstAcquireCompletes
\* The first hand-off stops the lock for good (see README).
CHECK_DEADLOCK FALSE
