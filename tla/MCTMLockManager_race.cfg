\* Two processes release two different locks: the lm.last writes race.
CONSTANTS
    Procs = {1, 2}
    l1 = l1
    l2 = l2
    Locks <- MCLocks
    Disciplined = TRUE
SPECIFICATION Spec
INVARIANT ManagerSurvives
CHECK_DEADLOCK FALSE
