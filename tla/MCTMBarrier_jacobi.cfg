\* The barrier sequence of the Jacobi benchmark, which reuses ids 1 and 2.
CONSTANTS
    Procs = {1, 2}
    Program <- JacobiIds
SPECIFICATION FairSpec
PROPERTY BarrierReturns
CHECK_DEADLOCK FALSE
