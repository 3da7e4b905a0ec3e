--------------------------- MODULE MCTMLockManager ---------------------------
EXTENDS TMLockManager, TLC

CONSTANTS l1, l2

MCLocks   == {l1, l2}
MCOneLock == {l1}

\* Lock ids are only compared for equality: permuting them is sound.
LockSymmetry == Permutations(MCLocks)
=============================================================================
