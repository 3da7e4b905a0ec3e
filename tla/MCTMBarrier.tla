----------------------------- MODULE MCTMBarrier -----------------------------
EXTENDS TMBarrier

\* Each barrier id used once: the pattern the WaitGroup supports.
DistinctIds == <<0, 1, 2>>

\* JacobiTM_test.go: Barrier(0), then Barrier(1), Barrier(2) per iteration.
JacobiIds == <<0, 1, 2, 1, 2>>
=============================================================================
