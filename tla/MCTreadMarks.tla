---------------------------- MODULE MCTreadMarks ----------------------------
EXTENDS TreadMarks

CONSTANTS l1, l2

MCLocks == {l1, l2}
MCOneLock == {l1}

Rd(x)     == [op |-> "read", page |-> x]
Wr(x, v)  == [op |-> "write", page |-> x, val |-> v]
Acq(l)    == [op |-> "acquire", lock |-> l]
Rel(l)    == [op |-> "release", lock |-> l]
Bar(id)   == [op |-> "barrier", id |-> id]

\* Three processes pass barriers 0, 1 and 2, each asks for l1 (the first
\* request is granted; a forwarded one is dropped by the last owner's
\* message loop, tm_host.go:131, so l1 is never handed on), then touch
\* pages 0 and 1 for the first time.  One lock: with two, the
\* lm.last map race can stop host 1 (MCTMLockManager_race.cfg).
LockPrograms ==
    1 :> <<Bar(0), Bar(1), Bar(2), Acq(l1), Rel(l1), Wr(0, 1)>> @@
    2 :> <<Bar(0), Bar(1), Bar(2), Acq(l1), Rel(l1), Rd(0)>> @@
    3 :> <<Bar(0), Bar(1), Bar(2), Acq(l1), Rel(l1), Rd(1)>>

\* Spec scenario 6: process 1 writes a page, process 2 then reads it.
CopyPrograms ==
    1 :> <<Wr(0, 1)>> @@
    2 :> <<Rd(0)>>
=============================================================================
