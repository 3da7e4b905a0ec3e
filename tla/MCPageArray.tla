----------------------------- MODULE MCPageArray -----------------------------
EXTENDS PageArray, TLC

CONSTANTS app, loop

\* tm_host.go: the fault listener runs on the application thread; the
\* message loop runs updateDatastructures (from HandleLockAcquireRequest)
\* and incorporateIntervalsIntoDatastructures (from the LOCK_ACQUIRE_RESPONSE
\* case).
HostOps ==
    app  :> {"Fault"} @@
    loop :> {"UpdateDatastructures", "Incorporate"}
=============================================================================
