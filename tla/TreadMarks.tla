------------------------------ MODULE TreadMarks ------------------------------
(***************************************************************************)
(* The TreadMarks host (treadmarks/tm_host.go) composed with the lock and   *)
(* barrier manager.  Each process runs a fixed program of reads, writes,   *)
(* lock and barrier calls; reads and writes go through the fault listener  *)
(* installed by NewTreadMarks; the host message loop answers forwarded     *)
(* lock requests by turning twins into write notices (updateDatastructures)*)
(* and merges clocks on lock responses.                                    *)
(*                                                                         *)
(* The manager-side actions are those of TMLockManager and TMBarrier,      *)
(* instantiated on this module's variables.                                *)
(*                                                                         *)
(* A first touch of a page faults; the fault listener sends a COPY_REQUEST *)
(* to its own process and blocks until a COPY_RESPONSE signals the event.  *)
(***************************************************************************)
EXTENDS Integers, Sequences, FiniteSets, Bags, TLC

CONSTANTS
    Procs,      \* 1..N
    Locks,
    Pages,      \* page numbers touched by the programs
    Prog        \* Prog[p]: p's sequence of operations

N == Cardinality(Procs)
ASSUME Procs = 1..N

NO_ACCESS  == "no_access"
READ_WRITE == "read_write"
Nil        == "nil"      \* msg.Data of a COPY_REQUEST that carries no page
NoPage     == -1         \* the application thread is not blocked in a fault

VARIABLES
    \* lock protocol (TMLockManager)
    appWait, held, vc, msgs, lmLocks, locked, last, waiters, writing, lmHeld, fatal,
    \* barriers (TMBarrier)
    bWait, bMsgs, counter, bWaiting, panicked,
    \* application and memory of each host
    pc,         \* pc[p]: index in Prog[p] of p's next operation
    mem,        \* mem[p][x]: contents of page x in p's virtual memory
    rights,     \* rights[p][x]: access rights of page x
    entry,      \* entry[p]: pages with a page-array entry
    twin,       \* twin[p]: t.twinMap, page -> twin contents
    notices,    \* notices[p][x]: p's write-notice list of page x, timestamps newest first
    intervals,  \* intervals[p]: p's own interval records, newest first
    crashed,    \* crashed[p]: host p panicked
    cMsgs,      \* bag of COPY_REQUEST / COPY_RESPONSE messages in flight
    cWait       \* cWait[p]: page whose fault is blocked in sendCopyRequest

lockVars    == <<appWait, held, vc, msgs, lmLocks, locked, last, waiters, writing, lmHeld, fatal>>
barrierVars == <<bWait, bMsgs, counter, bWaiting, panicked>>
memVars     == <<mem, rights, entry, twin, notices, intervals, crashed>>
copyVars    == <<cMsgs, cWait>>
vars        == <<lockVars, barrierVars, pc, memVars, copyVars>>

L == INSTANCE TMLockManager WITH Disciplined <- TRUE
B == INSTANCE TMBarrier WITH appWait <- bWait, msgs <- bMsgs, waiting <- bWaiting,
                             Program <- <<>>

Op(p) == Prog[p][pc[p]]

\* Host p is up; the manager runs inside host 1 and takes it down when it
\* panics or dies of a fatal error.
Alive(p) == ~crashed[p] /\ (p = 1 => ~panicked /\ ~fatal)
ManagerAlive == Alive(1)

\* The application thread of p runs: not blocked in AcquireLock, Barrier or
\* a fault, program not finished, host alive.
Running(p) ==
    /\ Alive(p)
    /\ appWait[p] = L!NoLock
    /\ bWait[p] = B!NoBarrier
    /\ cWait[p] = NoPage
    /\ pc[p] <= Len(Prog[p])

CopyReq(from, to, x, d) == [type |-> "copy_req", from |-> from, to |-> to, page |-> x, data |-> d]

TypeOK ==
    /\ L!TypeOK
    /\ pc \in [Procs -> Nat]
    /\ mem \in [Procs -> [Pages -> Nat]]
    /\ rights \in [Procs -> [Pages -> {NO_ACCESS, READ_WRITE}]]
    /\ entry \in [Procs -> SUBSET Pages]
    /\ \A p \in Procs : DOMAIN twin[p] \subseteq Pages
    /\ notices \in [Procs -> [Pages -> Seq([Procs -> Nat])]]
    /\ intervals \in [Procs -> Seq([ts : [Procs -> Nat], pages : SUBSET Pages])]
    /\ crashed \in [Procs -> BOOLEAN]
    /\ IsABag(cMsgs)
    /\ cWait \in [Procs -> Pages \cup {NoPage}]

Init ==
    /\ L!Init
    /\ bWait = [p \in Procs |-> B!NoBarrier]
    /\ bMsgs = EmptyBag
    /\ counter = <<>>
    /\ bWaiting = EmptyBag
    /\ panicked = FALSE
    /\ pc = [p \in Procs |-> 1]
    /\ mem = [p \in Procs |-> [x \in Pages |-> 0]]
    /\ rights = [p \in Procs |-> [x \in Pages |-> NO_ACCESS]]
    /\ entry = [p \in Procs |-> {}]
    /\ twin = [p \in Procs |-> <<>>]
    /\ notices = [p \in Procs |-> [x \in Pages |-> <<>>]]
    /\ intervals = [p \in Procs |-> <<>>]
    /\ crashed = [p \in Procs |-> FALSE]
    /\ cMsgs = EmptyBag
    /\ cWait = [p \in Procs |-> NoPage]

-----------------------------------------------------------------------------
(* Application thread: one action per operation, fault handling included. *)

\* Fault listener, both cases, page without an entry: SetPageEntry, then
\* sendCopyRequest(pageNr, tm.procId) sends to p itself and blocks on <-c.
CopyFault(p, x) ==
    /\ entry' = [entry EXCEPT ![p] = @ \cup {x}]
    /\ cMsgs' = cMsgs (+) SetToBag({CopyReq(p, p, x, Nil)})
    /\ cWait' = [cWait EXCEPT ![p] = x]
    /\ UNCHANGED <<pc, mem, rights, twin>>

\* Memory.Read of page x: a NO_ACCESS page faults with "READ"; with an
\* entry the fault only sets READ_WRITE.
Read(p) ==
    LET x == Op(p).page IN
    /\ Running(p) /\ Op(p).op = "read"
    /\ IF rights[p][x] = NO_ACCESS /\ x \notin entry[p]
         THEN CopyFault(p, x)
         ELSE /\ rights' = [rights EXCEPT ![p][x] = READ_WRITE]
              /\ pc' = [pc EXCEPT ![p] = @ + 1]
              /\ UNCHANGED <<mem, entry, twin, cMsgs, cWait>>
    /\ UNCHANGED <<lockVars, barrierVars, notices, intervals, crashed>>

\* Memory.Write of v to page x: a page that is not READ_WRITE faults with
\* "WRITE"; with an entry the fault twins the page (privileged read) and
\* privileged-writes v.
Write(p) ==
    LET x == Op(p).page
        v == Op(p).val
    IN
    /\ Running(p) /\ Op(p).op = "write"
    /\ IF rights[p][x] # READ_WRITE /\ x \notin entry[p]
         THEN CopyFault(p, x)
         ELSE /\ IF rights[p][x] # READ_WRITE
                   THEN twin' = [twin EXCEPT ![p] = (x :> mem[p][x]) @@ @]
                   ELSE UNCHANGED twin
              /\ rights' = [rights EXCEPT ![p][x] = READ_WRITE]
              /\ mem' = [mem EXCEPT ![p][x] = v]
              /\ pc' = [pc EXCEPT ![p] = @ + 1]
              /\ UNCHANGED <<entry, cMsgs, cWait>>
    /\ UNCHANGED <<lockVars, barrierVars, notices, intervals, crashed>>

AcquireLock(p) ==
    /\ Running(p) /\ Op(p).op = "acquire"
    /\ L!AcquireLock(p, Op(p).lock)
    /\ pc' = [pc EXCEPT ![p] = @ + 1]
    /\ UNCHANGED <<barrierVars, memVars, copyVars>>

ReleaseLock(p) ==
    /\ Running(p) /\ Op(p).op = "release"
    /\ L!ReleaseLock(p, Op(p).lock)
    /\ pc' = [pc EXCEPT ![p] = @ + 1]
    /\ UNCHANGED <<barrierVars, memVars, copyVars>>

\* TreadMarks.Barrier: BARRIER_REQUEST carries no clock and no intervals.
Barrier(p) ==
    /\ Running(p) /\ Op(p).op = "barrier"
    /\ bMsgs' = bMsgs (+) SetToBag({B!Req(p, Op(p).id)})
    /\ bWait' = [bWait EXCEPT ![p] = Op(p).id]
    /\ UNCHANGED <<lockVars, counter, bWaiting, panicked, pc, memVars, copyVars>>

-----------------------------------------------------------------------------
(* Host message loop.                                                      *)

\* updateDatastructures, run with the clock already incremented: every page
\* in twinMap gets an entry and a write notice stamped with the new clock;
\* if there is any, the interval record is prepended at ProcArray[procId].
\* ProcArray has nrProcs slots, 0..nrProcs-1, so procId = nrProcs indexes
\* past its end and the host panics.  twinMap is left as it is.
UpdateDatastructures(q) ==
    LET pages == DOMAIN twin[q]
        ts    == vc'[q]
    IN
    /\ entry' = [entry EXCEPT ![q] = @ \cup pages]
    /\ notices' = [notices EXCEPT ![q] =
                     [x \in Pages |-> IF x \in pages THEN <<ts>> \o @[x] ELSE @[x]]]
    /\ IF pages # {} /\ q \notin 0..N - 1
         THEN /\ crashed' = [crashed EXCEPT ![q] = TRUE]
              /\ UNCHANGED intervals
         ELSE /\ intervals' = IF pages = {} THEN intervals
                              ELSE [intervals EXCEPT ![q] = <<[ts |-> ts, pages |-> pages]>> \o @]
              /\ UNCHANGED crashed

\* msgHandler, case LOCK_ACQUIRE_REQUEST (a request the manager forwarded to
\* q as the lock's last owner): increment, updateDatastructures, build the
\* reply from ProcArray and drop it.
HandleLockAcquireRequest(q) ==
    /\ Alive(q)
    /\ \E m \in L!InFlight : L!HandleLockAcquireRequest(q, m)
    /\ UpdateDatastructures(q)
    /\ UNCHANGED <<barrierVars, pc, mem, rights, twin, copyVars>>

\* msgHandler, case LOCK_ACQUIRE_RESPONSE.  The only responses ever sent
\* come from the manager and carry no intervals, so
\* incorporateIntervalsIntoDatastructures has nothing to do.
HandleLockAcquireResponse(p) ==
    /\ Alive(p)
    /\ \E m \in L!InFlight : L!HandleLockAcquireResponse(p, m)
    /\ UNCHANGED <<barrierVars, pc, memVars, copyVars>>

\* msgHandler, case BARRIER_RESPONSE: unblock Barrier(); nothing else.
HandleBarrierResponse(p) ==
    /\ Alive(p)
    /\ \E m \in BagToSet(bMsgs) : B!HandleBarrierResponse(p, m)
    /\ UNCHANGED <<lockVars, memVars, copyVars>>

\* msgHandler, case COPY_REQUEST: put the twin (or nil) in msg.Data, swap
\* From and To and send msg back.  msg.Type stays COPY_REQUEST, so the
\* reply is another COPY_REQUEST; no code sends a COPY_RESPONSE.
HandleCopyRequest(q) ==
    /\ Alive(q)
    /\ \E m \in BagToSet(cMsgs) :
          /\ m.type = "copy_req" /\ m.to = q
          /\ cMsgs' = (cMsgs (-) SetToBag({m})) (+)
                SetToBag({CopyReq(m.to, m.from, m.page,
                                  IF m.page \in DOMAIN twin[q] THEN twin[q][m.page] ELSE Nil)})
    /\ UNCHANGED <<lockVars, barrierVars, pc, memVars, cWait>>

\* Manager goroutines (they live in host 1).
LockManagerStep ==
    /\ ManagerAlive
    /\ \/ \E m \in L!InFlight : L!HandleLockAcquire(m) \/ L!HandleLockRelease(m)
       \/ \E w \in BagToSet(waiters) : L!GrantLock(w)
       \/ \E r \in BagToSet(writing) : L!FinishRelease(r)
    /\ UNCHANGED <<barrierVars, pc, memVars, copyVars>>

BarrierManagerStep ==
    /\ ManagerAlive
    /\ \/ \E m \in BagToSet(bMsgs) : B!HandleBarrier(m)
       \/ \E g \in BagToSet(bWaiting) : B!BarrierWaitReturns(g)
    /\ UNCHANGED <<lockVars, pc, memVars, copyVars>>

AppStep(p) == Read(p) \/ Write(p) \/ AcquireLock(p) \/ ReleaseLock(p) \/ Barrier(p)

HostStep(p) ==
    \/ HandleLockAcquireRequest(p) \/ HandleLockAcquireResponse(p)
    \/ HandleBarrierResponse(p) \/ HandleCopyRequest(p)

Next ==
    \/ \E p \in Procs : AppStep(p) \/ HostStep(p)
    \/ LockManagerStep
    \/ BarrierManagerStep

\* Every goroutine (application thread, host message handler, manager
\* goroutine) that can take a step eventually takes it.
Fairness ==
    /\ \A p \in Procs : WF_vars(AppStep(p)) /\ WF_vars(HostStep(p))
    /\ WF_vars(LockManagerStep) /\ WF_vars(BarrierManagerStep)

Spec == Init /\ [][Next]_vars
FairSpec == Spec /\ Fairness

-----------------------------------------------------------------------------
(* Properties.                                                             *)

\* The barrier manager, driven by the programs, implements BarrierSpec.
ImplementsBarrier == B!ImplementsBarrier

\* Every Barrier() call returns in the composed system: the manager's
\* goroutines run inside host 1 next to its message loop and application
\* thread, and the BARRIER_RESPONSE reaches the program through its host's
\* message loop (spec 4.F, 4.H).
BarrierReturns == B!BarrierReturns

\* Every page fault returns: a read or write that blocks in sendCopyRequest
\* eventually gets its COPY_RESPONSE (spec 8, scenario 6: a first read of a
\* page returns the page's contents).
AccessCompletes ==
    \A p \in Procs : cWait[p] # NoPage ~> cWait[p] = NoPage

=============================================================================
