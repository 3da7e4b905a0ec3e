---------------------------- MODULE TMLockManager ----------------------------
(***************************************************************************)
(* The TreadMarks lock protocol: the application side of AcquireLock and   *)
(* ReleaseLock (treadmarks/tm_host.go), the centralised lock manager       *)
(* (treadmarks/tm_manager.go, LockManagerImp + tm_Manager) and the two     *)
(* host message handlers that take part in a lock hand-off.                *)
(*                                                                         *)
(* The manager handles every message in its own goroutine (HandleLockAcquire*)
(* blocks in lock.Lock()), so its inbox is a bag whose messages are taken  *)
(* in any order.  The per-lock sync.Mutex is the set `locked`; a goroutine *)
(* blocked in lock.Lock() is an element of the bag `waiters`.              *)
(***************************************************************************)
EXTENDS Naturals, Bags

CONSTANTS
    Procs,      \* process ids handed out by WELCOME_MESSAGE (1-based)
    Locks,      \* lock ids used by the application
    Disciplined \* TRUE: the application releases only locks it holds and
                \* never acquires one it holds (AcquireLock/ReleaseLock check neither)

ASSUME Procs \subseteq 1..255 /\ 0 \notin Procs /\ 1 \in Procs /\ Disciplined \in BOOLEAN

NoOwner == 0            \* lm.last[id] of a lock never released (map default)
Manager == 0            \* tm_Manager.myId: destination of requests and releases
NoLock  == "none"       \* the application thread is not blocked in AcquireLock

VARIABLES
    appWait,    \* appWait[p]: lock whose AcquireLock is blocked on its event channel
    held,       \* held[p]: locks whose AcquireLock returned and that p has not released
    vc,         \* vc[p]: TreadMarks.vc of process p
    msgs,       \* bag of TM_Messages in flight
    lmLocks,    \* DOMAIN lm.locks: locks the manager has created
    locked,     \* locks whose manager-side sync.Mutex is locked
    last,       \* lm.last
    waiters,    \* bag of manager goroutines blocked in lock.Lock()
    writing,    \* bag of HandleLockRelease goroutines inside `lm.last[id] = newOwner`
    lmHeld,     \* lm (the manager's own sync.Mutex) is locked by a goroutine that returned
    fatal       \* host 1, which runs the manager, died of a Go runtime fatal error

vars == <<appWait, held, vc, msgs, lmLocks, locked, last, waiters, writing, lmHeld, fatal>>

VC == [Procs -> Nat]
ZeroVC == [q \in Procs |-> 0]

\* Vectorclock.Merge: element-wise maximum (spec 4.A).
Merge(a, b) == [q \in Procs |-> IF a[q] >= b[q] THEN a[q] ELSE b[q]]

AcqReq(from, to, l, c) == [type |-> "l_acq_req", from |-> from, to |-> to, lock |-> l, vc |-> c]
AcqResp(to, c)         == [type |-> "l_acq_resp", from |-> Manager, to |-> to, vc |-> c]
Rel(from, l)           == [type |-> "l_rel", from |-> from, to |-> Manager, lock |-> l]

Send(m)    == msgs' = msgs (+) SetToBag({m})
Consume(m) == msgs' = msgs (-) SetToBag({m})
InFlight   == BagToSet(msgs)

\* Process p runs: the manager lives in host 1, and a fatal error ends host 1.
Up(p) == p = 1 => ~fatal

\* A Go runtime fatal error ("concurrent map writes", "concurrent map read
\* and map write", "sync: unlock of unlocked mutex") ends the process at
\* once; fatal errors are not recovered.
FatalError ==
    /\ fatal' = TRUE
    /\ UNCHANGED <<appWait, held, vc, msgs, lmLocks, locked, last, waiters, writing, lmHeld>>

TypeOK ==
    /\ appWait \in [Procs -> Locks \cup {NoLock}]
    /\ held \in [Procs -> SUBSET Locks]
    /\ vc \in [Procs -> VC]
    /\ IsABag(msgs)
    /\ lmLocks \subseteq Locks
    /\ locked \subseteq lmLocks
    /\ last \in [Locks -> Procs \cup {NoOwner}]
    /\ IsABag(waiters) /\ IsABag(writing)
    /\ lmHeld \in BOOLEAN /\ fatal \in BOOLEAN

Init ==
    /\ appWait = [p \in Procs |-> NoLock]
    /\ held = [p \in Procs |-> {}]
    /\ vc = [p \in Procs |-> ZeroVC]
    /\ msgs = EmptyBag
    /\ lmLocks = {}
    /\ locked = {}
    /\ last = [l \in Locks |-> NoOwner]
    /\ waiters = EmptyBag
    /\ writing = EmptyBag
    /\ lmHeld = FALSE
    /\ fatal = FALSE

-----------------------------------------------------------------------------
(* Application thread of process p.                                       *)

\* TreadMarks.AcquireLock: send LOCK_ACQUIRE_REQUEST with the current vc to
\* the manager and block on the event channel.  Nothing checks whether p
\* already holds the lock.
AcquireLock(p, l) ==
    /\ Up(p) /\ appWait[p] = NoLock
    /\ Send(AcqReq(p, Manager, l, vc[p]))
    /\ appWait' = [appWait EXCEPT ![p] = l]
    /\ UNCHANGED <<held, vc, lmLocks, locked, last, waiters, writing, lmHeld, fatal>>

\* TreadMarks.ReleaseLock: send LOCK_RELEASE and return at once.
ReleaseLock(p, l) ==
    /\ Up(p) /\ appWait[p] = NoLock
    /\ Send(Rel(p, l))
    /\ held' = [held EXCEPT ![p] = @ \ {l}]
    /\ UNCHANGED <<appWait, vc, lmLocks, locked, last, waiters, writing, lmHeld, fatal>>

-----------------------------------------------------------------------------
(* Manager goroutines, one per message (tm_Manager.HandleMessage).         *)

\* Mutant of HandleLockAcquire: the new mutex is never stored in lm.locks.
HandleLockAcquireNoCreate(m) ==
    /\ ~fatal /\ ~lmHeld
    /\ m.type = "l_acq_req" /\ m.to = Manager
    /\ Consume(m)
    /\ waiters' = waiters (+) SetToBag({[from |-> m.from, lock |-> m.lock, vc |-> m.vc]})
    /\ UNCHANGED <<appWait, held, vc, lmLocks, locked, last, writing, lmHeld, fatal>>

\* handleLockAcquireRequest up to lock.Lock(): under lm, create the lock if
\* absent; then block on its mutex.  lm.Lock() blocks while lm is held.
HandleLockAcquire(m) ==
    /\ ~fatal /\ ~lmHeld
    /\ m.type = "l_acq_req" /\ m.to = Manager
    /\ Consume(m)
    /\ lmLocks' = lmLocks \cup {m.lock}
    /\ waiters' = waiters (+) SetToBag({[from |-> m.from, lock |-> m.lock, vc |-> m.vc]})
    /\ UNCHANGED <<appWait, held, vc, locked, last, writing, lmHeld, fatal>>

\* The grant's outcome: reply directly if the lock was never released,
\* otherwise forward the request to the last owner.
Grant(w) ==
    /\ locked' = locked \cup {w.lock}
    /\ waiters' = waiters (-) SetToBag({w})
    /\ IF last[w.lock] = NoOwner
         THEN Send(AcqResp(w.from, w.vc))
         ELSE Send(AcqReq(w.from, last[w.lock], w.lock, w.vc))
    /\ UNCHANGED <<appWait, held, vc, lmLocks, last, writing, lmHeld, fatal>>

\* Mutant of GrantLock: the waiter proceeds without taking the mutex.
GrantLockUnguarded(w) ==
    /\ ~fatal
    /\ Grant(w)

\* Mutant of GrantLock: the `lastOwner == 0` test dropped, so a lock never
\* released is "forwarded" to process 0, the manager.
GrantLockAlwaysForward(w) ==
    /\ ~fatal /\ w.lock \notin locked
    /\ locked' = locked \cup {w.lock}
    /\ waiters' = waiters (-) SetToBag({w})
    /\ Send(AcqReq(w.from, last[w.lock], w.lock, w.vc))
    /\ UNCHANGED <<appWait, held, vc, lmLocks, last, writing, lmHeld, fatal>>

\* lock.Lock() returns and `return lm.last[id]` reads lm.last without lm.
\* A read that starts while a HandleLockRelease goroutine is assigning
\* lm.last may be caught by the runtime's map check.
GrantLock(w) ==
    /\ ~fatal /\ w.lock \notin locked
    /\ \/ Grant(w)
       \/ writing # EmptyBag /\ FatalError

\* handleLockReleaseRequest / HandleLockRelease up to the map write: look
\* the lock up under lm.  An unknown id returns its error with lm still
\* locked.  Otherwise lm is unlocked and `lm.last[id] = newOwner` starts,
\* without lm; a write that starts during another may be caught.
HandleLockRelease(m) ==
    /\ ~fatal /\ ~lmHeld
    /\ m.type = "l_rel"
    /\ \/ /\ m.lock \notin lmLocks
          /\ Consume(m)
          /\ lmHeld' = TRUE
          /\ UNCHANGED <<appWait, held, vc, lmLocks, locked, last, waiters, writing, fatal>>
       \/ /\ m.lock \in lmLocks
          /\ Consume(m)
          /\ writing' = writing (+) SetToBag({[from |-> m.from, lock |-> m.lock]})
          /\ UNCHANGED <<appWait, held, vc, lmLocks, locked, last, waiters, lmHeld, fatal>>
       \/ m.lock \in lmLocks /\ writing # EmptyBag /\ FatalError

\* The map write completes and lock.Unlock() follows; unlocking a mutex
\* that is not locked is fatal.
FinishRelease(r) ==
    /\ ~fatal
    /\ \/ /\ r.lock \in locked
          /\ writing' = writing (-) SetToBag({r})
          /\ last' = [last EXCEPT ![r.lock] = r.from]
          /\ locked' = locked \ {r.lock}
          /\ UNCHANGED <<appWait, held, vc, msgs, lmLocks, waiters, lmHeld, fatal>>
       \/ r.lock \notin locked /\ FatalError

-----------------------------------------------------------------------------
(* Host message handlers of process q.                                     *)

\* msgHandler, case LOCK_ACQUIRE_REQUEST: HandleLockAcquireRequest increments
\* q's clock, turns q's twins into write notices (TMConsistency) and builds
\* the LOCK_ACQUIRE_RESPONSE, which the handler discards without sending.
HandleLockAcquireRequest(q, m) ==
    /\ Up(q)
    /\ m.type = "l_acq_req" /\ m.to = q
    /\ Consume(m)
    /\ vc' = [vc EXCEPT ![q][q] = @ + 1]
    /\ UNCHANGED <<appWait, held, lmLocks, locked, last, waiters, writing, lmHeld, fatal>>

\* msgHandler, case LOCK_ACQUIRE_RESPONSE: incorporate the (here empty)
\* interval list, merge the clock and release the blocked AcquireLock.
HandleLockAcquireResponse(p, m) ==
    /\ Up(p)
    /\ m.type = "l_acq_resp" /\ m.to = p
    /\ appWait[p] # NoLock
    /\ Consume(m)
    /\ vc' = [vc EXCEPT ![p] = Merge(@, m.vc)]
    /\ held' = [held EXCEPT ![p] = @ \cup {appWait[p]}]
    /\ appWait' = [appWait EXCEPT ![p] = NoLock]
    /\ UNCHANGED <<lmLocks, locked, last, waiters, writing, lmHeld, fatal>>

-----------------------------------------------------------------------------

\* The calls the application makes: any lock, or, for a disciplined
\* program, only a lock it does not hold (acquire) or holds (release).
AppAcquire(p, l) == (Disciplined => l \notin held[p]) /\ AcquireLock(p, l)
AppRelease(p, l) == (Disciplined => l \in held[p]) /\ ReleaseLock(p, l)

ManagerStep ==
    \/ \E m \in InFlight : HandleLockAcquire(m) \/ HandleLockRelease(m)
    \/ \E r \in BagToSet(writing) : FinishRelease(r)

HostStep(p) ==
    \E m \in InFlight : HandleLockAcquireRequest(p, m) \/ HandleLockAcquireResponse(p, m)

Next ==
    \/ \E p \in Procs, l \in Locks : AppAcquire(p, l) \/ AppRelease(p, l)
    \/ ManagerStep
    \/ \E w \in BagToSet(waiters) : GrantLock(w)
    \/ \E p \in Procs : HostStep(p)

\* Message handlers and manager goroutines run whenever they can; a blocked
\* lock.Lock() is woken whenever the mutex is free infinitely often (Go's
\* sync.Mutex switches to FIFO hand-off for starving waiters); a program
\* releases every lock it holds.
Fairness ==
    /\ WF_vars(ManagerStep)
    /\ \A p \in Procs : WF_vars(HostStep(p))
    /\ \A p \in Procs, l \in Locks :
          /\ SF_vars(\E w \in BagToSet(waiters) : w.from = p /\ w.lock = l /\ GrantLock(w))
          /\ WF_vars(l \in held[p] /\ ReleaseLock(p, l))

Spec == Init /\ [][Next]_vars
FairSpec == Spec /\ Fairness

-----------------------------------------------------------------------------
(* Properties.                                                             *)

\* Mutual exclusion across the manager goroutines and the hosts: two
\* processes never both hold a lock, whatever order the manager's
\* goroutines take the acquire and release messages in and however a
\* release's lm.last write interleaves with other grants.
MutualExclusion ==
    \A p, q \in Procs : p # q => held[p] \cap held[q] = {}

\* Every AcquireLock call returns: a process blocked acquiring l eventually
\* holds l (spec 4.F acquire: "block; on response ... proceed").
AcquireCompletes ==
    \A p \in Procs, l \in Locks : appWait[p] = l ~> l \in held[p]

\* An acquire the manager can answer itself completes: while l has never
\* been released, a process blocked acquiring l eventually holds it,
\* behind the other waiters on l's mutex (spec 4.G: "if lastOwner = 0,
\* reply directly to the requester").
FirstAcquireCompletes ==
    \A p \in Procs, l \in Locks :
       (appWait[p] = l /\ last[l] = NoOwner) ~> (l \in held[p] \/ last[l] # NoOwner)

\* Host 1 never dies of a Go runtime fatal error while it serves lock
\* messages: the manager's goroutines never read and write lm.last at the
\* same time (TestLocks expects every Lock/Release pair to complete).
ManagerSurvives == ~fatal

\* HandleLockRelease of an id the manager never created reports its error
\* and leaves lm unlocked, so the manager keeps serving every other lock.
NoLeakedManagerLock == ~lmHeld

\* AcquireLock of a lock the process already holds short-circuits without
\* a message (spec 4.F: "Re-entrant-free: if this process already holds the
\* lock, short-circuit without a message").
AcquireShortCircuits ==
    \A m \in InFlight : m.type = "l_acq_req" => m.lock \notin held[m.from]

=============================================================================
