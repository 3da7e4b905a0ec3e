------------------------------ MODULE TMBarrier ------------------------------
(***************************************************************************)
(* Barriers: TreadMarks.Barrier (treadmarks/tm_host.go) and the manager's  *)
(* handleBarrierRequest / BarrierManagerImp.HandleBarrier                  *)
(* (treadmarks/tm_manager.go).  Each BARRIER_REQUEST runs in its own       *)
(* manager goroutine, which calls Done() and then Wait() on the barrier's   *)
(* sync.WaitGroup, created with Add(nodes) on first use and never reset.   *)
(*                                                                         *)
(* Every process runs the same program, a sequence of barrier ids, as the  *)
(* Jacobi benchmark does.                                                  *)
(***************************************************************************)
EXTENDS Integers, Sequences, FiniteSets, Bags, TLC

CONSTANTS
    Procs,      \* process ids
    Program     \* barrier ids passed to Barrier() in program order

Nodes == Cardinality(Procs)     \* BarrierManagerImp.nodes
NoBarrier == -1                 \* app thread not blocked in Barrier()

BarrierIds == {Program[i] : i \in 1..Len(Program)}

VARIABLES
    pc,         \* pc[p]: index in Program of p's next Barrier() call
    appWait,    \* appWait[p]: barrier id p's Barrier() is blocked on
    msgs,       \* bag of BARRIER_REQUEST / BARRIER_RESPONSE messages
    counter,    \* bm.barriers: counter[id] is the counter of the id's WaitGroup
    waiting,    \* bag of manager goroutines blocked in barrier.Wait()
    panicked    \* the manager panicked ("sync: negative WaitGroup counter")

vars == <<pc, appWait, msgs, counter, waiting, panicked>>

Req(p, id)  == [type |-> "b_req", from |-> p, id |-> id]
Resp(p, id) == [type |-> "b_resp", to |-> p, id |-> id]

TypeOK ==
    /\ pc \in [Procs -> 1..Len(Program) + 1]
    /\ appWait \in [Procs -> BarrierIds \cup {NoBarrier}]
    /\ IsABag(msgs)
    /\ DOMAIN counter \subseteq BarrierIds
    /\ \A id \in DOMAIN counter : counter[id] \in -1..Nodes
    /\ IsABag(waiting)
    /\ panicked \in BOOLEAN

Init ==
    /\ pc = [p \in Procs |-> 1]
    /\ appWait = [p \in Procs |-> NoBarrier]
    /\ msgs = EmptyBag
    /\ counter = <<>>
    /\ waiting = EmptyBag
    /\ panicked = FALSE

\* TreadMarks.Barrier: send BARRIER_REQUEST and block on the event channel.
Barrier(p) ==
    /\ appWait[p] = NoBarrier
    /\ pc[p] <= Len(Program)
    /\ msgs' = msgs (+) SetToBag({Req(p, Program[pc[p]])})
    /\ appWait' = [appWait EXCEPT ![p] = Program[pc[p]]]
    /\ UNCHANGED <<pc, counter, waiting, panicked>>

\* Mutants of HandleBarrier: Add(nodes - 1), and a fresh WaitGroup on every
\* request (the map lookup dropped).
HandleBarrierOffByOne(m) ==
    LET c == IF m.id \in DOMAIN counter THEN counter[m.id] ELSE Nodes - 1
    IN  /\ ~panicked
        /\ m.type = "b_req"
        /\ msgs' = msgs (-) SetToBag({m})
        /\ counter' = (m.id :> c - 1) @@ counter
        /\ IF c - 1 < 0
             THEN /\ panicked' = TRUE
                  /\ UNCHANGED waiting
             ELSE /\ waiting' = waiting (+) SetToBag({[from |-> m.from, id |-> m.id]})
                  /\ UNCHANGED panicked
        /\ UNCHANGED <<pc, appWait>>

HandleBarrierFreshGroup(m) ==
    LET c == Nodes
    IN  /\ ~panicked
        /\ m.type = "b_req"
        /\ msgs' = msgs (-) SetToBag({m})
        /\ counter' = (m.id :> c - 1) @@ counter
        /\ IF c - 1 < 0
             THEN /\ panicked' = TRUE
                  /\ UNCHANGED waiting
             ELSE /\ waiting' = waiting (+) SetToBag({[from |-> m.from, id |-> m.id]})
                  /\ UNCHANGED panicked
        /\ UNCHANGED <<pc, appWait>>

\* HandleBarrier up to Wait(): create the WaitGroup with Add(nodes) if the
\* id is new, then Done(); a counter driven below zero panics the manager.
HandleBarrier(m) ==
    LET c == IF m.id \in DOMAIN counter THEN counter[m.id] ELSE Nodes
    IN  /\ ~panicked
        /\ m.type = "b_req"
        /\ msgs' = msgs (-) SetToBag({m})
        /\ counter' = (m.id :> c - 1) @@ counter
        /\ IF c - 1 < 0
             THEN /\ panicked' = TRUE
                  /\ UNCHANGED waiting
             ELSE /\ waiting' = waiting (+) SetToBag({[from |-> m.from, id |-> m.id]})
                  /\ UNCHANGED panicked
        /\ UNCHANGED <<pc, appWait>>

\* Mutant of BarrierWaitReturns: the returning goroutine stays blocked too.
BarrierWaitReturnsTwice(g) ==
    /\ ~panicked
    /\ counter[g.id] = 0
    /\ msgs' = msgs (+) SetToBag({Resp(g.from, g.id)})
    /\ UNCHANGED <<pc, appWait, counter, waiting, panicked>>

\* barrier.Wait() returns once the counter is zero; handleBarrierRequest
\* swaps From and To and sends BARRIER_RESPONSE.
BarrierWaitReturns(g) ==
    /\ ~panicked
    /\ counter[g.id] = 0
    /\ waiting' = waiting (-) SetToBag({g})
    /\ msgs' = msgs (+) SetToBag({Resp(g.from, g.id)})
    /\ UNCHANGED <<pc, appWait, counter, panicked>>

\* msgHandler, case BARRIER_RESPONSE: unblock Barrier().
HandleBarrierResponse(p, m) ==
    /\ m.type = "b_resp" /\ m.to = p
    /\ msgs' = msgs (-) SetToBag({m})
    /\ appWait' = [appWait EXCEPT ![p] = NoBarrier]
    /\ pc' = [pc EXCEPT ![p] = @ + 1]
    /\ UNCHANGED <<counter, waiting, panicked>>

Next ==
    \/ \E p \in Procs : Barrier(p)
    \/ \E m \in BagToSet(msgs) : HandleBarrier(m)
    \/ \E g \in BagToSet(waiting) : BarrierWaitReturns(g)
    \/ \E p \in Procs, m \in BagToSet(msgs) : HandleBarrierResponse(p, m)

\* The program calls its next barrier, and the manager and message loops
\* run, whenever they can.
Fairness ==
    /\ \A p \in Procs : WF_vars(Barrier(p))
    /\ WF_vars(\E m \in BagToSet(msgs) : HandleBarrier(m))
    /\ WF_vars(\E g \in BagToSet(waiting) : BarrierWaitReturns(g))
    /\ \A p \in Procs : WF_vars(\E m \in BagToSet(msgs) : HandleBarrierResponse(p, m))

Spec == Init /\ [][Next]_vars
FairSpec == Spec /\ Fairness

-----------------------------------------------------------------------------
(* Refinement of BarrierSpec.  A process is inside the barrier from the    *)
(* moment it calls Barrier() until the WaitGroup of its request reaches    *)
(* zero; from then on its response is pending and it counts as having left.*)

Released(p) ==
    \/ \E g \in BagToSet(waiting) : g.from = p /\ counter[g.id] = 0
    \/ \E m \in BagToSet(msgs) : m.type = "b_resp" /\ m.to = p

Abstract == INSTANCE BarrierSpec
              WITH inside <- [p \in Procs |-> appWait[p] # NoBarrier /\ ~Released(p)]

\* The manager implements a barrier: no process leaves Barrier(id) before
\* every process has called it, and all leave in the same step.
ImplementsBarrier == Abstract!Spec

\* Every Barrier() call returns (spec 4.F: "block until the barrier
\* response delivers ..."), whatever barrier ids the program reuses.
BarrierReturns ==
    \A p \in Procs : appWait[p] # NoBarrier ~> appWait[p] = NoBarrier
=============================================================================
