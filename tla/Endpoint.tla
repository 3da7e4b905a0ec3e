------------------------------- MODULE Endpoint -------------------------------
(***************************************************************************)
(* network.Endpoint (network/endpoint.go): NewEndpoint listens, starts an  *)
(* accept goroutine and waits for it to run; the goroutine accepts a       *)
(* connection and runs the handler on it before it accepts the next one.   *)
(* When Accept fails it closes the listener and reports on the unbuffered  *)
(* done channel.  Close closes the listener and waits on done.             *)
(*                                                                         *)
(* A connection is a number; the handler is the caller's, so it is one     *)
(* step that returns.  Accept fails when the listener is closed and, if    *)
(* AcceptMayFail, at any time (a transient net error).                     *)
(***************************************************************************)
EXTENDS Naturals

CONSTANTS
    MaxConns,       \* connections the clients dial in total
    AcceptMayFail,  \* Accept can fail on an open listener
    NrClose         \* Close calls the owner makes, one after another

ASSUME MaxConns \in Nat /\ AcceptMayFail \in BOOLEAN /\ NrClose \in 1..2

VARIABLES
    open,       \* the listener l is open
    dialed,     \* connections dialed so far
    accepted,   \* connections Accept has returned
    loop,       \* the accept goroutine: "start" (running <- true), "accept", "handle",
                \* "report" (done <- true), "exited"
    closer,     \* the owner: "new" (NewEndpoint in <-running), "idle", "waiting"
                \* (in <-e.done), "returned"
    closes      \* Close calls made

vars == <<open, dialed, accepted, loop, closer, closes>>

TypeOK ==
    /\ open \in BOOLEAN
    /\ dialed \in 0..MaxConns
    /\ accepted \in 0..dialed
    /\ loop \in {"start", "accept", "handle", "report", "exited"}
    /\ closer \in {"new", "idle", "waiting", "returned"}
    /\ closes \in 0..NrClose

\* NewEndpoint after a successful net.Listen: the goroutine is started and
\* NewEndpoint waits on `running`.
Init ==
    /\ open = TRUE
    /\ dialed = 0
    /\ accepted = 0
    /\ loop = "start"
    /\ closer = "new"
    /\ closes = 0

\* The unbuffered send `running <- true` meets NewEndpoint's receive: the
\* goroutine goes on to Accept and NewEndpoint returns the Endpoint.
Running ==
    /\ loop = "start" /\ closer = "new"
    /\ loop' = "accept"
    /\ closer' = "idle"
    /\ UNCHANGED <<open, dialed, accepted, closes>>

\* A client connects; a closed listener refuses it.
Dial ==
    /\ open /\ dialed < MaxConns
    /\ dialed' = dialed + 1
    /\ UNCHANGED <<open, accepted, loop, closer, closes>>

\* l.Accept() returns a pending connection and the goroutine calls handler.
AcceptConn ==
    /\ loop = "accept" /\ open /\ accepted < dialed
    /\ accepted' = accepted + 1
    /\ loop' = "handle"
    /\ UNCHANGED <<open, dialed, closer, closes>>

\* l.Accept() returns an error: l.Close(), then block on done <- true.
AcceptFails ==
    /\ loop = "accept" /\ (~open \/ AcceptMayFail)
    /\ open' = FALSE
    /\ loop' = "report"
    /\ UNCHANGED <<dialed, accepted, closer, closes>>

\* handler(conn) returns and the loop calls Accept again.
HandlerReturns ==
    /\ loop = "handle"
    /\ loop' = "accept"
    /\ UNCHANGED <<open, dialed, accepted, closer, closes>>

\* Endpoint.Close: l.Close(), then <-e.done.
Close ==
    /\ closer \notin {"new", "waiting"} /\ closes < NrClose
    /\ open' = FALSE
    /\ closer' = "waiting"
    /\ closes' = closes + 1
    /\ UNCHANGED <<dialed, accepted, loop>>

\* The unbuffered send `done <- true` meets Close's receive: both proceed
\* and the goroutine returns.
ReportDone ==
    /\ loop = "report" /\ closer = "waiting"
    /\ loop' = "exited"
    /\ closer' = "returned"
    /\ UNCHANGED <<open, dialed, accepted, closes>>

Next == Running \/ Dial \/ AcceptConn \/ AcceptFails \/ HandlerReturns \/ Close \/ ReportDone

Spec == Init /\ [][Next]_vars

=============================================================================
