------------------------------ MODULE ProcArray ------------------------------
(***************************************************************************)
(* ProcArray (treadmarks/tm_datastructures.go): one slice of interval      *)
(* records per slot, newest first, and the unseen-interval queries that    *)
(* answer "which intervals has a requester with clock ts not seen?".       *)
(*                                                                         *)
(* An interval record is its timestamp.  The queries are operators; the    *)
(* module's variables are their input, chosen from every proc array and    *)
(* requester clock in bounds, and never change.                            *)
(***************************************************************************)
EXTENDS Integers, Sequences, FiniteSets

CONSTANTS
    NrProcs,    \* nrProcs: MakeProcArray makes slots 0..NrProcs-1
    MaxTick,    \* largest vector clock entry in an input
    MaxLen      \* longest interval record list in an input

Clocks == [1..NrProcs -> 0..MaxTick]

\* Vectorclock.IsBefore: strict happens-before (spec 4.A).
IsBefore(a, b) == (\A q \in 1..NrProcs : a[q] <= b[q]) /\ a # b

\* MakeProcArray: one empty slice per slot 0..nrProc-1.
MakeProcArray(n) == [i \in 0..n - 1 |-> <<>>]

\* Mutant of Seen: the Equals test dropped.
SeenStrict(r, ts) == IsBefore(r, ts)

\* The break condition: the record is older than or equal to ts.
Seen(r, ts) == IsBefore(r, ts) \/ r = ts

\* Mutant of UnseenFrom: the Interval's Proc set to the 1-based slot + 1.
RECURSIVE UnseenFromShifted(_, _, _, _)
UnseenFromShifted(list, ts, q, k) ==
    IF k > Len(list) \/ Seen(list[k], ts) THEN <<>>
    ELSE <<[proc |-> q + 1, vt |-> list[k]]>> \o UnseenFromShifted(list, ts, q, k + 1)

\* GetUnseenIntervalsAtProc from the k-th record on: an Interval per record
\* until the first one ts has seen.
RECURSIVE UnseenFrom(_, _, _, _)
UnseenFrom(list, ts, q, k) ==
    IF k > Len(list) \/ Seen(list[k], ts) THEN <<>>
    ELSE <<[proc |-> q, vt |-> list[k]]>> \o UnseenFrom(list, ts, q, k + 1)

GetUnseenIntervalsAtProc(pa, ts, q) == UnseenFrom(pa[q], ts, q, 1)

\* GetAllUnseenIntervals: slots 0..len(p)-1 in order, concatenated.
RECURSIVE AllFrom(_, _, _)
AllFrom(pa, ts, i) ==
    IF i \notin DOMAIN pa THEN <<>>
    ELSE GetUnseenIntervalsAtProc(pa, ts, i) \o AllFrom(pa, ts, i + 1)

GetAllUnseenIntervals(pa, ts) == AllFrom(pa, ts, 0)

\* TreadMarks.HandleLockAcquireRequest builds its reply with its own loop
\* over each slot: an Interval per record until the first record that is
\* strictly before the requester's clock (Timestamp.Compare(&msg.VC) == -1).
RECURSIVE ResponseFrom(_, _, _, _)
ResponseFrom(list, ts, q, k) ==
    IF k > Len(list) \/ IsBefore(list[k], ts) THEN <<>>
    ELSE <<[proc |-> q, vt |-> list[k]]>> \o ResponseFrom(list, ts, q, k + 1)

\* MapProcArray over every slot: the intervals of the LOCK_ACQUIRE_RESPONSE.
ResponseIntervals(pa, ts) ==
    UNION {LET s == ResponseFrom(pa[q], ts, q, 1) IN {s[a] : a \in 1..Len(s)} : q \in DOMAIN pa}

-----------------------------------------------------------------------------
(* Inputs.  PrependIntervalRecord(procNr, ir) puts process procNr's records *)
(* in slot procNr, newest first, so a slot is a chain decreasing in        *)
(* happens-before (spec I2).  Process ids start at 1: slot 0 stays empty.  *)

Chains == UNION { {s \in [1..n -> Clocks] :
                     \A k \in 1..n - 1 : IsBefore(s[k + 1], s[k])} : n \in 0..MaxLen }

Inputs == {pa \in [DOMAIN MakeProcArray(NrProcs) -> Chains] : pa[0] = <<>>}

VARIABLES array, clock   \* the input: a proc array and a requester clock

vars == <<array, clock>>

Init == array \in Inputs /\ clock \in Clocks
Next == UNCHANGED vars
Spec == Init /\ [][Next]_vars

\* Every Interval returned is one of the array's records, tagged with its slot.
TypeOK ==
    /\ array \in [0..NrProcs - 1 -> Seq(Clocks)]
    /\ clock \in Clocks
    /\ \A a \in 1..Len(GetAllUnseenIntervals(array, clock)) :
          LET i == GetAllUnseenIntervals(array, clock)[a]
          IN  /\ i.proc \in DOMAIN array
              /\ \E k \in 1..Len(array[i.proc]) : array[i.proc][k] = i.vt

-----------------------------------------------------------------------------

\* GetAllUnseenIntervals returns exactly the unseen records, each once, even
\* though GetUnseenIntervalsAtProc stops at the first seen record of a slot
\* instead of testing every record: the newest-first order of the slots
\* makes the early break sound.
ReturnsExactlyUnseen ==
    LET out     == GetAllUnseenIntervals(array, clock)
        records == UNION {{[proc |-> q, vt |-> array[q][k]] : k \in 1..Len(array[q])} : q \in DOMAIN array}
    IN  /\ {out[a] : a \in 1..Len(out)} = {i \in records : ~IsBefore(i.vt, clock) /\ i.vt # clock}
        /\ Len(out) = Cardinality({out[a] : a \in 1..Len(out)})
\* The intervals a last owner puts in its LOCK_ACQUIRE_RESPONSE are exactly
\* those of its history that are not already <= the acquirer's clock (spec
\* I5 and 4.G: "the interval list drawn from its process array since the
\* requester's msg.VC").
ResponseExactlyUnseen ==
    LET records == UNION {{[proc |-> q, vt |-> array[q][k]] : k \in 1..Len(array[q])} : q \in DOMAIN array}
    IN  ResponseIntervals(array, clock) = {i \in records : ~IsBefore(i.vt, clock) /\ i.vt # clock}
=============================================================================
