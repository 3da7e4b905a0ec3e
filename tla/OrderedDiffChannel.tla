-------------------------- MODULE OrderedDiffChannel --------------------------
(***************************************************************************)
(* PageArrayEntry.OrderedDiffChannel (treadmarks/tm_datastructures.go): the *)
(* goroutine that walks a page's write-notice lists, one per process and   *)
(* newest first, and sends their diffs oldest first: in each sweep over    *)
(* the lists it sends the oldest unsent record of every list that no other *)
(* list's oldest unsent record happens before.  The loop stops when the    *)
(* counter `done` drops below one.                                         *)
(*                                                                         *)
(* A diff is named by <<list, index>>; a list holds the interval           *)
(* timestamps of its records.  The algorithm is an operator; the module's  *)
(* one variable is the input, chosen from every page state in bounds.      *)
(***************************************************************************)
EXTENDS Integers, Sequences, FiniteSets

CONSTANTS
    NrProcs,    \* nrProcs: the entry has lists 0..NrProcs (NewPageArrayEntry)
    MaxTick,    \* largest vector clock entry in an input
    MaxLen      \* longest write-notice list in an input

Lists  == 0..NrProcs
Clocks == [1..NrProcs -> 0..MaxTick]

\* Vectorclock.IsBefore: strict happens-before (spec 4.A).
IsBefore(a, b) == (\A q \in 1..NrProcs : a[q] <= b[q]) /\ a # b

\* Mutant of Smallest: the comparison the wrong way round.
SmallestSwapped(wnra, index, i) ==
    ~\E j \in Lists : index[j] >= 0 /\ IsBefore(wnra[i][index[i] + 1], wnra[j][index[j] + 1])

\* `smallest`: no list's oldest unsent record happens before list i's.
Smallest(wnra, index, i) ==
    ~\E j \in Lists : index[j] >= 0 /\ IsBefore(wnra[j][index[j] + 1], wnra[i][index[i] + 1])

\* Mutant of Sweep: index[i] decremented before the diff is sent.
RECURSIVE SweepDecrementFirst(_, _, _, _, _)
SweepDecrementFirst(wnra, i, index, done, out) ==
    IF i > NrProcs THEN <<index, done, out>>
    ELSE IF index[i] < 0 THEN SweepDecrementFirst(wnra, i + 1, index, done - 1, out)
    ELSE IF Smallest(wnra, index, i)
         THEN SweepDecrementFirst(wnra, i + 1, [index EXCEPT ![i] = @ - 1], done,
                                  Append(out, <<i, index[i] - 1>>))
         ELSE SweepDecrementFirst(wnra, i + 1, index, done, out)

\* One sweep `for i := 0; i < procNr; i++` of the outer loop, from list i on.
RECURSIVE Sweep(_, _, _, _, _)
Sweep(wnra, i, index, done, out) ==
    IF i > NrProcs THEN <<index, done, out>>
    ELSE IF index[i] < 0 THEN Sweep(wnra, i + 1, index, done - 1, out)
    ELSE IF Smallest(wnra, index, i)
         THEN Sweep(wnra, i + 1, [index EXCEPT ![i] = @ - 1], done,
                    Append(out, <<i, index[i]>>))
         ELSE Sweep(wnra, i + 1, index, done, out)

\* The outer `for { ... if done < 1 { break } }`.
RECURSIVE Loop(_, _, _, _)
Loop(wnra, index, done, out) ==
    LET r == Sweep(wnra, 0, index, done, out)
    IN  IF r[2] < 1 THEN r[3] ELSE Loop(wnra, r[1], r[2], r[3])

\* The sequence of diffs sent on the channel: index[i] starts at the last
\* (oldest) record and `done` at the sum of the indices.
OrderedDiffs(wnra) ==
    LET index == [i \in Lists |-> Len(wnra[i]) - 1]
        RECURSIVE SumFrom(_)
        SumFrom(i) == IF i > NrProcs THEN 0 ELSE index[i] + SumFrom(i + 1)
    IN  Loop(wnra, index, SumFrom(0), <<>>)

-----------------------------------------------------------------------------
(* Inputs: lists 1..NrProcs are newest first, strictly decreasing in       *)
(* happens-before (spec invariant I2); list 0 stays empty because process  *)
(* ids start at 1.                                                          *)

Chains == UNION { {s \in [1..n -> Clocks] :
                     \A k \in 1..n - 1 : IsBefore(s[k + 1], s[k])} : n \in 0..MaxLen }

Inputs == {w \in [Lists -> Chains] : w[0] = <<>>}

VARIABLE wnra

Init == wnra \in Inputs
Next == UNCHANGED wnra
Spec == Init /\ [][Next]_wnra

AllDiffs(w) == UNION {{<<i, k>> : k \in 0..Len(w[i]) - 1} : i \in Lists}

\* The input is a page entry's lists, and the channel sends only diffs of
\* records that exist (index[i] read before it is decremented).
TypeOK ==
    /\ wnra \in [Lists -> Seq(Clocks)]
    /\ \A a \in 1..Len(OrderedDiffs(wnra)) : OrderedDiffs(wnra)[a] \in AllDiffs(wnra)
Stamp(w, d) == w[d[1]][d[2] + 1]

-----------------------------------------------------------------------------

\* The channel never sends a diff twice and sends a diff only after every
\* diff whose interval happens before it (spec 4.C: oldest first), so that
\* applying them in channel order rebuilds the page.
SentInCausalOrder ==
    LET out == OrderedDiffs(wnra)
    IN  /\ \A a, b \in 1..Len(out) : a # b => out[a] # out[b]
        /\ \A a, b \in 1..Len(out) :
              IsBefore(Stamp(wnra, out[b]), Stamp(wnra, out[a])) => b < a

\* Every diff of the page is sent (spec 4.C: "yields diffs in exactly this
\* order"; 4.F step 5 applies all of them).
SendsEveryDiff ==
    LET out == OrderedDiffs(wnra)
    IN  {out[a] : a \in 1..Len(out)} = AllDiffs(wnra)
=============================================================================
