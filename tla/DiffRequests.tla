----------------------------- MODULE DiffRequests -----------------------------
(***************************************************************************)
(* TreadMarks.GenerateDiffRequests (treadmarks/tm_host.go): the            *)
(* DIFF_REQUESTs a host would send to rebuild a page from the write-notice *)
(* lists of its page entry.  For every process whose newest write notice   *)
(* lacks its diff, the code takes that notice's interval and walks the     *)
(* list through NextRecord to the oldest notice of the run still missing a *)
(* diff; it then drops every process whose interval happens before         *)
(* another's and asks each remaining one for diffs newer than the walk's   *)
(* timestamp.                                                              *)
(*                                                                         *)
(* A write notice record is its interval timestamp and whether its diff is *)
(* present; a reference to a record is its position in the list (0: nil).  *)
(* The module's one variable is the input, chosen from every page entry in *)
(* bounds.  Nothing in the repository calls GenerateDiffRequests yet.      *)
(***************************************************************************)
EXTENDS Integers, Sequences, FiniteSets

CONSTANTS
    NrProcs,    \* nrProcs
    MaxTick,    \* largest vector clock entry in an input
    MaxLen      \* longest write-notice list in an input

Lists  == 0..NrProcs      \* NewPageArrayEntry: nrProcs + 1 lists, one per procId
Clocks == [1..NrProcs -> 0..MaxTick]
Nil    == 0

\* Vectorclock Compare(a, b) < 0: a strictly happens before b (spec 4.A).
IsBefore(a, b) == (\A q \in 1..NrProcs : a[q] <= b[q]) /\ a # b

\* GetWriteNoticeListHead: the first record, nil for an empty list.
ListHead(wn, q) == IF Len(wn[q]) < 1 THEN Nil ELSE 1

\* wnr.NextRecord.  PrependWriteNotice creates records with only the write
\* notice set, and neither updateDatastructures nor
\* incorporateIntervalsIntoDatastructures links them, so it is nil.
NextRecord(wn, q, k) == Nil

\* The inner `for`: vc[proc] becomes the timestamp of each record visited,
\* until NextRecord is nil or has its diff.
RECURSIVE Walk(_, _, _)
Walk(wn, q, k) ==
    LET n == NextRecord(wn, q, k)
    IN  IF n = Nil \/ wn[q][n].diff THEN wn[q][k].ts ELSE Walk(wn, q, n)

\* The first loop, `for proc := byte(0); proc < byte(t.nrProcs)`: the
\* processes whose list head lacks its diff get intrec[proc].
Visited    == 0..NrProcs - 1

\* Mutant of Candidates: the `wnr.Diff == nil` test dropped.
CandidatesAnyHead(wn) == {q \in Visited : ListHead(wn, q) # Nil}

Candidates(wn) == {q \in Visited : ListHead(wn, q) # Nil /\ ~wn[q][1].diff}

\* The second loop: int1.Timestamp.Compare(&int2.Timestamp) < 0 for some int2.
Overshadowed(wn, q) ==
    \E r \in Candidates(wn) : IsBefore(wn[q][1].ts, wn[r][1].ts)

\* The DIFF_REQUESTs: To proc1, VC vc[proc1], for every candidate that is
\* not overshadowed.
GenerateDiffRequests(wn) ==
    {[to |-> q, vc |-> Walk(wn, q, 1)] : q \in {c \in Candidates(wn) : ~Overshadowed(wn, c)}}

-----------------------------------------------------------------------------
(* Inputs: list q holds process q's write notices for the page, newest     *)
(* first and strictly decreasing in happens-before (spec I2), each with or *)
(* without its diff; list 0 stays empty because process ids start at 1.   *)

Record == [ts : Clocks, diff : BOOLEAN]

Chains == UNION { {s \in [1..n -> Record] :
                     \A k \in 1..n - 1 : IsBefore(s[k + 1].ts, s[k].ts)} : n \in 0..MaxLen }

VARIABLE wn

Init == wn \in {w \in [Lists -> Chains] : w[0] = <<>>}
Next == UNCHANGED wn
Spec == Init /\ [][Next]_wn

\* Every request goes to a process with a write notice missing its diff and
\* asks from one of that list's timestamps.
TypeOK ==
    /\ wn \in [Lists -> Seq(Record)]
    /\ \A m \in GenerateDiffRequests(wn) :
          /\ m.to \in Lists /\ wn[m.to] # <<>> /\ ~wn[m.to][1].diff
          /\ \E k \in 1..Len(wn[m.to]) : wn[m.to][k].ts = m.vc

-----------------------------------------------------------------------------

\* The processes of the lists in L whose newest write notice lacks its diff.
Missing(L) == {q \in L : wn[q] # <<>> /\ ~wn[q][1].diff}
Requested  == {m.to : m \in GenerateDiffRequests(wn)}

\* Every process whose write notice lacks its diff, process nrProcs
\* included, is asked for diffs or covered by a process that is (spec 4.F
\* diff request protocol, steps 1-3).
RequestsEveryWriter ==
    \A q \in Missing(Lists) :
       q \in Requested \/ \E r \in Requested : IsBefore(wn[q][1].ts, wn[r][1].ts)

\* The oldest record of the run of missing diffs that starts at the head.
RECURSIVE OldestMissing(_, _)
OldestMissing(q, k) ==
    IF k < Len(wn[q]) /\ ~wn[q][k + 1].diff THEN OldestMissing(q, k + 1) ELSE wn[q][k].ts

\* A request asks from the oldest missing interval of its target's run, so
\* that the responder's diffs newer than it include every missing one (spec
\* 4.F diff request protocol, step 1).
RequestsFromOldestMissing ==
    \A m \in GenerateDiffRequests(wn) : m.vc = OldestMissing(m.to, 1)
=============================================================================
