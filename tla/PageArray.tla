------------------------------ MODULE PageArray ------------------------------
(***************************************************************************)
(* PageArray and PageArrayEntry (treadmarks/tm_datastructures.go) under    *)
(* concurrent callers.  p.array is a Go map guarded by p.Mutex only inside *)
(* GetPageEntry, which creates a missing entry with SetPageEntry under the *)
(* lock.  GetWritenoticeList (used by GetWriteNoticeListHead) and          *)
(* SetCopyset read p.array[pageNr] without the lock and dereference the    *)
(* entry.  PrependWriteNotice rewrites the entry's list without taking the *)
(* entry's lock.  The callers are tm_host.go's: the fault listener and     *)
(* updateDatastructures follow a GetPageEntry that found no entry with     *)
(* their own SetPageEntry, without the lock (tm_host.go:94-95, 102-103,    *)
(* 222-229), and incorporateIntervalsIntoDatastructures prepends and then  *)
(* reads its own list's head (tm_host.go:354-358).                         *)
(*                                                                         *)
(* An entry is an index into `store`; a write notice record is a number.   *)
(* A map access that overlaps a map write is a data race: the Go runtime   *)
(* may stop the process ("concurrent map read and map write", "concurrent  *)
(* map writes") or the access may go through, and the model allows both.   *)
(***************************************************************************)
EXTENDS Integers, Sequences, FiniteSets

CONSTANTS
    Pages,          \* page numbers the callers pass
    NrProcs,        \* p.nrProc
    Own,            \* t.procId
    Callers,        \* goroutines calling the page array
    Ops,            \* Ops[c]: the tm_host.go code paths goroutine c runs
    MaxRecords,     \* bound on write notice records created
    Nil

None     == 0                   \* no entry in p.array
NoCaller == "none"
Lists    == 0..NrProcs
Records  == 1..MaxRecords

\* The page-array calls of each tm_host.go code path, in order: "Ensure" is
\* GetPageEntry followed, when there was no entry, by SetPageEntry.
Programs(op) ==
    CASE op = "Fault" ->                \* fault listener, READ or WRITE
            {<<[call |-> "Ensure", list |-> 0]>>}
      [] op = "UpdateDatastructures" -> \* one page of twinMap
            {<<[call |-> "Ensure", list |-> 0], [call |-> "Prepend", list |-> Own]>>}
      [] op = "Incorporate" ->          \* one write notice of another process
            {<<[call |-> "Prepend", list |-> q], [call |-> "Head", list |-> Own]>> :
                q \in (1..NrProcs) \ {Own}}

VARIABLES
    array,      \* p.array: page -> entry index, None if absent
    store,      \* store[e]: entry e, [wn : Lists -> records newest first]
    mutex,      \* holder of p.Mutex
    writers,    \* goroutines whose map write p.array[pageNr] = pe is under way
    pc,         \* pc[c]: c's remaining calls, the page, how far the first got
    ret,        \* ret[c]: result of c's last GetWriteNoticeListHead
    nextRecord, \* records created so far
    fatal,      \* the Go runtime stopped the process
    panicked    \* an index out of range stopped the process

vars == <<array, store, mutex, writers, pc, ret, nextRecord, fatal, panicked>>

Idle == [todo |-> <<>>, page |-> 0, stage |-> "idle", e |-> None]

\* The state of c about to make the first call of todo on page x.
Begin(todo, x) ==
    IF todo = <<>> THEN Idle
    ELSE [todo |-> todo, page |-> x, e |-> None,
          stage |-> IF todo[1].call = "Head" THEN "len" ELSE "lock"]

\* c's current call has returned.
Done(c) == [pc EXCEPT ![c] = Begin(Tail(pc[c].todo), pc[c].page)]

Cur(c) == pc[c].todo[1]

\* NewPageArrayEntry(nrProcs): nrProcs + 1 empty lists.
NewPageArrayEntryShort == [wn |-> [q \in 0..NrProcs - 1 |-> <<>>]]

NewPageArrayEntry == [wn |-> [q \in Lists |-> <<>>]]

TypeOK ==
    /\ array \in [Pages -> 0..Len(store)]
    /\ store \in Seq([wn : [Lists -> Seq(Records)]])
    /\ mutex \in Callers \cup {NoCaller}
    /\ writers \subseteq Callers
    /\ \A c \in Callers : pc[c].e \in 0..Len(store) /\ pc[c].page \in Pages \cup {0}
    /\ nextRecord \in 0..MaxRecords
    /\ fatal \in BOOLEAN /\ panicked \in BOOLEAN

\* NewPageArray: an empty map.
Init ==
    /\ array = [x \in Pages |-> None]
    /\ store = <<>>
    /\ mutex = NoCaller
    /\ writers = {}
    /\ pc = [c \in Callers |-> Idle]
    /\ ret = [c \in Callers |-> Nil]
    /\ nextRecord = 0
    /\ fatal = FALSE /\ panicked = FALSE

Up == ~fatal /\ ~panicked

\* The Go runtime detects a map access overlapping a map write and stops
\* the process.
FatalError ==
    /\ writers # {}
    /\ fatal' = TRUE
    /\ UNCHANGED <<array, store, mutex, writers, pc, ret, nextRecord, panicked>>

\* c starts one of its code paths.
Call(c) ==
    /\ Up /\ pc[c].stage = "idle"
    /\ \E op \in Ops[c], x \in Pages :
          \E todo \in Programs(op) : pc' = [pc EXCEPT ![c] = Begin(todo, x)]
    /\ UNCHANGED <<array, store, mutex, writers, ret, nextRecord, fatal, panicked>>

\* What the caller does with the entry e GetPageEntry returned, in the step
\* GetPageEntry returns: tm_host.go's "no entry" test leads to SetPageEntry,
\* PrependWriteNotice goes on to prepend, GetWriteNoticeListHead reads index 0,
\* out of range if the list checked non-empty was in an entry since replaced.
AfterGetPageEntry(c, e, created) ==
    CASE Cur(c).call = "Ensure" ->
            /\ pc' = IF created THEN [pc EXCEPT ![c].stage = "set"] ELSE Done(c)
            /\ UNCHANGED <<ret, panicked>>
      [] Cur(c).call = "Prepend" ->
            /\ pc' = [pc EXCEPT ![c].stage = "prepend", ![c].e = e]
            /\ UNCHANGED <<ret, panicked>>
      [] Cur(c).call = "Head" /\ store[e].wn[Cur(c).list] # <<>> ->
            /\ pc' = Done(c)
            /\ ret' = [ret EXCEPT ![c] = Head(store[e].wn[Cur(c).list])]
            /\ UNCHANGED panicked
      [] Cur(c).call = "Head" ->
            /\ panicked' = TRUE
            /\ UNCHANGED <<pc, ret>>

\* GetPageEntry: p.Lock(); an entry present is read and p.Unlock()ed in one
\* step; a missing one is made by NewPageArrayEntry and SetPageEntry starts
\* writing it.  The lookup may meet an unlocked SetPageEntry (FatalError).
GetPageEntryLock(c) ==
    LET x == pc[c].page IN
    /\ Up /\ pc[c].stage = "lock" /\ mutex = NoCaller
    /\ IF array[x] # None
         THEN /\ AfterGetPageEntry(c, array[x], FALSE)
              /\ UNCHANGED <<store, mutex, writers>>
         ELSE /\ store' = Append(store, NewPageArrayEntry)
              /\ mutex' = c /\ writers' = writers \cup {c}
              /\ pc' = [pc EXCEPT ![c].stage = "create", ![c].e = Len(store) + 1]
              /\ UNCHANGED <<ret, panicked>>
    /\ UNCHANGED <<array, nextRecord, fatal>>

\* SetPageEntry's write lands; res := p.array[pageNr]; p.Unlock().
GetPageEntryCreate(c) ==
    /\ Up /\ pc[c].stage = "create"
    /\ array' = [array EXCEPT ![pc[c].page] = pc[c].e]
    /\ writers' = writers \ {c}
    /\ mutex' = IF mutex = c THEN NoCaller ELSE mutex
    /\ AfterGetPageEntry(c, pc[c].e, TRUE)
    /\ UNCHANGED <<store, nextRecord, fatal>>

\* tm_host.go's SetPageEntry(pageNr, a new entry) after a GetPageEntry that
\* found no entry: a map write without p.Mutex, begun ...
SetPageEntryStart(c) ==
    /\ Up /\ pc[c].stage = "set"
    /\ store' = Append(store, NewPageArrayEntry)
    /\ writers' = writers \cup {c}
    /\ pc' = [pc EXCEPT ![c].stage = "setting", ![c].e = Len(store) + 1]
    /\ UNCHANGED <<array, mutex, ret, nextRecord, fatal, panicked>>

\* ... and landed: p.array[pageNr] now holds the new entry.
SetPageEntryEnd(c) ==
    /\ Up /\ pc[c].stage = "setting"
    /\ array' = [array EXCEPT ![pc[c].page] = pc[c].e]
    /\ writers' = writers \ {c}
    /\ pc' = Done(c)
    /\ UNCHANGED <<store, mutex, ret, nextRecord, fatal, panicked>>

\* PageArrayEntry.PrependWriteNotice: a new record at the front of the
\* process's list, without the entry's lock.
EntryPrepend(st, e, q, r) == [st EXCEPT ![e].wn[q] = <<r>> \o @]

\* PageArray.PrependWriteNotice, after GetPageEntry(wn.PageNr) returned e.
PrependWriteNotice(c) ==
    /\ Up /\ pc[c].stage = "prepend" /\ nextRecord < MaxRecords
    /\ store' = EntryPrepend(store, pc[c].e, Cur(c).list, nextRecord + 1)
    /\ nextRecord' = nextRecord + 1
    /\ pc' = Done(c)
    /\ UNCHANGED <<array, mutex, writers, ret, fatal, panicked>>

\* GetWriteNoticeListHead: len(p.GetWritenoticeList(procNr, pageNr)) < 1,
\* read without p.Mutex, returns nil; otherwise it goes on to
\* GetPageEntry(pageNr).GetWriteNotice(procNr, 0).  The caller prepended to
\* the page just before, so p.array[pageNr] is not nil.
GetWriteNoticeListHead(c) ==
    LET l == store[array[pc[c].page]].wn[Cur(c).list] IN
    /\ Up /\ pc[c].stage = "len"
    /\ IF l = <<>>
         THEN /\ pc' = Done(c)
              /\ ret' = [ret EXCEPT ![c] = Nil]
         ELSE /\ pc' = [pc EXCEPT ![c].stage = "lock"]
              /\ UNCHANGED ret
    /\ UNCHANGED <<array, store, mutex, writers, nextRecord, fatal, panicked>>

\* A map access of c (GetPageEntry's lookup, GetWritenoticeList's read,
\* SetPageEntry's write) meets another goroutine's map write; a lookup
\* waits until c holds p.Mutex.
MapRace(c) ==
    /\ Up /\ pc[c].stage \in {"lock", "len", "set"}
    /\ pc[c].stage = "lock" => mutex = NoCaller
    /\ writers \ {c} # {}
    /\ FatalError

Step(c) ==
    \/ Call(c)
    \/ GetPageEntryLock(c) \/ GetPageEntryCreate(c)
    \/ SetPageEntryStart(c) \/ SetPageEntryEnd(c)
    \/ PrependWriteNotice(c)
    \/ GetWriteNoticeListHead(c)
    \/ MapRace(c)

Next == \E c \in Callers : Step(c)

Spec == Init /\ [][Next]_vars

-----------------------------------------------------------------------------
(* Properties.                                                             *)

Abstract == INSTANCE PageArraySpec
              WITH page <- [x \in Pages |-> IF array[x] = None THEN Nil ELSE store[array[x]]],
                   Lists <- Lists, Records <- Records

NoRacyMapAccess == ~fatal

=============================================================================
