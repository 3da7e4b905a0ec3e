---------------------------- MODULE PageArraySpec ----------------------------
(***************************************************************************)
(* What the page array promises (spec 4.D and the lifecycles of spec 3):   *)
(* a map from page number to an entry, created lazily on the first         *)
(* reference to the page, holding one newest-first write-notice list per   *)
(* process.  Every operation takes effect atomically; write notice records *)
(* are prepended and never removed.  A query leaves its result in ret[c]   *)
(* for the caller c.                                                       *)
(***************************************************************************)
EXTENDS Sequences, FiniteSets

CONSTANTS
    Pages,          \* page numbers
    Lists,          \* write-notice lists of an entry, one per process id
    Records,        \* write-notice records
    Callers,        \* goroutines calling the page array
    Nil

VARIABLES
    page,   \* page[x]: Nil, or x's entry [wn : Lists -> list]
    ret     \* ret[c]: the result of c's last query

vars == <<page, ret>>

Fresh == [wn |-> [q \in Lists |-> <<>>]]

\* The entry of x, as the first reference to x creates it.
Ref(x) == IF page[x] = Nil THEN Fresh ELSE page[x]

ListRecords(l) == {l[k] : k \in DOMAIN l}

Used == UNION {ListRecords(page[x].wn[q]) : x \in {y \in Pages : page[y] # Nil}, q \in Lists}

Init ==
    /\ page = [x \in Pages |-> Nil]
    /\ ret = [c \in Callers |-> Nil]

\* Get-or-create.
Touch(x) ==
    /\ page' = [page EXCEPT ![x] = Ref(x)]
    /\ UNCHANGED ret

\* Prepend a new record r for process q on page x.
Prepend(x, q, r) ==
    /\ r \notin Used
    /\ page' = [page EXCEPT ![x] = [Ref(x) EXCEPT !.wn[q] = <<r>> \o @]]
    /\ UNCHANGED ret

\* The head of q's list on page x, Nil for an empty list.
QueryHead(c, x, q) ==
    LET l == Ref(x).wn[q] IN
    /\ page' = [page EXCEPT ![x] = Ref(x)]
    /\ ret' = [ret EXCEPT ![c] = IF l = <<>> THEN Nil ELSE Head(l)]

Next ==
    \E x \in Pages :
       \/ Touch(x)
       \/ \E q \in Lists, r \in Records : Prepend(x, q, r)
       \/ \E c \in Callers, q \in Lists : QueryHead(c, x, q)

Spec == Init /\ [][Next]_vars
=============================================================================
