-------------------------------- MODULE Chain --------------------------------
(***************************************************************************)
(* The linked lists.  Without a head (simple/nohead), with a head          *)
(* (simple/head), and the rings of the generic libraries: double/lib1,     *)
(* which keeps the data in a block of its own, lib2 to lib4, which keep it *)
(* in the node and differ in how they name things, and kernel.  The stack  *)
(* and the queue of stack/list and squeue/list use copies of lib2.         *)
(*                                                                         *)
(* Node 0 is the head.  In nohead, whose caller holds the first pointer,   *)
(* next[HEAD] is that pointer.                                             *)
(***************************************************************************)
EXTENDS Integers, Sequences, FiniteSetsExt, Program

CONSTANTS
    Nodes,       \* addresses malloc may return, positive numbers
    Data,        \* what is put into the lists, numbers
    MallocFails  \* may malloc fail before the addresses run out?

ASSUME ChainAssumption ==
    /\ Nodes \subseteq Nat \ {0} /\ IsFiniteSet(Nodes)
    /\ Data \subseteq Int
    /\ MallocFails \in BOOLEAN

VARIABLES
    next, prev, data,  \* the nodes; prev in the rings only
    live,              \* the nodes in use
    boxes,             \* lib1: the nodes whose block of data is in use
    leaked,            \* nodes nobody points to that were not freed
    called             \* the last call: its name, its arguments and its result

chainVars == <<next, prev, data, live, boxes, leaked, called>>

HEAD == 0
Null == -1

Rings == {"lib1", "llist", "kernel", "stack", "queue"}

\* What the last node points to.
Ending == IF program \in Rings THEN HEAD ELSE Null

Places == Nodes \cup {HEAD}

\* The node k steps from the head.  A step from NULL is a crash; the lists' loops
\* look before they step, but for list_delete_at.
At[k \in 0 .. Cardinality(Nodes) + 1] ==
    IF k = 0 THEN HEAD ELSE IF At[k - 1] = Null THEN Null ELSE next[At[k - 1]]

ListLength ==
    Cardinality({k \in 1 .. Cardinality(Nodes) : \A j \in 1 .. k : At[j] # Ending})

ChainItems == [k \in 1 .. ListLength |-> data[At[k]]]
Reachable  == {At[k] : k \in 1 .. ListLength}

\* The first node whose item passes the test, Ending if none does.
Found(d) ==
    LET ks == {k \in 1 .. ListLength : data[At[k]] = d}
    IN  IF ks = {} THEN Ending ELSE At[Min(ks)]

Position(n) == IF n = Ending THEN -1 ELSE (CHOOSE k \in 1 .. ListLength : At[k] = n) - 1

Alive == called[1] # "destroy" /\ called[3] # <<>>

Done(name, args, result) == called' = <<name, args, result>>
Reads(name, args, result) ==
    /\ Alive
    /\ Done(name, args, result)
    /\ UNCHANGED <<next, prev, data, live, boxes, leaked>>

ChainInit ==
    /\ next = [n \in Places |-> IF n = HEAD THEN Ending ELSE Null]
    /\ prev = [n \in Places |-> IF n = HEAD THEN Ending ELSE Null]
    /\ data = [n \in Nodes |-> Null]
    /\ live = {} /\ boxes = {} /\ leaked = {}
    /\ called = <<"create", 0, <<0>>>>

\* Whatever calls were made: what is in use is what the list reaches and what was
\* lost on the way, no freed node is reached, and the pointers back undo the
\* pointers forth.  In lib1 each node reached has its block of data.
HeapIsExact ==
    /\ live = Reachable \cup leaked
    /\ Reachable \cap leaked = {}
    /\ boxes \subseteq live
    /\ program = "lib1" => Reachable \subseteq boxes
    /\ program \in Rings => \A n \in Reachable \cup {HEAD} : prev[next[n]] = n

-----------------------------------------------------------------------------
(* malloc and free *)

NoMemory  == MallocFails \/ Nodes = live
HasMemory == Nodes # live
New       == Min(Nodes \ live)

Allocate(n, d) ==
    /\ live' = live \cup {n}
    /\ boxes' = IF program = "lib1" THEN boxes \cup {n} ELSE boxes
    /\ data' = [data EXCEPT ![n] = d]

\* A freed node holds nothing any more that anyone may use.
Release(n) ==
    /\ live' = live \ {n}
    /\ boxes' = boxes \ {n}
    /\ data' = [data EXCEPT ![n] = Null]

-----------------------------------------------------------------------------
(* Putting n between p and q, taking n out. *)

Link(n, p, q) ==
    /\ next' = [next EXCEPT ![n] = q, ![p] = n]
    /\ prev' = IF program \in Rings THEN [prev EXCEPT ![n] = p, ![q] = n] ELSE prev

\* As if the pointer back were forgotten.
UnlinkForth(n) ==
    /\ next' = [next EXCEPT ![prev[n]] = next[n], ![n] = Null]
    /\ UNCHANGED prev

Unlink(n) ==
    /\ next' = [next EXCEPT ![prev[n]] = next[n], ![n] = Null]
    /\ prev' = [prev EXCEPT ![next[n]] = prev[n], ![n] = Null]

\* p->next is taken out of a list without prev.
UnlinkAfter(p) ==
    /\ next' = [next EXCEPT ![p] = next[next[p]], ![next[p]] = Null]
    /\ UNCHANGED prev

\* d is put between p and q, at position k, and the call returns 0; without
\* memory it returns the code it has for that.
PutIn(name, args, d, p, q, result, failure) ==
    /\ Alive
    /\ \/ /\ HasMemory
          /\ Allocate(New, d)
          /\ Link(New, p, q)
          /\ UNCHANGED leaked
          /\ Done(name, args, result)
       \/ /\ NoMemory
          /\ Reads(name, args, failure)

-----------------------------------------------------------------------------
(* simple/nohead *)

NoHeadInsert == \E d \in Data : PutIn("insert", <<0, d>>, d, HEAD, next[HEAD], <<0>>, <<-1>>)

NoHeadDelete ==
    IF next[HEAD] = Null
    THEN Reads("drop", 0, <<-1>>)
    ELSE /\ Alive
         /\ UnlinkAfter(HEAD)
         /\ Release(next[HEAD])
         /\ Done("drop", 0, <<0>>)
         /\ UNCHANGED leaked

\* list_show, llist_travel, __list_for_each: each node from the first to the last.
Travel == Reads("travel", 0, <<0>> \o ChainItems)

\* Every node is freed; in all versions the next one is read before.
Destroy ==
    /\ Alive
    /\ live' = live \ Reachable
    /\ boxes' = boxes \ Reachable
    /\ next' = [n \in Places |-> IF n = HEAD THEN Ending ELSE Null]
    /\ prev' = [n \in Places |-> IF n = HEAD THEN Ending ELSE Null]
    /\ data' = [n \in Nodes |-> IF n \in Reachable THEN Null ELSE data[n]]
    /\ Done("destroy", 0, <<0>>)
    /\ UNCHANGED leaked

NoHeadFind == \E d \in Data : Reads("find", d, <<Position(Found(d))>>)

NoHeadNext == NoHeadInsert \/ NoHeadDelete \/ NoHeadFind \/ Travel \/ Destroy
=============================================================================
