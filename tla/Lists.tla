-------------------------------- MODULE Lists -------------------------------
(***************************************************************************)
(* The lists with a head, simple/head/list.c, and the rings: llist.c in its *)
(* versions, list.h of kernel, and the stack and the queue made of them.   *)
(***************************************************************************)
EXTENDS Chain

-----------------------------------------------------------------------------
(* simple/head/list.c: the list whose first node is a head without item    *)

\* list_insert_at: node i - 1, counted from the head, if the list is that long.
HeadInsertAt == \E i \in -1 .. Cardinality(Nodes) + 1, d \in Data :
    \/ i < 0 /\ Reads("insert", <<i, d>>, <<-1>>)
    \/ i > ListLength /\ Reads("insert", <<i, d>>, <<-3>>)
    \/ i \in 0 .. ListLength /\ PutIn("insert", <<i, d>>, d, At[i], next[At[i]], <<0>>, <<-2>>)

\* The last node before the first item that is not smaller.
Before(d) == At[Max({k \in 0 .. ListLength : \A j \in 1 .. k : data[At[j]] < d})]

HeadOrderInsert == \E d \in Data :
    PutIn("order_insert", d, d, Before(d), next[Before(d)], <<0>>, <<-1>>)

\* list_delete_at steps without looking: the node behind the last is NULL, and only
\* a position one behind that is noticed (list.c:81-98).
HeadDeleteAt == \E i \in -1 .. Cardinality(Nodes) :
    \/ i < 0 /\ Reads("delete_at", i, <<-1>>)
    \/ i = ListLength + 1 /\ Reads("delete_at", i, <<-2>>)
    \/ (i = ListLength \/ i > ListLength + 1) /\ Reads("delete_at", i, <<>>)
    \/ /\ i \in 0 .. ListLength - 1
       /\ Alive
       /\ UnlinkAfter(At[i])
       /\ Release(next[At[i]])
       /\ Done("delete_at", i, <<0, data[next[At[i]]]>>)
       /\ UNCHANGED leaked

\* list_delete: p stops before the first node with the item.
HeadDelete == \E d \in Data :
    LET k == Position(Found(d))
    IN  IF k = -1
        THEN Reads("delete", d, <<-1>>)
        ELSE /\ Alive
             /\ UnlinkAfter(At[k])
             /\ Release(next[At[k]])
             /\ Done("delete", d, <<0>>)
             /\ UNCHANGED leaked

HeadNext == HeadInsertAt \/ HeadOrderInsert \/ HeadDeleteAt \/ HeadDelete \/ Travel \/ Destroy

-----------------------------------------------------------------------------
(* The rings                                                               *)

InsertForward(name, d)  == PutIn(name, <<0, d>>, d, HEAD, next[HEAD], <<0>>, <<-1>>)
\* As if the mode were not looked at.
InsertAnyway(name, d)   == PutIn(name, <<ListLength, d>>, d, HEAD, next[HEAD], <<0>>, <<-1>>)
InsertBackward(name, d) == PutIn(name, <<ListLength, d>>, d, prev[HEAD], HEAD, <<0>>, <<-1>>)

\* A mode that is neither: the new node, and in lib1 its data, stay allocated.
InsertWrong == \E d \in Data :
    /\ Alive
    /\ HasMemory
    /\ Allocate(New, d)
    /\ leaked' = leaked \cup {New}
    /\ Done("insert", <<0, d>>, <<-3>>)
    /\ UNCHANGED <<next, prev>>

\* lib1: the second malloc fails, and the node stays allocated.
InsertNoData == \E d \in Data :
    /\ program = "lib1"
    /\ Alive
    /\ MallocFails /\ HasMemory
    /\ live' = live \cup {New}
    /\ leaked' = leaked \cup {New}
    /\ Done("insert", <<0, d>>, <<-2>>)
    /\ UNCHANGED <<next, prev, data, boxes>>

Insert == \E d \in Data : InsertForward("insert", d) \/ InsertBackward("insert", d)

\* The node leaves the ring before its data are read and freed.
TakeOut(n, name, args, result) ==
    IF n = Ending
    THEN Reads(name, args, <<-1>>)
    ELSE /\ Alive
         /\ Unlink(n)
         /\ Release(n)
         /\ Done(name, args, result)
         /\ UNCHANGED leaked

Delete == \E d \in Data : TakeOut(Found(d), "delete", d, <<0>>)
Fetch  == \E d \in Data : TakeOut(Found(d), "fetch", d, <<0, d>>)
Find   == \E d \in Data : Reads("find", d, <<Position(Found(d))>>)

\* With always_match the first node is the one.
FetchFirst ==
    TakeOut(next[HEAD], "pop", 0, IF next[HEAD] = Ending THEN <<-1>> ELSE <<0, data[next[HEAD]]>>)

ListAdd   == \E d \in Data : PutIn("insert", <<0, d>>, d, HEAD, next[HEAD], <<0>>, <<-1>>)
StackPush == \E d \in Data : InsertForward("insert", d)
StackPop  == FetchFirst
QueueDe   == FetchFirst

\* queue_en returns nothing: its caller gets what is in the register.
QueueEn == \E d \in Data, r \in {0, -1} : PutIn("queue_en", d, d, prev[HEAD], HEAD, <<r>>, <<r>>)

LlistNext ==
    \/ program \in {"lib1", "llist"} /\ (Insert \/ InsertWrong \/ InsertNoData \/ Delete \/ Fetch
                                         \/ Find \/ Travel \/ Destroy)
    \/ program = "kernel" /\ (ListAdd \/ Find \/ Travel)
    \/ program = "stack" /\ (StackPush \/ StackPop \/ Destroy)
    \/ program = "queue" /\ (QueueEn \/ QueueDe \/ Destroy)
=============================================================================
