------------------------------ MODULE Sequence ------------------------------
(***************************************************************************)
(* What the line structures promise: a sequence of values, and calls each  *)
(* of which changes it in one place or not at all and says so.  Positions  *)
(* count from 0.  Two things the code does and a user would not expect are *)
(* part of it, because callers see them: sqlist_find overlooks the last    *)
(* item (sqlist.c:74), and list_delete_at ends the program for most        *)
(* positions that are not there (list.c:81-90).                            *)
(***************************************************************************)
EXTENDS Integers, SequencesExt

CONSTANT NoLimit

VARIABLES
    items,   \* the values, first to last
    limit,   \* how many it holds, NoLimit if memory decides
    call     \* the last call: its name, its arguments, and its result: a code and
             \* what was handed out, or nothing if it did not return

abstractVars == <<items, limit, call>>

Returns(name, args, result) == call' = <<name, args, result>> /\ UNCHANGED limit

Index(d)   == SelectInSeq(items, LAMBDA e : e = d) - 1
Refusable  == limit = NoLimit \/ Len(items) = limit
Overlooked(d) == limit # NoLimit /\ Index(d) = Len(items) - 1

\* d is put before position k; refused, it leaves no trace.
Insert(k, d) ==
    \/ k \in 0 .. Len(items) /\ items' = InsertAt(items, k + 1, d) /\ Returns("insert", <<k, d>>, <<0>>)
    \/ /\ Refusable \/ k \notin 0 .. Len(items)
       /\ UNCHANGED items /\ \E r \in {-1, -2, -3} : Returns("insert", <<k, d>>, <<r>>)

\* The result of queue_en is whatever was in the register (queue.c:8-11).
Enqueue(d) ==
    /\ \/ items' = Append(items, d)
       \/ Refusable /\ UNCHANGED items
    /\ \E r \in {0, -1} : Returns("queue_en", d, <<r>>)

\* Before the first that is not smaller.
InsertInOrder(d) ==
    LET k == Cardinality({i \in 1 .. Len(items) : \A j \in 1 .. i : items[j] < d})
    IN  \/ items' = InsertAt(items, k + 1, d) /\ Returns("order_insert", d, <<0>>)
        \/ Refusable /\ UNCHANGED items /\ Returns("order_insert", d, <<-1>>)

\* What stood at position k is handed out, or only removed.
TakeOut(name, args, k) ==
    IF k \in 0 .. Len(items) - 1
    THEN /\ items' = RemoveAt(items, k + 1)
         /\ Returns(name, args, IF name \in {"delete", "drop", "remove_at"} THEN <<0>> ELSE <<0, items[k + 1]>>)
    ELSE /\ UNCHANGED items
         /\ \/ \E r \in {-1, -2} : Returns(name, args, <<r>>)
            \/ name = "delete_at" /\ Returns(name, args, <<>>)

Delete(d) == TakeOut("delete", d, Index(d))
Fetch(d)  == TakeOut("fetch", d, Index(d))
Drop      == TakeOut("drop", 0, 0)
Pop       == TakeOut("pop", 0, 0) \/ TakeOut("pop_last", 0, Len(items) - 1)

Find(d) ==
    /\ UNCHANGED items
    /\ \/ Index(d) # -1 /\ Returns("find", d, <<Index(d)>>)
       \/ Index(d) = -1 /\ \E r \in {-1, -2} : Returns("find", d, <<r>>)
       \/ Overlooked(d) /\ Returns("find", d, <<-2>>)

\* The item that the next pop hands out.
Top ==
    /\ UNCHANGED items
    /\ IF items = <<>> THEN Returns("top", 0, <<-1>>) ELSE Returns("top", 0, <<0, Last(items)>>)

Travel == UNCHANGED items /\ Returns("travel", 0, <<0>> \o items)

Clear(name) == items' = <<>> /\ Returns(name, 0, <<0>>)

\* The items of the other list that are not there are put in front, while there
\* is room.
Union(other) ==
    LET added == SubSeq(items', 1, Len(items') - Len(items))
    IN  /\ IsSuffix(items, items')
        /\ Range(added) \subseteq Range(other)
        /\ \A i \in 1 .. Len(added) : Index(added[i]) = -1 \/ Overlooked(added[i])
        /\ Range(other) \subseteq Range(items') \/ Len(items') = limit
        /\ Returns("union", other, <<0>>)

Init == items = <<>> /\ call = <<"create", 0, <<0>>>>

Next ==
    \/ call'[1] = "insert" /\ Insert(call'[2][1], call'[2][2])
    \/ call'[1] = "queue_en" /\ Enqueue(call'[2])
    \/ call'[1] = "order_insert" /\ InsertInOrder(call'[2])
    \/ call'[1] \in {"delete_at", "remove_at"} /\ TakeOut(call'[1], call'[2], call'[2])
    \/ call'[1] = "delete" /\ Delete(call'[2])
    \/ call'[1] = "fetch" /\ Fetch(call'[2])
    \/ call'[1] = "drop" /\ Drop
    \/ call'[1] \in {"pop", "pop_last"} /\ Pop
    \/ call'[1] = "find" /\ Find(call'[2])
    \/ call'[1] = "top" /\ Top
    \/ call'[1] = "travel" /\ Travel
    \/ call'[1] \in {"setempty", "destroy"} /\ Clear(call'[1])
    \/ call'[1] = "union" /\ Union(call'[2])

Spec == Init /\ [][Next]_abstractVars
=============================================================================
