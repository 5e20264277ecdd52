------------------------------- MODULE Arrays -------------------------------
(***************************************************************************)
(* The structures that keep their items in an array: the list of           *)
(* line/list/arr, the stack of line/stack/arr and the ring of              *)
(* line/squeue/arr, which keeps one slot empty.  Each is a record, and     *)
(* each function gives the record it leaves, so that other programs can    *)
(* use them.  What malloc returned is any value: Garbage stands for it.    *)
(***************************************************************************)
EXTENDS Integers, Sequences, FiniteSets, SequencesExt, Program

CONSTANTS
    DATASIZE,   \* slots of the list, and of the stack and the ring (MAXSIZE)
    Values,     \* what is put into them
    Others,     \* the lists that are united with the list
    Garbage     \* what a slot holds that was never written

ASSUME ArrayAssumption ==
    DATASIZE \in Nat \ {0, 1} /\ Garbage \notin Values /\ Others \subseteq Seq(Values)

VARIABLES
    me,     \* the structure
    last    \* the last call: its name, its arguments and its result

arrayVars == <<me, last>>

Slots(size) == 0 .. size - 1
Blank(size) == [i \in Slots(size) |-> Garbage]

-----------------------------------------------------------------------------
(* sqlist *)

sqlist_create == [data |-> Blank(DATASIZE), last |-> -1]

sqlist_isempty(l) == l.last = -1
Full(l)           == l.last = DATASIZE - 1
Misplaced(l, i)   == i < 0 \/ i > l.last + 1

\* The items from i on move up by one.
Inserted(l, i, d) ==
    [data |-> [j \in Slots(DATASIZE) |->
                  IF j \in i + 1 .. l.last + 1 THEN l.data[j - 1]
                  ELSE IF j = i THEN d ELSE l.data[j]],
     last |-> l.last + 1]

sqlist_insert(l, i, d) == IF Full(l) \/ Misplaced(l, i) THEN l ELSE Inserted(l, i, d)

InsertResult(l, i) ==
    CASE Full(l) -> <<-1>> [] ~Full(l) /\ Misplaced(l, i) -> <<-2>> [] OTHER -> <<0>>

\* The items behind i move down; the last slot keeps its copy.
sqlist_delete(l, i) ==
    [data |-> [j \in Slots(DATASIZE) |->
                  IF j \in i .. l.last - 1 THEN l.data[j + 1] ELSE l.data[j]],
     last |-> l.last - 1]

\* The loop ends before the last item.
sqlist_find(l, d) ==
    LET found == {i \in 0 .. l.last - 1 : l.data[i] = d}
    IN  CASE sqlist_isempty(l) -> -1
          [] ~sqlist_isempty(l) /\ found = {} -> -2
          [] OTHER -> CHOOSE i \in found : \A j \in found : i <= j

\* What insertion refuses is not noticed.
sqlist_union(l, other) ==
    LET united[k \in 0 .. Len(other)] ==
            IF k = 0 THEN l
            ELSE IF sqlist_find(united[k - 1], other[k]) < 0
                 THEN sqlist_insert(united[k - 1], 0, other[k]) ELSE united[k - 1]
    IN  united[Len(other)]

ListItems(l) == [i \in 1 .. l.last + 1 |-> l.data[i - 1]]

-----------------------------------------------------------------------------
(* sqstack *)

st_create(size) == [data |-> Blank(size), top |-> -1]
st_isempty(st)  == st.top = -1
StackFull(st)   == st.top = Cardinality(DOMAIN st.data) - 1
Pushed(st, d)   == [data |-> [st.data EXCEPT ![st.top + 1] = d], top |-> st.top + 1]
st_push(st, d)  == IF StackFull(st) THEN st ELSE Pushed(st, d)
st_top(st)      == st.data[st.top]
st_pop(st)      == [st EXCEPT !.top = @ - 1]
StackItems(st)  == [i \in 1 .. st.top + 1 |-> st.data[i - 1]]

-----------------------------------------------------------------------------
(* The ring.  head is the slot before the first item, tail that of the last.   *)

qu_create(size) == [data |-> Blank(size), head |-> 0, tail |-> 0]
qu_isempty(qu)  == qu.head = qu.tail
After(qu, i)    == (i + 1) % Cardinality(DOMAIN qu.data)
\* As if all slots were used.
RingFullNot(qu) == FALSE
RingFull(qu)    == After(qu, qu.tail) = qu.head
Queued(qu, d)   == LET t == After(qu, qu.tail) IN [qu EXCEPT !.tail = t, !.data[t] = d]
qu_enqueue(qu, d) == IF RingFull(qu) THEN qu ELSE Queued(qu, d)
Foremost(qu)    == qu.data[After(qu, qu.head)]
qu_dequeue(qu)  == [qu EXCEPT !.head = After(qu, @)]
qu_clear(qu)    == [qu EXCEPT !.head = qu.tail]

\* What qu_travel prints, from behind head to tail.
RingItems(qu) ==
    LET size == Cardinality(DOMAIN qu.data)
    IN  [i \in 1 .. (qu.tail - qu.head) % size |-> qu.data[(qu.head + i) % size]]

-----------------------------------------------------------------------------
(* A caller of one of them *)

ArrayLive == last[1] # "destroy"

Call(name, args, to, result) ==
    /\ ArrayLive
    /\ me' = to
    /\ last' = <<name, args, result>>

ArrayInit ==
    /\ last = <<"create", 0, <<0>>>>
    /\ me = CASE program = "sqstack" -> st_create(DATASIZE)
              [] program = "squeue"  -> qu_create(DATASIZE)
              [] OTHER               -> sqlist_create

ListInsert == \E i \in -1 .. DATASIZE + 1, d \in Values :
    Call("insert", <<i, d>>, sqlist_insert(me, i, d), InsertResult(me, i))

ListDelete == \E i \in -1 .. DATASIZE :
    IF i < 0 \/ i > me.last
    THEN Call("remove_at", i, me, <<-1>>)
    ELSE Call("remove_at", i, sqlist_delete(me, i), <<0>>)

ListFind == \E d \in Values :
    Call("find", d, me, <<sqlist_find(me, d)>>)

ListTravel   == Call("travel", 0, me, <<0>> \o ListItems(me))
ListSetEmpty == Call("setempty", 0, [me EXCEPT !.last = -1], <<0>>)
ListUnion    == \E other \in Others : Call("union", other, sqlist_union(me, other), <<0>>)

StPush == \E d \in Values :
    Call("insert", <<me.top + 1, d>>, st_push(me, d), IF StackFull(me) THEN <<-1>> ELSE <<0>>)

StPop ==
    IF st_isempty(me) THEN Call("pop_last", 0, me, <<-1>>)
                      ELSE Call("pop_last", 0, st_pop(me), <<0, st_top(me)>>)

StTop == Call("top", 0, me, IF st_isempty(me) THEN <<-1>> ELSE <<0, st_top(me)>>)

StTravel == Call("travel", 0, me, <<0>> \o StackItems(me))

QuEnqueue == \E d \in Values :
    Call("insert", <<Len(RingItems(me)), d>>, qu_enqueue(me, d), IF RingFull(me) THEN <<-1>> ELSE <<0>>)

QuDequeue ==
    IF qu_isempty(me) THEN Call("pop", 0, me, <<-1>>)
                      ELSE Call("pop", 0, qu_dequeue(me), <<0, Foremost(me)>>)

QuTravel == Call("travel", 0, me, <<0>> \o RingItems(me))
QuClear  == Call("setempty", 0, qu_clear(me), <<0>>)

\* The memory goes back; there is nothing left to look at.
ArrayDestroy == Call("destroy", 0, me, <<0>>)

ArrayNext ==
    \/ program = "sqlist" /\ (ListInsert \/ ListDelete \/ ListFind \/ ListTravel \/ ListSetEmpty
                              \/ ListUnion)
    \/ program = "sqstack" /\ (StPush \/ StPop \/ StTop \/ StTravel)
    \/ program = "squeue" /\ (QuEnqueue \/ QuDequeue \/ QuTravel \/ QuClear)
    \/ ArrayDestroy

\* The items of the structure, and how many it holds.
ArrayItems ==
    IF ~ArrayLive THEN <<>>
    ELSE CASE program = "sqstack" -> StackItems(me)
           [] program = "squeue"  -> RingItems(me)
           [] OTHER               -> ListItems(me)

ArrayLimit == IF program = "squeue" THEN DATASIZE - 1 ELSE DATASIZE
=============================================================================
