-------------------------------- MODULE Trees -------------------------------
(***************************************************************************)
(* The search tree of tree/btree, the dictionary of tree/retrieval and the *)
(* tree that tree/save_load keeps in a file.                               *)
(***************************************************************************)
EXTENDS Integers, Sequences, FiniteSets, SequencesExt, Program

-----------------------------------------------------------------------------
(* tree/btree/main.c: a search tree that is balanced on demand by counting *)
(* the nodes on both sides.  A slot is a place that holds a pointer, which *)
(* is what the code's struct node_st ** names: the variable tree, or a     *)
(* node's l or r.  balance and travel are loops and taken turn by turn;    *)
(* the other functions are one step each.                                  *)

CONSTANTS
    TreeNodes,   \* addresses malloc may return, positive numbers
    Ids,         \* the ids stored, numbers
    TreeFails    \* may malloc fail before the addresses run out?

ASSUME TreeAssumption ==
    /\ TreeNodes \subseteq Nat \ {0} /\ IsFiniteSet(TreeNodes)
    /\ Ids \subseteq Int
    /\ TreeFails \in BOOLEAN

VARIABLES
    ptr,      \* what each slot points to
    id,       \* of each node
    inUse,    \* the nodes inserted and not deleted
    todo,     \* the slots that balance has still to go through, innermost first
    level,    \* was the last thing done a balance that has come to its end?
    queued,   \* travel's queue
    visited,  \* what travel has printed
    missed,   \* could travel not enqueue a node?
    wrong     \* has find_max given a node that is not the largest?

treeVars == <<ptr, id, inUse, todo, level, queued, visited, missed, wrong>>

NIL == 0
tree == <<NIL, "tree">>
L(n) == <<n, "l">>
R(n) == <<n, "r">>
PtrSlots == {tree} \cup {L(n) : n \in TreeNodes} \cup {R(n) : n \in TreeNodes}

TreeInit ==
    /\ ptr = [s \in PtrSlots |-> NIL]
    /\ id = [n \in TreeNodes |-> NIL]
    /\ inUse = {} /\ todo = <<>> /\ level = FALSE
    /\ queued = <<>> /\ visited = <<>> /\ missed = FALSE
    /\ wrong = FALSE

-----------------------------------------------------------------------------
(* Walks down the tree *)

\* The slot at which insert ends its descent.
InsertSlot(d) ==
    LET down[s \in PtrSlots] ==
            IF ptr[s] = NIL THEN s
            ELSE down[IF d <= id[ptr[s]] THEN L(ptr[s]) ELSE R(ptr[s])]
    IN  down[tree]

\* The slot at which find and delete end theirs: of a node with the id, or empty.
FindSlot(d) ==
    LET down[s \in PtrSlots] ==
            IF ptr[s] = NIL \/ id[ptr[s]] = d THEN s
            ELSE down[IF d < id[ptr[s]] THEN L(ptr[s]) ELSE R(ptr[s])]
    IN  down[tree]

get_num[n \in TreeNodes \cup {NIL}] ==
    IF n = NIL THEN 0 ELSE get_num[ptr[L(n)]] + get_num[ptr[R(n)]] + 1

find_min[n \in TreeNodes] == IF ptr[L(n)] = NIL THEN n ELSE find_min[ptr[L(n)]]

\* find_max goes on with find_min (main.c:162).
find_max(n) == IF ptr[R(n)] = NIL THEN n ELSE find_min[ptr[R(n)]]

Rightmost[n \in TreeNodes] == IF ptr[R(n)] = NIL THEN n ELSE Rightmost[ptr[R(n)]]

\* The nodes that hang below n, n among them.
Below[n \in TreeNodes \cup {NIL}] ==
    IF n = NIL THEN {} ELSE {n} \cup Below[ptr[L(n)]] \cup Below[ptr[R(n)]]

InTree == Below[ptr[tree]]

-----------------------------------------------------------------------------
(* The operations.  main makes its calls one after the other. *)

Idle == todo = <<>> /\ queued = <<>>

TreeInsert == \E d \in Ids, n \in TreeNodes \ inUse :
    /\ Idle
    /\ \A m \in TreeNodes \ inUse : n <= m
    /\ ptr' = [ptr EXCEPT ![InsertSlot(d)] = n]
    /\ id' = [id EXCEPT ![n] = d]
    /\ inUse' = inUse \cup {n}
    /\ level' = FALSE
    /\ visited' = <<>>
    /\ UNCHANGED <<todo, queued, missed, wrong>>

\* As if the right subtree were forgotten.
TreeDeleteHalf == \E d \in Ids :
    LET slot == FindSlot(d)
        cur  == ptr[slot]
        up   == IF ptr[L(cur)] = NIL THEN ptr[R(cur)] ELSE ptr[L(cur)]
    IN  /\ Idle
        /\ cur # NIL
        /\ ptr' = [ptr EXCEPT ![slot] = up, ![L(cur)] = NIL, ![R(cur)] = NIL]
        /\ id' = [id EXCEPT ![cur] = NIL]
        /\ inUse' = inUse \ {cur}
        /\ level' = FALSE
        /\ visited' = <<>>
        /\ UNCHANGED <<todo, queued, missed, wrong>>

\* The left subtree moves up, the right one is hung below its largest node.
TreeDelete == \E d \in Ids :
    LET slot == FindSlot(d)
        cur  == ptr[slot]
        l    == ptr[L(cur)]
        up   == IF l = NIL THEN [ptr EXCEPT ![slot] = ptr[R(cur)]]
                ELSE [ptr EXCEPT ![slot] = l, ![R(find_max(l))] = ptr[R(cur)]]
    IN  /\ Idle
        /\ cur # NIL
        /\ ptr' = [up EXCEPT ![L(cur)] = NIL, ![R(cur)] = NIL]
        /\ id' = [id EXCEPT ![cur] = NIL]
        /\ inUse' = inUse \ {cur}
        /\ wrong' = (wrong \/ (l # NIL /\ find_max(l) # Rightmost[l]))
        /\ level' = FALSE
        /\ visited' = <<>>
        /\ UNCHANGED <<todo, queued, missed>>

Balance ==
    /\ Idle
    /\ todo' = <<tree>>
    /\ visited' = <<>>
    /\ UNCHANGED <<ptr, id, inUse, level, queued, missed, wrong>>

\* How many nodes more there are on the left of the slot in turn.
sub == LET n == ptr[todo[1]] IN get_num[ptr[L(n)]] - get_num[ptr[R(n)]]

TurnLeft ==
    LET cur == ptr[todo[1]]
        up  == ptr[R(cur)]
    IN  /\ todo # <<>> /\ ptr[todo[1]] # NIL /\ sub < -1
        /\ ptr' = [ptr EXCEPT ![todo[1]] = up, ![R(cur)] = NIL, ![L(find_min[up])] = cur]
        /\ UNCHANGED <<id, inUse, todo, level, queued, visited, missed, wrong>>

TurnRight ==
    LET cur == ptr[todo[1]]
        up  == ptr[L(cur)]
    IN  /\ todo # <<>> /\ ptr[todo[1]] # NIL /\ sub > 1
        /\ ptr' = [ptr EXCEPT ![todo[1]] = up, ![L(cur)] = NIL, ![R(find_max(up))] = cur]
        /\ wrong' = (wrong \/ find_max(up) # Rightmost[up])
        /\ UNCHANGED <<id, inUse, todo, level, queued, visited, missed>>

\* As if only equal numbers were balanced.
DescendEqual ==
    /\ todo # <<>>
    /\ LET n == ptr[todo[1]]
       IN  /\ n # NIL => sub = 0
           /\ todo' = (IF n = NIL THEN <<>> ELSE <<L(n), R(n)>>) \o Tail(todo)
    /\ level' = (todo' = <<>>)
    /\ UNCHANGED <<ptr, id, inUse, queued, visited, missed, wrong>>

\* The slot is balanced, or empty; its node's slots come next.
Descend ==
    /\ todo # <<>>
    /\ LET n == ptr[todo[1]]
       IN  /\ n # NIL => sub \in -1 .. 1
           /\ todo' = (IF n = NIL THEN <<>> ELSE <<L(n), R(n)>>) \o Tail(todo)
    /\ level' = (todo' = <<>>)
    /\ UNCHANGED <<ptr, id, inUse, queued, visited, missed, wrong>>

\* Without memory for the queue travel prints nothing.
TreeTravel ==
    /\ Idle /\ visited = <<>> /\ ptr[tree] # NIL
    /\ queued' = <<ptr[tree]>>
    /\ missed' = FALSE
    /\ UNCHANGED <<ptr, id, inUse, todo, level, visited, wrong>>

\* A child that finds no memory in the queue is not noticed (main.c:306-310).
TravelOn ==
    /\ queued # <<>>
    /\ LET cur == queued[1]
           kids == SelectSeq(<<ptr[L(cur)], ptr[R(cur)]>>, LAMBDA n : n # NIL)
       IN  \E in \in SUBSET {kids[i] : i \in DOMAIN kids} :
              /\ TreeFails \/ Cardinality(in) = Len(kids)
              /\ queued' = Tail(queued) \o SelectSeq(kids, LAMBDA n : n \in in)
              /\ missed' = (missed \/ Cardinality(in) < Len(kids))
              /\ visited' = Append(visited, cur)
    /\ UNCHANGED <<ptr, id, inUse, todo, level, wrong>>

TreeNext ==
    TreeInsert \/ TreeDelete \/ Balance \/ TurnLeft \/ TurnRight \/ Descend \/ TreeTravel \/ TravelOn

-----------------------------------------------------------------------------
(* Properties *)

\* No pointer of the tree leads to a freed node, and none leads twice to one node,
\* whatever find_max did.
TreeIsSound ==
    /\ InTree \subseteq inUse
    /\ \A n \in InTree : Cardinality({s \in PtrSlots : ptr[s] = n /\ s[1] \in InTree \cup {NIL}}) = 1

\* As long as find_max has given the largest node, also between the turns of a
\* balance, nothing that was inserted and not deleted is lost, everything is where
\* find looks for it, and after a balance no node has two more on one side.
TreeIsKept ==
    ~wrong =>
      /\ InTree = inUse
      /\ \A n \in InTree : /\ \A m \in Below[ptr[L(n)]] : id[m] <= id[n]
                           /\ \A m \in Below[ptr[R(n)]] : id[m] >= id[n]
      /\ \A d \in Ids : ptr[FindSlot(d)] # NIL <=> \E n \in inUse : id[n] = d
      /\ level => \A n \in InTree : get_num[ptr[L(n)]] - get_num[ptr[R(n)]] \in -1 .. 1

Depth(n) ==
    LET depth[m \in InTree] ==
            IF m = ptr[tree] THEN 0
            ELSE 1 + depth[CHOOSE o \in InTree : m \in {ptr[L(o)], ptr[R(o)]}]
    IN  depth[n]

\* travel prints each node once, by levels, and all of them unless memory failed.
TravelIsByLevel ==
    /\ \A i, j \in DOMAIN visited :
          i < j => visited[i] # visited[j] /\ Depth(visited[i]) <= Depth(visited[j])
    /\ visited # <<>> /\ queued = <<>> /\ ~missed => Range(visited) = InTree

\* Deleting takes the node with the id out of the tree, and no other.
DeleteRemovesOne == [][\A n \in inUse \ inUse' : InTree' = InTree \ {n}]_treeVars

-----------------------------------------------------------------------------
(* tree/retrieval/trie.c: words and their descriptions, read from a file   *)
(* line by line, in a tree with a branch for each letter.  A node is the   *)
(* path to it, the root <<>>; nodes gives its description, Empty where     *)
(* nothing was stored.                                                     *)

CONSTANTS
    Words,      \* the keys of the file's lines and of the searches, of letters a to z
    Descs,      \* the descriptions
    Empty,      \* the empty string
    MaxLines,   \* bound: lines of the file
    TrieFails   \* may malloc fail?

ASSUME TrieAssumption ==
    /\ Words \subseteq Seq(STRING) /\ Empty \notin Descs
    /\ TrieFails \in BOOLEAN /\ MaxLines \in Nat

VARIABLES
    nodes,     \* of each node its description
    garbage,   \* was tree, which main never sets, not NULL by chance?
    entered,   \* the words inserted with success, with their last descriptions
    lines      \* lines read; -1 when what the program does is no longer defined

trieVars == <<nodes, garbage, entered, lines>>

Nothing == [w \in {} |-> Empty]

TrieInit ==
    /\ nodes = Nothing
    /\ garbage \in BOOLEAN
    /\ entered = Nothing
    /\ lines = 0

\* The nodes on the way to w that are there already or made until memory runs out
\* after n of them.
Grown(w, n) ==
    [p \in DOMAIN nodes \cup {q \in Prefixes(w) : Len(q) < n} |->
        IF p \in DOMAIN nodes THEN nodes[p] ELSE Empty]

\* As if a description once stored were never replaced.
ReadWordFirst == \E w \in Words, d \in Descs :
    /\ lines \in 0 .. MaxLines - 1 /\ ~garbage
    /\ nodes' = IF w \in DOMAIN entered THEN nodes ELSE [Grown(w, Len(w) + 1) EXCEPT ![w] = d]
    /\ entered' = [x \in DOMAIN entered \cup {w} |-> IF x = w THEN d ELSE entered[x]]
    /\ lines' = lines + 1
    /\ UNCHANGED garbage

\* get_word and insert, whose result main does not look at.
ReadWord == \E w \in Words, d \in Descs :
    /\ lines \in 0 .. MaxLines - 1 /\ ~garbage
    /\ nodes' = [Grown(w, Len(w) + 1) EXCEPT ![w] = d]
    /\ entered' = [x \in DOMAIN entered \cup {w} |-> IF x = w THEN d ELSE entered[x]]
    /\ lines' = lines + 1
    /\ UNCHANGED garbage

ReadWordFails == \E w \in Words, n \in 0 .. Max({Len(w) : w \in Words}) :
    /\ TrieFails
    /\ lines \in 0 .. MaxLines - 1 /\ ~garbage
    /\ n <= Len(w) /\ SubSeq(w, 1, n) \notin DOMAIN nodes
    /\ nodes' = Grown(w, n)
    /\ lines' = lines + 1
    /\ UNCHANGED <<garbage, entered>>

\* insert, or find, follows a pointer that was never set.
Dies ==
    /\ garbage /\ lines = 0
    /\ lines' = -1
    /\ UNCHANGED <<nodes, garbage, entered>>

\* A line without ':' is read beyond its end (trie.c:26), and a key with a character
\* that is no letter indexes outside ch (trie.c:71): from there on anything may happen.
ReadOther ==
    /\ lines \in 0 .. MaxLines - 1 /\ ~garbage
    /\ lines' = -1
    /\ UNCHANGED <<nodes, garbage, entered>>

TrieNext == ReadWord \/ ReadWordFails \/ Dies \/ ReadOther

\* find: <<>> for NULL.
FindWord(w) == IF w \in DOMAIN nodes THEN <<nodes[w]>> ELSE <<>>

\* As long as every line was a key of letters and a description: a word is found with
\* its last description; what was never inserted is not found, or with the empty one,
\* when another word begins with it or memory failed on the way; no node hangs in the air.
DictionaryIsRight == lines >= 0 =>
    /\ \A w \in Words :
          IF w \in DOMAIN entered THEN FindWord(w) = <<entered[w]>>
          ELSE FindWord(w) \in {<<>>, <<Empty>>}
    /\ ~TrieFails => \A p \in DOMAIN nodes : \E w \in DOMAIN entered : IsPrefix(p, w)
    /\ \A p \in DOMAIN nodes : Prefixes(p) \subseteq DOMAIN nodes

-----------------------------------------------------------------------------
(* tree/save_load: save.c makes a search tree and writes it to a file,     *)
(* load.c reads it back.  As in the dictionary a node is the path to it,   *)
(* here one of "l" and "r"; a tree gives each of its nodes its data, and   *)
(* the characters of the file are numbers.                                 *)

CONSTANTS
    Chars,      \* the data, positive numbers
    MaxChars    \* bound: nodes of the tree

ASSUME SaveAssumption == Chars \subseteq Nat \ {0} /\ MaxChars \in Nat

VARIABLES
    kept,     \* the tree of save.c
    file,     \* what the file holds
    written,  \* the tree it was opened for, as a set of one: there may be no file
    loaded,   \* the tree of load.c
    unopened, \* the programs whose fopen has failed
    phase     \* where the two programs are

saveVars == <<kept, file, written, loaded, unopened, phase>>

OPEN  == 0      \* '('
CLOSE == -1     \* ')'
LINE  == -2     \* '\n'
EOF   == -3

Ways     == Seq({"l", "r"})
To(p, s) == Append(p, s)
NoTree   == [p \in {} |-> EOF]

SaveInit ==
    /\ kept = NoTree /\ file = <<>> /\ written = {} /\ loaded = NoTree
    /\ unopened = {}
    /\ phase = "insert"

\* insert: where the descent leads to no node, the new one is made.
SaveInserted(t, c) ==
    LET down[p \in Ways] ==
            IF p \notin DOMAIN t THEN p ELSE down[To(p, IF c <= t[p] THEN "l" ELSE "r")]
    IN  [p \in DOMAIN t \cup {down[<<>>]} |-> IF p \in DOMAIN t THEN t[p] ELSE c]

save_(t) ==
    LET text[p \in Ways] ==
            IF p \notin DOMAIN t THEN <<OPEN, CLOSE>>
            ELSE <<OPEN, t[p]>> \o text[To(p, "l")] \o text[To(p, "r")] \o <<CLOSE>>
    IN  text[<<>>]

Char(i) == IF i \in DOMAIN file THEN file[i] ELSE EOF

\* The tree of a node with two parts.
Joined(l, c, r) ==
    [p \in {<<>>} \cup {<<"l">> \o q : q \in DOMAIN l} \cup {<<"r">> \o q : q \in DOMAIN r} |->
        IF p = <<>> THEN c ELSE IF p[1] = "l" THEN l[Tail(p)] ELSE r[Tail(p)]]

\* load_, reading from the i-th character: whether it got through, the tree, and where
\* it stopped.  The character behind a node is skipped, whatever it is.
load_[i \in Nat] ==
    IF Char(i) # OPEN THEN [ok |-> FALSE, t |-> NoTree, to |-> i]
    ELSE IF Char(i + 1) = CLOSE THEN [ok |-> TRUE, t |-> NoTree, to |-> i + 2]
    ELSE LET l == load_[i + 2]
             r == IF l.ok THEN load_[l.to] ELSE l
         IN  [ok |-> r.ok, t |-> Joined(l.t, Char(i + 1), r.t), to |-> r.to + 1]

Insert1 == \E c \in Chars :
    /\ phase = "insert" /\ Cardinality(DOMAIN kept) < MaxChars
    /\ kept' = SaveInserted(kept, c)
    /\ UNCHANGED <<file, written, loaded, unopened, phase>>

\* save looks at no result of fputc, nor of fclose: the file may end anywhere.
Save ==
    /\ phase = "insert"
    /\ file' \in Prefixes(save_(kept) \o <<LINE>>)
    /\ written' = {kept}
    /\ phase' = "saved"
    /\ UNCHANGED <<kept, loaded, unopened>>

\* Without the file save returns -1, which main does not look at (save.c:109-110, 135):
\* the file of an earlier run stays.
SaveUnopened ==
    /\ phase = "insert"
    /\ unopened' = {"save"}
    /\ phase' = "saved"
    /\ UNCHANGED <<kept, file, written, loaded>>

\* save.c is run again, with another tree.
SaveAgain ==
    /\ phase = "saved"
    /\ kept' = NoTree /\ unopened' = {}
    /\ phase' = "insert"
    /\ UNCHANGED <<file, written, loaded>>

\* As if what could be read were taken for the tree.
LoadAnyway ==
    /\ phase = "saved" /\ written # {}
    /\ loaded' = load_[1].t
    /\ phase' = "loaded"
    /\ UNCHANGED <<kept, file, written, unopened>>

Load ==
    /\ phase = "saved" /\ written # {}
    /\ loaded' = IF load_[1].ok THEN load_[1].t ELSE NoTree
    /\ phase' = IF load_[1].ok THEN "loaded" ELSE "failed"
    /\ UNCHANGED <<kept, file, written, unopened>>

\* Without the file load returns NULL, the empty tree.
LoadUnopened ==
    /\ phase = "saved"
    /\ loaded' = NoTree
    /\ unopened' = unopened \cup {"load"}
    /\ phase' = "loaded"
    /\ UNCHANGED <<kept, file, written>>

\* malloc has failed: exit(1).
LoadFails ==
    /\ phase = "saved" /\ written # {}
    /\ phase' = "failed"
    /\ UNCHANGED <<kept, file, written, loaded, unopened>>

SaveNext == Insert1 \/ Save \/ SaveUnopened \/ SaveAgain \/ Load \/ LoadUnopened \/ LoadFails

\* load draws the tree that was saved last with success in opening the file, even from
\* a file that was cut off: then it fails, or only ends of the text that it does not need
\* are missing; a whole file is never refused.  Only when one of the two could not open
\* the file may it draw another tree than save.c had, and end as if all were well.
LoadedIsSaved ==
    /\ phase = "loaded" => IF "load" \in unopened THEN loaded = NoTree ELSE written = {loaded}
    /\ phase = "loaded" /\ unopened = {} => loaded = kept
    /\ phase = "saved" => \A t \in written : file = save_(t) \o <<LINE>> => load_[1].ok
=============================================================================
