----------------------------- MODULE Structures -----------------------------
(***************************************************************************)
(* The data structures and the programs made of them, one of which is run: *)
(* program chooses it, and the state of the others stays as it began.      *)
(***************************************************************************)
EXTENDS Lists, LinePrograms, Trees

ArrayPrograms == {"sqlist", "sqstack", "squeue"}
ChainPrograms == {"nohead", "head", "lib1", "llist", "kernel", "stack", "queue"}

StructurePrograms == ArrayPrograms \cup ChainPrograms \cup
    {"ball_clock", "josephus", "polynomial", "btree", "retrieval", "save_load"}

structureVars ==
    <<program, arrayVars, chainVars, ballVars, joseVars, polyVars, treeVars, trieVars, saveVars>>

\* A program that begins in several states does so only when it is the one.
Begins(name, init, other) == IF program = name THEN init ELSE init /\ other

InitStructures ==
    /\ program \in StructurePrograms
    /\ ArrayInit /\ ChainInit /\ BallInit /\ TreeInit /\ SaveInit
    /\ Begins("josephus", JoseInit, cur = 0 /\ step = Min(Counts))
    /\ Begins("polynomial", PolyInit, terms = <<Nothing, Nothing>>)
    /\ Begins("retrieval", TrieInit, garbage)

\* One step of one of the programs; the others' state stays as it is.
OnArray(names, action) ==
    /\ program \in names /\ action
    /\ UNCHANGED <<program, chainVars, ballVars, joseVars, polyVars, treeVars, trieVars, saveVars>>
OnChain(names, action) ==
    /\ program \in names /\ action
    /\ UNCHANGED <<program, arrayVars, ballVars, joseVars, polyVars, treeVars, trieVars, saveVars>>
OnClock(action) ==
    /\ program = "ball_clock" /\ action
    /\ UNCHANGED <<program, arrayVars, chainVars, joseVars, polyVars, treeVars, trieVars, saveVars>>
OnRing(action) ==
    /\ program = "josephus" /\ action
    /\ UNCHANGED <<program, arrayVars, chainVars, ballVars, polyVars, treeVars, trieVars, saveVars>>
OnPoly(action) ==
    /\ program = "polynomial" /\ action
    /\ UNCHANGED <<program, arrayVars, chainVars, ballVars, joseVars, treeVars, trieVars, saveVars>>
OnTree(action) ==
    /\ program = "btree" /\ action
    /\ UNCHANGED <<program, arrayVars, chainVars, ballVars, joseVars, polyVars, trieVars, saveVars>>
OnTrie(action) ==
    /\ program = "retrieval" /\ action
    /\ UNCHANGED <<program, arrayVars, chainVars, ballVars, joseVars, polyVars, treeVars, saveVars>>
OnFile(action) ==
    /\ program = "save_load" /\ action
    /\ UNCHANGED <<program, arrayVars, chainVars, ballVars, joseVars, polyVars, treeVars, trieVars>>

NextStructures ==
    \/ OnArray(ArrayPrograms, ArrayNext) \/ OnChain({"nohead"}, NoHeadNext)
    \/ OnChain({"head"}, HeadNext) \/ OnChain(Rings, LlistNext)
    \/ OnClock(Turn) \/ OnRing(Kill) \/ OnPoly(PolyNext)
    \/ OnTree(TreeNext) \/ OnTrie(TrieNext) \/ OnFile(SaveNext)

\* A loop that has begun goes on.
FairStructures ==
    /\ WF_structureVars(OnRing(Kill))
    /\ WF_structureVars(OnPoly(PolyNext))
    /\ WF_structureVars(OnTree(TurnLeft \/ TurnRight \/ Descend \/ TravelOn))

SpecStructures == InitStructures /\ [][NextStructures]_structureVars /\ FairStructures

-----------------------------------------------------------------------------
(* Properties *)

Chained == INSTANCE Sequence WITH NoLimit <- -1, items <- ChainItems, limit <- -1, call <- called
Arrayed == INSTANCE Sequence WITH NoLimit <- -1, items <- ArrayItems, limit <- ArrayLimit, call <- last

\* Whatever calls are made, in whatever order, each has the effect on a sequence
\* that its name says, and the result that belongs to it (but for what Sequence
\* names): through the pointers of the lists and rings, and through the shifted slots
\* of the arrays and around the end of the ring.
ListsImplementSequence  == Chained!Spec
ArraysImplementSequence == Arrayed!Spec
ImplementsSequence      == ListsImplementSequence /\ ArraysImplementSequence

\* What the programs and stores promise: the right one of the ring survives,
\* polynomials add up, a word is found as it was entered last and a saved tree is
\* loaded as it was.
ResultsAreRight == JosephusIsRight /\ SumIsRight /\ DictionaryIsRight /\ LoadedIsSaved

\* The search tree holds what was put into it and not taken out, in order, until
\* find_max errs; whatever it does, no pointer leads to a freed node; and travel goes
\* by levels.
TreeIsRight == TreeIsSound /\ TreeIsKept /\ TravelIsByLevel

\* Killing, merging, balancing and travelling come to an end; balancing does even
\* when find_max has erred and nodes are lost between two turns.
LoopsEnd ==
    /\ program = "josephus" => <>(cur # 0 => cur = jnext[cur])
    /\ program = "polynomial" => <>(r = NoTerm)
    /\ ~Idle ~> Idle
=============================================================================
