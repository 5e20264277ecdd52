-------------------------- MODULE StructuresProofs -------------------------
(***************************************************************************)
(* The linked lists, for any number of nodes and any calls: a path leads   *)
(* from the head over the nodes to the end, and what every operation does  *)
(* to the list is what it does to the path.  Induction over the path is by *)
(* the least number for which a statement fails.  Then the structures in   *)
(* arrays, of any size, against the same abstract sequence, the programs   *)
(* over them for any numbers of balls, of people and of terms, the         *)
(* dictionary, and trees of any shape, written to a file and read back.    *)
(*                                                                         *)
(* The last section is about Relay: what RelayFsmProofs shows of a machine *)
(* leaves little to prove of the loops around two of them.                 *)
(***************************************************************************)
EXTENDS Structures, Relay, RelayFsmProofs, FiniteSetTheorems, SequenceTheorems, WellFoundedInduction

-----------------------------------------------------------------------------
(* Naturals *)

\* A set of naturals that is not empty has a least element.
LEMMA Least ==
    ASSUME NEW S \in SUBSET Nat, S # {}
    PROVE  \E m \in S : \A k \in S : m <= k
<1> DEFINE Order == StrictSubsetOrdering(Nat)
           T == {0 .. n : n \in S}
<1>1. T \subseteq FiniteSubsetsOf(Nat) /\ T # {}
  <2>1. \A n \in S : 0 .. n \in FiniteSubsetsOf(Nat)
    <3> TAKE n \in S
    <3>1. n \in Nat /\ 0 .. n \in SUBSET Nat
      OBVIOUS
    <3>2. IsFiniteSet(0 .. n)
      BY <3>1, FS_Interval
    <3> QED BY <3>1, <3>2 DEF FiniteSubsetsOf
  <2> QED BY <2>1
<1>2. IsWellFoundedOn(Order, FiniteSubsetsOf(Nat))
  BY FS_StrictSubsetOrderingWellFounded
<1>3. PICK x \in T : \A y \in T : ~ (<<y, x>> \in Order)
  <2> HIDE DEF Order, T
  <2> QED BY <1>1, <1>2, WFMin
<1>4. PICK m \in S : x = 0 .. m
  OBVIOUS
<1>5. ASSUME NEW k \in S PROVE m <= k
  <2>1. 0 .. k \in T /\ 0 .. k \in SUBSET Nat /\ x \in SUBSET Nat
    BY <1>4
  <2>2. ~ (0 .. k \subseteq x /\ 0 .. k # x)
    BY <1>3, <2>1 DEF StrictSubsetOrdering
  <2>3. k < m => 0 .. k \subseteq 0 .. m /\ m \in 0 .. m /\ m \notin 0 .. k
    OBVIOUS
  <2> QED BY <1>4, <2>2, <2>3
<1> QED BY <1>5

\* g walks in V from x as F says, m steps.
IsWalk(g, V, F, x, m) == g \in [0 .. m -> V] /\ g[0] = x /\ \A k \in 1 .. m : g[k] = F[g[k - 1]]

LEMMA Walks ==
    ASSUME NEW V, NEW F \in [V -> V], NEW x \in V, NEW m \in Nat
    PROVE  \E g : IsWalk(g, V, F, x, m)
<1> DEFINE S == {n \in Nat : ~ \E g : IsWalk(g, V, F, x, n)}
<1> SUFFICES ASSUME S # {} PROVE FALSE
  OBVIOUS
<1>1. PICK n \in S : \A k \in S : n <= k
  <2>1. S \in SUBSET Nat
    OBVIOUS
  <2> HIDE DEF S
  <2> QED BY <2>1, Least
<1>2. CASE n = 0
  <2> DEFINE g == [k \in 0 .. 0 |-> x]
  <2>1. IsWalk(g, V, F, x, 0)
    BY DEF IsWalk
  <2> HIDE DEF g
  <2> QED BY <1>2, <2>1
<1>3. CASE n # 0
  <2>1. n \in Nat /\ n - 1 \in Nat /\ ~ (n <= n - 1)
    BY <1>3
  <2>2. n - 1 \notin S
    <3> HIDE DEF S
    <3> QED BY <1>1, <2>1
  <2>3. PICK g : IsWalk(g, V, F, x, n - 1)
    BY <2>1, <2>2
  <2> DEFINE h == [k \in 0 .. n |-> IF k = n THEN F[g[n - 1]] ELSE g[k]]
  <2>4. h \in [0 .. n -> V]
    BY <2>1, <2>3 DEF IsWalk
  <2>5. h[0] = x /\ \A k \in 1 .. n : h[k] = F[h[k - 1]]
    BY <1>3, <2>1, <2>3 DEF IsWalk
  <2>6. IsWalk(h, V, F, x, n)
    <3> HIDE DEF h
    <3> QED BY <2>4, <2>5 DEF IsWalk
  <2> QED BY <2>6
<1> QED BY <1>2, <1>3

\* The same where the k-th step goes as F[k] says.
IsHistory(g, V, F, x, m) == g \in [0 .. m -> V] /\ g[0] = x /\ \A k \in 1 .. m : g[k] = F[k][g[k - 1]]

LEMMA Histories ==
    ASSUME NEW V, NEW m \in Nat, NEW F \in [1 .. m -> [V -> V]], NEW x \in V
    PROVE  \E g : IsHistory(g, V, F, x, m)
<1> DEFINE S == {n \in 0 .. m : ~ \E g : IsHistory(g, V, F, x, n)}
<1> SUFFICES ASSUME S # {} PROVE FALSE
  <2>1. m \in 0 .. m
    OBVIOUS
  <2> QED BY <2>1
<1>1. PICK n \in S : \A k \in S : n <= k
  <2>1. S \in SUBSET Nat
    OBVIOUS
  <2> HIDE DEF S
  <2> QED BY <2>1, Least
<1>2. CASE n = 0
  <2> DEFINE g == [k \in 0 .. 0 |-> x]
  <2>1. IsHistory(g, V, F, x, 0)
    BY DEF IsHistory
  <2> HIDE DEF g
  <2> QED BY <1>2, <2>1
<1>3. CASE n # 0
  <2>1. n \in 1 .. m /\ n - 1 \in 0 .. m /\ ~ (n <= n - 1) /\ F[n] \in [V -> V]
    BY <1>3
  <2>2. n - 1 \notin S
    <3> HIDE DEF S
    <3> QED BY <1>1, <2>1
  <2>3. PICK g : IsHistory(g, V, F, x, n - 1)
    BY <2>1, <2>2
  <2> DEFINE h == [k \in 0 .. n |-> IF k = n THEN F[n][g[n - 1]] ELSE g[k]]
  <2>4. h \in [0 .. n -> V]
    BY <2>1, <2>3 DEF IsHistory
  <2>5. h[0] = x /\ \A k \in 1 .. n : h[k] = F[k][h[k - 1]]
    BY <1>3, <2>1, <2>3 DEF IsHistory
  <2>6. IsHistory(h, V, F, x, n)
    <3> HIDE DEF h
    <3> QED BY <2>4, <2>5 DEF IsHistory
  <2> QED BY <2>6
<1> QED BY <1>2, <1>3

-----------------------------------------------------------------------------
(* Sequences with an item more and an item less *)

\* What putting into a sequence, and taking out, gives, item by item.
WithIn(s, i, d) ==
    [k \in 1 .. Len(s) + 1 |-> IF k <= i THEN s[k] ELSE IF k = i + 1 THEN d ELSE s[k - 1]]
Without(s, i) == [k \in 1 .. Len(s) - 1 |-> IF k < i THEN s[k] ELSE s[k + 1]]

LEMMA InsertAtIs ==
    ASSUME NEW S, NEW s \in Seq(S), NEW i \in 0 .. Len(s), NEW d \in S
    PROVE  InsertAt(s, i + 1, d) = WithIn(s, i, d)
<1> DEFINE a == SubSeq(s, 1, i)
           b == SubSeq(s, i + 1, Len(s))
           m == Len(s)
<1>0. m \in Nat /\ i \in 0 .. m
  BY LenProperties
<1>1. /\ a \in Seq(S) /\ Len(a) = i
      /\ \A k \in 1 .. i : a[k] = s[k]
  <2>1. CASE i = 0
    BY <1>0, <2>1, SubSeqProperties
  <2>2. CASE i # 0
    BY <1>0, <2>2, SubSeqProperties
  <2> QED BY <2>1, <2>2
<1>2. /\ b \in Seq(S) /\ Len(b) = m - i
      /\ \A k \in 1 .. m - i : b[k] = s[i + k]
  BY <1>0, SubSeqProperties
<1> HIDE DEF a, b, m
<1>3. /\ a \o <<d>> \in Seq(S) /\ Len(a \o <<d>>) = i + 1
      /\ \A k \in 1 .. i + 1 : (a \o <<d>>)[k] = IF k <= i THEN a[k] ELSE d
  BY <1>0, <1>1, ConcatProperties
<1>4. /\ a \o <<d>> \o b \in Seq(S) /\ Len(a \o <<d>> \o b) = m + 1
      /\ \A k \in 1 .. m + 1 : (a \o <<d>> \o b)[k] = IF k <= i + 1 THEN (a \o <<d>>)[k] ELSE b[k - (i + 1)]
  BY <1>0, <1>2, <1>3, ConcatProperties
<1>5. InsertAt(s, i + 1, d) = a \o <<d>> \o b
  <2>1. (i + 1) - 1 = i
    BY <1>0
  <2>2. InsertAt(s, i + 1, d) = SubSeq(s, 1, (i + 1) - 1) \o <<d>> \o SubSeq(s, i + 1, Len(s))
    BY Zenon DEF InsertAt
  <2> QED BY <2>1, <2>2, Zenon DEF a, b
<1>6. \A k \in 1 .. m + 1 : (a \o <<d>> \o b)[k] = IF k <= i THEN s[k] ELSE IF k = i + 1 THEN d ELSE s[k - 1]
  <2> TAKE k \in 1 .. m + 1
  <2>1. CASE k <= i + 1
    BY <1>0, <1>1, <1>3, <1>4, <2>1
  <2>2. CASE k > i + 1
    <3>1. k - (i + 1) \in 1 .. m - i /\ i + (k - (i + 1)) = k - 1
      BY <1>0, <2>2
    <3> QED BY <1>0, <1>2, <1>4, <2>2, <3>1, SMTT(60)
  <2>3. k <= i + 1 \/ k > i + 1
    BY <1>0
  <2> QED BY <2>1, <2>2, <2>3, Zenon
<1>7. a \o <<d>> \o b = [k \in 1 .. m + 1 |-> IF k <= i THEN s[k] ELSE IF k = i + 1 THEN d ELSE s[k - 1]]
  <2>1. a \o <<d>> \o b = [k \in 1 .. m + 1 |-> (a \o <<d>> \o b)[k]]
    BY <1>4, LenProperties
  <2> QED BY <1>6, <2>1
<1> QED BY <1>5, <1>7 DEF m, WithIn

LEMMA RemoveAtIs ==
    ASSUME NEW S, NEW s \in Seq(S), NEW i \in 1 .. Len(s)
    PROVE  RemoveAt(s, i) = Without(s, i)
<1> DEFINE a == SubSeq(s, 1, i - 1)
           b == SubSeq(s, i + 1, Len(s))
           m == Len(s)
<1>0. m \in Nat /\ i \in 1 .. m
  BY LenProperties
<1>1. /\ a \in Seq(S) /\ Len(a) = i - 1
      /\ \A k \in 1 .. i - 1 : a[k] = s[k]
  BY <1>0, SubSeqProperties
<1>2. /\ b \in Seq(S) /\ Len(b) = m - i
      /\ \A k \in 1 .. m - i : b[k] = s[i + k]
  BY <1>0, SubSeqProperties
<1> HIDE DEF a, b, m
<1>3. /\ a \o b \in Seq(S) /\ Len(a \o b) = m - 1
      /\ \A k \in 1 .. m - 1 : (a \o b)[k] = IF k <= i - 1 THEN a[k] ELSE b[k - (i - 1)]
  <2>1. (i - 1) + (m - i) = m - 1 /\ m - 1 \in Int
    BY <1>0
  <2>2. /\ a \o b \in Seq(S) /\ Len(a \o b) = Len(a) + Len(b)
        /\ \A k \in 1 .. Len(a) + Len(b) : (a \o b)[k] = IF k <= Len(a) THEN a[k] ELSE b[k - Len(a)]
    BY <1>1, <1>2, ConcatProperties
  <2> QED BY <1>1, <1>2, <2>1, <2>2
<1>4. \A k \in 1 .. m - 1 : (a \o b)[k] = IF k < i THEN s[k] ELSE s[k + 1]
  <2> TAKE k \in 1 .. m - 1
  <2>1. CASE k < i
    BY <1>0, <1>1, <1>3, <2>1
  <2>2. CASE k >= i
    <3>1. k - (i - 1) \in 1 .. m - i /\ i + (k - (i - 1)) = k + 1
      BY <1>0, <2>2
    <3> QED BY <1>0, <1>2, <1>3, <2>2, <3>1, SMTT(60)
  <2>3. k < i \/ k >= i
    BY <1>0
  <2> QED BY <2>1, <2>2, <2>3, Zenon
<1>5. a \o b = [k \in 1 .. m - 1 |-> IF k < i THEN s[k] ELSE s[k + 1]]
  <2>1. a \o b = [k \in 1 .. m - 1 |-> (a \o b)[k]]
    BY <1>3, LenProperties
  <2> QED BY <1>4, <2>1
<1> QED BY <1>5 DEF RemoveAt, Without, a, b, m

-----------------------------------------------------------------------------
(* Paths of a list *)

\* way leads from the head over n nodes, forth and in a ring back, to the end.
IsPath(n, way) ==
    /\ way[0] = HEAD
    /\ \A k \in 1 .. n : way[k] \in Nodes /\ next[way[k - 1]] = way[k]
    /\ \A j, k \in 1 .. n : way[j] = way[k] => j = k
    /\ next[way[n]] = Ending
    /\ program \in Rings => /\ \A k \in 1 .. n : prev[way[k]] = way[k - 1]
                            /\ prev[HEAD] = way[n]

On(n, way) == {way[k] : k \in 1 .. n}

\* What is in use is what way leads over and what was lost.
Holds(n, way) ==
    /\ IsPath(n, way)
    /\ live = On(n, way) \cup leaked
    /\ On(n, way) \cap leaked = {}
    /\ boxes \subseteq live
    /\ program = "lib1" => On(n, way) \subseteq boxes

ChainShape ==
    /\ next \in [Places -> Places \cup {Null}]
    /\ prev \in [Places -> Places \cup {Null}]
    /\ data \in [Nodes -> Data \cup {Null}]
    /\ live \subseteq Nodes /\ leaked \subseteq Nodes

ChainInv == ChainShape /\ \E n \in Nat : \E way \in [0 .. n -> Places] : Holds(n, way)

LEMMA Ends == Ending \notin Nodes /\ HEAD \notin Nodes /\ Null \notin Places /\ HEAD \in Places /\ HEAD # Null
BY ChainAssumption DEF Ending, HEAD, Null, Places

LEMMA PathIsShort ==
    ASSUME NEW n \in Nat, NEW way \in [0 .. n -> Places], IsPath(n, way)
    PROVE  Cardinality(Nodes) \in Nat /\ n <= Cardinality(Nodes)
<1> DEFINE f == [k \in 1 .. n |-> way[k]]
<1>1. IsFiniteSet(Nodes) /\ Cardinality(Nodes) \in Nat
  BY ChainAssumption, FS_CardinalityType
<1>2. f \in Injection(1 .. n, Nodes)
  BY DEF IsPath, Injection, IsInjective
<1>3. Cardinality(1 .. n) <= Cardinality(Nodes)
  BY <1>1, <1>2, FS_Injection
<1>4. Cardinality(1 .. n) = n
  BY FS_Interval
<1> QED BY <1>1, <1>3, <1>4

\* At is defined by recursion: it exists.
LEMMA AtSteps ==
    ASSUME next \in [Places -> Places \cup {Null}], Cardinality(Nodes) \in Nat
    PROVE  /\ At[0] = HEAD
           /\ \A k \in 1 .. Cardinality(Nodes) + 1 :
                  At[k] = IF At[k - 1] = Null THEN Null ELSE next[At[k - 1]]
<1> DEFINE m == Cardinality(Nodes) + 1
           V == Places \cup {Null}
           F == [v \in V |-> IF v = Null THEN Null ELSE next[v]]
           A == [k \in 0 .. m |-> IF k = 0 THEN HEAD ELSE IF At[k - 1] = Null THEN Null ELSE next[At[k - 1]]]
<1>1. m \in Nat /\ HEAD \in V /\ F \in [V -> V]
  BY Ends
<1>2. PICK g : IsWalk(g, V, F, HEAD, m)
  <2> HIDE DEF m, V, F, A
  <2> QED BY <1>1, Walks
<1>3. g = [k \in 0 .. m |-> IF k = 0 THEN HEAD ELSE IF g[k - 1] = Null THEN Null ELSE next[g[k - 1]]]
  <2>1. \A k \in 0 .. m : k # 0 => k \in 1 .. m /\ k - 1 \in 0 .. m
    BY <1>1
  <2>2. \A k \in 0 .. m : k # 0 => g[k - 1] \in V
    <3> HIDE DEF V, F
    <3> QED BY <1>2, <2>1 DEF IsWalk
  <2>3. \A k \in 0 .. m : k # 0 => F[g[k - 1]] = IF g[k - 1] = Null THEN Null ELSE next[g[k - 1]]
    BY <2>2
  <2>4. \A k \in 0 .. m : g[k] = IF k = 0 THEN HEAD ELSE IF g[k - 1] = Null THEN Null ELSE next[g[k - 1]]
    <3> HIDE DEF F
    <3> QED BY <1>2, <2>1, <2>3 DEF IsWalk
  <2> HIDE DEF V, F
  <2> QED BY <1>2, <2>4 DEF IsWalk
<1>4. At = A
  <2> HIDE DEF V, F
  <2> QED BY <1>3, Zenon DEF At
<1> QED BY <1>1, <1>4

LEMMA AtIsPath ==
    ASSUME next \in [Places -> Places \cup {Null}],
           NEW n \in Nat, NEW way \in [0 .. n -> Places], IsPath(n, way)
    PROVE  (\A k \in 0 .. n : At[k] = way[k]) /\ At[n + 1] = Ending
<1>1. Cardinality(Nodes) \in Nat /\ n <= Cardinality(Nodes)
  BY PathIsShort
<1>2. /\ At[0] = HEAD
      /\ \A k \in 1 .. Cardinality(Nodes) + 1 :
             At[k] = IF At[k - 1] = Null THEN Null ELSE next[At[k - 1]]
  BY <1>1, AtSteps
<1> DEFINE S == {k \in Nat : k \in 0 .. n /\ At[k] # way[k]}
<1>3. S = {}
  <2> SUFFICES ASSUME S # {} PROVE FALSE
    OBVIOUS
  <2>1. PICK k \in S : \A j \in S : k <= j
    <3>1. S \in SUBSET Nat
      OBVIOUS
    <3> HIDE DEF S
    <3> QED BY <3>1, Least
  <2>2. k \in Nat /\ k <= n /\ At[k] # way[k] /\ k - 1 \notin S
    BY <2>1
  <2>3. k # 0
    BY <1>2, <2>2 DEF IsPath
  <2>4. k - 1 \in 0 .. n /\ At[k - 1] = way[k - 1] /\ way[k - 1] \in Places
    BY <2>2, <2>3
  <2>5. At[k] = next[way[k - 1]]
    BY <1>1, <1>2, <2>2, <2>3, <2>4, Ends
  <2>6. next[way[k - 1]] = way[k]
    BY <2>2, <2>3 DEF IsPath
  <2> QED BY <2>2, <2>5, <2>6
<1>4. \A k \in 0 .. n : At[k] = way[k]
  BY <1>3
<1>5. At[n + 1] = next[way[n]]
  <2>1. n + 1 \in 1 .. Cardinality(Nodes) + 1 /\ (n + 1) - 1 = n /\ n \in 0 .. n
    BY <1>1
  <2>2. At[n] = way[n] /\ way[n] # Null
    BY <1>4, <2>1, Ends
  <2> QED BY <1>2, <2>1, <2>2
<1> QED BY <1>4, <1>5 DEF IsPath

LEMMA ReachableIsOn ==
    ASSUME next \in [Places -> Places \cup {Null}],
           NEW n \in Nat, NEW way \in [0 .. n -> Places], IsPath(n, way)
    PROVE  ListLength = n /\ Reachable = On(n, way)
<1>1. Cardinality(Nodes) \in Nat /\ n <= Cardinality(Nodes)
  BY PathIsShort
<1>2. (\A k \in 0 .. n : At[k] = way[k]) /\ At[n + 1] = Ending
  BY AtIsPath
<1>3. \A k \in 1 .. n : At[k] # Ending
  BY <1>2, Ends DEF IsPath
<1>4. {k \in 1 .. Cardinality(Nodes) : \A j \in 1 .. k : At[j] # Ending} = 1 .. n
  <2>1. ASSUME NEW k \in 1 .. Cardinality(Nodes), \A j \in 1 .. k : At[j] # Ending
        PROVE  k \in 1 .. n
    <3>1. n + 1 \notin 1 .. k
      BY <1>2, <2>1
    <3> QED BY <1>1, <3>1
  <2> QED BY <1>1, <1>3, <2>1
<1>5. ListLength = n
  <2>1. Cardinality(1 .. n) = n
    BY FS_Interval
  <2> QED BY <1>4, <2>1 DEF ListLength
<1> QED BY <1>2, <1>5 DEF Reachable, On

LEMMA HoldsIsExact ==
    ASSUME ChainShape, NEW n \in Nat, NEW way \in [0 .. n -> Places], Holds(n, way)
    PROVE  HeapIsExact
<1>1. IsPath(n, way) /\ next \in [Places -> Places \cup {Null}]
  BY DEF Holds, ChainShape
<1>2. Reachable = On(n, way)
  BY <1>1, ReachableIsOn
<1>3. ASSUME program \in Rings, NEW m \in Reachable \cup {HEAD}
      PROVE  prev[next[m]] = m
  <2>1. PICK k \in 0 .. n : m = way[k]
    BY <1>1, <1>2 DEF On, IsPath
  <2>2. CASE k = n
    BY <1>1, <1>3, <2>1, <2>2 DEF IsPath, Ending
  <2>3. CASE k # n
    <3>1. k + 1 \in 1 .. n /\ (k + 1) - 1 = k
      BY <2>3
    <3>2. next[way[k]] = way[k + 1] /\ prev[way[k + 1]] = way[k]
      BY <1>1, <1>3, <3>1 DEF IsPath
    <3> QED BY <2>1, <3>2
  <2> QED BY <2>2, <2>3
<1> QED BY <1>2, <1>3 DEF Holds, HeapIsExact

-----------------------------------------------------------------------------
(* The items along a path *)

Along(n, way) == [k \in 1 .. n |-> data[way[k]]]

ItemsFollow ==
    \A n \in Nat : \A way \in [0 .. n -> Places] : ChainShape /\ Holds(n, way) =>
        /\ ListLength = n /\ ChainItems = Along(n, way)
        /\ ChainItems \in Seq(Data \cup {Null}) /\ Len(ChainItems) = n

LEMMA ItemsAre == ItemsFollow
<1> SUFFICES ASSUME NEW n \in Nat, NEW way \in [0 .. n -> Places], ChainShape, Holds(n, way)
             PROVE  /\ ListLength = n /\ ChainItems = Along(n, way)
                    /\ ChainItems \in Seq(Data \cup {Null}) /\ Len(ChainItems) = n
  BY DEF ItemsFollow
<1>1. ListLength = n /\ \A k \in 0 .. n : At[k] = way[k]
  BY ReachableIsOn, AtIsPath DEF Holds, ChainShape
<1>2. ChainItems = Along(n, way)
  BY <1>1 DEF ChainItems, Along
<1>3. \A k \in 1 .. n : data[way[k]] \in Data \cup {Null}
  BY DEF ChainShape, Holds, IsPath
<1>4. Along(n, way) \in Seq(Data \cup {Null}) /\ Len(Along(n, way)) = n
  <2>1. Along(n, way) \in [1 .. n -> Data \cup {Null}]
    BY <1>3 DEF Along
  <2> QED BY <2>1, IsASeq, LenProperties
<1> QED BY <1>1, <1>2, <1>4

\* The same of the next state.
LEMMA ItemsWillBe ==
    ASSUME NEW n \in Nat, NEW way \in [0 .. n -> Places], ChainShape', Holds(n, way)'
    PROVE  ChainItems' = [k \in 1 .. n |-> data'[way[k]]]
<1>1. ItemsFollow'
  BY ItemsAre, PTL
<1>2. Places' = Places
  BY DEF Places, HEAD
<1>3. ChainItems' = Along(n, way)'
  BY <1>1, <1>2 DEF ItemsFollow
<1> QED BY <1>3 DEF Along

\* The least free address is one, and it is free.
LEMMA NewIsFree ==
    ASSUME ChainShape, HasMemory
    PROVE  New \in Nodes \ live
<1>1. Nodes \ live \in SUBSET Nat /\ Nodes \ live # {}
  BY ChainAssumption DEF ChainShape, HasMemory
<1>2. \E m \in Nodes \ live : \A k \in Nodes \ live : m <= k
  BY <1>1, Least
<1> QED BY <1>2 DEF New, Min

LEMMA LinkKeeps ==
    ASSUME ChainShape, NEW n \in Nat, NEW way \in [0 .. n -> Places], Holds(n, way),
           NEW i \in 0 .. n, NEW d \in Data, HasMemory,
           Allocate(New, d), Link(New, way[i], next[way[i]]), leaked' = leaked, program' = program
    PROVE  ChainInv' /\ ChainItems' = InsertAt(ChainItems, i + 1, d)
<1> DEFINE z == next[way[i]]
<1>1. New \in Nodes /\ New \notin live /\ New \in Places
  BY NewIsFree DEF Places
<1>2. /\ IsPath(n, way) /\ live = On(n, way) \cup leaked /\ On(n, way) \cap leaked = {}
      /\ boxes \subseteq live /\ (program = "lib1" => On(n, way) \subseteq boxes)
  BY DEF Holds
<1>3. \A k \in 0 .. n : way[k] \in Places /\ way[k] # New
  <2>1. New # HEAD
    BY <1>1, Ends
  <2> QED BY <1>1, <1>2, <2>1 DEF IsPath, On
<1>4. z = IF i = n THEN Ending ELSE way[i + 1]
  BY <1>2 DEF IsPath
<1>5. z \in Places \cup {Null} /\ z # New /\ (program \in Rings => z \in Places)
  BY <1>1, <1>3, <1>4, Ends DEF Ending
<1>7. PICK path \in [0 .. n + 1 -> Places] :
          path = [k \in 0 .. n + 1 |-> IF k <= i THEN way[k] ELSE IF k = i + 1 THEN New ELSE way[k - 1]]
  <2> DEFINE h == [k \in 0 .. n + 1 |-> IF k <= i THEN way[k] ELSE IF k = i + 1 THEN New ELSE way[k - 1]]
  <2>1. h \in [0 .. n + 1 -> Places]
    BY <1>1, <1>3
  <2> QED BY <2>1
<1>6. \A k \in 0 .. n + 1 : /\ k <= i => path[k] = way[k] /\ k \in 0 .. n
                            /\ k = i + 1 => path[k] = New
                            /\ k > i + 1 => path[k] = way[k - 1] /\ k - 1 \in 1 .. n
  BY <1>7
<1> HIDE DEF z
<1>8. /\ next \in [Places -> Places \cup {Null}] /\ prev \in [Places -> Places \cup {Null}]
      /\ next' = [next EXCEPT ![New] = z, ![way[i]] = New]
      /\ program \in Rings => prev' = [prev EXCEPT ![New] = way[i], ![z] = New]
      /\ program \notin Rings => prev' = prev
  BY DEF Link, ChainShape, z
<1>9. next' \in [Places -> Places \cup {Null}] /\ prev' \in [Places -> Places \cup {Null}]
  BY <1>1, <1>3, <1>5, <1>8
<1>10. \A k \in 0 .. n : next'[way[k]] = IF k = i THEN New ELSE next[way[k]]
  <2>1. \A j, k \in 0 .. n : way[j] = way[k] => j = k
    BY <1>2, Ends DEF IsPath
  <2> QED BY <1>3, <1>8, <2>1
<1>11. next'[New] = z
  BY <1>1, <1>3, <1>8
<1>12. path[0] = HEAD /\ next'[path[n + 1]] = Ending
  <2>1. path[0] = HEAD
    BY <1>2, <1>6 DEF IsPath
  <2>0. n + 1 \in 0 .. n + 1 /\ (n + 1) - 1 = n /\ n \in 0 .. n
    OBVIOUS
  <2>2. CASE i = n
    <3>1. path[n + 1] = New
      BY <1>6, <2>0, <2>2
    <3> QED BY <1>4, <1>11, <2>1, <2>2, <3>1
  <2>3. CASE i # n
    <3>1. path[n + 1] = way[n]
      BY <1>6, <2>0, <2>3
    <3>2. next[way[n]] = Ending
      BY <1>2 DEF IsPath
    <3>3. next'[way[n]] = next[way[n]]
      BY <1>10, <2>0, <2>3
    <3> QED BY <2>1, <3>1, <3>2, <3>3
  <2> QED BY <2>2, <2>3
<1>13. ASSUME NEW k \in 1 .. n + 1
       PROVE  path[k] \in Nodes /\ next'[path[k - 1]] = path[k]
  <2>1. CASE k <= i
    <3>1. k \in 1 .. n /\ k - 1 \in 0 .. n /\ k - 1 # i /\ path[k] = way[k] /\ path[k - 1] = way[k - 1]
      BY <1>6, <2>1
    <3> QED BY <1>2, <1>10, <3>1 DEF IsPath
  <2>2. CASE k = i + 1
    <3>1. path[k] = New /\ path[k - 1] = way[i]
      BY <1>6, <2>2
    <3> QED BY <1>1, <1>10, <3>1
  <2>3. CASE k = i + 2
    <3>1. path[k] = way[i + 1] /\ path[k - 1] = New /\ i + 1 \in 1 .. n /\ i # n
      BY <1>6, <2>3
    <3> QED BY <1>2, <1>4, <1>11, <3>1 DEF IsPath
  <2>4. CASE k > i + 2
    <3>1. path[k] = way[k - 1] /\ path[k - 1] = way[(k - 1) - 1] /\ k - 1 \in 1 .. n /\ (k - 1) - 1 \in 0 .. n /\ (k - 1) - 1 # i
      BY <1>6, <2>4
    <3> QED BY <1>2, <1>10, <3>1 DEF IsPath
  <2> QED BY <2>1, <2>2, <2>3, <2>4
<1>14. \A j, k \in 1 .. n + 1 : path[j] = path[k] => j = k
  <2> TAKE j, k \in 1 .. n + 1
  <2> DEFINE b(m) == IF m <= i THEN m ELSE m - 1
  <2>1. ASSUME NEW m \in 1 .. n + 1, m # i + 1
        PROVE  path[m] = way[b(m)] /\ b(m) \in 1 .. n /\ path[m] # New
    <3>1. CASE m <= i
      BY <1>3, <1>6, <3>1
    <3>2. CASE m > i + 1
      <4>1. path[m] = way[m - 1] /\ m - 1 \in 1 .. n
        BY <1>6, <3>2
      <4> QED BY <1>3, <3>2, <4>1
    <3> QED BY <2>1, <3>1, <3>2
  <2>2. j # i + 1 /\ k # i + 1 /\ path[j] = path[k] => b(j) = b(k)
    BY <1>2, <2>1 DEF IsPath
  <2> QED BY <1>6, <2>1, <2>2
<1>15. ASSUME program \in Rings
       PROVE  (\A k \in 1 .. n + 1 : prev'[path[k]] = path[k - 1]) /\ prev'[HEAD] = path[n + 1]
  <2>1. z \in Places /\ prev' = [prev EXCEPT ![New] = way[i], ![z] = New]
    BY <1>5, <1>8, <1>15
  <2>2. prev'[New] = way[i] /\ prev'[z] = New
    BY <1>1, <1>5, <1>8, <2>1
  <2>3. (\A k \in 1 .. n : prev[way[k]] = way[k - 1]) /\ prev[HEAD] = way[n]
    BY <1>2, <1>15 DEF IsPath
  <2>4. \A m \in Places : m # New /\ m # z => prev'[m] = prev[m]
    BY <1>8, <2>1
  <2>5. z = IF i = n THEN HEAD ELSE way[i + 1]
    BY <1>4, <1>15 DEF Ending
  <2>6. \A k \in 1 .. n : k # i + 1 => way[k] # z
    BY <1>2, <2>5, Ends DEF IsPath
  <2>7. \A k \in 1 .. n : k # i + 1 => prev'[way[k]] = way[k - 1]
    BY <1>3, <2>3, <2>4, <2>6
  <2>8. ASSUME NEW k \in 1 .. n + 1 PROVE prev'[path[k]] = path[k - 1]
    <3>1. CASE k <= i
      <4>1. k \in 1 .. n /\ k # i + 1 /\ path[k] = way[k] /\ path[k - 1] = way[k - 1]
        BY <1>6, <3>1
      <4> QED BY <2>7, <4>1
    <3>2. CASE k = i + 1
      BY <1>6, <2>2, <3>2
    <3>3. CASE k = i + 2
      <4>1. path[k] = way[i + 1] /\ path[k - 1] = New /\ i # n
        BY <1>6, <3>3
      <4> QED BY <2>2, <2>5, <4>1
    <3>4. CASE k > i + 2
      <4>1. path[k] = way[k - 1] /\ path[k - 1] = way[(k - 1) - 1] /\ k - 1 \in 1 .. n /\ k - 1 # i + 1
        BY <1>6, <3>4
      <4> QED BY <2>7, <4>1
    <3> QED BY <3>1, <3>2, <3>3, <3>4
  <2>9. prev'[HEAD] = path[n + 1]
    <3>1. CASE i = n
      BY <1>6, <2>2, <2>5, <3>1
    <3>2. CASE i # n
      <4>1. path[n + 1] = way[n] /\ HEAD # z /\ HEAD # New /\ HEAD \in Places
        BY <1>1, <1>2, <1>6, <2>5, <3>2, Ends DEF IsPath
      <4> QED BY <2>3, <2>4, <4>1
    <3> QED BY <3>1, <3>2
  <2> QED BY <2>8, <2>9
<1>16. IsPath(n + 1, path)'
  <2>1. Ending' = Ending /\ ((program \in Rings)' <=> program \in Rings)
    BY DEF Ending
  <2> QED BY <1>12, <1>13, <1>14, <1>15, <2>1 DEF IsPath
<1>17. On(n + 1, path) = On(n, way) \cup {New}
  <2>1. \A k \in 1 .. n + 1 : path[k] \in On(n, way) \cup {New}
    <3> TAKE k \in 1 .. n + 1
    <3>1. k # i + 1 => \E m \in 1 .. n : path[k] = way[m]
      BY <1>6
    <3> QED BY <1>6, <3>1 DEF On
  <2>2. ASSUME NEW m \in 1 .. n PROVE \E k \in 1 .. n + 1 : way[m] = path[k]
    <3>1. CASE m <= i
      BY <1>6, <3>1
    <3>2. CASE m > i
      <4>1. m + 1 \in 1 .. n + 1 /\ path[m + 1] = way[(m + 1) - 1]
        BY <1>6, <3>2
      <4> QED BY <4>1
    <3> QED BY <3>1, <3>2
  <2>3. New = path[i + 1] /\ i + 1 \in 1 .. n + 1
    BY <1>6
  <2> QED BY <2>1, <2>2, <2>3 DEF On
<1>18. /\ live' = live \cup {New} /\ leaked' = leaked
       /\ boxes' = IF program = "lib1" THEN boxes \cup {New} ELSE boxes
  BY DEF Allocate
<1>19. Holds(n + 1, path)'
  <2>1. live' = On(n + 1, path) \cup leaked' /\ On(n + 1, path) \cap leaked' = {}
    BY <1>1, <1>2, <1>17, <1>18
  <2>2. boxes' \subseteq live' /\ (program' = "lib1" => On(n + 1, path) \subseteq boxes')
    BY <1>2, <1>17, <1>18
  <2>3. On(n + 1, path)' = On(n + 1, path)
    BY DEF On
  <2> QED BY <1>16, <2>1, <2>2, <2>3 DEF Holds
<1>20. ChainShape'
  <2>1. /\ data \in [Nodes -> Data \cup {Null}] /\ data' = [data EXCEPT ![New] = d]
        /\ live \subseteq Nodes /\ leaked \subseteq Nodes
    BY DEF ChainShape, Allocate
  <2>2. data' \in [Nodes -> Data \cup {Null}] /\ live' \subseteq Nodes /\ leaked' \subseteq Nodes
    BY <1>1, <1>18, <2>1
  <2>3. next' \in [Places -> Places \cup {Null}]' /\ prev' \in [Places -> Places \cup {Null}]'
    BY <1>9 DEF Places, HEAD, Null
  <2>4. (Data \cup {Null})' = Data \cup {Null}
    BY DEF Null
  <2> QED BY <2>2, <2>3, <2>4 DEF ChainShape
<1>21. n + 1 \in Nat /\ (0 .. n + 1)' = 0 .. n + 1 /\ Places' = Places
  BY DEF Places, HEAD
<1>22. ChainItems' = InsertAt(ChainItems, i + 1, d)
  <2>1. ChainItems' = [k \in 1 .. n + 1 |-> data'[path[k]]]
    BY <1>7, <1>19, <1>20, <1>21, ItemsWillBe
  <2>2. /\ ChainItems = [k \in 1 .. n |-> data[way[k]]]
        /\ ChainItems \in Seq(Data \cup {Null}) /\ Len(ChainItems) = n
    BY ItemsAre DEF ItemsFollow, Along
  <2>3. /\ data'[New] = d
        /\ \A k \in 1 .. n : data'[way[k]] = data[way[k]]
    BY <1>1, <1>2, <1>3 DEF Allocate, ChainShape, IsPath
  <2>4. ASSUME NEW k \in 1 .. n + 1
        PROVE  data'[path[k]] = IF k <= i THEN ChainItems[k] ELSE IF k = i + 1 THEN d ELSE ChainItems[k - 1]
    <3>1. CASE k <= i
      <4>1. path[k] = way[k] /\ k \in 1 .. n
        BY <1>6, <3>1
      <4> QED BY <2>2, <2>3, <3>1, <4>1
    <3>2. CASE k = i + 1
      BY <1>6, <2>3, <3>2
    <3>3. CASE k > i + 1
      <4>1. path[k] = way[k - 1] /\ k - 1 \in 1 .. n /\ ~ (k <= i) /\ k # i + 1
        BY <1>6, <3>3
      <4> QED BY <2>2, <2>3, <4>1
    <3> QED BY <3>1, <3>2, <3>3
  <2>5. InsertAt(ChainItems, i + 1, d)
          = [k \in 1 .. n + 1 |-> IF k <= i THEN ChainItems[k] ELSE IF k = i + 1 THEN d ELSE ChainItems[k - 1]]
    <3>1. InsertAt(ChainItems, i + 1, d) = WithIn(ChainItems, i, d)
      <4> DEFINE S == Data \cup {Null}
      <4>1. i \in 0 .. Len(ChainItems) /\ d \in S /\ ChainItems \in Seq(S)
        BY <2>2
      <4> HIDE DEF S
      <4> QED BY <4>1, InsertAtIs
    <3> QED BY <2>2, <3>1 DEF WithIn
  <2> QED BY <2>1, <2>4, <2>5
<1> QED BY <1>7, <1>19, <1>20, <1>21, <1>22 DEF ChainInv

LEMMA CutKeeps ==
    ASSUME ChainShape, NEW n \in Nat, NEW way \in [0 .. n -> Places], Holds(n, way),
           NEW i \in 1 .. n,
           next' = [next EXCEPT ![way[i - 1]] = next[way[i]], ![way[i]] = Null],
           program \in Rings => prev' = [prev EXCEPT ![next[way[i]]] = way[i - 1], ![way[i]] = Null],
           program \notin Rings => prev' = prev,
           Release(way[i]), leaked' = leaked, program' = program
    PROVE  ChainInv' /\ ChainItems' = RemoveAt(ChainItems, i)
<1> DEFINE x == way[i]
           w == way[i - 1]
           z == next[way[i]]
<1>1. /\ IsPath(n, way) /\ live = On(n, way) \cup leaked /\ On(n, way) \cap leaked = {}
      /\ boxes \subseteq live /\ (program = "lib1" => On(n, way) \subseteq boxes)
  BY DEF Holds
<1>2. /\ i \in 0 .. n /\ i - 1 \in 0 .. n /\ n - 1 \in Nat
      /\ \A k \in 0 .. n : way[k] \in Places
      /\ \A j, k \in 0 .. n : way[j] = way[k] => j = k
  BY <1>1, Ends DEF IsPath
<1>3. x \in Nodes /\ x \in Places /\ w \in Places /\ w # x
  BY <1>1, <1>2 DEF IsPath
<1>4. z = IF i = n THEN Ending ELSE way[i + 1]
  BY <1>1, <1>2 DEF IsPath
<1>5. z \in Places \cup {Null} /\ z # x /\ (program \in Rings => z \in Places)
  <2>1. CASE i = n
    BY <1>3, <1>4, <2>1, Ends DEF Ending
  <2>2. CASE i # n
    <3>1. i + 1 \in 0 .. n
      BY <2>2
    <3> QED BY <1>2, <1>4, <2>2, <3>1
  <2> QED BY <2>1, <2>2
<1>6. PICK path \in [0 .. n - 1 -> Places] : path = [k \in 0 .. n - 1 |-> IF k < i THEN way[k] ELSE way[k + 1]]
  <2> DEFINE h == [k \in 0 .. n - 1 |-> IF k < i THEN way[k] ELSE way[k + 1]]
  <2>1. h \in [0 .. n - 1 -> Places]
    BY <1>2
  <2> QED BY <2>1
<1>7. \A k \in 0 .. n - 1 : /\ k < i => path[k] = way[k] /\ k \in 0 .. n
                            /\ k >= i => path[k] = way[k + 1] /\ k + 1 \in 1 .. n
  BY <1>6
<1> HIDE DEF x, w, z
<1>8. /\ next \in [Places -> Places \cup {Null}] /\ prev \in [Places -> Places \cup {Null}]
      /\ next' = [next EXCEPT ![w] = z, ![x] = Null]
      /\ program \in Rings => prev' = [prev EXCEPT ![z] = w, ![x] = Null]
      /\ program \notin Rings => prev' = prev
  BY DEF ChainShape, x, w, z
<1>9. next' \in [Places -> Places \cup {Null}] /\ prev' \in [Places -> Places \cup {Null}]
  BY <1>3, <1>5, <1>8
<1>10. \A k \in 0 .. n : k # i => next'[way[k]] = IF k = i - 1 THEN z ELSE next[way[k]]
  <2>1. \A k \in 0 .. n : (way[k] = x <=> k = i) /\ (way[k] = w <=> k = i - 1)
    BY <1>2 DEF x, w
  <2> QED BY <1>2, <1>3, <1>5, <1>8, <2>1
<1>22. next'[way[i - 1]] = z
  BY <1>3, <1>5, <1>8 DEF w
<1>11. path[0] = HEAD
  BY <1>1, <1>2, <1>7 DEF IsPath
<1>12. next'[path[n - 1]] = Ending
  <2>0. n - 1 \in 0 .. n - 1 /\ n - 1 \in 0 .. n /\ n \in 0 .. n /\ (n - 1) + 1 = n
    BY <1>2
  <2>1. CASE i = n
    <3>1. path[n - 1] = way[n - 1]
      BY <1>7, <2>0, <2>1
    <3>2. next'[way[n - 1]] = z
      BY <1>22, <2>1
    <3> QED BY <1>4, <2>1, <3>1, <3>2
  <2>2. CASE i # n
    <3>1. path[n - 1] = way[n]
      BY <1>7, <2>0, <2>2
    <3>2. next[way[n]] = Ending /\ n # i - 1
      BY <1>1 DEF IsPath
    <3> QED BY <1>10, <2>0, <2>2, <3>1, <3>2
  <2> QED BY <2>1, <2>2
<1>13. ASSUME NEW k \in 1 .. n - 1
       PROVE  path[k] \in Nodes /\ next'[path[k - 1]] = path[k]
  <2>0. k \in 0 .. n - 1 /\ k - 1 \in 0 .. n - 1 /\ k - 1 \in 0 .. n /\ k \in 0 .. n /\ k \in 1 .. n
        /\ (k + 1) - 1 = k /\ (k - 1) + 1 = k /\ k + 1 \in 1 .. n
    BY <1>2
  <2>1. CASE k < i
    <3>1. path[k] = way[k] /\ path[k - 1] = way[k - 1] /\ k - 1 # i /\ k - 1 # i - 1
      BY <1>7, <2>0, <2>1
    <3> QED BY <1>1, <1>10, <2>0, <3>1 DEF IsPath
  <2>2. CASE k = i
    <3>1. path[k] = way[k + 1] /\ path[k - 1] = way[k - 1] /\ i # n
      BY <1>7, <2>0, <2>2
    <3>2. next'[way[k - 1]] = z
      BY <1>22, <2>2
    <3>3. z = way[k + 1] /\ way[k + 1] \in Nodes
      BY <1>1, <1>4, <2>0, <2>2, <3>1 DEF IsPath
    <3> QED BY <3>1, <3>2, <3>3
  <2>3. CASE k > i
    <3>1. path[k] = way[k + 1] /\ path[k - 1] = way[k] /\ k # i - 1
      BY <1>7, <2>0, <2>3
    <3>0. k \in 0 .. n /\ k # i /\ k # i - 1
      BY <2>0, <2>3
    <3>2. next'[way[k]] = next[way[k]]
      BY <1>10, <3>0
    <3> QED BY <1>1, <2>0, <3>1, <3>2 DEF IsPath
  <2> QED BY <2>1, <2>2, <2>3
<1>14. \A j, k \in 1 .. n - 1 : path[j] = path[k] => j = k
  <2> TAKE j, k \in 1 .. n - 1
  <2> DEFINE b(m) == IF m < i THEN m ELSE m + 1
  <2>1. ASSUME NEW m \in 1 .. n - 1
        PROVE  path[m] = way[b(m)] /\ b(m) \in 0 .. n
    <3>1. m \in 0 .. n - 1
      OBVIOUS
    <3> QED BY <1>7, <3>1
  <2>2. path[j] = path[k] => b(j) = b(k)
    BY <1>2, <2>1
  <2> QED BY <2>2
<1>15. ASSUME program \in Rings
       PROVE  (\A k \in 1 .. n - 1 : prev'[path[k]] = path[k - 1]) /\ prev'[HEAD] = path[n - 1]
  <2>1. z \in Places /\ prev' = [prev EXCEPT ![z] = w, ![x] = Null]
    BY <1>5, <1>8, <1>15
  <2>2. prev'[z] = way[i - 1]
    BY <1>3, <1>5, <1>8, <2>1 DEF w
  <2>3. (\A k \in 1 .. n : prev[way[k]] = way[k - 1]) /\ prev[HEAD] = way[n]
    BY <1>1, <1>15 DEF IsPath
  <2>4. z = IF i = n THEN HEAD ELSE way[i + 1]
    BY <1>4, <1>15 DEF Ending
  <2>5. \A m \in Places : m # x /\ m # z => prev'[m] = prev[m]
    BY <1>8, <2>1
  <2>6. ASSUME NEW k \in 1 .. n, k # i, k # i + 1 PROVE prev'[way[k]] = way[k - 1]
    <3>1. k \in 0 .. n /\ way[k] # x
      BY <1>2, <2>6 DEF x
    <3>2. way[k] # z
      <4>1. CASE i = n
        BY <1>1, <2>4, <4>1, Ends DEF IsPath
      <4>2. CASE i # n
        <5>1. i + 1 \in 0 .. n
          BY <4>2
        <5> QED BY <1>2, <2>4, <2>6, <3>1, <4>2, <5>1
      <4> QED BY <4>1, <4>2
    <3> QED BY <1>2, <2>3, <2>5, <3>1, <3>2
  <2>7. ASSUME NEW k \in 1 .. n - 1 PROVE prev'[path[k]] = path[k - 1]
    <3>0. k \in 0 .. n - 1 /\ k - 1 \in 0 .. n - 1 /\ k \in 1 .. n /\ (k - 1) + 1 = k
          /\ (k + 1) - 1 = k /\ k + 1 \in 1 .. n
      BY <1>2
    <3>1. CASE k < i
      <4>1. path[k] = way[k] /\ path[k - 1] = way[k - 1]
        BY <1>7, <3>0, <3>1
      <4> QED BY <2>6, <3>0, <3>1, <4>1
    <3>2. CASE k = i
      <4>1. path[k] = way[k + 1] /\ path[k - 1] = way[k - 1] /\ i # n
        BY <1>7, <3>0, <3>2
      <4> QED BY <2>2, <2>4, <3>2, <4>1
    <3>3. CASE k > i
      <4>1. path[k] = way[k + 1] /\ path[k - 1] = way[k]
        BY <1>7, <3>0, <3>3
      <4>2. prev'[way[k + 1]] = way[(k + 1) - 1]
        <5>1. k + 1 \in 1 .. n /\ k + 1 # i /\ k + 1 # i + 1
          BY <3>0, <3>3
        <5> QED BY <2>6, <5>1
      <4> QED BY <3>0, <4>1, <4>2
    <3> QED BY <3>1, <3>2, <3>3
  <2>8. prev'[HEAD] = path[n - 1]
    <3>0. n - 1 \in 0 .. n - 1 /\ (n - 1) + 1 = n
      BY <1>2
    <3>1. CASE i = n
      <4>1. path[n - 1] = way[n - 1]
        BY <1>7, <3>0, <3>1
      <4> QED BY <2>2, <2>4, <3>1, <4>1
    <3>2. CASE i # n
      <4>1. path[n - 1] = way[n]
        BY <1>7, <3>0, <3>2
      <4>2. HEAD \in Places /\ HEAD # x /\ HEAD # z
        <5>1. i + 1 \in 1 .. n
          BY <3>2
        <5> QED BY <1>1, <1>3, <2>4, <3>2, <5>1, Ends DEF IsPath
      <4> QED BY <2>3, <2>5, <4>1, <4>2
    <3> QED BY <3>1, <3>2
  <2> QED BY <2>7, <2>8
<1>16. IsPath(n - 1, path)'
  <2>1. Ending' = Ending /\ ((program \in Rings)' <=> program \in Rings)
    BY DEF Ending
  <2> QED BY <1>11, <1>12, <1>13, <1>14, <1>15, <2>1 DEF IsPath
<1>17. On(n - 1, path) = On(n, way) \ {x}
  <2>1. ASSUME NEW k \in 1 .. n - 1 PROVE path[k] \in On(n, way) \ {x}
    <3>1. PICK m \in 1 .. n : path[k] = way[m] /\ m # i
      <4>0. k \in 0 .. n - 1 /\ k \in 1 .. n /\ k + 1 \in 1 .. n
        BY <1>2
      <4>1. CASE k < i
        BY <1>7, <4>0, <4>1
      <4>2. CASE k >= i
        BY <1>7, <4>0, <4>2
      <4> QED BY <4>1, <4>2
    <3>2. m \in 0 .. n /\ way[m] # x
      BY <1>2, <3>1 DEF x
    <3> QED BY <3>1, <3>2 DEF On
  <2>2. ASSUME NEW m \in 1 .. n, way[m] # x PROVE \E k \in 1 .. n - 1 : way[m] = path[k]
    <3>0. m # i
      BY <2>2 DEF x
    <3>1. CASE m < i
      <4>1. m \in 1 .. n - 1 /\ m \in 0 .. n - 1
        BY <3>1
      <4> QED BY <1>7, <3>1, <4>1
    <3>2. CASE m > i
      <4>1. m - 1 \in 1 .. n - 1 /\ m - 1 \in 0 .. n - 1 /\ m - 1 >= i /\ (m - 1) + 1 = m
        BY <3>2
      <4> QED BY <1>7, <4>1
    <3> QED BY <3>0, <3>1, <3>2
  <2>3. On(n - 1, path) \subseteq On(n, way) \ {x}
    BY <2>1 DEF On
  <2>4. On(n, way) \ {x} \subseteq On(n - 1, path)
    BY <2>2 DEF On
  <2> QED BY <2>3, <2>4
<1>18. live' = live \ {x} /\ leaked' = leaked /\ boxes' = boxes \ {x} /\ x \in On(n, way)
  BY DEF Release, x, On
<1>19. Holds(n - 1, path)'
  <2>1. live' = On(n - 1, path) \cup leaked' /\ On(n - 1, path) \cap leaked' = {}
    BY <1>1, <1>17, <1>18
  <2>2. boxes' \subseteq live' /\ (program' = "lib1" => On(n - 1, path) \subseteq boxes')
    BY <1>1, <1>17, <1>18
  <2>3. On(n - 1, path)' = On(n - 1, path)
    BY DEF On
  <2> QED BY <1>16, <2>1, <2>2, <2>3 DEF Holds
<1>20. ChainShape'
  <2>1. /\ data \in [Nodes -> Data \cup {Null}] /\ data' = [data EXCEPT ![x] = Null]
        /\ live \subseteq Nodes /\ leaked \subseteq Nodes
    BY DEF ChainShape, Release, x
  <2>2. data' \in [Nodes -> Data \cup {Null}] /\ live' \subseteq Nodes /\ leaked' \subseteq Nodes
    BY <1>18, <2>1
  <2>3. next' \in [Places -> Places \cup {Null}]' /\ prev' \in [Places -> Places \cup {Null}]'
    BY <1>9 DEF Places, HEAD, Null
  <2>4. (Data \cup {Null})' = Data \cup {Null}
    BY DEF Null
  <2> QED BY <2>2, <2>3, <2>4 DEF ChainShape
<1>21. (0 .. n - 1)' = 0 .. n - 1 /\ Places' = Places
  BY DEF Places, HEAD
<1>23. ChainItems' = RemoveAt(ChainItems, i)
  <2>1. ChainItems' = [k \in 1 .. n - 1 |-> data'[path[k]]]
    BY <1>2, <1>6, <1>19, <1>20, <1>21, ItemsWillBe
  <2>2. /\ ChainItems = [k \in 1 .. n |-> data[way[k]]]
        /\ ChainItems \in Seq(Data \cup {Null}) /\ Len(ChainItems) = n
    BY ItemsAre DEF ItemsFollow, Along
  <2>3. \A k \in 1 .. n : k # i => data'[way[k]] = data[way[k]]
    <3>1. data \in [Nodes -> Data \cup {Null}] /\ data' = [data EXCEPT ![x] = Null]
      BY DEF Release, ChainShape, x
    <3>2. \A k \in 1 .. n : way[k] \in Nodes /\ (k # i => way[k] # x)
      BY <1>1, <1>2 DEF IsPath, x
    <3> QED BY <3>1, <3>2
  <2>4. ASSUME NEW k \in 1 .. n - 1
        PROVE  data'[path[k]] = IF k < i THEN ChainItems[k] ELSE ChainItems[k + 1]
    <3>0. k \in 0 .. n - 1 /\ k \in 1 .. n /\ k + 1 \in 1 .. n
      BY <1>2
    <3>1. CASE k < i
      <4>1. path[k] = way[k]
        BY <1>7, <3>0, <3>1
      <4> QED BY <2>2, <2>3, <3>0, <3>1, <4>1, SMTT(60)
    <3>2. CASE k >= i
      <4>1. path[k] = way[k + 1] /\ ~ (k < i) /\ k + 1 # i
        BY <1>7, <3>0, <3>2
      <4> QED BY <2>2, <2>3, <3>0, <4>1
    <3> QED BY <3>1, <3>2
  <2>5. RemoveAt(ChainItems, i) = [k \in 1 .. n - 1 |-> IF k < i THEN ChainItems[k] ELSE ChainItems[k + 1]]
    <3>1. RemoveAt(ChainItems, i) = Without(ChainItems, i)
      <4> HIDE DEF x, w, z
      <4>1. i \in 1 .. Len(ChainItems)
        BY <2>2
      <4> QED BY <2>2, <4>1, RemoveAtIs
    <3> QED BY <2>2, <3>1 DEF Without
  <2> QED BY <2>1, <2>4, <2>5
<1> QED BY <1>2, <1>6, <1>19, <1>20, <1>21, <1>23 DEF ChainInv

\* The nodes stay as they are.
LEMMA SameKeeps ==
    ASSUME ChainInv, UNCHANGED <<program, next, prev, data, live, boxes, leaked>>
    PROVE  ChainInv' /\ ChainItems' = ChainItems
<1>0. PICK n \in Nat : \E way \in [0 .. n -> Places] : Holds(n, way)
  BY DEF ChainInv
<1>1. PICK way \in [0 .. n -> Places] : Holds(n, way)
  BY <1>0
<1>2. Holds(n, way)'
  BY <1>1 DEF Holds, IsPath, On, Ending, Rings, HEAD, Null
<1>3. (0 .. n)' = 0 .. n /\ Places' = Places
  BY DEF Places, HEAD
<1>4. ChainShape'
  BY DEF ChainInv, ChainShape, Places, HEAD, Null
<1>5. ChainItems' = ChainItems
  <2>1. ChainItems' = [k \in 1 .. n |-> data'[way[k]]]
    BY <1>2, <1>4, ItemsWillBe
  <2>2. ChainItems = [k \in 1 .. n |-> data[way[k]]]
    BY <1>1, ItemsAre DEF ItemsFollow, Along, ChainInv
  <2> QED BY <2>1, <2>2
<1> QED BY <1>2, <1>3, <1>4, <1>5 DEF ChainInv

LEMMA ReadsKeep ==
    ASSUME ChainInv, NEW name, NEW args, NEW result, Reads(name, args, result), program' = program
    PROVE  ChainInv' /\ ChainItems' = ChainItems /\ called' = <<name, args, result>>
BY SameKeeps DEF Reads, Done

LEMMA PutInKeeps ==
    ASSUME ChainInv, NEW n \in Nat, NEW way \in [0 .. n -> Places], Holds(n, way), NEW i \in 0 .. n,
           NEW name, NEW args, NEW d \in Data, NEW result, NEW failure,
           PutIn(name, args, d, way[i], next[way[i]], result, failure), program' = program
    PROVE  /\ ChainInv'
           /\ \/ ChainItems' = InsertAt(ChainItems, i + 1, d) /\ called' = <<name, args, result>>
              \/ ChainItems' = ChainItems /\ called' = <<name, args, failure>>
<1>1. CASE Reads(name, args, failure)
  BY <1>1, ReadsKeep
<1>2. CASE /\ HasMemory /\ Allocate(New, d) /\ Link(New, way[i], next[way[i]]) /\ UNCHANGED leaked
           /\ Done(name, args, result)
  BY <1>2, LinkKeeps DEF ChainInv, Done
<1> QED BY <1>1, <1>2 DEF PutIn

\* A node that nobody points to.
LEMMA LossKeeps ==
    ASSUME ChainInv, HasMemory, UNCHANGED <<program, next, prev>>,
           live' = live \cup {New}, leaked' = leaked \cup {New},
           boxes \subseteq boxes', boxes' \subseteq boxes \cup {New},
           data' = data \/ \E d \in Data : data' = [data EXCEPT ![New] = d]
    PROVE  ChainInv' /\ ChainItems' = ChainItems
<1>0. PICK n \in Nat : \E way \in [0 .. n -> Places] : Holds(n, way)
  BY DEF ChainInv
<1>1. PICK way \in [0 .. n -> Places] : Holds(n, way)
  BY <1>0
<1>2. New \in Nodes /\ New \notin live
  BY NewIsFree DEF ChainInv
<1>3. IsPath(n, way)'
  BY <1>1 DEF Holds, IsPath, Ending, Rings, HEAD, Null
<1>4. On(n, way)' = On(n, way)
  BY DEF On
<1>5. Holds(n, way)'
  BY <1>1, <1>2, <1>3, <1>4 DEF Holds
<1>6. (0 .. n)' = 0 .. n /\ Places' = Places
  BY DEF Places, HEAD
<1>7. ChainShape'
  <2>1. data' \in [Nodes -> Data \cup {Null}] /\ live' \subseteq Nodes /\ leaked' \subseteq Nodes
    BY <1>2 DEF ChainInv, ChainShape
  <2> QED BY <2>1 DEF ChainInv, ChainShape, Places, HEAD, Null
<1>8. ChainItems' = ChainItems
  <2>1. ChainItems' = [k \in 1 .. n |-> data'[way[k]]]
    BY <1>5, <1>7, ItemsWillBe
  <2>2. ChainItems = [k \in 1 .. n |-> data[way[k]]]
    BY <1>1, ItemsAre DEF ItemsFollow, Along, ChainInv
  <2>3. data \in [Nodes -> Data \cup {Null}] /\ \A k \in 1 .. n : way[k] \in Nodes /\ way[k] # New
    BY <1>1, <1>2 DEF ChainInv, ChainShape, Holds, IsPath, On
  <2>4. \A k \in 1 .. n : data'[way[k]] = data[way[k]]
    BY <2>3
  <2> QED BY <2>1, <2>2, <2>4
<1> QED BY <1>5, <1>6, <1>7, <1>8 DEF ChainInv

\* A list without nodes.
EmptyList ==
    /\ next = [n \in Places |-> IF n = HEAD THEN Ending ELSE Null]
    /\ prev = [n \in Places |-> IF n = HEAD THEN Ending ELSE Null]
    /\ data \in [Nodes -> Data \cup {Null}]
    /\ live = leaked /\ leaked \subseteq Nodes /\ boxes \subseteq live

EmptyChain == ChainInv /\ ChainItems = <<>>

LEMMA EmptyHolds == EmptyList => EmptyChain
<1> SUFFICES ASSUME EmptyList PROVE ChainInv /\ ChainItems = <<>>
  BY DEF EmptyChain
<1> USE DEF EmptyList
<1> DEFINE way == [k \in 0 .. 0 |-> HEAD]
<1>1. way \in [0 .. 0 -> Places]
  BY Ends
<1>2. IsPath(0, way)
  <2>1. way[0] = HEAD /\ next[HEAD] = Ending /\ prev[HEAD] = Ending
    BY Ends
  <2> QED BY <2>1 DEF IsPath, Ending
<1>3. On(0, way) = {}
  BY DEF On
<1>4. Holds(0, way)
  BY <1>2, <1>3 DEF Holds
<1>5. ChainShape
  BY Ends DEF ChainShape, Ending
<1> HIDE DEF way
<1>6. ChainItems = Along(0, way)
  BY <1>1, <1>4, <1>5, ItemsAre DEF ItemsFollow
<1>7. ChainItems = <<>>
  BY <1>6 DEF Along
<1> QED BY <1>1, <1>4, <1>5, <1>7 DEF ChainInv, EmptyChain

LEMMA DestroyKeeps ==
    ASSUME ChainInv, Destroy, program' = program
    PROVE  ChainInv' /\ ChainItems' = <<>> /\ called' = <<"destroy", 0, << 0 >>>>
<1>0. PICK n \in Nat : \E way \in [0 .. n -> Places] : Holds(n, way)
  BY DEF ChainInv
<1>1. PICK way \in [0 .. n -> Places] : Holds(n, way)
  BY <1>0
<1>2. Reachable = On(n, way)
  BY <1>1, ReachableIsOn DEF Holds, ChainInv, ChainShape
<1>3. live' = leaked' /\ leaked' \subseteq Nodes /\ boxes' \subseteq live'
  BY <1>1, <1>2 DEF Destroy, Holds, ChainInv, ChainShape
<1>4. /\ next' = [m \in Places |-> IF m = HEAD THEN Ending' ELSE Null]
      /\ prev' = [m \in Places |-> IF m = HEAD THEN Ending' ELSE Null]
  BY DEF Destroy, Ending
<1>5. EmptyList'
  <2>1. data' \in [Nodes -> Data \cup {Null}]
    BY DEF Destroy, ChainInv, ChainShape
  <2> QED BY <1>3, <1>4, <2>1 DEF EmptyList, Places, HEAD, Null
<1>6. EmptyList' => EmptyChain'
  BY EmptyHolds, PTL
<1> QED BY <1>5, <1>6 DEF Destroy, Done, EmptyChain

LEMMA ChainStarts == ChainInit => ChainInv /\ ChainItems = <<>>
BY EmptyHolds DEF ChainInit, EmptyList, EmptyChain

-----------------------------------------------------------------------------
(* The greatest of a set *)

\* A set of naturals up to n that is not empty has a greatest element.
LEMMA Greatest ==
    ASSUME NEW n \in Nat, NEW S \in SUBSET (0 .. n), S # {}
    PROVE  \E m \in S : \A k \in S : m >= k
<1> DEFINE T == {n - k : k \in S}
<1>1. T \in SUBSET Nat /\ T # {}
  <2>1. ASSUME NEW k \in S PROVE n - k \in Nat
    <3>1. k \in 0 .. n
      OBVIOUS
    <3> QED BY <3>1
  <2> QED BY <2>1
<1>2. PICK t \in T : \A k \in T : t <= k
  <2> HIDE DEF T
  <2> QED BY <1>1, Least
<1>3. PICK m \in S : t = n - m
  OBVIOUS
<1>4. ASSUME NEW k \in S PROVE m >= k
  <2>1. n - k \in T
    OBVIOUS
  <2>3. k \in 0 .. n /\ m \in 0 .. n
    OBVIOUS
  <2>2. n - m <= n - k
    BY <1>2, <1>3, <2>1
  <2> QED BY <2>2, <2>3
<1> QED BY <1>4

\* find_: the first node with the item, at the place Sequence names.
LEMMA FoundIs ==
    ASSUME ChainInv, NEW n \in Nat, NEW way \in [0 .. n -> Places], Holds(n, way), NEW d
    PROVE  \/ Found(d) = Ending /\ Chained!Index(d) = -1
           \/ \E i \in 1 .. n : Found(d) = way[i] /\ ChainItems[i] = d /\ Chained!Index(d) = i - 1
<1>1. /\ ListLength = n /\ \A k \in 0 .. n : At[k] = way[k]
      /\ ChainItems = [k \in 1 .. n |-> data[way[k]]] /\ Len(ChainItems) = n
  BY ReachableIsOn, AtIsPath, ItemsAre, SMTT(60) DEF Holds, ChainInv, ChainShape, ItemsFollow, Along
<1> DEFINE ks == {k \in 1 .. ListLength : data[At[k]] = d}
           is == {k \in 1 .. Len(ChainItems) : ChainItems[k] = d}
<1>2. Chained!Index(d) = (IF is # {} THEN Min(is) ELSE 0) - 1
  BY Zenon DEF Chained!Index, Chained!SelectInSeq, Chained!Min, Min
<1>3. is = ks
  <2>1. \A k \in 1 .. n : k \in 0 .. n /\ ChainItems[k] = data[At[k]]
    BY <1>1
  <2> QED BY <1>1, <2>1
<1>4. CASE ks = {}
  <2>1. Found(d) = Ending
    BY <1>4 DEF Found
  <2> HIDE DEF ks, is
  <2> QED BY <1>2, <1>3, <1>4, <2>1
<1>5. CASE ks # {}
  <2>1. ks \in SUBSET Nat /\ ks \subseteq 1 .. n
    BY <1>1
  <2>2. Found(d) = At[Min(ks)]
    BY <1>5 DEF Found
  <2>3. Min(ks) \in ks
    <3> HIDE DEF ks
    <3>1. \E m \in ks : \A k \in ks : m <= k
      BY <1>5, <2>1, Least
    <3> QED BY <3>1 DEF Min
  <2>4. ChainItems[Min(ks)] = d
    BY <1>3, <2>3
  <2> HIDE DEF ks, is
  <2>5. Min(ks) \in 1 .. n
    BY <2>1, <2>3, Zenon
  <2>7. Min(ks) \in 0 .. n
    BY <2>5
  <2>6. Chained!Index(d) = Min(ks) - 1
    BY <1>2, <1>3, <1>5
  <2> QED BY <1>1, <2>2, <2>4, <2>5, <2>6, <2>7
<1> QED BY <1>4, <1>5

LEMMA PositionIs ==
    ASSUME ChainInv, NEW n \in Nat, NEW way \in [0 .. n -> Places], Holds(n, way), NEW i \in 1 .. n
    PROVE  Position(way[i]) = i - 1
<1>1. ListLength = n /\ \A k \in 0 .. n : At[k] = way[k]
  BY ReachableIsOn, AtIsPath DEF Holds, ChainInv, ChainShape
<1>2. way[i] # Ending /\ \A k \in 1 .. n : way[k] = way[i] => k = i
  BY Ends DEF Holds, IsPath
<1>3. \A k \in 1 .. n : At[k] = way[i] <=> k = i
  BY <1>1, <1>2
<1>4. (CHOOSE k \in 1 .. ListLength : At[k] = way[i]) = i
  BY <1>1, <1>3
<1> QED BY <1>2, <1>4 DEF Position

LEMMA BeforeIs ==
    ASSUME ChainInv, NEW n \in Nat, NEW way \in [0 .. n -> Places], Holds(n, way), NEW d
    PROVE  \E i \in 0 .. n : /\ Before(d) = way[i]
                             /\ \A k \in 1 .. n : k \in 1 .. i <=> \A j \in 1 .. k : ChainItems[j] < d
<1>1. /\ ListLength = n /\ \A k \in 0 .. n : At[k] = way[k]
      /\ ChainItems = [k \in 1 .. n |-> data[way[k]]]
  BY ReachableIsOn, AtIsPath, ItemsAre, SMTT(60) DEF Holds, ChainInv, ChainShape, ItemsFollow, Along
<1> DEFINE ks == {k \in 0 .. ListLength : \A j \in 1 .. k : data[At[j]] < d}
<1>2. ks \in SUBSET (0 .. n) /\ 0 \in ks /\ Before(d) = At[Max(ks)]
  BY <1>1 DEF Before
<1>3. Max(ks) \in ks /\ \A k \in ks : Max(ks) >= k
  <2> HIDE DEF ks
  <2>1. \E m \in ks : \A k \in ks : m >= k
    BY <1>2, Greatest
  <2> QED BY <2>1 DEF Max
<1>4. \A k \in 1 .. n : k \in ks <=> \A j \in 1 .. k : ChainItems[j] < d
  <2> TAKE k \in 1 .. n
  <2>1. \A j \in 1 .. k : j \in 1 .. n /\ j \in 0 .. n /\ ChainItems[j] = data[At[j]]
    BY <1>1
  <2>2. k \in 0 .. ListLength
    BY <1>1
  <2>3. k \in ks <=> \A j \in 1 .. k : data[At[j]] < d
    BY <2>2
  <2> HIDE DEF ks
  <2> QED BY <2>1, <2>3, Zenon
<1>5. \A k \in 1 .. n : k \in 1 .. Max(ks) <=> k \in ks
  <2> TAKE k \in 1 .. n
  <2>1. CASE k \in ks
    <3> HIDE DEF ks
    <3> QED BY <1>2, <1>3, <2>1
  <2>2. CASE k \in 1 .. Max(ks)
    <3> HIDE DEF ks
    <3>0. PICK m \in 0 .. n : m = Max(ks)
      BY <1>2, <1>3, Zenon
    <3>1. Max(ks) \in 1 .. n /\ \A j \in 1 .. k : j \in 1 .. Max(ks)
      BY <2>2, <3>0
    <3>2. \A j \in 1 .. Max(ks) : ChainItems[j] < d
      BY <1>3, <1>4, <3>1, Zenon
    <3>3. \A j \in 1 .. k : ChainItems[j] < d
      BY <3>1, <3>2, Zenon
    <3> QED BY <1>4, <2>2, <3>3
  <2> QED BY <2>1, <2>2
<1> HIDE DEF ks
<1>6. Max(ks) \in 0 .. n /\ Before(d) = way[Max(ks)]
  BY <1>1, <1>2, <1>3
<1> QED BY <1>4, <1>5, <1>6

-----------------------------------------------------------------------------
(* Steps of a list are steps of the sequence *)

\* One step of a list as a step of Sequence, one kind of call each.
LEMMA InsertIsStep ==
    ASSUME NEW i, i \in 0 .. Len(ChainItems), NEW d,
           ChainItems' = InsertAt(ChainItems, i + 1, d), called' = <<"insert", <<i, d>>, << 0 >>>>
    PROVE  Chained!Next
<1>1. ChainItems' = Chained!InsertAt(ChainItems, i + 1, d)
  BY DEF Chained!InsertAt, InsertAt
<1>2. Chained!Insert(i, d)
  BY <1>1 DEF Chained!Insert, Chained!Returns
<1>3. called'[1] = "insert" /\ called'[2][1] = i /\ called'[2][2] = d
  OBVIOUS
<1> QED BY <1>2, <1>3 DEF Chained!Next

LEMMA RefusalIsStep ==
    ASSUME NEW i, NEW d, NEW code \in {-1, -2, -3},
           ChainItems' = ChainItems, called' = <<"insert", <<i, d>>, <<code>>>>
    PROVE  Chained!Next
BY DEF Chained!Next, Chained!Insert, Chained!Returns, Chained!Refusable

LEMMA EnqueueIsStep ==
    ASSUME NEW S, ChainItems \in Seq(S), NEW d \in S, NEW code \in {0, -1},
           \/ ChainItems' = InsertAt(ChainItems, Len(ChainItems) + 1, d) \/ ChainItems' = ChainItems,
           called' = <<"queue_en", d, <<code>>>>
    PROVE  Chained!Next
<1>1. InsertAt(ChainItems, Len(ChainItems) + 1, d) = Append(ChainItems, d)
  <2>1. Len(ChainItems) \in 0 .. Len(ChainItems) /\ Len(ChainItems) \in Nat
    BY LenProperties
  <2>2. InsertAt(ChainItems, Len(ChainItems) + 1, d) = WithIn(ChainItems, Len(ChainItems), d)
    BY <2>1, InsertAtIs
  <2>3. Append(ChainItems, d) = WithIn(ChainItems, Len(ChainItems), d)
    <3>1. /\ Append(ChainItems, d) \in Seq(S) /\ Len(Append(ChainItems, d)) = Len(ChainItems) + 1
          /\ \A k \in 1 .. Len(ChainItems) : Append(ChainItems, d)[k] = ChainItems[k]
          /\ Append(ChainItems, d)[Len(ChainItems) + 1] = d
      BY AppendProperties
    <3>2. \A k \in 1 .. Len(ChainItems) + 1 :
              Append(ChainItems, d)[k] = IF k <= Len(ChainItems) THEN ChainItems[k]
                                  ELSE IF k = Len(ChainItems) + 1 THEN d ELSE ChainItems[k - 1]
      BY <2>1, <3>1
    <3>3. Append(ChainItems, d) = [k \in 1 .. Len(ChainItems) + 1 |-> Append(ChainItems, d)[k]]
      BY <3>1, LenProperties
    <3> QED BY <3>2, <3>3 DEF WithIn
  <2> QED BY <2>2, <2>3
<1> QED BY <1>1 DEF Chained!Next, Chained!Enqueue, Chained!Returns, Chained!Refusable

LEMMA OrderInsertIsStep ==
    ASSUME NEW i \in 0 .. Len(ChainItems), Len(ChainItems) \in Nat, NEW d,
           \A k \in 1 .. Len(ChainItems) :
               k \in 1 .. i <=> \A j \in 1 .. k : ChainItems[j] < d,
           \/ ChainItems' = InsertAt(ChainItems, i + 1, d) /\ called' = <<"order_insert", d, << 0 >>>>
           \/ ChainItems' = ChainItems /\ called' = <<"order_insert", d, <<-1>>>>
    PROVE  Chained!Next
<1>1. {k \in 1 .. Len(ChainItems) : \A j \in 1 .. k : ChainItems[j] < d} = 1 .. i
  OBVIOUS
<1>2. Cardinality(1 .. i) = i
  BY FS_Interval
<1>4. Chained!Cardinality(1 .. i) = Cardinality(1 .. i)
  BY DEF Chained!Cardinality, Cardinality
<1>3. InsertAt(ChainItems, i + 1, d) = Chained!InsertAt(ChainItems, i + 1, d)
  BY DEF Chained!InsertAt, InsertAt
<1>5. Chained!InsertInOrder(d)
  BY <1>1, <1>2, <1>3, <1>4 DEF Chained!InsertInOrder, Chained!Returns, Chained!Refusable
<1> QED BY <1>5 DEF Chained!Next

LEMMA TakeOutIsStep ==
    ASSUME NEW i \in 1 .. Len(ChainItems), Len(ChainItems) \in Nat, NEW name, NEW args,
           ChainItems' = RemoveAt(ChainItems, i),
           called' = <<name, args, IF name \in {"delete", "drop"} THEN << 0 >> ELSE <<0, ChainItems[i]>>>>,
           \/ name = "delete_at" /\ args = i - 1
           \/ name \in {"delete", "fetch"} /\ Chained!Index(args) = i - 1
           \/ name \in {"drop", "pop"} /\ args = 0 /\ i = 1
    PROVE  Chained!Next
<1>1. ChainItems' = Chained!RemoveAt(ChainItems, (i - 1) + 1)
  <2>1. (i - 1) + 1 = i
    OBVIOUS
  <2> QED BY <2>1 DEF Chained!RemoveAt, RemoveAt
<1>2. Chained!TakeOut(name, args, i - 1)
  <2>1. i - 1 \in 0 .. Len(ChainItems) - 1 /\ (i - 1) + 1 = i /\ name # "remove_at"
    OBVIOUS
  <2> QED BY <1>1, <2>1 DEF Chained!TakeOut, Chained!Returns
<1>3. CASE name = "delete_at" /\ args = i - 1
  BY <1>2, <1>3 DEF Chained!Next
<1>4. CASE name \in {"delete", "fetch"} /\ Chained!Index(args) = i - 1
  BY <1>2, <1>4 DEF Chained!Next, Chained!Delete, Chained!Fetch
<1>5. CASE name \in {"drop", "pop"} /\ args = 0 /\ i = 1
  BY <1>2, <1>5 DEF Chained!Next, Chained!Drop, Chained!Pop
<1> QED BY <1>3, <1>4, <1>5

LEMMA NoTakeOutIsStep ==
    ASSUME ChainItems' = ChainItems, Len(ChainItems) \in Nat, NEW name, NEW args, NEW result,
           called' = <<name, args, result>>,
           \/ /\ name = "delete_at" /\ args \in Int /\ args \notin 0 .. Len(ChainItems) - 1
              /\ result \in {<<-1>>, <<-2>>, <<>>}
           \/ name \in {"delete", "fetch"} /\ Chained!Index(args) = -1 /\ result = <<-1>>
           \/ name \in {"drop", "pop"} /\ args = 0 /\ Len(ChainItems) = 0 /\ result = <<-1>>
    PROVE  Chained!Next
<1>1. CASE /\ name = "delete_at" /\ args \in Int /\ args \notin 0 .. Len(ChainItems) - 1
           /\ result \in {<<-1>>, <<-2>>, <<>>}
  <2>1. Chained!TakeOut(name, args, args)
    BY <1>1 DEF Chained!TakeOut, Chained!Returns
  <2> QED BY <1>1, <2>1 DEF Chained!Next
<1>2. CASE name \in {"delete", "fetch"} /\ Chained!Index(args) = -1 /\ result = <<-1>>
  <2>1. Chained!TakeOut(name, args, Chained!Index(args))
    BY <1>2 DEF Chained!TakeOut, Chained!Returns
  <2> QED BY <1>2, <2>1 DEF Chained!Next, Chained!Delete, Chained!Fetch
<1>3. CASE name \in {"drop", "pop"} /\ args = 0 /\ Len(ChainItems) = 0 /\ result = <<-1>>
  <2>1. Chained!TakeOut(name, args, 0)
    BY <1>3 DEF Chained!TakeOut, Chained!Returns
  <2> QED BY <1>3, <2>1 DEF Chained!Next, Chained!Drop, Chained!Pop
<1> QED BY <1>1, <1>2, <1>3

LEMMA FindIsStep ==
    ASSUME ChainItems' = ChainItems, NEW d, Chained!Index(d) \in Int, 
           called' = <<"find", d, <<Chained!Index(d)>>>>
    PROVE  Chained!Next
BY DEF Chained!Next, Chained!Find, Chained!Returns

LEMMA TravelIsStep ==
    ASSUME ChainItems' = ChainItems, called' = <<"travel", 0, << 0 >> \o ChainItems>>
    PROVE  Chained!Next
BY DEF Chained!Next, Chained!Travel, Chained!Returns

LEMMA DestroyIsStep ==
    ASSUME ChainItems' = <<>>, called' = <<"destroy", 0, << 0 >>>>
    PROVE  Chained!Next
BY DEF Chained!Next, Chained!Clear, Chained!Returns

-----------------------------------------------------------------------------
(* What every operation of a list does *)

LEMMA FindKeeps ==
    ASSUME ChainInv, NEW n \in Nat, NEW way \in [0 .. n -> Places], Holds(n, way), NEW d,
           Reads("find", d, <<Position(Found(d))>>), program' = program
    PROVE  ChainInv' /\ Chained!Next
<1>1. Position(Found(d)) = Chained!Index(d) /\ Chained!Index(d) \in Int
  <2>1. CASE Found(d) = Ending /\ Chained!Index(d) = -1
    BY <2>1 DEF Position
  <2>2. CASE \E i \in 1 .. n : Found(d) = way[i] /\ ChainItems[i] = d /\ Chained!Index(d) = i - 1
    <3>1. PICK i \in 1 .. n : Found(d) = way[i] /\ Chained!Index(d) = i - 1
      BY <2>2
    <3> QED BY <3>1, PositionIs
  <2> QED BY <2>1, <2>2, FoundIs
<1>2. ChainInv' /\ ChainItems' = ChainItems /\ called' = <<"find", d, <<Chained!Index(d)>>>>
  BY <1>1, ReadsKeep
<1> QED BY <1>1, <1>2, FindIsStep

\* A list without prev: the node behind the i-th is taken out.
LEMMA UnlinkAfterKeeps ==
    ASSUME ChainInv, NEW n \in Nat, NEW way \in [0 .. n -> Places], Holds(n, way), NEW i \in 0 .. n - 1,
           program \notin Rings, UnlinkAfter(way[i]), Release(next[way[i]]), leaked' = leaked,
           program' = program
    PROVE  /\ ChainInv' /\ ChainItems' = RemoveAt(ChainItems, i + 1)
           /\ data[next[way[i]]] = ChainItems[i + 1]
<1>1. i + 1 \in 1 .. n /\ (i + 1) - 1 = i
  OBVIOUS
<1>2. next[way[i]] = way[i + 1]
  BY <1>1 DEF Holds, IsPath
<1>3. /\ next' = [next EXCEPT ![way[(i + 1) - 1]] = next[way[i + 1]], ![way[i + 1]] = Null]
      /\ prev' = prev
  BY <1>1, <1>2 DEF UnlinkAfter
<1>4. Release(way[i + 1])
  BY <1>2
<1>5. ChainShape
  BY DEF ChainInv
<1>6. data[way[i + 1]] = ChainItems[i + 1]
  BY <1>1, <1>5, ItemsAre DEF ItemsFollow, Along
<1> QED BY <1>1, <1>2, <1>3, <1>4, <1>5, <1>6, CutKeeps

LEMMA NoHeadKeeps ==
    ASSUME ChainInv, program = "nohead", NoHeadNext, program' = program
    PROVE  ChainInv' /\ Chained!Next
<1>0. PICK n \in Nat : \E way \in [0 .. n -> Places] : Holds(n, way)
  BY DEF ChainInv
<1>1. PICK way \in [0 .. n -> Places] : Holds(n, way)
  BY <1>0
<1>2. way[0] = HEAD /\ 0 \in 0 .. n /\ program \notin Rings /\ Ending = Null
  BY <1>1 DEF Holds, IsPath, Rings, Ending
<1>a. Len(ChainItems) = n
  BY <1>1, ItemsAre DEF ItemsFollow, ChainInv
<1>3. CASE NoHeadInsert
  <2>1. PICK d \in Data : PutIn("insert", <<0, d>>, d, way[0], next[way[0]], << 0 >>, <<-1>>)
    BY <1>2, <1>3 DEF NoHeadInsert
  <2>2. /\ ChainInv'
        /\ \/ ChainItems' = InsertAt(ChainItems, 0 + 1, d) /\ called' = <<"insert", <<0, d>>, << 0 >>>>
           \/ ChainItems' = ChainItems /\ called' = <<"insert", <<0, d>>, <<-1>>>>
    BY <1>1, <1>2, <2>1, PutInKeeps
  <2> QED BY <1>2, <1>a, <2>2, InsertIsStep, RefusalIsStep
<1>4. CASE NoHeadDelete
  <2>1. CASE next[HEAD] = Null
    <3>1. n = 0
      <4>1. n # 0 => 1 \in 1 .. n /\ 1 - 1 = 0
        OBVIOUS
      <4>2. n # 0 => next[way[0]] \in Nodes
        BY <1>1, <4>1 DEF Holds, IsPath
      <4> QED BY <1>2, <2>1, <4>2, Ends
    <3>2. Reads("drop", 0, <<-1>>)
      BY <1>4, <2>1 DEF NoHeadDelete
    <3>3. ChainInv' /\ ChainItems' = ChainItems /\ called' = <<"drop", 0, <<-1>>>>
      BY <3>2, ReadsKeep
    <3> QED BY <1>a, <3>1, <3>3, NoTakeOutIsStep
  <2>2. CASE next[HEAD] # Null
    <3>1. 0 \in 0 .. n - 1
      BY <1>1, <1>2, <2>2 DEF Holds, IsPath
    <3>2. UnlinkAfter(way[0]) /\ Release(next[way[0]]) /\ leaked' = leaked /\ called' = <<"drop", 0, << 0 >>>>
      BY <1>2, <1>4, <2>2 DEF NoHeadDelete, Done
    <3>3. ChainInv' /\ ChainItems' = RemoveAt(ChainItems, 0 + 1)
      BY <1>1, <1>2, <3>1, <3>2, UnlinkAfterKeeps
    <3>4. 1 \in 1 .. Len(ChainItems) /\ 0 + 1 = 1
      BY <1>a, <3>1
    <3> QED BY <1>a, <3>2, <3>3, <3>4, TakeOutIsStep
  <2> QED BY <2>1, <2>2
<1>5. CASE NoHeadFind
  <2>1. PICK d \in Data : Reads("find", d, <<Position(Found(d))>>)
    BY <1>5 DEF NoHeadFind
  <2> QED BY <1>1, <2>1, ReadsKeep, FindKeeps
<1>6. CASE Travel
  BY <1>6, ReadsKeep, TravelIsStep DEF Travel
<1>7. CASE Destroy
  BY <1>7, DestroyKeeps, DestroyIsStep
<1> QED BY <1>3, <1>4, <1>5, <1>6, <1>7 DEF NoHeadNext

LEMMA HeadKeeps ==
    ASSUME ChainInv, program = "head", HeadNext, program' = program
    PROVE  ChainInv' /\ Chained!Next
<1>0. PICK n \in Nat : \E way \in [0 .. n -> Places] : Holds(n, way)
  BY DEF ChainInv
<1>1. PICK way \in [0 .. n -> Places] : Holds(n, way)
  BY <1>0
<1>2. ListLength = n /\ (\A k \in 0 .. n : At[k] = way[k]) /\ program \notin Rings
  BY <1>1, ReachableIsOn, AtIsPath DEF Holds, ChainInv, ChainShape, Rings
<1>a. Len(ChainItems) = n
  BY <1>1, ItemsAre DEF ItemsFollow, ChainInv
<1>3. CASE HeadInsertAt
  <2>1. PICK i \in -1 .. Cardinality(Nodes) + 1, d \in Data :
            \/ \E code \in {-1, -3} : Reads("insert", <<i, d>>, <<code>>)
            \/ i \in 0 .. ListLength /\ PutIn("insert", <<i, d>>, d, At[i], next[At[i]], << 0 >>, <<-2>>)
    BY <1>3 DEF HeadInsertAt
  <2>2. CASE \E code \in {-1, -3} : Reads("insert", <<i, d>>, <<code>>)
    BY <2>2, ReadsKeep, RefusalIsStep
  <2>3. CASE i \in 0 .. ListLength /\ PutIn("insert", <<i, d>>, d, At[i], next[At[i]], << 0 >>, <<-2>>)
    <3>1. i \in 0 .. n /\ At[i] = way[i]
      BY <1>2, <2>3
    <3>2. PutIn("insert", <<i, d>>, d, way[i], next[way[i]], << 0 >>, <<-2>>)
      BY <2>3, <3>1
    <3>3. /\ ChainInv'
          /\ \/ ChainItems' = InsertAt(ChainItems, i + 1, d) /\ called' = <<"insert", <<i, d>>, << 0 >>>>
             \/ ChainItems' = ChainItems /\ called' = <<"insert", <<i, d>>, <<-2>>>>
      BY <1>1, <3>1, <3>2, PutInKeeps
    <3> QED BY <1>a, <3>1, <3>3, InsertIsStep, RefusalIsStep
  <2> QED BY <2>1, <2>2, <2>3
<1>4. CASE HeadOrderInsert
  <2>1. PICK d \in Data : PutIn("order_insert", d, d, Before(d), next[Before(d)], << 0 >>, <<-1>>)
    BY <1>4 DEF HeadOrderInsert
  <2>2. PICK i \in 0 .. n : /\ Before(d) = way[i]
                            /\ \A k \in 1 .. n : k \in 1 .. i <=> \A j \in 1 .. k : ChainItems[j] < d
    BY <1>1, BeforeIs
  <2>3. /\ ChainInv'
        /\ \/ ChainItems' = InsertAt(ChainItems, i + 1, d) /\ called' = <<"order_insert", d, << 0 >>>>
           \/ ChainItems' = ChainItems /\ called' = <<"order_insert", d, <<-1>>>>
    BY <1>1, <2>1, <2>2, PutInKeeps
  <2> QED BY <1>a, <2>2, <2>3, OrderInsertIsStep
<1>5. CASE HeadDeleteAt
  <2>1. PICK i \in -1 .. Cardinality(Nodes) :
            \/ i \notin 0 .. ListLength - 1 /\ \E code \in {<<-1>>, <<-2>>, <<>>} : Reads("delete_at", i, code)
            \/ /\ i \in 0 .. ListLength - 1
               /\ UnlinkAfter(At[i]) /\ Release(next[At[i]]) /\ leaked' = leaked
               /\ called' = <<"delete_at", i, <<0, data[next[At[i]]]>>>>
    BY <1>2, <1>5 DEF HeadDeleteAt, Done
  <2>2. CASE i \notin 0 .. ListLength - 1 /\ \E code \in {<<-1>>, <<-2>>, <<>>} : Reads("delete_at", i, code)
    <3>1. PICK code \in {<<-1>>, <<-2>>, <<>>} : Reads("delete_at", i, code)
      BY <2>2
    <3>2. ChainInv' /\ ChainItems' = ChainItems /\ called' = <<"delete_at", i, code>>
      BY <3>1, ReadsKeep
    <3> QED BY <1>2, <1>a, <2>2, <3>2, NoTakeOutIsStep
  <2>3. CASE /\ i \in 0 .. ListLength - 1
             /\ UnlinkAfter(At[i]) /\ Release(next[At[i]]) /\ leaked' = leaked
             /\ called' = <<"delete_at", i, <<0, data[next[At[i]]]>>>>
    <3>1. i \in 0 .. n - 1 /\ i \in 0 .. n /\ i + 1 \in 1 .. n /\ (i + 1) - 1 = i
      BY <1>2, <2>3
    <3>2. UnlinkAfter(way[i]) /\ Release(next[way[i]])
      BY <1>2, <2>3, <3>1
    <3>3. /\ ChainInv' /\ ChainItems' = RemoveAt(ChainItems, i + 1)
          /\ data[next[way[i]]] = ChainItems[i + 1]
      BY <1>1, <1>2, <2>3, <3>1, <3>2, UnlinkAfterKeeps
    <3>4. called' = <<"delete_at", i, <<0, ChainItems[i + 1]>>>>
      BY <1>2, <2>3, <3>1, <3>3
    <3> QED BY <1>a, <3>1, <3>3, <3>4, TakeOutIsStep
  <2> QED BY <2>1, <2>2, <2>3
<1>6. CASE HeadDelete
  <2>1. PICK d \in Data :
            IF Position(Found(d)) = -1
            THEN Reads("delete", d, <<-1>>)
            ELSE /\ UnlinkAfter(At[Position(Found(d))]) /\ Release(next[At[Position(Found(d))]])
                 /\ leaked' = leaked /\ called' = <<"delete", d, << 0 >>>>
    BY <1>6 DEF HeadDelete, Done
  <2>2. CASE Found(d) = Ending /\ Chained!Index(d) = -1
    <3>1. Reads("delete", d, <<-1>>)
      BY <2>1, <2>2 DEF Position
    <3>2. ChainInv' /\ ChainItems' = ChainItems /\ called' = <<"delete", d, <<-1>>>>
      BY <3>1, ReadsKeep
    <3> QED BY <1>a, <2>2, <3>2, NoTakeOutIsStep
  <2>3. CASE \E i \in 1 .. n : Found(d) = way[i] /\ ChainItems[i] = d /\ Chained!Index(d) = i - 1
    <3>1. PICK i \in 1 .. n : Found(d) = way[i] /\ ChainItems[i] = d /\ Chained!Index(d) = i - 1
      BY <2>3
    <3>2. Position(Found(d)) = i - 1 /\ i - 1 \in 0 .. n - 1 /\ i - 1 \in 0 .. n /\ (i - 1) + 1 = i
      BY <1>1, <3>1, PositionIs
    <3>3. /\ UnlinkAfter(way[i - 1]) /\ Release(next[way[i - 1]])
          /\ leaked' = leaked /\ called' = <<"delete", d, << 0 >>>>
      BY <1>2, <2>1, <3>2
    <3>4. ChainInv' /\ ChainItems' = RemoveAt(ChainItems, i)
      BY <1>1, <1>2, <3>2, <3>3, UnlinkAfterKeeps
    <3> QED BY <1>a, <3>1, <3>3, <3>4, TakeOutIsStep
  <2> QED BY <1>1, <2>2, <2>3, FoundIs
<1>7. CASE Travel
  BY <1>7, ReadsKeep, TravelIsStep DEF Travel
<1>8. CASE Destroy
  BY <1>8, DestroyKeeps, DestroyIsStep
<1> QED BY <1>3, <1>4, <1>5, <1>6, <1>7, <1>8 DEF HeadNext

\* A ring: a node is taken out, or the end was found.
LEMMA TakeOutKeeps ==
    ASSUME ChainInv, NEW n \in Nat, NEW way \in [0 .. n -> Places], Holds(n, way),
           NEW m, m = Ending \/ \E i \in 1 .. n : m = way[i],
           NEW name, NEW args, NEW result,
           program \in Rings, TakeOut(m, name, args, result), program' = program
    PROVE  /\ ChainInv'
           /\ \/ m = Ending /\ ChainItems' = ChainItems /\ called' = <<name, args, <<-1>>>>
              \/ \E i \in 1 .. n : /\ m = way[i] /\ ChainItems' = RemoveAt(ChainItems, i)
                                   /\ called' = <<name, args, result>>
<1>1. CASE m = Ending
  <2>1. Reads(name, args, <<-1>>)
    BY <1>1 DEF TakeOut
  <2> QED BY <1>1, <2>1, ReadsKeep
<1>2. CASE m # Ending
  <2>1. PICK i \in 1 .. n : m = way[i]
    BY <1>2
  <2>2. Unlink(way[i]) /\ Release(way[i]) /\ leaked' = leaked /\ called' = <<name, args, result>>
    BY <1>2, <2>1 DEF TakeOut, Done
  <2>3. prev[way[i]] = way[i - 1]
    BY DEF Holds, IsPath
  <2>4. /\ next' = [next EXCEPT ![way[i - 1]] = next[way[i]], ![way[i]] = Null]
        /\ prev' = [prev EXCEPT ![next[way[i]]] = way[i - 1], ![way[i]] = Null]
    BY <2>2, <2>3 DEF Unlink
  <2>5. ChainShape
    BY DEF ChainInv
  <2>6. ChainInv' /\ ChainItems' = RemoveAt(ChainItems, i)
    BY <2>2, <2>4, <2>5, CutKeeps
  <2> QED BY <2>1, <2>2, <2>6
<1> QED BY <1>1, <1>2

LEMMA RingKeeps ==
    ASSUME ChainInv, program \in Rings, LlistNext, program' = program
    PROVE  ChainInv' /\ Chained!Next
<1>0. PICK n \in Nat : \E way \in [0 .. n -> Places] : Holds(n, way)
  BY DEF ChainInv
<1>1. PICK way \in [0 .. n -> Places] : Holds(n, way)
  BY <1>0
<1>2. /\ way[0] = HEAD /\ prev[HEAD] = way[n] /\ next[way[n]] = HEAD /\ Ending = HEAD
      /\ 0 \in 0 .. n /\ n \in 0 .. n
  BY <1>1 DEF Holds, IsPath, Ending
<1>a. Len(ChainItems) = n /\ ListLength = n /\ ChainItems \in Seq(Data \cup {Null})
  BY <1>1, ItemsAre DEF ItemsFollow, ChainInv
<1>3. ASSUME NEW d \in Data, PutIn("insert", <<0, d>>, d, HEAD, next[HEAD], << 0 >>, <<-1>>)
      PROVE  ChainInv' /\ Chained!Next
  <2>1. PutIn("insert", <<0, d>>, d, way[0], next[way[0]], << 0 >>, <<-1>>)
    BY <1>2, <1>3
  <2>2. /\ ChainInv'
        /\ \/ ChainItems' = InsertAt(ChainItems, 0 + 1, d) /\ called' = <<"insert", <<0, d>>, << 0 >>>>
           \/ ChainItems' = ChainItems /\ called' = <<"insert", <<0, d>>, <<-1>>>>
    BY <1>1, <1>2, <2>1, PutInKeeps
  <2> QED BY <1>2, <1>a, <2>2, InsertIsStep, RefusalIsStep
<1>4. ASSUME NEW d \in Data, InsertBackward("insert", d) PROVE ChainInv' /\ Chained!Next
  <2>1. PutIn("insert", <<n, d>>, d, way[n], next[way[n]], << 0 >>, <<-1>>)
    BY <1>2, <1>4, <1>a DEF InsertBackward
  <2>2. /\ ChainInv'
        /\ \/ ChainItems' = InsertAt(ChainItems, n + 1, d) /\ called' = <<"insert", <<n, d>>, << 0 >>>>
           \/ ChainItems' = ChainItems /\ called' = <<"insert", <<n, d>>, <<-1>>>>
    BY <1>1, <1>2, <2>1, PutInKeeps
  <2> QED BY <1>2, <1>a, <2>2, InsertIsStep, RefusalIsStep
<1>5. CASE Insert
  BY <1>3, <1>4, <1>5 DEF Insert, InsertForward
<1>6. CASE InsertWrong
  <2>1. PICK d \in Data : /\ HasMemory /\ Allocate(New, d) /\ leaked' = leaked \cup {New}
                          /\ UNCHANGED <<next, prev>> /\ called' = <<"insert", <<0, d>>, <<-3>>>>
    BY <1>6 DEF InsertWrong, Done
  <2>2. /\ live' = live \cup {New} /\ boxes \subseteq boxes' /\ boxes' \subseteq boxes \cup {New}
        /\ data' = [data EXCEPT ![New] = d]
    BY <2>1 DEF Allocate
  <2>3. ChainInv' /\ ChainItems' = ChainItems
    BY <2>1, <2>2, LossKeeps
  <2> QED BY <2>1, <2>3, RefusalIsStep
<1>7. CASE InsertNoData
  <2>1. PICK d \in Data : /\ HasMemory /\ live' = live \cup {New} /\ leaked' = leaked \cup {New}
                          /\ UNCHANGED <<next, prev, data, boxes>> /\ called' = <<"insert", <<0, d>>, <<-2>>>>
    BY <1>7 DEF InsertNoData, Done
  <2>2. ChainInv' /\ ChainItems' = ChainItems
    BY <2>1, LossKeeps
  <2> QED BY <2>1, <2>2, RefusalIsStep
<1>8. CASE Delete \/ Fetch
  <2>1. PICK d \in Data : TakeOut(Found(d), "delete", d, << 0 >>) \/ TakeOut(Found(d), "fetch", d, <<0, d>>)
    BY <1>8 DEF Delete, Fetch
  <2>2. PICK name \in {"delete", "fetch"} :
            TakeOut(Found(d), name, d, IF name = "delete" THEN << 0 >> ELSE <<0, d>>)
    BY <2>1
  <2> DEFINE result == IF name = "delete" THEN << 0 >> ELSE <<0, d>>
  <2>3. \/ Found(d) = Ending /\ Chained!Index(d) = -1
        \/ \E i \in 1 .. n : Found(d) = way[i] /\ ChainItems[i] = d /\ Chained!Index(d) = i - 1
    BY <1>1, FoundIs
  <2>4. /\ ChainInv'
        /\ \/ /\ Found(d) = Ending /\ ChainItems' = ChainItems
              /\ called' = <<name, d, <<-1>>>>
           \/ \E i \in 1 .. n : /\ Found(d) = way[i] /\ ChainItems' = RemoveAt(ChainItems, i)
                                /\ called' = <<name, d, result>>
    <3> HIDE DEF result
    <3>1. TakeOut(Found(d), name, d, result)
      BY <2>2 DEF result
    <3>2. Found(d) = Ending \/ \E i \in 1 .. n : Found(d) = way[i]
      BY <2>3
    <3> QED BY <1>1, <3>1, <3>2, TakeOutKeeps
  <2>5. \A i \in 1 .. n : way[i] # Ending /\ \A k \in 1 .. n : way[i] = way[k] => i = k
    BY <1>1, Ends DEF Holds, IsPath
  <2>6. CASE Found(d) = Ending
    <3>1. Chained!Index(d) = -1 /\ ChainItems' = ChainItems /\ called' = <<name, d, <<-1>>>>
      BY <2>3, <2>4, <2>5, <2>6
    <3> QED BY <1>a, <2>4, <3>1, NoTakeOutIsStep
  <2>7. CASE Found(d) # Ending
    <3>1. PICK i \in 1 .. n : /\ ChainItems[i] = d /\ Chained!Index(d) = i - 1
                              /\ ChainItems' = RemoveAt(ChainItems, i) /\ called' = <<name, d, result>>
      BY <2>3, <2>4, <2>5, <2>7
    <3>2. called' = <<name, d, IF name \in {"delete", "drop"} THEN << 0 >> ELSE <<0, ChainItems[i]>>>>
      BY <3>1
    <3> QED BY <1>a, <2>4, <3>1, <3>2, TakeOutIsStep
  <2> QED BY <2>6, <2>7
<1>9. CASE FetchFirst
  <2>1. \/ n = 0 /\ next[HEAD] = Ending
        \/ 1 \in 1 .. n /\ next[HEAD] = way[1] /\ way[1] # Ending /\ data[way[1]] = ChainItems[1]
    <3>1. CASE n = 0
      BY <1>2, <3>1
    <3>2. CASE n # 0
      <4>1. 1 \in 1 .. n /\ 1 - 1 = 0
        BY <3>2
      <4>2. next[HEAD] = way[1] /\ way[1] # Ending
        BY <1>1, <1>2, <4>1, Ends DEF Holds, IsPath
      <4>3. data[way[1]] = ChainItems[1]
        BY <1>1, <4>1, ItemsAre DEF ItemsFollow, Along, ChainInv
      <4> QED BY <4>1, <4>2, <4>3
    <3> QED BY <3>1, <3>2
  <2> DEFINE result == IF next[HEAD] = Ending THEN <<-1>> ELSE <<0, data[next[HEAD]]>>
  <2>2. /\ ChainInv'
        /\ \/ next[HEAD] = Ending /\ ChainItems' = ChainItems /\ called' = <<"pop", 0, <<-1>>>>
           \/ \E i \in 1 .. n : /\ next[HEAD] = way[i] /\ ChainItems' = RemoveAt(ChainItems, i)
                                /\ called' = <<"pop", 0, result>>
    <3>1. TakeOut(next[HEAD], "pop", 0, result)
      BY <1>9 DEF FetchFirst
    <3>2. next[HEAD] = Ending \/ \E i \in 1 .. n : next[HEAD] = way[i]
      BY <2>1
    <3> HIDE DEF result
    <3> QED BY <1>1, <3>1, <3>2, TakeOutKeeps
  <2>3. \A i \in 1 .. n : way[i] # Ending /\ \A k \in 1 .. n : way[i] = way[k] => i = k
    BY <1>1, Ends DEF Holds, IsPath
  <2>4. CASE n = 0
    <3>1. ChainItems' = ChainItems /\ called' = <<"pop", 0, <<-1>>>>
      BY <2>2, <2>4
    <3> QED BY <1>a, <2>2, <2>4, <3>1, NoTakeOutIsStep
  <2>5. CASE n # 0
    <3>1. 1 \in 1 .. n /\ next[HEAD] = way[1] /\ way[1] # Ending /\ data[way[1]] = ChainItems[1]
      BY <2>1, <2>5
    <3>2. ChainItems' = RemoveAt(ChainItems, 1) /\ called' = <<"pop", 0, <<0, ChainItems[1]>>>>
      BY <2>2, <2>3, <3>1
    <3> QED BY <1>a, <2>2, <3>1, <3>2, TakeOutIsStep
  <2> QED BY <2>4, <2>5
<1>10. CASE Find
  <2>1. PICK d \in Data : Reads("find", d, <<Position(Found(d))>>)
    BY <1>10 DEF Find
  <2> QED BY <1>1, <2>1, FindKeeps
<1>15. CASE Travel
  BY <1>15, ReadsKeep, TravelIsStep DEF Travel
<1>11. CASE Destroy
  BY <1>11, DestroyKeeps, DestroyIsStep
<1>12. CASE ListAdd
  BY <1>3, <1>12 DEF ListAdd
<1>13. CASE StackPush
  BY <1>3, <1>13 DEF StackPush, InsertForward
<1>14. CASE QueueEn
  <2>1. PICK d \in Data, code \in {0, -1} :
            PutIn("queue_en", d, d, way[n], next[way[n]], <<code>>, <<code>>)
    BY <1>2, <1>14 DEF QueueEn
  <2>2. /\ ChainInv' /\ called' = <<"queue_en", d, <<code>>>>
        /\ ChainItems' = InsertAt(ChainItems, n + 1, d) \/ ChainItems' = ChainItems
    BY <1>1, <1>2, <2>1, PutInKeeps
  <2>3. d \in Data \cup {Null}
    OBVIOUS
  <2> QED BY <1>a, <2>2, <2>3, EnqueueIsStep
<1> QED BY <1>5, <1>6, <1>7, <1>8, <1>9, <1>10, <1>11, <1>12, <1>13, <1>14, <1>15
        DEF LlistNext, StackPop, QueueDe

LEMMA ChainKept ==
    ASSUME ChainInv, [NextStructures]_structureVars
    PROVE  ChainInv' /\ [Chained!Next]_(Chained!abstractVars)
<1>1. CASE OnChain({"nohead"}, NoHeadNext)
  BY <1>1, NoHeadKeeps DEF OnChain
<1>2. CASE OnChain({"head"}, HeadNext)
  BY <1>2, HeadKeeps DEF OnChain
<1>3. CASE OnChain(Rings, LlistNext)
  BY <1>3, RingKeeps DEF OnChain
<1>4. CASE UNCHANGED <<program, chainVars>>
  BY <1>4, SameKeeps DEF chainVars, Chained!abstractVars
<1>5. CASE OnArray(ArrayPrograms, ArrayNext) \/ OnClock(Turn) \/ OnRing(Kill) \/ OnPoly(PolyNext)
           \/ OnTree(TreeNext) \/ OnTrie(TrieNext) \/ OnFile(SaveNext) \/ UNCHANGED structureVars
  BY <1>4, <1>5 DEF OnArray, OnClock, OnRing, OnPoly, OnTree, OnTrie, OnFile, structureVars
<1> QED BY <1>1, <1>2, <1>3, <1>5 DEF NextStructures

LEMMA ChainInvariant == SpecStructures => []ChainInv
<1>1. InitStructures => ChainInv
  BY ChainStarts DEF InitStructures
<1>2. ChainInv /\ [NextStructures]_structureVars => ChainInv'
  BY ChainKept
<1> QED BY <1>1, <1>2, PTL DEF SpecStructures

\* In every list and ring, after any calls, and whichever allocations failed, the
\* nodes in use are those the list reaches and those that were lost: none was freed
\* that is still reached, and in a ring the pointers back undo those forth
\* (list.c, llist.c, list.h).
THEOREM NodesAreAccountedFor == SpecStructures => []HeapIsExact
<1>1. ChainInv => HeapIsExact
  BY HoldsIsExact DEF ChainInv
<1> QED BY <1>1, ChainInvariant, PTL

\* Every call of every list and ring does to its items, for any number of nodes
\* and any data, what Sequence says of the call of that name, and returns what
\* belongs to it (list.c, llist.c, list.h, stack.c, queue.c).
THEOREM ListsAreSequences == SpecStructures => ListsImplementSequence
<1>1. InitStructures => Chained!Init
  BY ChainStarts DEF InitStructures, ChainInit, Chained!Init
<1>2. ChainInv /\ [NextStructures]_structureVars => [Chained!Next]_(Chained!abstractVars)
  BY ChainKept
<1> QED BY <1>1, <1>2, ChainInvariant, PTL DEF SpecStructures, ListsImplementSequence, Chained!Spec

-----------------------------------------------------------------------------
(* The structures in arrays *)

\* An array of z slots for values of V, and a stack and a ring in such an array.
HeldOf(z, V)  == [Slots(z) -> V \cup {Garbage}]
StackOf(z, V) == [data : HeldOf(z, V), top : -1 .. z - 1]
RingOf(z, V)  == [data : HeldOf(z, V), head : Slots(z), tail : Slots(z)]

IsStack(z, V, st) == z \in Nat /\ z > 1 /\ st \in StackOf(z, V)
IsRing(z, V, qu)  == z \in Nat /\ z > 1 /\ qu \in RingOf(z, V)

Held         == HeldOf(DATASIZE, Values)
ListRecords  == [data : Held, last : -1 .. DATASIZE - 1]
StackRecords == StackOf(DATASIZE, Values)
RingRecords  == RingOf(DATASIZE, Values)

ArrayInv ==
    /\ program = "sqstack" => me \in StackRecords
    /\ program = "squeue" => me \in RingRecords
    /\ program \notin {"sqstack", "squeue"} => me \in ListRecords

LEMMA SlotsAre ==
    ASSUME NEW z, NEW V, z \in Nat, z > 1
    PROVE  /\ \A h \in HeldOf(z, V) : Cardinality(DOMAIN h) = z
           /\ Slots(z) = 0 .. z - 1
<1>1. 0 \in Int /\ z - 1 \in Int /\ 0 <= z - 1 /\ ((z - 1) - 0) + 1 = z
  OBVIOUS
<1>2. Cardinality(0 .. z - 1) = z
  BY <1>1, FS_Interval
<1> QED BY <1>2 DEF HeldOf, Slots

LEMMA SizeIs == DATASIZE \in Nat /\ DATASIZE > 1 /\ \A h \in Held : Cardinality(DOMAIN h) = DATASIZE
<1>1. DATASIZE \in Nat /\ DATASIZE > 1
  BY ArrayAssumption
<1> QED BY <1>1, SlotsAre DEF Held, HeldOf

\* A sequence is the function of its items.
LEMMA ItemsInArray ==
    ASSUME NEW S, NEW n \in Nat, NEW f \in [1 .. n -> S]
    PROVE  f \in Seq(S) /\ Len(f) = n
OBVIOUS

LEMMA ListItemsAre ==
    ASSUME NEW l \in ListRecords
    PROVE  /\ l.last \in -1 .. DATASIZE - 1 /\ l.last + 1 \in Nat /\ l.data \in Held
           /\ ListItems(l) \in Seq(Values \cup {Garbage}) /\ Len(ListItems(l)) = l.last + 1
           /\ \A k \in 1 .. l.last + 1 : ListItems(l)[k] = l.data[k - 1]
<1>1. l.last \in -1 .. DATASIZE - 1 /\ l.last + 1 \in Nat /\ l.data \in Held
  BY SizeIs DEF ListRecords
<1>2. \A k \in 1 .. l.last + 1 : k - 1 \in Slots(DATASIZE)
  BY <1>1, SizeIs DEF Slots
<1>3. ListItems(l) \in [1 .. l.last + 1 -> Values \cup {Garbage}]
  BY <1>1, <1>2 DEF ListItems, Held, HeldOf
<1>4. \A k \in 1 .. l.last + 1 : ListItems(l)[k] = l.data[k - 1]
  BY DEF ListItems
<1> HIDE DEF ListItems
<1> QED BY <1>1, <1>3, <1>4, ItemsInArray

LEMMA InsertedIs ==
    ASSUME NEW l \in ListRecords, ~Full(l), NEW i \in 0 .. l.last + 1, NEW d \in Values
    PROVE  /\ Inserted(l, i, d) \in ListRecords
           /\ ListItems(Inserted(l, i, d)) = InsertAt(ListItems(l), i + 1, d)
<1> DEFINE m == Inserted(l, i, d)
<1>1. /\ l.last \in -1 .. DATASIZE - 2 /\ l.last + 1 \in Nat /\ l.data \in Held /\ i \in 0 .. l.last + 1
      /\ ListItems(l) \in Seq(Values \cup {Garbage}) /\ Len(ListItems(l)) = l.last + 1
      /\ \A k \in 1 .. l.last + 1 : ListItems(l)[k] = l.data[k - 1]
  BY ListItemsAre, SizeIs DEF Full
<1>2. /\ m.last = l.last + 1
      /\ m.data = [j \in Slots(DATASIZE) |->
                     IF j \in i + 1 .. l.last + 1 THEN l.data[j - 1]
                     ELSE IF j = i THEN d ELSE l.data[j]]
  BY DEF Inserted
<1>3. m.data \in Held
  <2>1. \A j \in Slots(DATASIZE) : /\ l.data[j] \in Values \cup {Garbage}
                                   /\ j \in i + 1 .. l.last + 1 => l.data[j - 1] \in Values \cup {Garbage}
    <3> TAKE j \in Slots(DATASIZE)
    <3>1. j \in i + 1 .. l.last + 1 => j - 1 \in Slots(DATASIZE)
      BY <1>1, SizeIs DEF Slots
    <3> QED BY <1>1, <3>1 DEF Held, HeldOf
  <2> HIDE DEF m
  <2> QED BY <1>2, <2>1 DEF Held, HeldOf
<1>4. m \in ListRecords
  <2>1. m = [data |-> m.data, last |-> m.last]
    BY DEF Inserted
  <2>2. m.last \in -1 .. DATASIZE - 1
    BY <1>1, <1>2, SizeIs
  <2> HIDE DEF m
  <2> QED BY <1>3, <2>1, <2>2 DEF ListRecords
<1>5. ListItems(m) = WithIn(ListItems(l), i, d)
  <2>1. ASSUME NEW k \in 1 .. l.last + 1 + 1
        PROVE  m.data[k - 1] = IF k <= i THEN ListItems(l)[k]
                               ELSE IF k = i + 1 THEN d ELSE ListItems(l)[k - 1]
    <3>1. k - 1 \in Slots(DATASIZE)
      BY <1>1, SizeIs DEF Slots
    <3>2. CASE k <= i
      <4>1. k - 1 \notin i + 1 .. l.last + 1 /\ k - 1 # i /\ k \in 1 .. l.last + 1
        BY <1>1, <3>2
      <4> QED BY <1>1, <1>2, <3>1, <3>2, <4>1
    <3>3. CASE k = i + 1
      <4>1. k - 1 \notin i + 1 .. l.last + 1 /\ k - 1 = i /\ ~(k <= i)
        BY <1>1, <3>3
      <4> QED BY <1>2, <3>1, <3>3, <4>1
    <3>4. CASE k > i + 1
      <4>1. k - 1 \in i + 1 .. l.last + 1 /\ k - 1 \in 1 .. l.last + 1 /\ ~(k <= i) /\ k # i + 1
        BY <1>1, <3>4, SMTT(60)
      <4> QED BY <1>1, <1>2, <3>1, <4>1
    <3> QED BY <1>1, <3>2, <3>3, <3>4
  <2> HIDE DEF m
  <2>2. ListItems(m) = [k \in 1 .. l.last + 1 + 1 |-> m.data[k - 1]]
    BY <1>2 DEF ListItems
  <2> QED BY <1>1, <2>1, <2>2 DEF WithIn
<1>6. InsertAt(ListItems(l), i + 1, d) = WithIn(ListItems(l), i, d)
  <2>1. d \in Values \cup {Garbage} /\ i \in 0 .. Len(ListItems(l))
    BY <1>1
  <2> QED BY <1>1, <2>1, InsertAtIs
<1> QED BY <1>4, <1>5, <1>6

LEMMA DeletedIs ==
    ASSUME NEW l \in ListRecords, NEW i \in 0 .. l.last
    PROVE  /\ sqlist_delete(l, i) \in ListRecords
           /\ ListItems(sqlist_delete(l, i)) = RemoveAt(ListItems(l), i + 1)
<1> DEFINE m == sqlist_delete(l, i)
<1>1. /\ l.last \in 0 .. DATASIZE - 1 /\ l.last + 1 \in Nat /\ l.data \in Held /\ i \in 0 .. l.last
      /\ ListItems(l) \in Seq(Values \cup {Garbage}) /\ Len(ListItems(l)) = l.last + 1
      /\ \A k \in 1 .. l.last + 1 : ListItems(l)[k] = l.data[k - 1]
  BY ListItemsAre, SizeIs
<1>2. /\ m.last = l.last - 1
      /\ m.data = [j \in Slots(DATASIZE) |-> IF j \in i .. l.last - 1 THEN l.data[j + 1] ELSE l.data[j]]
  BY DEF sqlist_delete
<1>3. m.data \in Held
  <2>1. \A j \in Slots(DATASIZE) : /\ l.data[j] \in Values \cup {Garbage}
                                   /\ j \in i .. l.last - 1 => l.data[j + 1] \in Values \cup {Garbage}
    <3> TAKE j \in Slots(DATASIZE)
    <3>1. j \in i .. l.last - 1 => j + 1 \in Slots(DATASIZE)
      BY <1>1, SizeIs DEF Slots
    <3> QED BY <1>1, <3>1 DEF Held, HeldOf
  <2> HIDE DEF m
  <2> QED BY <1>2, <2>1 DEF Held, HeldOf
<1>4. m \in ListRecords
  <2>1. m = [data |-> m.data, last |-> m.last]
    BY DEF sqlist_delete
  <2>2. m.last \in -1 .. DATASIZE - 1
    BY <1>1, <1>2, SizeIs
  <2> HIDE DEF m
  <2> QED BY <1>3, <2>1, <2>2 DEF ListRecords
<1>5. ListItems(m) = Without(ListItems(l), i + 1)
  <2>1. ASSUME NEW k \in 1 .. l.last
        PROVE  m.data[k - 1] = IF k < i + 1 THEN ListItems(l)[k] ELSE ListItems(l)[k + 1]
    <3>1. k - 1 \in Slots(DATASIZE) /\ k \in 1 .. l.last + 1 /\ k + 1 \in 1 .. l.last + 1
      BY <1>1, SizeIs DEF Slots
    <3>2. CASE k < i + 1
      <4>1. k - 1 \notin i .. l.last - 1
        BY <1>1, <3>2
      <4> QED BY <1>1, <1>2, <3>1, <3>2, <4>1
    <3>3. CASE ~ (k < i + 1)
      <4>1. k - 1 \in i .. l.last - 1 /\ (k - 1) + 1 = (k + 1) - 1
        BY <1>1, <3>3
      <4> QED BY <1>1, <1>2, <3>1, <3>3, <4>1
    <3> QED BY <3>2, <3>3
  <2> HIDE DEF m
  <2>2. ListItems(m) = [k \in 1 .. l.last |-> m.data[k - 1]]
    <3>1. m.last + 1 = l.last
      BY <1>1, <1>2
    <3> QED BY <3>1 DEF ListItems
  <2>3. Len(ListItems(l)) - 1 = l.last
    BY <1>1
  <2> QED BY <2>1, <2>2, <2>3 DEF Without
<1>6. RemoveAt(ListItems(l), i + 1) = Without(ListItems(l), i + 1)
  <2>1. i + 1 \in 1 .. Len(ListItems(l))
    BY <1>1
  <2> QED BY <1>1, <2>1, RemoveAtIs
<1> QED BY <1>4, <1>5, <1>6

LEMMA FoundInArray ==
    ASSUME NEW l \in ListRecords, NEW d
    PROVE  LET is == {k \in 1 .. Len(ListItems(l)) : ListItems(l)[k] = d}
               at == (IF is # {} THEN Min(is) ELSE 0) - 1
           IN  \/ sqlist_find(l, d) = at /\ at \in 0 .. l.last - 1 /\ ListItems(l)[at + 1] = d
               \/ sqlist_find(l, d) \in {-1, -2} /\ at = -1
               \/ sqlist_find(l, d) = -2 /\ at = l.last /\ l.last \in Nat
<1> DEFINE is == {k \in 1 .. Len(ListItems(l)) : ListItems(l)[k] = d}
           at == (IF is # {} THEN Min(is) ELSE 0) - 1
           found == {i \in 0 .. l.last - 1 : l.data[i] = d}
<1>1. /\ l.last \in -1 .. DATASIZE - 1 /\ l.last + 1 \in Nat
      /\ Len(ListItems(l)) = l.last + 1
      /\ \A k \in 1 .. l.last + 1 : ListItems(l)[k] = l.data[k - 1]
  BY ListItemsAre, SizeIs
<1>2. is = {k \in 1 .. l.last + 1 : l.data[k - 1] = d} /\ is \in SUBSET Nat
  BY <1>1
<1>3. is # {} => Min(is) \in is /\ \A k \in is : Min(is) <= k
  <2> HIDE DEF is
  <2>1. is # {} => \E m \in is : \A k \in is : m <= k
    BY <1>2, Least
  <2> QED BY <2>1 DEF Min
<1>4. \A i \in 0 .. l.last - 1 : i \in found <=> i + 1 \in is
  <2> TAKE i \in 0 .. l.last - 1
  <2>1. i + 1 \in 1 .. l.last + 1 /\ (i + 1) - 1 = i
    BY <1>1
  <2> HIDE DEF is
  <2> QED BY <1>2, <2>1
<1>5. CASE found # {}
  <2>1. PICK i \in found : \A j \in found : i <= j
    <3>1. found \in SUBSET Nat
      BY <1>1
    <3> HIDE DEF found
    <3> QED BY <1>5, <3>1, Least
  <2>2. i \in 0 .. l.last - 1 /\ i + 1 \in is
    BY <1>4, <2>1
  <2>3. Min(is) \in 1 .. l.last /\ Min(is) \in is /\ Min(is) <= i + 1
    <3>1. Min(is) \in is /\ Min(is) <= i + 1 /\ Min(is) \in 1 .. l.last + 1
      BY <1>1, <1>2, <1>3, <2>2
    <3> QED BY <1>1, <2>2, <3>1
  <2>4. Min(is) - 1 \in 0 .. l.last - 1 /\ (Min(is) - 1) + 1 = Min(is)
    BY <1>1, <2>3
  <2>5. Min(is) - 1 \in found
    BY <1>4, <2>3, <2>4
  <2>6. Min(is) - 1 = i
    BY <2>1, <2>2, <2>3, <2>5
  <2>7. \A x \in found : (\A j \in found : x <= j) => x = i
    <3>1. \A x \in found : x \in Int
      BY <1>1
    <3> QED BY <2>1, <3>1
  <2>8. sqlist_find(l, d) = i
    <3>1. ~ sqlist_isempty(l)
      BY <1>1, <2>2 DEF sqlist_isempty
    <3>2. sqlist_find(l, d) = CHOOSE x \in found : \A j \in found : x <= j
      BY <1>5, <3>1 DEF sqlist_find
    <3> HIDE DEF found
    <3> QED BY <2>1, <2>7, <3>2
  <2>9. at = i /\ ListItems(l)[at + 1] = d
    <3> HIDE DEF found
    <3> QED BY <2>2, <2>3, <2>6
  <2> QED BY <2>2, <2>8, <2>9
<1>6. CASE found = {}
  <2>1. sqlist_find(l, d) \in {-1, -2} /\ (l.last # -1 => sqlist_find(l, d) = -2)
    BY <1>6 DEF sqlist_find, sqlist_isempty
  <2>2. CASE is = {}
    BY <2>1, <2>2
  <2>3. CASE is # {}
    <3>1. Min(is) \in is /\ Min(is) \in 1 .. l.last + 1
      BY <1>1, <1>2, <1>3, <2>3
    <3>2. Min(is) - 1 \notin 0 .. l.last - 1
      <4> SUFFICES ASSUME Min(is) - 1 \in 0 .. l.last - 1 PROVE FALSE
        OBVIOUS
      <4>1. (Min(is) - 1) + 1 = Min(is)
        BY <3>1
      <4>2. Min(is) - 1 \in found
        BY <1>4, <3>1, <4>1
      <4> QED BY <1>6, <4>2
    <3>3. Min(is) - 1 = l.last /\ l.last \in Nat
      BY <1>1, <3>1, <3>2
    <3> QED BY <2>1, <2>3, <3>3
  <2> QED BY <2>2, <2>3
<1> QED BY <1>5, <1>6

-----------------------------------------------------------------------------
(* the stack *)

\* What lies where in a stack.
StackLaid(z, V, st) ==
    /\ st.top \in -1 .. z - 1 /\ st.top + 1 \in Nat /\ st.data \in HeldOf(z, V)
    /\ StackItems(st) \in Seq(V \cup {Garbage}) /\ Len(StackItems(st)) = st.top + 1
    /\ \A k \in 1 .. st.top + 1 : StackItems(st)[k] = st.data[k - 1]
    /\ StackFull(st) <=> st.top = z - 1

LEMMA StackItemsAre ==
    ASSUME NEW z, NEW V, NEW st, IsStack(z, V, st)
    PROVE  StackLaid(z, V, st)
<1> z \in Nat /\ z > 1 /\ st \in StackOf(z, V)
  BY DEF IsStack
<1>1. st.top \in -1 .. z - 1 /\ st.top + 1 \in Nat /\ st.data \in HeldOf(z, V)
  BY SlotsAre DEF StackOf
<1>2. \A k \in 1 .. st.top + 1 : k - 1 \in Slots(z)
  BY <1>1, SlotsAre DEF Slots
<1>3. StackItems(st) \in [1 .. st.top + 1 -> V \cup {Garbage}]
  BY <1>1, <1>2 DEF StackItems, HeldOf
<1>4. \A k \in 1 .. st.top + 1 : StackItems(st)[k] = st.data[k - 1]
  BY DEF StackItems
<1>5. StackFull(st) <=> st.top = z - 1
  BY <1>1, SlotsAre DEF StackFull
<1> HIDE DEF StackItems
<1> QED BY <1>1, <1>3, <1>4, <1>5, ItemsInArray DEF StackLaid

LEMMA PushedIs ==
    ASSUME NEW z, NEW V, NEW st, IsStack(z, V, st), ~StackFull(st), NEW d \in V
    PROVE  /\ IsStack(z, V, Pushed(st, d))
           /\ StackItems(Pushed(st, d)) = InsertAt(StackItems(st), Len(StackItems(st)) + 1, d)
<1> z \in Nat /\ z > 1 /\ st \in StackOf(z, V)
  BY DEF IsStack
<1> DEFINE m == Pushed(st, d)
           n == st.top + 1
<1>0. /\ st.top \in -1 .. z - 1 /\ n \in Nat /\ st.data \in HeldOf(z, V)
      /\ StackItems(st) \in Seq(V \cup {Garbage}) /\ Len(StackItems(st)) = n
      /\ \A k \in 1 .. n : StackItems(st)[k] = st.data[k - 1]
      /\ st.top # z - 1
  <2>1. StackLaid(z, V, st)
    BY StackItemsAre
  <2> QED BY <2>1 DEF StackLaid
<1>1. st.top \in -1 .. z - 2 /\ n \in Slots(z)
  BY <1>0, SlotsAre DEF Slots
<1>2. m.top = n /\ m.data = [st.data EXCEPT ![n] = d] /\ m = [data |-> m.data, top |-> m.top]
  BY DEF Pushed
<1> HIDE DEF m
<1>3. m.data \in HeldOf(z, V) /\ m.top \in -1 .. z - 1
  BY <1>0, <1>1, <1>2, SlotsAre DEF HeldOf
<1>4. IsStack(z, V, m)
  BY <1>2, <1>3 DEF IsStack, StackOf
<1>5. StackItems(m) = WithIn(StackItems(st), n, d)
  <2>1. ASSUME NEW k \in 1 .. n + 1
        PROVE  m.data[k - 1] = IF k <= n THEN StackItems(st)[k]
                               ELSE IF k = n + 1 THEN d ELSE StackItems(st)[k - 1]
    <3>1. k - 1 \in Slots(z)
      BY <1>1, SlotsAre DEF Slots
    <3>2. CASE k <= n
      <4>1. k - 1 # n /\ k \in 1 .. n
        BY <1>0, <3>2
      <4> QED BY <1>0, <1>2, <3>1, <3>2, <4>1 DEF HeldOf
    <3>3. CASE ~ (k <= n)
      <4>1. k - 1 = n /\ k = n + 1
        BY <1>0, <3>3
      <4> QED BY <1>0, <1>2, <3>1, <3>3, <4>1 DEF HeldOf
    <3> QED BY <3>2, <3>3
  <2>2. StackItems(m) = [k \in 1 .. n + 1 |-> m.data[k - 1]]
    BY <1>2 DEF StackItems
  <2> QED BY <1>0, <2>1, <2>2 DEF WithIn
<1>6. InsertAt(StackItems(st), n + 1, d) = WithIn(StackItems(st), n, d)
  <2>1. d \in V \cup {Garbage} /\ n \in 0 .. Len(StackItems(st))
    BY <1>0
  <2> QED BY <1>0, <2>1, InsertAtIs
<1> QED BY <1>0, <1>4, <1>5, <1>6 DEF m

LEMMA PoppedIs ==
    ASSUME NEW z, NEW V, NEW st, IsStack(z, V, st), ~st_isempty(st)
    PROVE  /\ IsStack(z, V, st_pop(st))
           /\ Len(StackItems(st)) \in 1 .. z
           /\ StackItems(st_pop(st)) = RemoveAt(StackItems(st), Len(StackItems(st)))
           /\ st_top(st) = StackItems(st)[Len(StackItems(st))]
<1> z \in Nat /\ z > 1 /\ st \in StackOf(z, V)
  BY DEF IsStack
<1> DEFINE m == st_pop(st)
           n == st.top + 1
<1>0. /\ st.top \in -1 .. z - 1 /\ st.data \in HeldOf(z, V)
      /\ StackItems(st) \in Seq(V \cup {Garbage}) /\ Len(StackItems(st)) = n
      /\ \A k \in 1 .. n : StackItems(st)[k] = st.data[k - 1]
  <2>1. StackLaid(z, V, st)
    BY StackItemsAre
  <2> QED BY <2>1 DEF StackLaid
<1>1. /\ st.top \in 0 .. z - 1 /\ n \in 1 .. z /\ st.data \in HeldOf(z, V)
      /\ StackItems(st) \in Seq(V \cup {Garbage}) /\ Len(StackItems(st)) = n
      /\ \A k \in 1 .. n : StackItems(st)[k] = st.data[k - 1]
  BY <1>0 DEF st_isempty
<1>2. m.top = st.top - 1 /\ m.data = st.data /\ m = [data |-> m.data, top |-> m.top]
  BY DEF st_pop, StackOf
<1> HIDE DEF m
<1>4. IsStack(z, V, m)
  BY <1>1, <1>2, SlotsAre DEF IsStack, StackOf
<1>5. StackItems(m) = Without(StackItems(st), n)
  <2>1. \A k \in 1 .. n - 1 : m.data[k - 1] = IF k < n THEN StackItems(st)[k] ELSE StackItems(st)[k + 1]
    BY <1>1, <1>2
  <2>2. m.top + 1 = Len(StackItems(st)) - 1 /\ m.top + 1 = n - 1
    BY <1>1, <1>2
  <2> QED BY <2>1, <2>2 DEF Without, StackItems
<1>6. RemoveAt(StackItems(st), n) = Without(StackItems(st), n)
  BY <1>1, RemoveAtIs
<1>7. st_top(st) = StackItems(st)[n]
  <2>1. n \in 1 .. n /\ n - 1 = st.top
    BY <1>1
  <2>2. StackItems(st)[n] = st.data[n - 1]
    BY <1>1, <2>1
  <2> QED BY <2>1, <2>2 DEF st_top
<1> QED BY <1>1, <1>4, <1>5, <1>6, <1>7 DEF m

-----------------------------------------------------------------------------
(* the ring *)

\* One time round is taken off what is beyond the last slot, or added.
LEMMA Wraps ==
    ASSUME NEW n \in Nat \ {0}
    PROVE  /\ \A a \in 0 .. n - 1 : a % n = a
           /\ \A a \in n .. 2 * n - 1 : a % n = a - n
           /\ \A a \in 1 - n .. -1 : a % n = a + n
<1>1. ASSUME NEW a \in Int, NEW b \in 0 .. n - 1, NEW k \in {-1, 0, 1}, a = b + k * n
      PROVE  a % n = b
  <2>1. a % n \in 0 .. n - 1 /\ a \div n \in Int /\ a = n * (a \div n) + (a % n)
    OBVIOUS
  <2> DEFINE e == (a \div n) - k
  <2>2. e \in Int /\ n * e = b - (a % n)
    BY <1>1, <2>1
  <2>3. CASE e >= 1
    <3>1. n * e >= n
      BY <2>2, <2>3
    <3> QED BY <2>1, <2>2, <3>1
  <2>4. CASE e <= -1
    <3>1. n * e <= -n
      BY <2>2, <2>4
    <3> QED BY <2>1, <2>2, <3>1
  <2>5. CASE e = 0
    BY <2>1, <2>2, <2>5
  <2> QED BY <2>2, <2>3, <2>4, <2>5
<1>2. ASSUME NEW a \in 0 .. n - 1 PROVE a % n = a
  <2>1. a = a + 0 * n
    OBVIOUS
  <2> QED BY <1>1, <2>1
<1>3. ASSUME NEW a \in n .. 2 * n - 1 PROVE a % n = a - n
  <2>1. a = (a - n) + 1 * n /\ a - n \in 0 .. n - 1 /\ a \in Int
    OBVIOUS
  <2> QED BY <1>1, <2>1
<1>4. ASSUME NEW a \in 1 - n .. -1 PROVE a % n = a + n
  <2>1. a = (a + n) + (-1) * n /\ a + n \in 0 .. n - 1 /\ a \in Int
    OBVIOUS
  <2> QED BY <1>1, <2>1
<1> QED BY <1>2, <1>3, <1>4

\* How many items there are between head and tail, and where the k-th is.
Span(z, qu)    == IF qu.tail >= qu.head THEN qu.tail - qu.head ELSE qu.tail - qu.head + z
Spot(z, qu, k) == IF qu.head + k < z THEN qu.head + k ELSE qu.head + k - z

\* What lies where in a ring.
RingLaid(z, V, qu) ==
    /\ qu.head \in 0 .. z - 1 /\ qu.tail \in 0 .. z - 1 /\ qu.data \in HeldOf(z, V)
    /\ Span(z, qu) \in 0 .. z - 1
    /\ \A k \in 0 .. z : Spot(z, qu, k) \in 0 .. z - 1
    /\ RingItems(qu) \in Seq(V \cup {Garbage}) /\ Len(RingItems(qu)) = Span(z, qu)
    /\ \A k \in 1 .. Span(z, qu) : RingItems(qu)[k] = qu.data[Spot(z, qu, k)]
    /\ \A i \in 0 .. z - 1 : After(qu, i) = IF i = z - 1 THEN 0 ELSE i + 1
    /\ Spot(z, qu, Span(z, qu)) = qu.tail

LEMMA RingIs ==
    ASSUME NEW z, NEW V, NEW qu, IsRing(z, V, qu)
    PROVE  RingLaid(z, V, qu)
<1> z \in Nat /\ z > 1 /\ qu \in RingOf(z, V)
  BY DEF IsRing
<1>1. /\ qu.head \in 0 .. z - 1 /\ qu.tail \in 0 .. z - 1 /\ qu.data \in HeldOf(z, V)
      /\ z \in Nat \ {0} /\ z > 1 /\ Cardinality(DOMAIN qu.data) = z
  BY SlotsAre DEF RingOf, Slots
<1>2. Span(z, qu) \in 0 .. z - 1 /\ \A k \in 0 .. z : Spot(z, qu, k) \in 0 .. z - 1
  BY <1>1 DEF Span, Spot
<1>3. /\ \A a \in 0 .. z - 1 : a % z = a
      /\ \A a \in z .. 2 * z - 1 : a % z = a - z
      /\ \A a \in 1 - z .. -1 : a % z = a + z
  BY <1>1, Wraps
<1>4. (qu.tail - qu.head) % z = Span(z, qu)
  <2>1. CASE qu.tail >= qu.head
    <3>1. qu.tail - qu.head \in 0 .. z - 1
      BY <1>1, <2>1
    <3> QED BY <1>3, <2>1, <3>1 DEF Span
  <2>2. CASE ~ (qu.tail >= qu.head)
    <3>1. qu.tail - qu.head \in 1 - z .. -1
      BY <1>1, <2>2
    <3> QED BY <1>3, <2>2, <3>1 DEF Span
  <2> QED BY <2>1, <2>2
<1>5. \A k \in 0 .. z : (qu.head + k) % z = Spot(z, qu, k)
  <2> TAKE k \in 0 .. z
  <2>1. CASE qu.head + k < z
    <3>1. qu.head + k \in 0 .. z - 1
      BY <1>1, <2>1
    <3> QED BY <1>3, <2>1, <3>1 DEF Spot
  <2>2. CASE ~ (qu.head + k < z)
    <3>1. qu.head + k \in z .. 2 * z - 1
      BY <1>1, <2>2
    <3>2. (qu.head + k) % z = (qu.head + k) - z
      BY <1>3, <3>1
    <3> QED BY <1>1, <2>2, <3>2 DEF Spot
  <2> QED BY <2>1, <2>2
<1>6. RingItems(qu) = [k \in 1 .. Span(z, qu) |-> qu.data[Spot(z, qu, k)]]
  <2>1. RingItems(qu) = [k \in 1 .. Span(z, qu) |-> qu.data[(qu.head + k) % z]]
    BY <1>1, <1>4 DEF RingItems
  <2>2. \A k \in 1 .. Span(z, qu) : k \in 0 .. z
    BY <1>1, <1>2
  <2> QED BY <1>5, <2>1, <2>2
<1>7. RingItems(qu) \in [1 .. Span(z, qu) -> V \cup {Garbage}]
  <2>1. \A k \in 1 .. Span(z, qu) : Spot(z, qu, k) \in Slots(z)
    BY <1>1, <1>2 DEF Slots
  <2> QED BY <1>1, <1>6, <2>1 DEF HeldOf
<1>8. \A i \in 0 .. z - 1 : After(qu, i) = IF i = z - 1 THEN 0 ELSE i + 1
  <2> TAKE i \in 0 .. z - 1
  <2>1. CASE i = z - 1
    <3>1. i + 1 \in z .. 2 * z - 1 /\ (i + 1) - z = 0
      BY <1>1, <2>1
    <3> QED BY <1>1, <1>3, <2>1, <3>1 DEF After
  <2>2. CASE i # z - 1
    <3>1. i + 1 \in 0 .. z - 1
      BY <1>1, <2>2
    <3> QED BY <1>1, <1>3, <2>2, <3>1 DEF After
  <2> QED BY <2>1, <2>2
<1>9. Spot(z, qu, Span(z, qu)) = qu.tail
  BY <1>1 DEF Span, Spot
<1>10. /\ RingItems(qu) \in Seq(V \cup {Garbage}) /\ Len(RingItems(qu)) = Span(z, qu)
       /\ \A k \in 1 .. Span(z, qu) : RingItems(qu)[k] = qu.data[Spot(z, qu, k)]
  <2>1. Span(z, qu) \in Nat
    BY <1>1, <1>2
  <2>2. \A k \in 1 .. Span(z, qu) : RingItems(qu)[k] = qu.data[Spot(z, qu, k)]
    BY <1>6
  <2> QED BY <1>7, <2>1, <2>2, ItemsInArray
<1> QED BY <1>1, <1>2, <1>8, <1>9, <1>10 DEF RingLaid

LEMMA QueuedIs ==
    ASSUME NEW z, NEW V, NEW qu, IsRing(z, V, qu), ~RingFull(qu), NEW d \in V
    PROVE  /\ IsRing(z, V, Queued(qu, d))
           /\ RingItems(Queued(qu, d)) = InsertAt(RingItems(qu), Len(RingItems(qu)) + 1, d)
<1> z \in Nat /\ z > 1 /\ qu \in RingOf(z, V)
  BY DEF IsRing
<1> DEFINE m == Queued(qu, d)
           t == After(qu, qu.tail)
           n == Span(z, qu)
<1>1. /\ qu.head \in 0 .. z - 1 /\ qu.tail \in 0 .. z - 1 /\ qu.data \in HeldOf(z, V)
      /\ z \in Nat /\ z > 1
      /\ n \in 0 .. z - 1
      /\ RingItems(qu) \in Seq(V \cup {Garbage}) /\ Len(RingItems(qu)) = n
      /\ \A k \in 1 .. n : RingItems(qu)[k] = qu.data[Spot(z, qu, k)]
      /\ t = IF qu.tail = z - 1 THEN 0 ELSE qu.tail + 1
      /\ t # qu.head
  <2>1. RingLaid(z, V, qu)
    BY RingIs
  <2> QED BY <2>1 DEF RingFull, RingLaid
<1>2. m.head = qu.head /\ m.tail = t /\ m.data = [qu.data EXCEPT ![t] = d]
      /\ m = [data |-> m.data, head |-> m.head, tail |-> m.tail]
  <2>1. qu = [data |-> qu.data, head |-> qu.head, tail |-> qu.tail]
    BY DEF RingOf
  <2>2. m = [qu EXCEPT !.tail = t, !.data[t] = d]
    BY Zenon DEF Queued
  <2>3. m = [data |-> [qu.data EXCEPT ![t] = d], head |-> qu.head, tail |-> t]
    <3> HIDE DEF m, t
    <3> QED BY <2>1, <2>2
  <2> HIDE DEF m, t
  <2> QED BY <2>3
<1> HIDE DEF m, t
<1>3. IsRing(z, V, m)
  <2>1. t \in Slots(z) /\ m.data \in HeldOf(z, V)
    BY <1>1, <1>2 DEF HeldOf, Slots
  <2> QED BY <1>1, <1>2, <2>1 DEF IsRing, RingOf, Slots
<1>4. Span(z, m) = n + 1 /\ n + 1 <= z - 1 /\ Spot(z, qu, n + 1) = t
  <2>1. CASE qu.tail = z - 1
    BY <1>1, <1>2, <2>1 DEF Span, Spot
  <2>2. CASE qu.tail # z - 1
    <3>1. t = qu.tail + 1 /\ m.tail = t /\ m.head = qu.head
      BY <1>1, <1>2, <2>2
    <3>2. CASE qu.tail >= qu.head
      <4>1. n = qu.tail - qu.head /\ Span(z, m) = t - qu.head
        BY <1>1, <3>1, <3>2 DEF Span
      <4>2. qu.head + (n + 1) = t /\ t < z
        BY <1>1, <2>2, <3>1, <4>1
      <4> QED BY <1>1, <3>1, <4>1, <4>2 DEF Spot
    <3>3. CASE ~ qu.tail >= qu.head
      <4>1. n = qu.tail - qu.head + z /\ ~ t >= qu.head
        BY <1>1, <3>1, <3>3 DEF Span
      <4>2. Span(z, m) = t - qu.head + z
        BY <3>1, <4>1 DEF Span
      <4>3. qu.head \in Nat /\ t \in Nat /\ z \in Nat /\ t < qu.head /\ n = t - 1 - qu.head + z
        BY <1>1, <3>1, <4>1
      <4> HIDE DEF n, t, m
      <4>4. qu.head + (n + 1) = t + z
        BY <4>3
      <4>5. ~ qu.head + (n + 1) < z /\ (t + z) - z = t /\ n + 1 <= z - 1
        BY <4>3, <4>4
      <4>6. Span(z, m) = n + 1
        BY <4>2, <4>3
      <4>7. Spot(z, qu, n + 1) = t
        BY <4>3, <4>4, <4>5 DEF Spot
      <4> QED BY <4>5, <4>6, <4>7
    <3> QED BY <3>2, <3>3
  <2> QED BY <2>1, <2>2
<1>5. \A k \in 1 .. n : Spot(z, qu, k) \in Slots(z) /\ Spot(z, qu, k) # t
  <2> TAKE k \in 1 .. n
  <2>1. /\ qu.head \in 0 .. z - 1 /\ z \in Nat /\ n \in Nat /\ n + 1 <= z - 1
        /\ t = IF qu.head + (n + 1) < z THEN qu.head + (n + 1) ELSE qu.head + (n + 1) - z
    BY <1>1, <1>4 DEF Spot
  <2> HIDE DEF n
  <2>2. Spot(z, qu, k) \in 0 .. z - 1
    BY <2>1 DEF Spot
  <2>3. Spot(z, qu, k) # t
    BY <2>1 DEF Spot
  <2> QED BY <2>2, <2>3 DEF Slots
<1>6. \A k \in 1 .. n + 1 : Spot(z, m, k) = Spot(z, qu, k)
  BY <1>2 DEF Spot
<1> HIDE DEF n
<1>7. RingItems(m) = WithIn(RingItems(qu), n, d)
  <2>1. /\ RingItems(m) \in Seq(V \cup {Garbage}) /\ Len(RingItems(m)) = n + 1
        /\ \A k \in 1 .. n + 1 : RingItems(m)[k] = m.data[Spot(z, m, k)]
    <3>1. RingLaid(z, V, m)
      BY <1>3, RingIs
    <3> QED BY <1>4, <3>1 DEF RingLaid
  <2>2. ASSUME NEW k \in 1 .. n + 1
        PROVE  RingItems(m)[k] = IF k <= n THEN RingItems(qu)[k] ELSE IF k = n + 1 THEN d ELSE RingItems(qu)[k - 1]
    <3>1. RingItems(m)[k] = m.data[Spot(z, qu, k)]
      BY <1>6, <2>1
    <3>2. CASE k <= n
      <4>1. k \in 1 .. n
        BY <1>1, <3>2
      <4>2. m.data[Spot(z, qu, k)] = qu.data[Spot(z, qu, k)]
        BY <1>1, <1>2, <1>5, <4>1 DEF HeldOf
      <4> QED BY <1>1, <3>1, <3>2, <4>1, <4>2
    <3>3. CASE ~ (k <= n)
      <4>1. k = n + 1
        BY <1>1, <3>3
      <4>2. t \in DOMAIN qu.data
        BY <1>1 DEF HeldOf, Slots
      <4> QED BY <1>2, <1>4, <3>1, <3>3, <4>1, <4>2
    <3> QED BY <3>2, <3>3
  <2>3. RingItems(m) = [k \in 1 .. n + 1 |-> RingItems(m)[k]]
    BY <2>1, LenProperties
  <2> QED BY <1>1, <2>2, <2>3 DEF WithIn
<1>8. InsertAt(RingItems(qu), n + 1, d) = WithIn(RingItems(qu), n, d)
  <2>1. d \in V \cup {Garbage} /\ n \in 0 .. Len(RingItems(qu))
    BY <1>1
  <2> QED BY <1>1, <2>1, InsertAtIs
<1> QED BY <1>1, <1>3, <1>7, <1>8 DEF m

LEMMA DequeuedIs ==
    ASSUME NEW z, NEW V, NEW qu, IsRing(z, V, qu), ~qu_isempty(qu)
    PROVE  /\ IsRing(z, V, qu_dequeue(qu))
           /\ Len(RingItems(qu)) \in 1 .. z
           /\ RingItems(qu_dequeue(qu)) = RemoveAt(RingItems(qu), 1)
           /\ Foremost(qu) = RingItems(qu)[1]
<1> z \in Nat /\ z > 1 /\ qu \in RingOf(z, V)
  BY DEF IsRing
<1> DEFINE m == qu_dequeue(qu)
           h == After(qu, qu.head)
           n == Span(z, qu)
<1>1. /\ qu.head \in 0 .. z - 1 /\ qu.tail \in 0 .. z - 1 /\ qu.data \in HeldOf(z, V)
      /\ z \in Nat /\ z > 1 /\ qu.head # qu.tail
      /\ n \in 0 .. z - 1
      /\ RingItems(qu) \in Seq(V \cup {Garbage}) /\ Len(RingItems(qu)) = n
      /\ \A k \in 1 .. n : RingItems(qu)[k] = qu.data[Spot(z, qu, k)]
      /\ h = IF qu.head = z - 1 THEN 0 ELSE qu.head + 1
  <2>1. qu.head # qu.tail
    BY DEF qu_isempty
  <2>2. RingLaid(z, V, qu)
    BY RingIs
  <2> QED BY <2>1, <2>2 DEF RingLaid
<1>2. m.head = h /\ m.tail = qu.tail /\ m.data = qu.data
      /\ m = [data |-> m.data, head |-> m.head, tail |-> m.tail]
  BY DEF qu_dequeue, RingOf
<1> HIDE DEF m, h
<1>3. IsRing(z, V, m)
  <2>1. h \in Slots(z) /\ qu.tail \in Slots(z)
    BY <1>1 DEF Slots
  <2> QED BY <1>1, <1>2, <2>1 DEF IsRing, RingOf
<1>4. n \in 1 .. z - 1 /\ Span(z, m) = n - 1 /\ Spot(z, qu, 1) = h
  <2>1. CASE qu.head = z - 1
    BY <1>1, <1>2, <2>1 DEF Span, Spot
  <2>2. CASE qu.head # z - 1
    BY <1>1, <1>2, <2>2 DEF Span, Spot
  <2> QED BY <2>1, <2>2
<1>5. \A k \in 1 .. n - 1 : Spot(z, m, k) = Spot(z, qu, k + 1)
  <2> TAKE k \in 1 .. n - 1
  <2>1. CASE qu.head = z - 1
    <3>1. k \in Nat /\ k < z /\ k >= 1 /\ z \in Nat
      BY <1>1
    <3>2. m.head = 0
      BY <1>1, <1>2, <2>1
    <3> HIDE DEF n
    <3>3. Spot(z, m, k) = k
      BY <3>1, <3>2 DEF Spot
    <3>4. qu.head + (k + 1) = k + z
      BY <2>1, <3>1
    <3>5. Spot(z, qu, k + 1) = k
      BY <2>1, <3>1, <3>4 DEF Spot
    <3> QED BY <3>3, <3>5
  <2>2. CASE qu.head # z - 1
    <3>1. k \in Int
      BY <1>1
    <3>2. m.head = qu.head + 1
      BY <1>1, <1>2, <2>2
    <3>3. m.head + k = qu.head + (k + 1) /\ m.head \in Int /\ qu.head \in Int /\ z \in Int
      BY <1>1, <3>1, <3>2
    <3> HIDE DEF n
    <3> QED BY <3>1, <3>3 DEF Spot
  <2> QED BY <2>1, <2>2
<1> HIDE DEF n
<1>6. RingItems(m) = Without(RingItems(qu), 1)
  <2>1. /\ RingItems(m) \in Seq(V \cup {Garbage}) /\ Len(RingItems(m)) = n - 1
        /\ \A k \in 1 .. n - 1 : RingItems(m)[k] = m.data[Spot(z, m, k)]
    <3>1. RingLaid(z, V, m)
      BY <1>3, RingIs
    <3> QED BY <1>4, <3>1 DEF RingLaid
  <2>2. \A k \in 1 .. n - 1 : RingItems(m)[k] = IF k < 1 THEN RingItems(qu)[k] ELSE RingItems(qu)[k + 1]
    <3> TAKE k \in 1 .. n - 1
    <3>1. k + 1 \in 1 .. n /\ ~ (k < 1)
      BY <1>4
    <3>2. RingItems(qu)[k + 1] = qu.data[Spot(z, qu, k + 1)]
      BY <1>1, <3>1
    <3> QED BY <1>2, <1>5, <2>1, <3>1, <3>2
  <2>3. RingItems(m) = [k \in 1 .. n - 1 |-> RingItems(m)[k]]
    BY <2>1, LenProperties
  <2> QED BY <1>1, <2>2, <2>3 DEF Without
<1>7. RemoveAt(RingItems(qu), 1) = Without(RingItems(qu), 1)
  <2>1. 1 \in 1 .. Len(RingItems(qu))
    BY <1>1, <1>4
  <2> QED BY <1>1, <2>1, RemoveAtIs
<1>8. Foremost(qu) = RingItems(qu)[1]
  <2>1. 1 \in 1 .. n
    BY <1>4
  <2> QED BY <1>1, <1>4, <2>1 DEF Foremost, h
<1>9. n \in 1 .. z
  BY <1>1, <1>4
<1> QED BY <1>1, <1>3, <1>6, <1>7, <1>8, <1>9 DEF m

UniteOne(list, d) == IF sqlist_find(list, d) < 0 THEN sqlist_insert(list, 0, d) ELSE list

\* list is l after the first k items of other.
IsUnited(l, other, k, list) ==
    /\ list \in ListRecords
    /\ \E n \in 0 .. list.last + 1 :
         /\ list.last = l.last + n
         /\ \A j \in 1 .. l.last + 1 : ListItems(list)[n + j] = ListItems(l)[j]
         /\ \A i \in 1 .. n : /\ \E j \in 1 .. k : other[j] = ListItems(list)[i]
                              /\ \A j \in 1 .. l.last : ListItems(l)[j] # ListItems(list)[i]
    /\ \A j \in 1 .. k : \/ list.last = DATASIZE - 1
                         \/ \E i \in 1 .. list.last + 1 : ListItems(list)[i] = other[j]

LEMMA UniteOneIs ==
    ASSUME NEW l \in ListRecords, NEW other \in Seq(Values), NEW k \in 1 .. Len(other),
           NEW list, IsUnited(l, other, k - 1, list)
    PROVE  IsUnited(l, other, k, UniteOne(list, other[k]))
<1> DEFINE d == other[k]
           m == UniteOne(list, d)
<1>1. d \in Values /\ k \in Nat /\ list \in ListRecords /\ d \in Values \cup {Garbage}
  BY DEF IsUnited
<1>2. /\ list.last \in -1 .. DATASIZE - 1 /\ list.last + 1 \in Nat
      /\ ListItems(list) \in Seq(Values \cup {Garbage}) /\ Len(ListItems(list)) = list.last + 1
      /\ l.last \in -1 .. DATASIZE - 1 /\ l.last + 1 \in Nat
  BY <1>1, ListItemsAre, SizeIs
<1>3. PICK n \in 0 .. list.last + 1 :
         /\ list.last = l.last + n
         /\ \A j \in 1 .. l.last + 1 : ListItems(list)[n + j] = ListItems(l)[j]
         /\ \A i \in 1 .. n : /\ \E j \in 1 .. k - 1 : other[j] = ListItems(list)[i]
                              /\ \A j \in 1 .. l.last : ListItems(l)[j] # ListItems(list)[i]
  BY DEF IsUnited
<1>4. \A j \in 1 .. k - 1 : \/ list.last = DATASIZE - 1
                            \/ \E i \in 1 .. list.last + 1 : ListItems(list)[i] = other[j]
  BY DEF IsUnited
<1>5. \A j \in 1 .. k : j \in 1 .. k - 1 \/ j = k
  BY <1>1
<1>6. CASE m = list /\ (list.last = DATASIZE - 1 \/ \E i \in 1 .. list.last + 1 : ListItems(list)[i] = d)
  <2>1. \A j \in 1 .. k : \/ list.last = DATASIZE - 1
                          \/ \E i \in 1 .. list.last + 1 : ListItems(list)[i] = other[j]
    BY <1>4, <1>5, <1>6
  <2>2. \A i \in 1 .. n : /\ \E j \in 1 .. k : other[j] = ListItems(list)[i]
                          /\ \A j \in 1 .. l.last : ListItems(l)[j] # ListItems(list)[i]
    BY <1>1, <1>3
  <2> HIDE DEF m
  <2>3. IsUnited(l, other, k, list)
    BY <1>1, <1>3, <2>1, <2>2 DEF IsUnited
  <2> QED BY <1>6, <2>3 DEF m
<1>7. CASE /\ m \in ListRecords /\ ListItems(m) = WithIn(ListItems(list), 0, d)
           /\ \A j \in 1 .. list.last : ListItems(list)[j] # d
  <2> HIDE DEF m, d
  <2>1. /\ m.last = list.last + 1
        /\ \A i \in 1 .. list.last + 2 : ListItems(m)[i] = IF i = 1 THEN d ELSE ListItems(list)[i - 1]
    <3>1. \A i \in 1 .. list.last + 2 : ListItems(m)[i] = IF i = 1 THEN d ELSE ListItems(list)[i - 1]
      BY <1>2, <1>7 DEF WithIn
    <3>2. m.last + 1 = list.last + 2
      <4>1. DOMAIN ListItems(m) = 1 .. list.last + 2
        BY <1>2, <1>7 DEF WithIn
      <4>2. DOMAIN ListItems(m) = 1 .. Len(ListItems(m)) /\ Len(ListItems(m)) = m.last + 1 /\ m.last + 1 \in Nat
        BY <1>7, ListItemsAre, LenProperties
      <4> QED BY <1>2, <4>1, <4>2
    <3>3. m.last \in Int
      BY <1>7, ListItemsAre
    <3> QED BY <1>2, <3>1, <3>2, <3>3
  <2>2. n + 1 \in 0 .. m.last + 1 /\ m.last = l.last + (n + 1)
    BY <1>2, <1>3, <2>1
  <2>3. \A j \in 1 .. l.last + 1 : ListItems(m)[(n + 1) + j] = ListItems(l)[j]
    <3> TAKE j \in 1 .. l.last + 1
    <3>0. n \in Nat /\ l.last \in Int /\ list.last = l.last + n
      BY <1>2, <1>3
    <3>1. (n + 1) + j \in 1 .. list.last + 2 /\ (n + 1) + j # 1 /\ ((n + 1) + j) - 1 = n + j
      BY <3>0
    <3>2. ListItems(m)[(n + 1) + j] = ListItems(list)[n + j]
      BY <2>1, <3>1
    <3> QED BY <1>3, <3>2
  <2>4. ASSUME NEW i \in 1 .. n + 1
        PROVE  /\ \E j \in 1 .. k : other[j] = ListItems(m)[i]
               /\ \A j \in 1 .. l.last : ListItems(l)[j] # ListItems(m)[i]
    <3>1. CASE i = 1
      <4>1. ListItems(m)[i] = d
        BY <1>2, <2>1, <3>1
      <4>2. \A j \in 1 .. l.last : ListItems(l)[j] # d
        <5> TAKE j \in 1 .. l.last
        <5>1. j \in 1 .. l.last + 1 /\ n + j \in 1 .. list.last
          BY <1>2, <1>3, SMTT(60)
        <5> QED BY <1>3, <1>7, <5>1
      <4>3. k \in 1 .. k
        BY <1>1
      <4> QED BY <4>1, <4>2, <4>3 DEF d
    <3>2. CASE i # 1
      <4>0. n \in Nat /\ n <= list.last + 1 /\ list.last \in Int
        BY <1>2, <1>3
      <4>1. i - 1 \in 1 .. n /\ i \in 1 .. list.last + 2
        BY <3>2, <4>0
      <4>2. ListItems(m)[i] = ListItems(list)[i - 1]
        BY <2>1, <3>2, <4>1
      <4>3. \A j \in 1 .. k - 1 : j \in 1 .. k
        BY <1>1
      <4>4. PICK j \in 1 .. k - 1 : other[j] = ListItems(list)[i - 1]
        BY <1>3, <4>1
      <4>5. \A h \in 1 .. l.last : ListItems(l)[h] # ListItems(list)[i - 1]
        BY <1>3, <4>1
      <4> QED BY <4>2, <4>3, <4>4, <4>5
    <3> QED BY <3>1, <3>2
  <2>5. ASSUME NEW j \in 1 .. k
        PROVE  m.last = DATASIZE - 1 \/ \E i \in 1 .. m.last + 1 : ListItems(m)[i] = other[j]
    <3>1. CASE j = k
      <4>1. 1 \in 1 .. list.last + 2 /\ 1 \in 1 .. m.last + 1
        BY <1>2, <2>1
      <4> QED BY <2>1, <3>1, <4>1 DEF d
    <3>2. CASE j \in 1 .. k - 1
      <4>1. CASE list.last = DATASIZE - 1
        <5>1. m.last \in -1 .. DATASIZE - 1 /\ DATASIZE \in Nat
          BY <1>7, ListItemsAre, SizeIs
        <5> QED BY <2>1, <4>1, <5>1
      <4>2. CASE list.last # DATASIZE - 1
        <5>1. PICK i \in 1 .. list.last + 1 : ListItems(list)[i] = other[j]
          BY <1>4, <3>2, <4>2
        <5>2. i + 1 \in 1 .. list.last + 2 /\ i + 1 # 1 /\ (i + 1) - 1 = i /\ i + 1 \in 1 .. m.last + 1
          BY <1>2, <2>1
        <5> QED BY <2>1, <5>1, <5>2
      <4> QED BY <4>1, <4>2
    <3> QED BY <1>5, <3>1, <3>2
  <2>6. IsUnited(l, other, k, m)
    BY <1>7, <2>2, <2>3, <2>4, <2>5 DEF IsUnited
  <2> QED BY <2>6 DEF m, d
<1>8. \/ m = list /\ (list.last = DATASIZE - 1 \/ \E i \in 1 .. list.last + 1 : ListItems(list)[i] = d)
      \/ /\ m \in ListRecords /\ ListItems(m) = WithIn(ListItems(list), 0, d)
         /\ \A j \in 1 .. list.last : ListItems(list)[j] # d
  <2> HIDE DEF d
  <2> DEFINE is == {i \in 1 .. Len(ListItems(list)) : ListItems(list)[i] = d}
             at == (IF is # {} THEN Min(is) ELSE 0) - 1
  <2>1. \/ sqlist_find(list, d) = at /\ at \in 0 .. list.last - 1 /\ ListItems(list)[at + 1] = d
        \/ sqlist_find(list, d) \in {-1, -2} /\ at = -1
        \/ sqlist_find(list, d) = -2 /\ at = list.last /\ list.last \in Nat
    BY <1>1, FoundInArray
  <2>2. is # {} => Min(is) \in is /\ \A i \in is : Min(is) <= i
    <3>1. is \in SUBSET Nat
      BY <1>2
    <3> HIDE DEF is
    <3>2. is # {} => \E i \in is : \A j \in is : i <= j
      BY <3>1, Least
    <3> QED BY <3>2 DEF Min
  <2>3. CASE sqlist_find(list, d) = at /\ at \in 0 .. list.last - 1 /\ ListItems(list)[at + 1] = d
    <3> HIDE DEF at
    <3>1. ~ (sqlist_find(list, d) < 0) /\ at + 1 \in 1 .. list.last + 1
      BY <1>2, <2>3
    <3>2. m = list
      BY <3>1 DEF UniteOne
    <3> HIDE DEF m
    <3> QED BY <2>3, <3>1, <3>2
  <2>4. CASE sqlist_find(list, d) \in {-1, -2} /\ (at = -1 \/ (at = list.last /\ list.last \in Nat))
    <3>1. m = sqlist_insert(list, 0, d)
      BY <2>4 DEF UniteOne
    <3>2. CASE Full(list)
      BY <3>1, <3>2 DEF sqlist_insert, Full
    <3>3. CASE ~Full(list)
      <4>1. 0 \in 0 .. list.last + 1 /\ ~Misplaced(list, 0)
        BY <1>2 DEF Misplaced
      <4>2. m = Inserted(list, 0, d)
        BY <3>1, <3>3, <4>1 DEF sqlist_insert
      <4>3. m \in ListRecords /\ ListItems(m) = InsertAt(ListItems(list), 0 + 1, d)
        BY <1>1, <3>3, <4>1, <4>2, InsertedIs
      <4>4. 0 \in 0 .. Len(ListItems(list))
        BY <1>2
      <4>5. ListItems(m) = WithIn(ListItems(list), 0, d)
        BY <1>1, <1>2, <4>3, <4>4, InsertAtIs
      <4>6. \A j \in 1 .. list.last : ListItems(list)[j] # d
        <5> SUFFICES ASSUME NEW j \in 1 .. list.last, ListItems(list)[j] = d PROVE FALSE
          OBVIOUS
        <5>1. j \in is
          BY <1>2
        <5>2. Min(is) \in 1 .. list.last + 1 /\ Min(is) <= j
          BY <1>2, <2>2, <5>1
        <5>3. at = Min(is) - 1
          BY <5>1
        <5> HIDE DEF at, is
        <5> QED BY <1>2, <2>4, <5>2, <5>3
      <4> QED BY <4>3, <4>5, <4>6
    <3> QED BY <3>2, <3>3
  <2> HIDE DEF m, at
  <2>5. \/ sqlist_find(list, d) = at /\ at \in 0 .. list.last - 1 /\ ListItems(list)[at + 1] = d
        \/ sqlist_find(list, d) \in {-1, -2} /\ (at = -1 \/ (at = list.last /\ list.last \in Nat))
    BY <2>1
  <2> QED BY <2>3, <2>4, <2>5, Zenon
<1> QED BY <1>6, <1>7, <1>8

LEMMA UnionIs ==
    ASSUME NEW l \in ListRecords, NEW other \in Seq(Values)
    PROVE  IsUnited(l, other, Len(other), sqlist_union(l, other))
<1> DEFINE m == Len(other)
           Unite(k, list) == IF sqlist_find(list, other[k]) < 0 THEN sqlist_insert(list, 0, other[k]) ELSE list
           F == [k \in 1 .. m |-> [list \in ListRecords |-> Unite(k, list)]]
           united[k \in 0 .. Len(other)] ==
             IF k = 0 THEN l
             ELSE IF sqlist_find(united[k - 1], other[k]) < 0
                  THEN sqlist_insert(united[k - 1], 0, other[k]) ELSE united[k - 1]
<1>1. m \in Nat /\ \A k \in 1 .. m : other[k] \in Values
  OBVIOUS
<1>2. \A k \in 1 .. m, list \in ListRecords : Unite(k, list) \in ListRecords
  <2> TAKE k \in 1 .. m, list \in ListRecords
  <2>1. CASE ~Full(list) /\ ~Misplaced(list, 0)
    <3>1. 0 \in 0 .. list.last + 1
      BY ListItemsAre
    <3>2. Inserted(list, 0, other[k]) \in ListRecords
      BY <1>1, <2>1, <3>1, InsertedIs
    <3> QED BY <2>1, <3>2 DEF sqlist_insert
  <2>2. CASE Full(list) \/ Misplaced(list, 0)
    BY <2>2 DEF sqlist_insert
  <2> QED BY <2>1, <2>2
<1>3. PICK g : IsHistory(g, ListRecords, F, l, m)
  <2>1. F \in [1 .. m -> [ListRecords -> ListRecords]]
    <3> HIDE DEF Unite, m
    <3> QED BY <1>2
  <2> HIDE DEF F, m
  <2> QED BY <1>1, <2>1, Histories
<1>4. /\ g \in [0 .. m -> ListRecords] /\ g[0] = l
      /\ \A k \in 1 .. m : k - 1 \in 0 .. m /\ g[k - 1] \in ListRecords /\ g[k] = Unite(k, g[k - 1])
  <2>1. g \in [0 .. m -> ListRecords] /\ g[0] = l /\ \A k \in 1 .. m : g[k] = F[k][g[k - 1]]
    <3> HIDE DEF F, m
    <3> QED BY <1>3 DEF IsHistory
  <2>2. \A k \in 1 .. m : k - 1 \in 0 .. m
    BY <1>1
  <2>3. \A k \in 1 .. m : g[k - 1] \in ListRecords
    BY <2>1, <2>2
  <2>4. \A k \in 1 .. m : F[k][g[k - 1]] = Unite(k, g[k - 1])
    <3> HIDE DEF Unite, m
    <3> QED BY <2>3
  <2> HIDE DEF Unite, m, F
  <2> QED BY <2>1, <2>2, <2>3, <2>4
<1>5. g = [k \in 0 .. m |->
             IF k = 0 THEN l
             ELSE IF sqlist_find(g[k - 1], other[k]) < 0
                  THEN sqlist_insert(g[k - 1], 0, other[k]) ELSE g[k - 1]]
  <2>1. \A k \in 0 .. m : k # 0 => k \in 1 .. m
    BY <1>1
  <2> HIDE DEF m
  <2> QED BY <1>4, <2>1
<1>6. united = [k \in 0 .. Len(other) |->
             IF k = 0 THEN l
             ELSE IF sqlist_find(united[k - 1], other[k]) < 0
                  THEN sqlist_insert(united[k - 1], 0, other[k]) ELSE united[k - 1]]
  BY <1>5, Zenon
<1>7. /\ united[0] = l
      /\ \A k \in 1 .. m : united[k] = UniteOne(united[k - 1], other[k])
  <2>1. \A k \in 1 .. m : k \in 0 .. m /\ k # 0
    BY <1>1
  <2>2. 0 \in 0 .. m
    BY <1>1
  <2> HIDE DEF united
  <2> QED BY <1>6, <2>1, <2>2 DEF UniteOne
<1> HIDE DEF united
<1> DEFINE S == {k \in 0 .. m : ~IsUnited(l, other, k, united[k])}
<1>8. S = {}
  <2> SUFFICES ASSUME S # {} PROVE FALSE
    OBVIOUS
  <2>1. PICK k \in S : \A j \in S : k <= j
    <3>1. S \in SUBSET Nat
      BY <1>1
    <3> HIDE DEF S
    <3> QED BY <3>1, Least
  <2>2. CASE k = 0
    <3>1. IsUnited(l, other, 0, l)
      <4>1. l.last + 1 \in Nat /\ 0 \in 0 .. l.last + 1 /\ l.last = l.last + 0
        BY ListItemsAre
      <4>2. \A j \in 1 .. l.last + 1 : 0 + j = j
        BY <4>1
      <4> QED BY <4>1, <4>2 DEF IsUnited
    <3> QED BY <1>7, <2>1, <2>2, <3>1
  <2>3. CASE k # 0
    <3>1. k \in 1 .. m /\ k - 1 \in 0 .. m /\ ~ (k <= k - 1)
      BY <1>1, <2>1, <2>3
    <3>2. IsUnited(l, other, k - 1, united[k - 1])
      BY <2>1, <3>1
    <3>3. IsUnited(l, other, k, UniteOne(united[k - 1], other[k]))
      BY <3>1, <3>2, UniteOneIs
    <3> QED BY <1>7, <2>1, <3>1, <3>3
  <2> QED BY <2>2, <2>3
<1>9. IsUnited(l, other, m, united[m])
  <2>1. m \in 0 .. m
    BY <1>1
  <2> QED BY <1>8, <2>1
<1>10. sqlist_union(l, other) = united[m]
  BY DEF sqlist_union, united
<1> QED BY <1>9, <1>10

-----------------------------------------------------------------------------
(* What every operation of an array does *)

\* One call as a step of Sequence.

LEMMA ArrayInsertIs ==
    ASSUME NEW i, NEW d, last' = <<"insert", <<i, d>>, << 0 >>>>, ArrayLimit' = ArrayLimit,
           i \in 0 .. Len(ArrayItems), ArrayItems' = InsertAt(ArrayItems, i + 1, d)
    PROVE  Arrayed!Next
<1>1. ArrayItems' = Arrayed!InsertAt(ArrayItems, i + 1, d)
  BY DEF Arrayed!InsertAt, InsertAt
<1>2. Arrayed!Insert(i, d)
  BY <1>1 DEF Arrayed!Insert, Arrayed!Returns
<1>3. last'[1] = "insert" /\ last'[2][1] = i /\ last'[2][2] = d
  OBVIOUS
<1> QED BY <1>2, <1>3 DEF Arrayed!Next

LEMMA ArrayRefusalIs ==
    ASSUME NEW i, NEW d, NEW code \in {-1, -2}, last' = <<"insert", <<i, d>>, <<code>>>>,
           ArrayLimit' = ArrayLimit, ArrayItems' = ArrayItems,
           Len(ArrayItems) = ArrayLimit \/ i \notin 0 .. Len(ArrayItems)
    PROVE  Arrayed!Next
BY DEF Arrayed!Next, Arrayed!Insert, Arrayed!Returns, Arrayed!Refusable

LEMMA ArrayTakeOutIs ==
    ASSUME NEW i, NEW name, NEW args, ArrayLimit' = ArrayLimit, Len(ArrayItems) \in Nat,
           i \in 1 .. Len(ArrayItems), ArrayItems' = RemoveAt(ArrayItems, i),
           last' = <<name, args, IF name = "remove_at" THEN << 0 >> ELSE <<0, ArrayItems[i]>>>>,
           \/ name = "remove_at" /\ args = i - 1
           \/ name = "pop" /\ args = 0 /\ i = 1
           \/ name = "pop_last" /\ args = 0 /\ i = Len(ArrayItems)
    PROVE  Arrayed!Next
<1>1. i - 1 \in 0 .. Len(ArrayItems) - 1 /\ (i - 1) + 1 = i
  OBVIOUS
<1>2. ArrayItems' = Arrayed!RemoveAt(ArrayItems, (i - 1) + 1)
  BY <1>1 DEF Arrayed!RemoveAt, RemoveAt
<1>3. Arrayed!TakeOut(name, args, i - 1)
  BY <1>1, <1>2 DEF Arrayed!TakeOut, Arrayed!Returns
<1>4. CASE name = "remove_at" /\ args = i - 1
  BY <1>3, <1>4 DEF Arrayed!Next
<1>5. CASE name = "pop" /\ args = 0 /\ i = 1
  BY <1>3, <1>5 DEF Arrayed!Next, Arrayed!Pop
<1>6. CASE name = "pop_last" /\ args = 0 /\ i = Len(ArrayItems)
  BY <1>3, <1>6 DEF Arrayed!Next, Arrayed!Pop
<1> QED BY <1>4, <1>5, <1>6

LEMMA ArrayNoTakeOutIs ==
    ASSUME NEW name, NEW args, ArrayLimit' = ArrayLimit, Len(ArrayItems) \in Nat,
           ArrayItems' = ArrayItems, last' = <<name, args, <<-1>>>>,
           \/ name = "remove_at" /\ args \in Int /\ args \notin 0 .. Len(ArrayItems) - 1
           \/ name \in {"pop", "pop_last"} /\ args = 0 /\ Len(ArrayItems) = 0
    PROVE  Arrayed!Next
<1>1. CASE name = "remove_at" /\ args \in Int /\ args \notin 0 .. Len(ArrayItems) - 1
  <2>1. Arrayed!TakeOut(name, args, args)
    BY <1>1 DEF Arrayed!TakeOut, Arrayed!Returns
  <2> QED BY <1>1, <2>1 DEF Arrayed!Next
<1>2. CASE name \in {"pop", "pop_last"} /\ args = 0 /\ Len(ArrayItems) = 0
  <2>1. Arrayed!TakeOut("pop", 0, 0) \/ Arrayed!TakeOut("pop_last", 0, Len(ArrayItems) - 1)
    BY <1>2 DEF Arrayed!TakeOut, Arrayed!Returns
  <2> QED BY <1>2, <2>1 DEF Arrayed!Next, Arrayed!Pop
<1> QED BY <1>1, <1>2

LEMMA ArrayReadIs ==
    ASSUME NEW result, ArrayLimit' = ArrayLimit, ArrayItems' = ArrayItems,
           \/ /\ last' = <<"top", 0, result>>
              /\ \/ ArrayItems = <<>> /\ result = <<-1>>
                 \/ ArrayItems # <<>> /\ result = <<0, ArrayItems[Len(ArrayItems)]>>
           \/ \E d : /\ last' = <<"find", d, result>>
                     /\ \/ Arrayed!Index(d) # -1 /\ result = <<Arrayed!Index(d)>>
                        \/ Arrayed!Index(d) = -1 /\ result \in {<<-1>>, <<-2>>}
                        \/ Arrayed!Overlooked(d) /\ result = <<-2>>
    PROVE  Arrayed!Next
<1>2. CASE /\ last' = <<"top", 0, result>>
           /\ \/ ArrayItems = <<>> /\ result = <<-1>>
              \/ ArrayItems # <<>> /\ result = <<0, ArrayItems[Len(ArrayItems)]>>
  <2>1. Arrayed!Top
    BY <1>2 DEF Arrayed!Top, Arrayed!Returns, Arrayed!Last
  <2> QED BY <1>2, <2>1 DEF Arrayed!Next
<1>3. ASSUME NEW d, last' = <<"find", d, result>>,
             \/ Arrayed!Index(d) # -1 /\ result = <<Arrayed!Index(d)>>
             \/ Arrayed!Index(d) = -1 /\ result \in {<<-1>>, <<-2>>}
             \/ Arrayed!Overlooked(d) /\ result = <<-2>>
      PROVE  Arrayed!Next
  <2>1. Arrayed!Find(d)
    BY <1>3 DEF Arrayed!Find, Arrayed!Returns
  <2> QED BY <1>3, <2>1 DEF Arrayed!Next
<1> QED BY <1>2, <1>3

LEMMA ArrayTravelIs ==
    ASSUME ArrayLimit' = ArrayLimit, ArrayItems' = ArrayItems, last' = <<"travel", 0, << 0 >> \o ArrayItems>>
    PROVE  Arrayed!Next
BY DEF Arrayed!Next, Arrayed!Travel, Arrayed!Returns

LEMMA ArrayTravelsOver ==
    ASSUME NEW s, ArrayItems = s, ArrayItems' = s, ArrayLimit' = ArrayLimit,
           last' = <<"travel", 0, << 0 >> \o s>>
    PROVE  Arrayed!Next
BY ArrayTravelIs

LEMMA ArrayClearIs ==
    ASSUME NEW name \in {"setempty", "destroy"}, ArrayLimit' = ArrayLimit, ArrayItems' = <<>>,
           last' = <<name, 0, << 0 >>>>
    PROVE  Arrayed!Next
BY DEF Arrayed!Next, Arrayed!Clear, Arrayed!Returns

\* b is a with n items of other in front, of which none was found in a; it holds all
\* of other, or is full.
IsJoined(a, other, n, b) ==
    /\ Len(b) = Len(a) + n
    /\ \A j \in 1 .. Len(a) : b[n + j] = a[j]
    /\ \A i \in 1 .. n : /\ \E j \in 1 .. Len(other) : other[j] = b[i]
                         /\ \A j \in 1 .. Len(a) - 1 : a[j] # b[i]
    /\ \A j \in 1 .. Len(other) : Len(b) = ArrayLimit \/ \E i \in 1 .. Len(b) : b[i] = other[j]

LEMMA ArrayUnionIs ==
    ASSUME NEW S, NEW other \in Seq(S), ArrayLimit' = ArrayLimit, ArrayLimit # -1,
           last' = <<"union", other, << 0 >>>>,
           ArrayItems \in Seq(S), ArrayItems' \in Seq(S),
           NEW n \in Nat, IsJoined(ArrayItems, other, n, ArrayItems')
    PROVE  Arrayed!Next
<1> DEFINE m == Len(ArrayItems)
           added == SubSeq(ArrayItems', 1, n)
<1>0. /\ Len(ArrayItems') = m + n
      /\ \A j \in 1 .. m : ArrayItems'[n + j] = ArrayItems[j]
      /\ \A i \in 1 .. n : /\ \E j \in 1 .. Len(other) : other[j] = ArrayItems'[i]
                           /\ \A j \in 1 .. m - 1 : ArrayItems[j] # ArrayItems'[i]
      /\ \A j \in 1 .. Len(other) : \/ Len(ArrayItems') = ArrayLimit
                                    \/ \E i \in 1 .. m + n : ArrayItems'[i] = other[j]
  BY DEF IsJoined
<1>1. m \in Nat /\ Len(ArrayItems') = m + n /\ Len(other) \in Nat
  BY <1>0, LenProperties
<1>2. added \in Seq(S) /\ Len(added) = n /\ \A i \in 1 .. n : added[i] = ArrayItems'[i]
  BY <1>1
<1>3. Arrayed!IsSuffix(ArrayItems, ArrayItems')
  <2> DEFINE a == Arrayed!Reverse(ArrayItems)
             b == Arrayed!Reverse(ArrayItems')
  <2>1. a \in Seq(S) /\ Len(a) = m /\ \A i \in 1 .. m : a[i] = ArrayItems[m - i + 1]
    <3>1. a = [i \in 1 .. m |-> ArrayItems[m - i + 1]]
      BY DEF Arrayed!Reverse
    <3>2. \A i \in 1 .. m : m - i + 1 \in 1 .. m
      BY <1>1
    <3>3. \A i \in 1 .. m : ArrayItems[m - i + 1] \in S
      BY <3>2
    <3>4. a \in [1 .. m -> S]
      <4> HIDE DEF m, a
      <4> QED BY <3>1, <3>3
    <3> HIDE DEF m, a
    <3> QED BY <1>1, <3>1, <3>4, ItemsInArray
  <2>2. b \in Seq(S) /\ Len(b) = m + n /\ \A i \in 1 .. m + n : b[i] = ArrayItems'[m + n - i + 1]
    <3>1. b = [i \in 1 .. m + n |-> ArrayItems'[m + n - i + 1]]
      BY <1>1 DEF Arrayed!Reverse
    <3>2. \A i \in 1 .. m + n : m + n - i + 1 \in 1 .. m + n
      BY <1>1
    <3>3. \A i \in 1 .. m + n : ArrayItems'[m + n - i + 1] \in S
      BY <1>1, <3>2
    <3>4. b \in [1 .. m + n -> S]
      <4> HIDE DEF m, b
      <4> QED BY <3>1, <3>3
    <3>5. m + n \in Nat
      BY <1>1
    <3> HIDE DEF m, b
    <3>6. b \in Seq(S) /\ Len(b) = m + n
      BY <3>4, <3>5, ItemsInArray
    <3> QED BY <3>1, <3>6
  <2> HIDE DEF a, b
  <2>3. \A i \in 1 .. m : a[i] = b[i]
    <3> TAKE i \in 1 .. m
    <3>1. m - i + 1 \in 1 .. m /\ n + (m - i + 1) = m + n - i + 1 /\ i \in 1 .. m + n
      BY <1>1
    <3>2. a[i] = ArrayItems[m - i + 1]
      BY <2>1
    <3>3. b[i] = ArrayItems'[n + (m - i + 1)]
      BY <2>2, <3>1
    <3> QED BY <1>0, <3>1, <3>2, <3>3
  <2>4. SubSeq(a, 1, m) \in Seq(S) /\ Len(SubSeq(a, 1, m)) = m /\ \A i \in 1 .. m : SubSeq(a, 1, m)[i] = a[i]
    BY <1>1, <2>1
  <2>5. SubSeq(b, 1, m) \in Seq(S) /\ Len(SubSeq(b, 1, m)) = m /\ \A i \in 1 .. m : SubSeq(b, 1, m)[i] = b[i]
    BY <1>1, <2>2
  <2>6. SubSeq(a, 1, m) = SubSeq(b, 1, m)
    BY <2>3, <2>4, <2>5, SeqEqual
  <2>7. Arrayed!IsPrefix(a, b)
    BY <1>1, <2>1, <2>2, <2>6 DEF Arrayed!IsPrefix
  <2> QED BY <2>7 DEF Arrayed!IsSuffix, a, b
<1>4. Arrayed!Range(added) \subseteq Arrayed!Range(other)
  <2> HIDE DEF added
  <2>1. \A i \in DOMAIN added : \E j \in DOMAIN other : other[j] = added[i]
    BY <1>0, <1>2, LenProperties
  <2> QED BY <2>1 DEF Arrayed!Range
<1>5. ASSUME NEW i \in 1 .. Len(added)
      PROVE  Arrayed!Index(added[i]) = -1 \/ Arrayed!Overlooked(added[i])
  <2> DEFINE d == added[i]
             is == {k \in 1 .. m : ArrayItems[k] = d}
  <2>1. Arrayed!Index(d) = (IF is # {} THEN Min(is) ELSE 0) - 1
    BY Zenon DEF Arrayed!Index, Arrayed!SelectInSeq, Arrayed!Min, Min
  <2>2. \A k \in 1 .. m - 1 : k \notin is
    BY <1>0, <1>1, <1>2
  <2>3. CASE is = {}
    <3> HIDE DEF is
    <3> QED BY <2>1, <2>3
  <2>4. CASE is # {}
    <3>1. m \in Nat \ {0} /\ \A k \in is : k = m
      BY <1>1, <2>2, <2>4
    <3>2. is = {m}
      BY <2>4, <3>1
    <3>3. Min(is) = m
      BY <3>1, <3>2 DEF Min
    <3>4. Arrayed!Index(d) = m - 1
      <4> HIDE DEF is, d
      <4> QED BY <2>1, <2>4, <3>1, <3>3
    <3>5. Arrayed!Overlooked(d)
      <4> HIDE DEF d
      <4> QED BY <3>4 DEF Arrayed!Overlooked
    <3> QED BY <3>5
  <2> QED BY <2>3, <2>4
<1>6. Arrayed!Range(other) \subseteq Arrayed!Range(ArrayItems') \/ Len(ArrayItems') = ArrayLimit'
  <2>1. CASE Len(ArrayItems') # ArrayLimit
    <3>1. \A j \in DOMAIN other : \E i \in DOMAIN ArrayItems' : ArrayItems'[i] = other[j]
      BY <1>0, <2>1, LenProperties
    <3> QED BY <3>1 DEF Arrayed!Range
  <2> QED BY <2>1
<1>7. Len(ArrayItems') - m = n
  BY <1>1
<1>8. Arrayed!Union(other)
  <2> HIDE DEF m
  <2> QED BY <1>3, <1>4, <1>5, <1>6, <1>7 DEF Arrayed!Union, Arrayed!Returns, m
<1> QED BY <1>8 DEF Arrayed!Next

LEMMA ArrayStateIs ==
    ASSUME ArrayInv
    PROVE  /\ program = "sqstack" => me \in StackRecords /\ ArrayLimit = DATASIZE
           /\ program = "squeue" => me \in RingRecords /\ ArrayLimit = DATASIZE - 1
           /\ program \notin {"sqstack", "squeue"} => me \in ListRecords /\ ArrayLimit = DATASIZE
           /\ ArrayLive =>
                /\ program = "sqstack" => ArrayItems = StackItems(me)
                /\ program = "squeue" => ArrayItems = RingItems(me)
                /\ program \notin {"sqstack", "squeue"} => ArrayItems = ListItems(me)
           /\ ArrayLimit \in Nat /\ ArrayLimit # -1
<1>1. DATASIZE \in Nat /\ DATASIZE > 1
  BY SizeIs
<1>2. program = "sqstack" => program # "squeue"
  OBVIOUS
<1> QED BY <1>1, <1>2 DEF ArrayInv, ArrayItems, ArrayLimit

\* What a call that is one of a list's does, with the list it leaves.
LEMMA ListCalled ==
    ASSUME ArrayInv, program \notin {"sqstack", "squeue"}, program' = program,
           NEW name, NEW args, NEW to \in ListRecords, NEW result, Call(name, args, to, result)
    PROVE  /\ ArrayInv' /\ ArrayLimit' = ArrayLimit /\ last' = <<name, args, result>>
           /\ ArrayItems = ListItems(me)
           /\ name # "destroy" => ArrayItems' = ListItems(to)
<1>1. ArrayLive /\ me' = to /\ last' = <<name, args, result>>
  BY DEF Call
<1>2. name # "destroy" => ArrayLive'
  BY <1>1 DEF ArrayLive
<1>3. ArrayItems = ListItems(me)
  BY <1>1, ArrayStateIs
<1>4. ArrayInv'
  BY <1>1 DEF ArrayInv
<1>5. name # "destroy" => ArrayItems' = ListItems(to)
  BY <1>1, <1>2 DEF ArrayItems
<1>6. ArrayLimit' = ArrayLimit
  BY DEF ArrayLimit
<1> QED BY <1>1, <1>3, <1>4, <1>5, <1>6

LEMMA SqlistStep ==
    ASSUME ArrayInv, program \notin {"sqstack", "squeue"}, program' = program,
           ListInsert \/ ListDelete \/ ListFind \/ ListTravel \/ ListSetEmpty \/ ListUnion
    PROVE  ArrayInv' /\ Arrayed!Next
<1>1. me \in ListRecords /\ ArrayLimit = DATASIZE /\ DATASIZE \in Nat /\ ArrayLimit # -1
  BY ArrayStateIs, SizeIs
<1>2. /\ me.last \in -1 .. DATASIZE - 1 /\ me.last + 1 \in Nat
      /\ ListItems(me) \in Seq(Values \cup {Garbage}) /\ Len(ListItems(me)) = me.last + 1
      /\ \A k \in 1 .. me.last + 1 : ListItems(me)[k] = me.data[k - 1]
  BY <1>1, ListItemsAre
<1>3. CASE ListInsert
  <2>1. PICK i \in -1 .. DATASIZE + 1, d \in Values :
            Call("insert", <<i, d>>, sqlist_insert(me, i, d), InsertResult(me, i))
    BY <1>3 DEF ListInsert
  <2>2. CASE Full(me) \/ Misplaced(me, i)
    <3>1. sqlist_insert(me, i, d) = me
      BY <2>2 DEF sqlist_insert
    <3>2. PICK code \in {-1, -2} : InsertResult(me, i) = <<code>>
      BY <2>2 DEF InsertResult
    <3>3. /\ ArrayInv' /\ ArrayLimit' = ArrayLimit /\ last' = <<"insert", <<i, d>>, <<code>>>>
          /\ ArrayItems = ListItems(me) /\ ArrayItems' = ListItems(me)
      BY <1>1, <2>1, <3>1, <3>2, ListCalled
    <3>4. Len(ArrayItems) = ArrayLimit \/ i \notin 0 .. Len(ArrayItems)
      BY <1>1, <1>2, <2>2, <3>3 DEF Full, Misplaced
    <3> QED BY <3>3, <3>4, ArrayRefusalIs
  <2>3. CASE ~Full(me) /\ ~Misplaced(me, i)
    <3>1. sqlist_insert(me, i, d) = Inserted(me, i, d) /\ InsertResult(me, i) = << 0 >>
      BY <2>3 DEF sqlist_insert, InsertResult
    <3>2. i \in 0 .. me.last + 1
      BY <1>2, <2>3 DEF Misplaced
    <3>3. /\ Inserted(me, i, d) \in ListRecords
          /\ ListItems(Inserted(me, i, d)) = InsertAt(ListItems(me), i + 1, d)
      BY <1>1, <2>3, <3>2, InsertedIs
    <3>4. Call("insert", <<i, d>>, Inserted(me, i, d), << 0 >>)
      BY <2>1, <3>1
    <3>5. /\ ArrayInv' /\ ArrayLimit' = ArrayLimit /\ last' = <<"insert", <<i, d>>, << 0 >>>>
          /\ ArrayItems = ListItems(me) /\ ArrayItems' = ListItems(Inserted(me, i, d))
      BY <3>3, <3>4, ListCalled
    <3>6. i \in 0 .. Len(ArrayItems)
      BY <1>2, <3>2, <3>5
    <3> QED BY <3>3, <3>5, <3>6, ArrayInsertIs
  <2> QED BY <2>2, <2>3
<1>4. CASE ListDelete
  <2>1. PICK i \in -1 .. DATASIZE :
            IF i < 0 \/ i > me.last
            THEN Call("remove_at", i, me, <<-1>>)
            ELSE Call("remove_at", i, sqlist_delete(me, i), << 0 >>)
    BY <1>4 DEF ListDelete
  <2>2. CASE i < 0 \/ i > me.last
    <3>1. /\ ArrayInv' /\ ArrayLimit' = ArrayLimit /\ last' = <<"remove_at", i, <<-1>>>>
          /\ ArrayItems = ListItems(me) /\ ArrayItems' = ListItems(me)
      BY <1>1, <2>1, <2>2, ListCalled
    <3>2. i \in Int /\ i \notin 0 .. Len(ArrayItems) - 1 /\ Len(ArrayItems) \in Nat
      BY <1>1, <1>2, <2>2, <3>1
    <3> QED BY <3>1, <3>2, ArrayNoTakeOutIs
  <2>3. CASE ~ (i < 0 \/ i > me.last)
    <3>1. i \in 0 .. me.last
      BY <1>1, <1>2, <2>3
    <3>2. /\ sqlist_delete(me, i) \in ListRecords
          /\ ListItems(sqlist_delete(me, i)) = RemoveAt(ListItems(me), i + 1)
      BY <1>1, <3>1, DeletedIs
    <3>3. Call("remove_at", i, sqlist_delete(me, i), << 0 >>)
      BY <2>1, <2>3
    <3>4. /\ ArrayInv' /\ ArrayLimit' = ArrayLimit /\ last' = <<"remove_at", i, << 0 >>>>
          /\ ArrayItems = ListItems(me) /\ ArrayItems' = ListItems(sqlist_delete(me, i))
      BY <3>2, <3>3, ListCalled
    <3>5. i + 1 \in 1 .. Len(ArrayItems) /\ i = (i + 1) - 1 /\ Len(ArrayItems) \in Nat
      BY <1>2, <3>1, <3>4
    <3> HIDE DEF ListItems
    <3> QED BY <3>2, <3>4, <3>5, ArrayTakeOutIs
  <2> QED BY <2>2, <2>3
<1>5. CASE ListFind
  <2>1. PICK d \in Values : Call("find", d, me, <<sqlist_find(me, d)>>)
    BY <1>5 DEF ListFind
  <2>2. /\ ArrayInv' /\ ArrayLimit' = ArrayLimit /\ last' = <<"find", d, <<sqlist_find(me, d)>>>>
        /\ ArrayItems = ListItems(me) /\ ArrayItems' = ListItems(me)
    BY <1>1, <2>1, ListCalled
  <2> DEFINE is == {k \in 1 .. Len(ListItems(me)) : ListItems(me)[k] = d}
             at == (IF is # {} THEN Min(is) ELSE 0) - 1
  <2>3. \/ sqlist_find(me, d) = at /\ at \in 0 .. me.last - 1 /\ ListItems(me)[at + 1] = d
        \/ sqlist_find(me, d) \in {-1, -2} /\ at = -1
        \/ sqlist_find(me, d) = -2 /\ at = me.last /\ me.last \in Nat
    BY <1>1, FoundInArray
  <2>4. Arrayed!Index(d) = at
    <3>1. Arrayed!Index(d) = (IF {k \in 1 .. Len(ArrayItems) : ArrayItems[k] = d} # {}
                              THEN Min({k \in 1 .. Len(ArrayItems) : ArrayItems[k] = d}) ELSE 0) - 1
      BY Zenon DEF Arrayed!Index, Arrayed!SelectInSeq, Arrayed!Min, Min
    <3>2. {k \in 1 .. Len(ArrayItems) : ArrayItems[k] = d} = is
      BY <2>2
    <3> HIDE DEF is
    <3> QED BY <3>1, <3>2
  <2> HIDE DEF at
  <2> DEFINE result == <<sqlist_find(me, d)>>
  <2>5. \/ Arrayed!Index(d) # -1 /\ result = <<Arrayed!Index(d)>>
        \/ Arrayed!Index(d) = -1 /\ result \in {<<-1>>, <<-2>>}
        \/ Arrayed!Overlooked(d) /\ result = <<-2>>
    <3>1. CASE sqlist_find(me, d) = at /\ at \in 0 .. me.last - 1
      BY <2>4, <3>1
    <3>2. CASE sqlist_find(me, d) \in {-1, -2} /\ at = -1
      BY <2>4, <3>2
    <3>3. CASE sqlist_find(me, d) = -2 /\ at = me.last /\ me.last \in Nat
      BY <1>1, <1>2, <2>2, <2>4, <3>3 DEF Arrayed!Overlooked
    <3> QED BY <2>3, <3>1, <3>2, <3>3
  <2>6. last' = <<"find", d, result>>
    BY <2>2
  <2> HIDE DEF result
  <2> QED BY <2>2, <2>5, <2>6, ArrayReadIs
<1>6. CASE ListTravel
  <2>1. Call("travel", 0, me, << 0 >> \o ListItems(me))
    BY <1>6 DEF ListTravel
  <2> DEFINE s == ListItems(me)
             result == << 0 >> \o s
  <2> HIDE DEF result
  <2>2. /\ ArrayInv' /\ ArrayLimit' = ArrayLimit /\ last' = <<"travel", 0, result>>
        /\ ArrayItems = s /\ ArrayItems' = s
    <3>1. Call("travel", 0, me, result)
      BY <2>1 DEF result
    <3> QED BY <1>1, <3>1, ListCalled
  <2>3. last' = <<"travel", 0, << 0 >> \o s>>
    BY <2>2 DEF result
  <2> HIDE DEF s
  <2> QED BY <2>2, <2>3, ArrayTravelsOver
<1>7. CASE ListSetEmpty
  <2> DEFINE to == [me EXCEPT !.last = -1]
  <2>1. Call("setempty", 0, to, << 0 >>)
    BY <1>7 DEF ListSetEmpty
  <2>2. to \in ListRecords /\ to.last = -1
    BY <1>1 DEF ListRecords
  <2>3. ListItems(to) = <<>>
    BY <2>2 DEF ListItems
  <2> HIDE DEF to
  <2>4. ArrayInv' /\ ArrayLimit' = ArrayLimit /\ last' = <<"setempty", 0, << 0 >>>> /\ ArrayItems' = ListItems(to)
    BY <2>1, <2>2, ListCalled
  <2> QED BY <2>3, <2>4, ArrayClearIs
<1>8. CASE ListUnion
  <2>1. PICK other \in Others : Call("union", other, sqlist_union(me, other), << 0 >>)
    BY <1>8 DEF ListUnion
  <2> DEFINE to == sqlist_union(me, other)
  <2>2. other \in Seq(Values) /\ other \in Seq(Values \cup {Garbage})
    BY ArrayAssumption
  <2>3. IsUnited(me, other, Len(other), to)
    BY <1>1, <2>2, UnionIs
  <2>4. to \in ListRecords
    BY <2>3 DEF IsUnited
  <2> HIDE DEF to
  <2>5. PICK n \in 0 .. to.last + 1 :
         /\ to.last = me.last + n
         /\ \A j \in 1 .. me.last + 1 : ListItems(to)[n + j] = ListItems(me)[j]
         /\ \A i \in 1 .. n : /\ \E j \in 1 .. Len(other) : other[j] = ListItems(to)[i]
                              /\ \A j \in 1 .. me.last : ListItems(me)[j] # ListItems(to)[i]
    BY <2>3 DEF IsUnited
  <2>6. \A j \in 1 .. Len(other) : \/ to.last = DATASIZE - 1
                                   \/ \E i \in 1 .. to.last + 1 : ListItems(to)[i] = other[j]
    BY <2>3 DEF IsUnited
  <2>7. /\ to.last \in -1 .. DATASIZE - 1 /\ to.last + 1 \in Nat
        /\ ListItems(to) \in Seq(Values \cup {Garbage}) /\ Len(ListItems(to)) = to.last + 1
    BY <2>4, ListItemsAre
  <2>8. /\ ArrayInv' /\ ArrayLimit' = ArrayLimit /\ last' = <<"union", other, << 0 >>>>
        /\ ArrayItems = ListItems(me) /\ ArrayItems' = ListItems(to)
    <3>1. Call("union", other, to, << 0 >>)
      BY <2>1 DEF to
    <3> QED BY <2>4, <3>1, ListCalled
  <2>9. n \in Nat /\ Len(ArrayItems') = Len(ArrayItems) + n /\ Len(ArrayItems) - 1 = me.last
    <3>1. n \in Nat /\ me.last \in Int
      BY <1>2, <2>5, <2>7
    <3>2. Len(ArrayItems') = to.last + 1 /\ Len(ArrayItems) = me.last + 1
      BY <1>2, <2>7, <2>8
    <3> QED BY <2>5, <3>1, <3>2
  <2>10. IsJoined(ArrayItems, other, n, ArrayItems')
    <3>1. to.last = DATASIZE - 1 => Len(ListItems(to)) = ArrayLimit
      BY <1>1, <2>7
    <3>2. /\ Len(ListItems(me)) = me.last + 1 /\ Len(ListItems(me)) - 1 = me.last
          /\ Len(ListItems(to)) = to.last + 1 /\ Len(ListItems(to)) = Len(ListItems(me)) + n
      <4>1. Len(ListItems(me)) = me.last + 1 /\ Len(ListItems(to)) = to.last + 1 /\ to.last = me.last + n
        BY <1>2, <2>5, <2>7
      <4>2. me.last \in Int /\ n \in Int
        BY <1>2, <2>5, <2>7
      <4> QED BY <4>1, <4>2
    <3>3. IsJoined(ListItems(me), other, n, ListItems(to))
      BY <2>5, <2>6, <3>1, <3>2 DEF IsJoined
    <3> QED BY <2>8, <3>3
  <2>13. ArrayItems \in Seq(Values \cup {Garbage}) /\ ArrayItems' \in Seq(Values \cup {Garbage})
    BY <1>2, <2>7, <2>8
  <2> QED BY <1>1, <2>2, <2>8, <2>9, <2>10, <2>13, ArrayUnionIs
<1> QED BY <1>3, <1>4, <1>5, <1>6, <1>7, <1>8

LEMMA StackCalled ==
    ASSUME ArrayInv, program = "sqstack", program' = program,
           NEW name, NEW args, NEW to \in StackRecords, NEW result, Call(name, args, to, result)
    PROVE  /\ ArrayInv' /\ ArrayLimit' = ArrayLimit /\ last' = <<name, args, result>>
           /\ ArrayItems = StackItems(me)
           /\ name # "destroy" => ArrayItems' = StackItems(to)
<1>1. ArrayLive /\ me' = to /\ last' = <<name, args, result>> /\ program \notin {"squeue"} /\ program # "squeue"
  BY DEF Call
<1>2. name # "destroy" => ArrayLive'
  BY <1>1 DEF ArrayLive
<1>3. ArrayItems = StackItems(me)
  BY <1>1, ArrayStateIs
<1>4. ArrayInv'
  BY <1>1 DEF ArrayInv
<1>5. name # "destroy" => ArrayItems' = StackItems(to)
  BY <1>1, <1>2 DEF ArrayItems
<1>6. ArrayLimit' = ArrayLimit
  BY DEF ArrayLimit
<1> QED BY <1>1, <1>3, <1>4, <1>5, <1>6

LEMMA RingCalled ==
    ASSUME ArrayInv, program = "squeue", program' = program,
           NEW name, NEW args, NEW to \in RingRecords, NEW result, Call(name, args, to, result)
    PROVE  /\ ArrayInv' /\ ArrayLimit' = ArrayLimit /\ last' = <<name, args, result>>
           /\ ArrayItems = RingItems(me)
           /\ name # "destroy" => ArrayItems' = RingItems(to)
<1>1. ArrayLive /\ me' = to /\ last' = <<name, args, result>> /\ program # "sqstack"
  BY DEF Call
<1>2. name # "destroy" => ArrayLive'
  BY <1>1 DEF ArrayLive
<1>3. ArrayItems = RingItems(me)
  BY <1>1, ArrayStateIs
<1>4. ArrayInv'
  BY <1>1 DEF ArrayInv
<1>5. name # "destroy" => ArrayItems' = RingItems(to)
  BY <1>1, <1>2 DEF ArrayItems
<1>6. ArrayLimit' = ArrayLimit
  BY DEF ArrayLimit
<1> QED BY <1>1, <1>3, <1>4, <1>5, <1>6

LEMMA SqstackStep ==
    ASSUME ArrayInv, program = "sqstack", program' = program, StPush \/ StPop \/ StTop \/ StTravel
    PROVE  ArrayInv' /\ Arrayed!Next
<1>1. me \in StackRecords /\ ArrayLimit = DATASIZE /\ DATASIZE \in Nat /\ IsStack(DATASIZE, Values, me)
  BY ArrayStateIs, SizeIs DEF StackRecords, IsStack
<1>2. /\ me.top \in -1 .. DATASIZE - 1 /\ me.top + 1 \in Nat
      /\ StackItems(me) \in Seq(Values \cup {Garbage}) /\ Len(StackItems(me)) = me.top + 1
      /\ StackFull(me) <=> me.top = DATASIZE - 1
  <2>1. StackLaid(DATASIZE, Values, me)
    BY <1>1, StackItemsAre
  <2> QED BY <2>1 DEF StackLaid
<1>3. CASE StPush
  <2>1. PICK d \in Values : Call("insert", <<me.top + 1, d>>, st_push(me, d),
                                 IF StackFull(me) THEN <<-1>> ELSE << 0 >>)
    BY <1>3 DEF StPush
  <2>2. CASE StackFull(me)
    <3>1. Call("insert", <<me.top + 1, d>>, me, <<-1>>)
      BY <2>1, <2>2 DEF st_push
    <3>2. /\ ArrayInv' /\ ArrayLimit' = ArrayLimit /\ last' = <<"insert", <<me.top + 1, d>>, <<-1>>>>
          /\ ArrayItems = StackItems(me) /\ ArrayItems' = StackItems(me)
      BY <1>1, <3>1, StackCalled
    <3>3. Len(ArrayItems) = ArrayLimit
      BY <1>1, <1>2, <2>2, <3>2
    <3> QED BY <3>2, <3>3, ArrayRefusalIs
  <2>3. CASE ~StackFull(me)
    <3>1. Call("insert", <<me.top + 1, d>>, Pushed(me, d), << 0 >>)
      BY <2>1, <2>3 DEF st_push
    <3>2. /\ Pushed(me, d) \in StackRecords
          /\ StackItems(Pushed(me, d)) = InsertAt(StackItems(me), Len(StackItems(me)) + 1, d)
      BY <1>1, <2>3, PushedIs DEF IsStack, StackRecords
    <3>3. /\ ArrayInv' /\ ArrayLimit' = ArrayLimit /\ last' = <<"insert", <<me.top + 1, d>>, << 0 >>>>
          /\ ArrayItems = StackItems(me) /\ ArrayItems' = StackItems(Pushed(me, d))
      BY <3>1, <3>2, StackCalled
    <3>4. me.top + 1 \in 0 .. Len(ArrayItems) /\ ArrayItems' = InsertAt(ArrayItems, (me.top + 1) + 1, d)
      BY <1>2, <3>2, <3>3
    <3> QED BY <3>3, <3>4, ArrayInsertIs
  <2> QED BY <2>2, <2>3
<1>4. CASE StPop
  <2>1. CASE st_isempty(me)
    <3>1. Call("pop_last", 0, me, <<-1>>)
      BY <1>4, <2>1 DEF StPop
    <3>2. /\ ArrayInv' /\ ArrayLimit' = ArrayLimit /\ last' = <<"pop_last", 0, <<-1>>>>
          /\ ArrayItems = StackItems(me) /\ ArrayItems' = StackItems(me)
      BY <1>1, <3>1, StackCalled
    <3>3. Len(ArrayItems) = 0
      BY <1>2, <2>1, <3>2 DEF st_isempty
    <3> QED BY <3>2, <3>3, ArrayNoTakeOutIs
  <2>2. CASE ~st_isempty(me)
    <3>1. Call("pop_last", 0, st_pop(me), <<0, st_top(me)>>)
      BY <1>4, <2>2 DEF StPop
    <3>2. /\ st_pop(me) \in StackRecords
          /\ Len(StackItems(me)) \in 1 .. DATASIZE
          /\ StackItems(st_pop(me)) = RemoveAt(StackItems(me), Len(StackItems(me)))
          /\ st_top(me) = StackItems(me)[Len(StackItems(me))]
      BY <1>1, <2>2, PoppedIs DEF IsStack, StackRecords
    <3>3. /\ ArrayInv' /\ ArrayLimit' = ArrayLimit /\ last' = <<"pop_last", 0, <<0, st_top(me)>>>>
          /\ ArrayItems = StackItems(me) /\ ArrayItems' = StackItems(st_pop(me))
      BY <3>1, <3>2, StackCalled
    <3>4. PICK i \in 1 .. DATASIZE : i = Len(ArrayItems)
      BY <3>2, <3>3
    <3>5. i \in 1 .. Len(ArrayItems) /\ Len(ArrayItems) \in Nat /\ ArrayItems' = RemoveAt(ArrayItems, i)
      BY <3>2, <3>3, <3>4
    <3>6. last' = <<"pop_last", 0, <<0, ArrayItems[i]>>>>
      BY <3>2, <3>3, <3>4
    <3> QED BY <3>3, <3>4, <3>5, <3>6, ArrayTakeOutIs
  <2> QED BY <2>1, <2>2
<1>5. CASE StTop
  <2> DEFINE result == IF st_isempty(me) THEN <<-1>> ELSE <<0, st_top(me)>>
  <2>1. Call("top", 0, me, result)
    BY <1>5 DEF StTop
  <2>2. CASE st_isempty(me)
    <3>1. StackItems(me) = <<>> /\ result = <<-1>>
      BY <1>2, <2>2 DEF st_isempty
    <3> HIDE DEF result
    <3> QED BY <1>1, <2>1, <3>1, StackCalled, ArrayReadIs
  <2>3. CASE ~st_isempty(me)
    <3>1. Len(StackItems(me)) \in 1 .. DATASIZE /\ result = <<0, StackItems(me)[Len(StackItems(me))]>>
      BY <1>1, <2>3, PoppedIs DEF IsStack, StackRecords
    <3>2. StackItems(me) # <<>>
      BY <3>1
    <3> HIDE DEF result
    <3>3. /\ ArrayInv' /\ ArrayLimit' = ArrayLimit /\ last' = <<"top", 0, result>>
          /\ ArrayItems = StackItems(me) /\ ArrayItems' = StackItems(me)
      BY <1>1, <2>1, StackCalled
    <3> QED BY <3>1, <3>2, <3>3, ArrayReadIs
  <2> QED BY <2>2, <2>3
<1>6. CASE StTravel
  <2>1. Call("travel", 0, me, << 0 >> \o StackItems(me))
    BY <1>6 DEF StTravel
  <2> DEFINE s == StackItems(me)
             result == << 0 >> \o s
  <2> HIDE DEF result
  <2>2. /\ ArrayInv' /\ ArrayLimit' = ArrayLimit /\ last' = <<"travel", 0, result>>
        /\ ArrayItems = s /\ ArrayItems' = s
    <3>1. Call("travel", 0, me, result)
      BY <2>1 DEF result
    <3> QED BY <1>1, <3>1, StackCalled
  <2>3. last' = <<"travel", 0, << 0 >> \o s>>
    BY <2>2 DEF result
  <2> HIDE DEF s
  <2> QED BY <2>2, <2>3, ArrayTravelsOver
<1> QED BY <1>3, <1>4, <1>5, <1>6

LEMMA SqueueStep ==
    ASSUME ArrayInv, program = "squeue", program' = program, QuEnqueue \/ QuDequeue \/ QuTravel \/ QuClear
    PROVE  ArrayInv' /\ Arrayed!Next
<1>1. /\ me \in RingRecords /\ ArrayLimit = DATASIZE - 1 /\ DATASIZE \in Nat /\ DATASIZE > 1
      /\ IsRing(DATASIZE, Values, me)
  BY ArrayStateIs, SizeIs DEF RingRecords, IsRing
<1>2. /\ me.head \in 0 .. DATASIZE - 1 /\ me.tail \in 0 .. DATASIZE - 1
      /\ Span(DATASIZE, me) \in 0 .. DATASIZE - 1
      /\ RingItems(me) \in Seq(Values \cup {Garbage}) /\ Len(RingItems(me)) = Span(DATASIZE, me)
      /\ \A i \in 0 .. DATASIZE - 1 : After(me, i) = IF i = DATASIZE - 1 THEN 0 ELSE i + 1
  <2>1. RingLaid(DATASIZE, Values, me)
    BY <1>1, RingIs
  <2> QED BY <2>1 DEF RingLaid
<1>3. CASE QuEnqueue
  <2>1. PICK d \in Values : Call("insert", <<Len(RingItems(me)), d>>, qu_enqueue(me, d),
                                 IF RingFull(me) THEN <<-1>> ELSE << 0 >>)
    BY <1>3 DEF QuEnqueue
  <2> DEFINE n == Len(RingItems(me))
  <2>2. CASE RingFull(me)
    <3>1. Call("insert", <<n, d>>, me, <<-1>>)
      BY <2>1, <2>2 DEF qu_enqueue
    <3> HIDE DEF n
    <3>2. /\ ArrayInv' /\ ArrayLimit' = ArrayLimit /\ last' = <<"insert", <<n, d>>, <<-1>>>>
          /\ ArrayItems = RingItems(me) /\ ArrayItems' = RingItems(me)
      BY <1>1, <3>1, RingCalled
    <3>3. Span(DATASIZE, me) = DATASIZE - 1
      <4>1. me.head = IF me.tail = DATASIZE - 1 THEN 0 ELSE me.tail + 1
        BY <1>2, <2>2 DEF RingFull
      <4> QED BY <1>1, <1>2, <4>1 DEF Span
    <3>4. Len(ArrayItems) = ArrayLimit
      BY <1>1, <1>2, <3>2, <3>3
    <3> QED BY <3>2, <3>4, ArrayRefusalIs
  <2>3. CASE ~RingFull(me)
    <3>1. Call("insert", <<n, d>>, Queued(me, d), << 0 >>)
      BY <2>1, <2>3 DEF qu_enqueue
    <3>2. /\ Queued(me, d) \in RingRecords
          /\ RingItems(Queued(me, d)) = InsertAt(RingItems(me), n + 1, d)
      BY <1>1, <2>3, QueuedIs DEF IsRing, RingRecords
    <3>3. /\ ArrayInv' /\ ArrayLimit' = ArrayLimit /\ last' = <<"insert", <<n, d>>, << 0 >>>>
          /\ ArrayItems = RingItems(me) /\ ArrayItems' = RingItems(Queued(me, d))
      <4> HIDE DEF n
      <4> QED BY <3>1, <3>2, RingCalled
    <3>4. n \in 0 .. Len(ArrayItems)
      BY <1>2, <3>3
    <3> HIDE DEF n
    <3> QED BY <3>2, <3>3, <3>4, ArrayInsertIs
  <2> QED BY <2>2, <2>3
<1>4. CASE QuDequeue
  <2>1. CASE qu_isempty(me)
    <3>1. Call("pop", 0, me, <<-1>>)
      BY <1>4, <2>1 DEF QuDequeue
    <3>2. /\ ArrayInv' /\ ArrayLimit' = ArrayLimit /\ last' = <<"pop", 0, <<-1>>>>
          /\ ArrayItems = RingItems(me) /\ ArrayItems' = RingItems(me)
      BY <1>1, <3>1, RingCalled
    <3>3. Len(ArrayItems) = 0
      BY <1>2, <2>1, <3>2 DEF qu_isempty, Span
    <3> QED BY <3>2, <3>3, ArrayNoTakeOutIs
  <2>2. CASE ~qu_isempty(me)
    <3>1. Call("pop", 0, qu_dequeue(me), <<0, Foremost(me)>>)
      BY <1>4, <2>2 DEF QuDequeue
    <3>2. /\ qu_dequeue(me) \in RingRecords
          /\ Len(RingItems(me)) \in 1 .. DATASIZE
          /\ RingItems(qu_dequeue(me)) = RemoveAt(RingItems(me), 1)
          /\ Foremost(me) = RingItems(me)[1]
      BY <1>1, <2>2, DequeuedIs DEF IsRing, RingRecords
    <3>3. /\ ArrayInv' /\ ArrayLimit' = ArrayLimit /\ last' = <<"pop", 0, <<0, Foremost(me)>>>>
          /\ ArrayItems = RingItems(me) /\ ArrayItems' = RingItems(qu_dequeue(me))
      BY <3>1, <3>2, RingCalled
    <3>4. 1 \in 1 .. Len(ArrayItems) /\ Len(ArrayItems) \in Nat /\ ArrayItems' = RemoveAt(ArrayItems, 1)
      BY <3>2, <3>3
    <3>5. last' = <<"pop", 0, <<0, ArrayItems[1]>>>>
      BY <3>2, <3>3
    <3> QED BY <3>3, <3>4, <3>5, ArrayTakeOutIs
  <2> QED BY <2>1, <2>2
<1>5. CASE QuTravel
  <2>1. Call("travel", 0, me, << 0 >> \o RingItems(me))
    BY <1>5 DEF QuTravel
  <2> DEFINE s == RingItems(me)
             result == << 0 >> \o s
  <2> HIDE DEF result
  <2>2. /\ ArrayInv' /\ ArrayLimit' = ArrayLimit /\ last' = <<"travel", 0, result>>
        /\ ArrayItems = s /\ ArrayItems' = s
    <3>1. Call("travel", 0, me, result)
      BY <2>1 DEF result
    <3> QED BY <1>1, <3>1, RingCalled
  <2>3. last' = <<"travel", 0, << 0 >> \o s>>
    BY <2>2 DEF result
  <2> HIDE DEF s
  <2> QED BY <2>2, <2>3, ArrayTravelsOver
<1>6. CASE QuClear
  <2> DEFINE to == qu_clear(me)
  <2>1. Call("setempty", 0, to, << 0 >>)
    BY <1>6 DEF QuClear
  <2>2. to \in RingRecords /\ to.head = to.tail
    BY <1>1 DEF RingRecords, RingOf, qu_clear
  <2> HIDE DEF to
  <2>3. RingItems(to) = <<>>
    <3>1. Span(DATASIZE, to) = 0 /\ Len(RingItems(to)) = Span(DATASIZE, to) /\ RingItems(to) \in Seq(Values \cup {Garbage})
      <4>1. IsRing(DATASIZE, Values, to)
        BY <1>1, <2>2 DEF IsRing, RingRecords
      <4>2. RingLaid(DATASIZE, Values, to)
        BY <4>1, RingIs
      <4> QED BY <2>2, <4>2 DEF RingLaid, Span
    <3> QED BY <3>1
  <2>4. ArrayInv' /\ ArrayLimit' = ArrayLimit /\ last' = <<"setempty", 0, << 0 >>>> /\ ArrayItems' = RingItems(to)
    BY <2>1, <2>2, RingCalled
  <2> QED BY <2>3, <2>4, ArrayClearIs
<1> QED BY <1>3, <1>4, <1>5, <1>6

LEMMA ArrayKept ==
    ASSUME ArrayInv, [NextStructures]_structureVars
    PROVE  ArrayInv' /\ [Arrayed!Next]_(Arrayed!abstractVars)
<1>1. CASE OnArray(ArrayPrograms, ArrayNext)
  <2>1. program' = program /\ program \in {"sqlist", "sqstack", "squeue"} /\ ArrayNext
    BY <1>1 DEF OnArray, ArrayPrograms
  <2>2. CASE ArrayDestroy
    <3>1. Call("destroy", 0, me, << 0 >>)
      BY <2>2 DEF ArrayDestroy
    <3>2. me' = me /\ last' = <<"destroy", 0, << 0 >>>> /\ ~ArrayLive'
      BY <3>1 DEF Call, ArrayLive
    <3>3. ArrayInv' /\ ArrayLimit' = ArrayLimit
      BY <2>1, <3>2 DEF ArrayInv, ArrayLimit
    <3>4. ArrayItems' = <<>>
      BY <2>1, <3>2 DEF ArrayItems
    <3> QED BY <3>2, <3>3, <3>4, ArrayClearIs
  <2>3. CASE /\ program = "sqlist"
             /\ (ListInsert \/ ListDelete \/ ListFind \/ ListTravel \/ ListSetEmpty \/ ListUnion)
    BY <2>1, <2>3, SqlistStep
  <2>4. CASE program = "sqstack" /\ (StPush \/ StPop \/ StTop \/ StTravel)
    BY <2>1, <2>4, SqstackStep
  <2>5. CASE program = "squeue" /\ (QuEnqueue \/ QuDequeue \/ QuTravel \/ QuClear)
    BY <2>1, <2>5, SqueueStep
  <2> QED BY <2>1, <2>2, <2>3, <2>4, <2>5 DEF ArrayNext
<1>2. CASE UNCHANGED <<program, arrayVars>>
  <2>1. program' = program /\ me' = me /\ last' = last
    BY <1>2 DEF arrayVars
  <2>2. ArrayInv' /\ ArrayItems' = ArrayItems /\ ArrayLimit' = ArrayLimit
    BY <2>1 DEF ArrayInv, ArrayItems, ArrayLimit, ArrayLive
  <2> QED BY <2>1, <2>2 DEF Arrayed!abstractVars
<1>3. CASE OnChain({"nohead"}, NoHeadNext) \/ OnChain({"head"}, HeadNext) \/ OnChain(Rings, LlistNext)
           \/ OnClock(Turn) \/ OnRing(Kill) \/ OnPoly(PolyNext)
           \/ OnTree(TreeNext) \/ OnTrie(TrieNext) \/ OnFile(SaveNext) \/ UNCHANGED structureVars
  BY <1>2, <1>3 DEF OnChain, OnClock, OnRing, OnPoly, OnTree, OnTrie, OnFile, structureVars
<1> QED BY <1>1, <1>3 DEF NextStructures

\* Every call of the array list, the stack and the ring does to its items, for any
\* size, what Sequence says of the call of that name, and returns what belongs to
\* it: past the shifted slots, around the end of the ring, and with what the search
\* overlooks (sqlist.c, sqstack.c, queue.c).
THEOREM ArraysAreSequences == SpecStructures => ArraysImplementSequence
<1>1. InitStructures => ArrayInv /\ Arrayed!Init
  <2> SUFFICES ASSUME InitStructures PROVE ArrayInv /\ Arrayed!Init
    OBVIOUS
  <2>1. /\ last = <<"create", 0, << 0 >>>>
        /\ me = CASE program = "sqstack" -> st_create(DATASIZE)
                  [] program = "squeue"  -> qu_create(DATASIZE)
                  [] OTHER               -> sqlist_create
    BY DEF InitStructures, ArrayInit
  <2>2. ArrayLive
    BY <2>1 DEF ArrayLive
  <2>3. Blank(DATASIZE) \in Held /\ -1 \in -1 .. DATASIZE - 1 /\ 0 \in Slots(DATASIZE)
    BY SizeIs DEF Blank, Held, HeldOf, Slots
  <2>4. CASE program = "sqstack"
    <3>1. me = [data |-> Blank(DATASIZE), top |-> -1] /\ program # "squeue"
      BY <2>1, <2>4 DEF st_create
    <3>2. me \in StackRecords
      BY <2>3, <3>1 DEF StackRecords, StackOf, Held
    <3>3. ArrayItems = StackItems(me)
      BY <2>2, <2>4 DEF ArrayItems
    <3>4. StackItems(me) = <<>>
      BY <3>1 DEF StackItems
    <3> QED BY <2>1, <2>4, <3>1, <3>2, <3>3, <3>4 DEF ArrayInv, Arrayed!Init
  <2>5. CASE program = "squeue"
    <3>1. me = [data |-> Blank(DATASIZE), head |-> 0, tail |-> 0] /\ program # "sqstack"
      BY <2>1, <2>5 DEF qu_create
    <3>2. me \in RingRecords
      BY <2>3, <3>1 DEF RingRecords, RingOf, Held
    <3>3. ArrayItems = RingItems(me)
      BY <2>2, <2>5, <3>1 DEF ArrayItems
    <3>4. Span(DATASIZE, me) = 0 /\ Len(RingItems(me)) = Span(DATASIZE, me) /\ RingItems(me) \in Seq(Values \cup {Garbage})
      <4>1. IsRing(DATASIZE, Values, me)
        BY <3>2, SizeIs DEF IsRing, RingRecords
      <4>2. RingLaid(DATASIZE, Values, me)
        BY <4>1, RingIs
      <4> QED BY <3>1, <4>2 DEF RingLaid, Span
    <3>5. RingItems(me) = <<>>
      BY <3>4
    <3> QED BY <2>1, <2>5, <3>1, <3>2, <3>3, <3>5 DEF ArrayInv, Arrayed!Init
  <2>6. CASE program \notin {"sqstack", "squeue"}
    <3>1. me = [data |-> Blank(DATASIZE), last |-> -1]
      BY <2>1, <2>6 DEF sqlist_create
    <3>2. me \in ListRecords
      BY <2>3, <3>1 DEF ListRecords
    <3>3. ArrayItems = ListItems(me)
      BY <2>2, <2>6 DEF ArrayItems
    <3>4. ListItems(me) = <<>>
      BY <3>1 DEF ListItems
    <3> QED BY <2>1, <2>6, <3>2, <3>3, <3>4 DEF ArrayInv, Arrayed!Init
  <2> QED BY <2>4, <2>5, <2>6
<1>2. ArrayInv /\ [NextStructures]_structureVars => ArrayInv' /\ [Arrayed!Next]_(Arrayed!abstractVars)
  BY ArrayKept
<1> QED BY <1>1, <1>2, PTL DEF SpecStructures, ArraysImplementSequence, Arrayed!Spec

-----------------------------------------------------------------------------
(* The ball clock *)

LEMMA InRange ==
    ASSUME NEW S, NEW s \in Seq(S)
    PROVE  /\ Range(s) = {s[i] : i \in 1 .. Len(s)} /\ Range(s) \subseteq S
           /\ \A T : Range(s) \subseteq T => s \in Seq(T)
<1>1. DOMAIN s = 1 .. Len(s) /\ Len(s) \in Nat /\ \A i \in 1 .. Len(s) : s[i] \in S
  OBVIOUS
<1>2. Range(s) = {s[i] : i \in 1 .. Len(s)}
  BY <1>1 DEF Range
<1>3. ASSUME NEW T, Range(s) \subseteq T PROVE s \in Seq(T)
  <2>1. s \in [1 .. Len(s) -> T]
    <3>1. s \in [1 .. Len(s) -> S]
      OBVIOUS
    <3> QED BY <1>2, <1>3, <3>1
  <2> QED BY <1>1, <2>1, ItemsInArray
<1> QED BY <1>1, <1>2, <1>3

WithLast(s, d) == InsertAt(s, Len(s) + 1, d)
IsLonger(S, s, d) ==
    LET a == WithLast(s, d)
    IN  a \in Seq(S) /\ Len(a) = Len(s) + 1 /\ Range(a) = Range(s) \cup {d}

LEMMA AtTheEnd ==
    ASSUME NEW S, NEW s \in Seq(S), NEW d \in S
    PROVE  IsLonger(S, s, d)
<1> DEFINE n == Len(s)
           a == WithLast(s, d)
<1>1. n \in Nat /\ n \in 0 .. n /\ \A i \in 1 .. n : s[i] \in S
  OBVIOUS
<1>2. a = WithIn(s, n, d)
  BY <1>1, InsertAtIs DEF WithLast
<1>3. a = [k \in 1 .. n + 1 |-> IF k = n + 1 THEN d ELSE s[k]]
  <2>1. \A k \in 1 .. n + 1 : (IF k <= n THEN s[k] ELSE IF k = n + 1 THEN d ELSE s[k - 1])
                                = IF k = n + 1 THEN d ELSE s[k]
    BY <1>1
  <2> HIDE DEF a, n
  <2> QED BY <1>2, <2>1 DEF WithIn, n
<1> HIDE DEF a
<1>4. \A k \in 1 .. n + 1 : k = n + 1 \/ k \in 1 .. n
  BY <1>1
<1>5. a \in [1 .. n + 1 -> S]
  <2> HIDE DEF n
  <2> QED BY <1>1, <1>3, <1>4
<1>6. n + 1 \in Nat /\ n + 1 \in 1 .. n + 1 /\ \A k \in 1 .. n : k \in 1 .. n + 1 /\ k # n + 1
  BY <1>1
<1>7. a \in Seq(S) /\ Len(a) = n + 1
  BY <1>5, <1>6, ItemsInArray
<1>8. a[n + 1] = d /\ \A k \in 1 .. n : a[k] = s[k]
  <2> HIDE DEF n
  <2> QED BY <1>3, <1>6
<1>9. Range(s) = {s[i] : i \in 1 .. n} /\ Range(a) = {a[i] : i \in 1 .. n + 1}
  BY <1>7, InRange
<1> HIDE DEF n
<1>10. Range(a) = Range(s) \cup {d}
  BY <1>4, <1>6, <1>8, <1>9
<1> QED BY <1>7, <1>10 DEF a, n, IsLonger

LEMMA WithoutFirst ==
    ASSUME NEW S, NEW s \in Seq(S), Len(s) # 0
    PROVE  LET a == RemoveAt(s, 1)
           IN  a \in Seq(S) /\ Len(a) = Len(s) - 1 /\ Range(a) \cup {s[1]} = Range(s)
<1> DEFINE n == Len(s)
           a == RemoveAt(s, 1)
<1>1. n \in Nat \ {0} /\ 1 \in 1 .. n /\ \A i \in 1 .. n : s[i] \in S
  OBVIOUS
<1>2. a = Without(s, 1)
  BY <1>1, RemoveAtIs
<1>3. a = [k \in 1 .. n - 1 |-> s[k + 1]]
  <2>1. \A k \in 1 .. n - 1 : (IF k < 1 THEN s[k] ELSE s[k + 1]) = s[k + 1]
    BY <1>1
  <2> HIDE DEF a, n
  <2> QED BY <1>2, <2>1 DEF Without, n
<1> HIDE DEF a
<1>4. /\ n - 1 \in Nat /\ \A k \in 1 .. n - 1 : k + 1 \in 1 .. n
      /\ \A k \in 1 .. n : k = 1 \/ (k - 1 \in 1 .. n - 1 /\ (k - 1) + 1 = k)
  BY <1>1
<1>5. a \in [1 .. n - 1 -> S]
  <2> HIDE DEF n
  <2> QED BY <1>1, <1>3, <1>4
<1>7. a \in Seq(S) /\ Len(a) = n - 1
  BY <1>4, <1>5, ItemsInArray
<1>8. \A k \in 1 .. n - 1 : a[k] = s[k + 1]
  <2> HIDE DEF n
  <2> QED BY <1>3
<1>9. Range(s) = {s[i] : i \in 1 .. n} /\ Range(a) = {a[i] : i \in 1 .. n - 1}
  BY <1>7, InRange
<1> HIDE DEF n
<1>10. \A x \in Range(a) : x \in Range(s)
  BY <1>4, <1>8, <1>9
<1>11. \A x \in Range(s) : x = s[1] \/ x \in Range(a)
  <2> TAKE x \in Range(s)
  <2>1. PICK k \in 1 .. n : x = s[k]
    BY <1>9
  <2>2. CASE k # 1
    <3>1. k - 1 \in 1 .. n - 1 /\ a[k - 1] = s[k]
      <4>1. k - 1 \in 1 .. n - 1 /\ (k - 1) + 1 = k
        BY <1>4, <2>2
      <4> QED BY <1>8, <4>1
    <3> QED BY <1>9, <2>1, <3>1
  <2> QED BY <2>1, <2>2
<1>12. s[1] \in Range(s)
  BY <1>1, <1>9
<1> QED BY <1>7, <1>10, <1>11, <1>12 DEF a, n

LEMMA ReverseIs ==
    ASSUME NEW S, NEW s \in Seq(S)
    PROVE  Reverse(s) \in Seq(S) /\ Len(Reverse(s)) = Len(s) /\ Range(Reverse(s)) = Range(s)
<1> DEFINE n == Len(s)
           a == Reverse(s)
<1>1. n \in Nat /\ \A i \in 1 .. n : s[i] \in S
  OBVIOUS
<1>2. a = [k \in 1 .. n |-> s[(n - k) + 1]]
  BY DEF Reverse
<1> HIDE DEF a
<1>3. \A k \in 1 .. n : (n - k) + 1 \in 1 .. n /\ (n - ((n - k) + 1)) + 1 = k
  BY <1>1
<1>4. a \in [1 .. n -> S]
  <2> HIDE DEF n
  <2> QED BY <1>1, <1>2, <1>3
<1>5. a \in Seq(S) /\ Len(a) = n
  BY <1>1, <1>4, ItemsInArray
<1>6. \A k \in 1 .. n : a[k] = s[(n - k) + 1]
  <2> HIDE DEF n
  <2> QED BY <1>2
<1>7. Range(s) = {s[i] : i \in 1 .. n} /\ Range(a) = {a[i] : i \in 1 .. n}
  BY <1>5, InRange
<1> HIDE DEF n
<1>8. \A x \in Range(a) : x \in Range(s)
  BY <1>3, <1>6, <1>7
<1>9. \A x \in Range(s) : x \in Range(a)
  <2> TAKE x \in Range(s)
  <2>1. PICK k \in 1 .. n : x = s[k]
    BY <1>7
  <2>2. a[(n - k) + 1] = s[k]
    BY <1>3, <1>6
  <2> QED BY <1>3, <1>7, <2>1, <2>2
<1> QED BY <1>5, <1>8, <1>9 DEF a, n

AreJoined(S, a, s, u) ==
    a \in Seq(S) /\ Len(a) = Len(s) + Len(u) /\ Range(a) = Range(s) \cup Range(u)

LEMMA JoinedAre ==
    ASSUME NEW S, NEW s \in Seq(S), NEW u \in Seq(S), NEW a, a = s \o u
    PROVE  AreJoined(S, a, s, u)
<1> DEFINE n == Len(s)
           m == Len(u)
<1>1. /\ n \in Nat /\ m \in Nat /\ a \in Seq(S) /\ Len(a) = n + m
      /\ \A i \in 1 .. n + m : a[i] = IF i <= n THEN s[i] ELSE u[i - n]
  BY ConcatProperties
<1>2. /\ Range(s) = {s[i] : i \in 1 .. n} /\ Range(u) = {u[i] : i \in 1 .. m}
      /\ Range(a) = {a[i] : i \in 1 .. n + m}
  <2>1. Range(s) = {s[i] : i \in 1 .. n} /\ Range(u) = {u[i] : i \in 1 .. m}
    BY InRange
  <2>2. Range(a) = {a[i] : i \in 1 .. Len(a)}
    <3>1. DOMAIN a = 1 .. Len(a)
      BY <1>1
    <3> QED BY <3>1 DEF Range
  <2> QED BY <1>1, <2>1, <2>2
<1> HIDE DEF n, m
<1>3. ASSUME NEW x \in Range(s) PROVE x \in Range(a)
  <2>1. PICK i \in 1 .. n : x = s[i]
    BY <1>2
  <2>2. i \in 1 .. n + m /\ i <= n
    BY <1>1
  <2> QED BY <1>1, <1>2, <2>1, <2>2
<1>4. ASSUME NEW x \in Range(u) PROVE x \in Range(a)
  <2>1. PICK i \in 1 .. m : x = u[i]
    BY <1>2
  <2>2. i + n \in 1 .. n + m /\ ~ (i + n <= n) /\ (i + n) - n = i
    BY <1>1
  <2>3. a[i + n] = u[i]
    BY <1>1, <2>2
  <2> QED BY <1>2, <2>1, <2>2, <2>3
<1>5. ASSUME NEW x \in Range(a) PROVE x \in Range(s) \cup Range(u)
  <2>1. PICK i \in 1 .. n + m : x = a[i]
    BY <1>2
  <2>2. CASE i <= n
    <3>1. i \in 1 .. n
      BY <1>1, <2>2
    <3> QED BY <1>1, <1>2, <2>1, <2>2, <3>1
  <2>3. CASE ~ (i <= n)
    <3>1. i - n \in 1 .. m
      BY <1>1, <2>3
    <3> QED BY <1>1, <1>2, <2>1, <2>3, <3>1
  <2> QED BY <2>2, <2>3
<1>6. Range(a) = Range(s) \cup Range(u)
  BY <1>3, <1>4, <1>5
<1> QED BY <1>1, <1>6 DEF AreJoined, n, m

\* to is qu with k more items, those of B, at the end: nothing that was written is
\* lost, and the slot 0 has been written unless tail has not yet come round.
HasQueued(z, V, qu, B, k, to) ==
    /\ IsRing(z, V, to) /\ to.head = qu.head /\ to.tail \in Nat
    /\ Len(RingItems(to)) = Len(RingItems(qu)) + k
    /\ Range(RingItems(to)) = Range(RingItems(qu)) \cup B
    /\ \A i \in 0 .. z - 1 : qu.data[i] # Garbage => to.data[i] # Garbage
    /\ to.data[0] # Garbage \/ to.tail = qu.tail + k

LEMMA OneQueued ==
    ASSUME NEW z, NEW V, NEW qu, IsRing(z, V, qu), Garbage \notin V, NEW d \in V,
           Len(RingItems(qu)) < z - 1
    PROVE  HasQueued(z, V, qu, {d}, 1, qu_enqueue(qu, d))
<1> DEFINE m == Queued(qu, d)
           t == After(qu, qu.tail)
<1>1. z \in Nat /\ z > 1 /\ qu \in RingOf(z, V) /\ RingLaid(z, V, qu)
  BY RingIs DEF IsRing
<1>2. /\ qu.head \in 0 .. z - 1 /\ qu.tail \in 0 .. z - 1 /\ qu.data \in HeldOf(z, V)
      /\ Span(z, qu) \in 0 .. z - 1 /\ Len(RingItems(qu)) = Span(z, qu)
      /\ RingItems(qu) \in Seq(V \cup {Garbage})
      /\ t = IF qu.tail = z - 1 THEN 0 ELSE qu.tail + 1
  BY <1>1 DEF RingLaid
<1>3. ~RingFull(qu)
  <2> SUFFICES ASSUME t = qu.head PROVE FALSE
    BY DEF RingFull
  <2>1. t = qu.head
    OBVIOUS
  <2>2. Span(z, qu) < z - 1
    BY <1>2
  <2>3. CASE qu.tail = z - 1
    BY <1>1, <1>2, <2>1, <2>2, <2>3 DEF Span
  <2>4. CASE qu.tail # z - 1
    <3>1. qu.head = qu.tail + 1
      BY <1>2, <2>1, <2>4
    <3>2. Span(z, qu) = qu.tail - qu.head + z
      BY <1>1, <1>2, <3>1 DEF Span
    <3> QED BY <1>1, <1>2, <2>2, <3>1, <3>2
  <2> QED BY <2>3, <2>4
<1>4. IsRing(z, V, m) /\ RingItems(m) = InsertAt(RingItems(qu), Len(RingItems(qu)) + 1, d)
  BY <1>3, QueuedIs
<1>5. m.head = qu.head /\ m.tail = t /\ m.data = [qu.data EXCEPT ![t] = d]
  <2>1. qu = [data |-> qu.data, head |-> qu.head, tail |-> qu.tail]
    BY <1>1 DEF RingOf
  <2>2. m = [qu EXCEPT !.tail = t, !.data[t] = d]
    BY Zenon DEF Queued
  <2>3. m = [data |-> [qu.data EXCEPT ![t] = d], head |-> qu.head, tail |-> t]
    <3> HIDE DEF m, t
    <3> QED BY <2>1, <2>2
  <2> HIDE DEF m, t
  <2> QED BY <2>3
<1>6. qu_enqueue(qu, d) = m
  BY <1>3 DEF qu_enqueue
<1> HIDE DEF m, t
<1>7. Len(RingItems(m)) = Len(RingItems(qu)) + 1 /\ Range(RingItems(m)) = Range(RingItems(qu)) \cup {d}
  <2> DEFINE s == RingItems(qu)
             G == V \cup {Garbage}
  <2>1. d \in G /\ s \in Seq(G) /\ RingItems(m) = WithLast(s, d)
    BY <1>2, <1>4 DEF WithLast
  <2> HIDE DEF s, G
  <2>2. IsLonger(G, s, d)
    BY <2>1, AtTheEnd
  <2>3. Len(RingItems(m)) = Len(s) + 1 /\ Range(RingItems(m)) = Range(s) \cup {d}
    BY <2>1, <2>2 DEF IsLonger
  <2> QED BY <2>3 DEF s
<1>8. d # Garbage /\ t \in 0 .. z - 1 /\ DOMAIN qu.data = 0 .. z - 1
  BY <1>1, <1>2 DEF HeldOf, Slots
<1>9. \A i \in 0 .. z - 1 : qu.data[i] # Garbage => m.data[i] # Garbage
  BY <1>5, <1>8
<1>10. m.data[0] # Garbage \/ m.tail = qu.tail + 1
  <2>1. CASE t = 0
    BY <1>5, <1>8, <2>1
  <2>2. CASE t # 0
    BY <1>2, <1>5, <2>2
  <2> QED BY <2>1, <2>2
<1>11. m.tail \in Nat
  BY <1>1, <1>5, <1>8
<1> QED BY <1>4, <1>5, <1>6, <1>7, <1>9, <1>10, <1>11 DEF HasQueued

LEMMA QueuedOn ==
    ASSUME NEW z, NEW V, NEW qu, NEW B, NEW j \in Nat, NEW x, NEW C, NEW k \in Nat, NEW y,
           qu.tail \in Nat, Len(RingItems(qu)) \in Nat, 1 < z, z \in Nat,
           HasQueued(z, V, qu, B, j, x), HasQueued(z, V, x, C, k, y)
    PROVE  HasQueued(z, V, qu, B \cup C, j + k, y)
<1>1. /\ x.head = qu.head /\ x.tail \in Nat
      /\ Len(RingItems(x)) = Len(RingItems(qu)) + j
      /\ Range(RingItems(x)) = Range(RingItems(qu)) \cup B
      /\ \A i \in 0 .. z - 1 : qu.data[i] # Garbage => x.data[i] # Garbage
      /\ x.data[0] # Garbage \/ x.tail = qu.tail + j
  BY DEF HasQueued
<1>2. /\ IsRing(z, V, y) /\ y.head = x.head /\ y.tail \in Nat
      /\ Len(RingItems(y)) = Len(RingItems(x)) + k
      /\ Range(RingItems(y)) = Range(RingItems(x)) \cup C
      /\ \A i \in 0 .. z - 1 : x.data[i] # Garbage => y.data[i] # Garbage
      /\ y.data[0] # Garbage \/ y.tail = x.tail + k
  BY DEF HasQueued
<1>3. Len(RingItems(y)) = Len(RingItems(qu)) + (j + k)
  BY <1>1, <1>2
<1>4. y.data[0] # Garbage \/ y.tail = qu.tail + (j + k)
  <2>1. 0 \in 0 .. z - 1
    OBVIOUS
  <2> QED BY <1>1, <1>2, <2>1
<1>5. Range(RingItems(y)) = Range(RingItems(qu)) \cup (B \cup C)
  BY <1>1, <1>2
<1> QED BY <1>1, <1>2, <1>3, <1>4, <1>5 DEF HasQueued

LEMMA AllQueued ==
    ASSUME NEW z, NEW V, NEW qu, IsRing(z, V, qu), Garbage \notin V, NEW items \in Seq(V),
           Len(RingItems(qu)) + Len(items) <= z - 1
    PROVE  HasQueued(z, V, qu, Range(items), Len(items), Enqueued(qu, items))
<1> DEFINE m == Len(items)
           Queues == RingOf(z, V)
           F == [k \in 1 .. m |-> [x \in Queues |-> qu_enqueue(x, items[k])]]
           after[k \in 0 .. Len(items)] == IF k = 0 THEN qu ELSE qu_enqueue(after[k - 1], items[k])
<1>1. /\ z \in Nat /\ z > 1 /\ qu \in Queues /\ m \in Nat /\ \A k \in 1 .. m : items[k] \in V
      /\ qu.tail \in Nat /\ Len(RingItems(qu)) \in Nat
  <2>1. RingLaid(z, V, qu) /\ z \in Nat /\ z > 1 /\ qu \in Queues
    BY RingIs DEF IsRing
  <2>2. qu.tail \in 0 .. z - 1 /\ Span(z, qu) \in 0 .. z - 1 /\ Len(RingItems(qu)) = Span(z, qu)
    BY <2>1 DEF RingLaid
  <2> QED BY <2>1, <2>2
<1>2. \A k \in 1 .. m, x \in Queues : qu_enqueue(x, items[k]) \in Queues
  <2> TAKE k \in 1 .. m, x \in Queues
  <2>1. CASE RingFull(x)
    BY <2>1 DEF qu_enqueue
  <2>2. CASE ~RingFull(x)
    <3>1. IsRing(z, V, x) /\ items[k] \in V
      BY <1>1 DEF IsRing
    <3>2. IsRing(z, V, Queued(x, items[k]))
      BY <2>2, <3>1, QueuedIs
    <3> QED BY <2>2, <3>2 DEF qu_enqueue, IsRing
  <2> QED BY <2>1, <2>2
<1>3. PICK g : IsHistory(g, Queues, F, qu, m)
  <2>1. F \in [1 .. m -> [Queues -> Queues]]
    <3> HIDE DEF m, Queues
    <3> QED BY <1>2
  <2> HIDE DEF F, m, Queues
  <2> QED BY <1>1, <2>1, Histories
<1>4. /\ g \in [0 .. m -> Queues] /\ g[0] = qu
      /\ \A k \in 1 .. m : k - 1 \in 0 .. m /\ g[k] = qu_enqueue(g[k - 1], items[k])
  <2>1. g \in [0 .. m -> Queues] /\ g[0] = qu /\ \A k \in 1 .. m : g[k] = F[k][g[k - 1]]
    <3> HIDE DEF F, m, Queues
    <3> QED BY <1>3 DEF IsHistory
  <2>2. \A k \in 1 .. m : k - 1 \in 0 .. m
    BY <1>1
  <2>3. \A k \in 1 .. m : g[k - 1] \in Queues
    BY <2>1, <2>2
  <2>4. \A k \in 1 .. m : F[k][g[k - 1]] = qu_enqueue(g[k - 1], items[k])
    <3> HIDE DEF m, Queues
    <3> QED BY <2>3
  <2> HIDE DEF m, F, Queues
  <2> QED BY <2>1, <2>2, <2>4
<1>5. g = [k \in 0 .. m |-> IF k = 0 THEN qu ELSE qu_enqueue(g[k - 1], items[k])]
  <2>1. \A k \in 0 .. m : k # 0 => k \in 1 .. m
    BY <1>1
  <2> HIDE DEF m, Queues
  <2> QED BY <1>4, <2>1
<1>6. after = [k \in 0 .. Len(items) |-> IF k = 0 THEN qu ELSE qu_enqueue(after[k - 1], items[k])]
  BY <1>5, Zenon
<1>7. /\ after[0] = qu
      /\ \A k \in 1 .. m : after[k] = qu_enqueue(after[k - 1], items[k])
  <2>1. \A k \in 1 .. m : k \in 0 .. m /\ k # 0
    BY <1>1
  <2>2. 0 \in 0 .. m
    BY <1>1
  <2> HIDE DEF after
  <2> QED BY <1>6, <2>1, <2>2
<1>8. Enqueued(qu, items) = after[m]
  BY Zenon DEF Enqueued
<1> HIDE DEF after, F, Queues
<1> DEFINE B(k) == {items[i] : i \in 1 .. k}
           S == {k \in 0 .. m : ~HasQueued(z, V, qu, B(k), k, after[k])}
<1>9. S = {}
  <2> SUFFICES ASSUME S # {} PROVE FALSE
    OBVIOUS
  <2>1. PICK k \in S : \A j \in S : k <= j
    <3>1. S \in SUBSET Nat
      BY <1>1
    <3> HIDE DEF S
    <3> QED BY <3>1, Least
  <2>2. CASE k = 0
    <3>1. B(0) = {}
      OBVIOUS
    <3>2. HasQueued(z, V, qu, {}, 0, qu)
      BY <1>1 DEF HasQueued
    <3> HIDE DEF B
    <3> QED BY <1>7, <2>1, <2>2, <3>1, <3>2
  <2>3. CASE k # 0
    <3> DEFINE x == after[k - 1]
    <3>1. k \in 1 .. m /\ k - 1 \in 0 .. m /\ ~ (k <= k - 1) /\ k - 1 \in Nat /\ (k - 1) + 1 = k
      BY <1>1, <2>1, <2>3
    <3>2. HasQueued(z, V, qu, B(k - 1), k - 1, x)
      <4> HIDE DEF B
      <4> QED BY <2>1, <3>1
    <3>3. IsRing(z, V, x) /\ Len(RingItems(x)) = Len(RingItems(qu)) + (k - 1)
      <4> HIDE DEF B, x
      <4> QED BY <3>2 DEF HasQueued
    <3>4. Len(RingItems(x)) < z - 1
      <4> HIDE DEF x
      <4> QED BY <1>1, <3>1, <3>3
    <3>5. items[k] \in V /\ after[k] = qu_enqueue(x, items[k])
      BY <1>1, <1>7, <3>1
    <3>6. HasQueued(z, V, x, {items[k]}, 1, after[k])
      <4>1. HasQueued(z, V, x, {items[k]}, 1, qu_enqueue(x, items[k]))
        <5> HIDE DEF x
        <5> QED BY <3>3, <3>4, <3>5, OneQueued
      <4> QED BY <3>5, <4>1
    <3>7. B(k) = B(k - 1) \cup {items[k]}
      <4>1. \A i \in 1 .. k : i \in 1 .. k - 1 \/ i = k
        BY <3>1
      <4>2. \A i \in 1 .. k - 1 : i \in 1 .. k
        BY <3>1
      <4>3. k \in 1 .. k
        BY <3>1
      <4> QED BY <4>1, <4>2, <4>3
    <3>8. HasQueued(z, V, qu, B(k - 1) \cup {items[k]}, (k - 1) + 1, after[k])
      <4> HIDE DEF B, x
      <4> QED BY <1>1, <3>1, <3>2, <3>6, QueuedOn
    <3> HIDE DEF B
    <3> QED BY <2>1, <3>1, <3>7, <3>8
  <2> QED BY <2>2, <2>3
<1>10. HasQueued(z, V, qu, B(m), m, after[m])
  <2>1. m \in 0 .. m
    BY <1>1
  <2> HIDE DEF B, m
  <2> QED BY <1>9, <2>1
<1>11. Range(items) = B(m)
  BY InRange
<1> HIDE DEF B
<1> QED BY <1>8, <1>10, <1>11

\* The balls of X, k of them, are in the hand, the others in the queue qu and in the
\* stacks S; what check compares with has been written, the slot 0 at the latest when
\* tail has reached w.
Kept(qu, S, X, k, w) ==
    /\ IsRing(RINGSIZE, Balls, qu)
    /\ S = [s \in Stacks |-> S[s]]
    /\ \A s \in Stacks : IsStack(RINGSIZE, Balls, S[s]) /\ S[s].top <= Brims[s]
    /\ Len(RingItems(qu)) + (S[1].top + S[2].top + S[3].top + 3) + k = NR_BALL
    /\ Range(RingItems(qu)) \cup Range(StackItems(S[1])) \cup Range(StackItems(S[2]))
         \cup Range(StackItems(S[3])) \cup X = Balls
    /\ qu.data[1] # Garbage
    /\ qu.data[0] # Garbage \/ qu.tail >= w

LEMMA ClockIs ==
    /\ NR_BALL \in Nat /\ RINGSIZE \in Nat /\ MIN \in Nat /\ FIVEMIN \in Nat /\ HOUR \in Nat
    /\ NR_BALL > MIN + FIVEMIN + HOUR + 3 /\ RINGSIZE > NR_BALL /\ RINGSIZE > 2
    /\ RINGSIZE <= NR_BALL + FIVEMIN + 1 /\ Garbage \notin Balls
    /\ Brims[1] = MIN /\ Brims[2] = FIVEMIN /\ Brims[3] = HOUR
    /\ \A s \in Stacks : Brims[s] \in Nat /\ Brims[s] < NR_BALL
    /\ \A s \in Stacks : s = 1 \/ s = 2 \/ s = 3
    /\ 1 \in Stacks /\ 2 \in Stacks /\ 3 \in Stacks
<1>1. /\ NR_BALL \in Nat /\ RINGSIZE \in Nat /\ MIN \in Nat /\ FIVEMIN \in Nat /\ HOUR \in Nat
      /\ NR_BALL > MIN + FIVEMIN + HOUR + 3 /\ RINGSIZE > NR_BALL
      /\ RINGSIZE <= NR_BALL + FIVEMIN + 1 /\ Garbage \notin Balls
  BY BallAssumption DEF Balls
<1>2. Brims[1] = MIN /\ Brims[2] = FIVEMIN /\ Brims[3] = HOUR
  BY DEF Brims
<1>3. /\ \A s \in Stacks : s = 1 \/ s = 2 \/ s = 3
      /\ 1 \in Stacks /\ 2 \in Stacks /\ 3 \in Stacks
  BY DEF Stacks
<1> QED BY <1>1, <1>2, <1>3

LEMMA RingIsLaid ==
    ASSUME NEW z, NEW V, NEW qu, IsRing(z, V, qu)
    PROVE  /\ z \in Nat /\ z > 1 /\ qu \in RingOf(z, V)
           /\ qu.head \in 0 .. z - 1 /\ qu.tail \in 0 .. z - 1 /\ DOMAIN qu.data = 0 .. z - 1
           /\ RingItems(qu) \in Seq(V \cup {Garbage}) /\ Len(RingItems(qu)) \in Nat
           /\ qu_isempty(qu) <=> Len(RingItems(qu)) = 0
<1>1. RingLaid(z, V, qu) /\ z \in Nat /\ z > 1 /\ qu \in RingOf(z, V)
  BY RingIs DEF IsRing
<1>2. /\ qu.head \in 0 .. z - 1 /\ qu.tail \in 0 .. z - 1 /\ qu.data \in HeldOf(z, V)
      /\ Span(z, qu) \in 0 .. z - 1 /\ Len(RingItems(qu)) = Span(z, qu)
      /\ RingItems(qu) \in Seq(V \cup {Garbage})
  BY <1>1 DEF RingLaid
<1>3. qu.head = qu.tail <=> Span(z, qu) = 0
  BY <1>1, <1>2 DEF Span
<1>4. DOMAIN qu.data = 0 .. z - 1
  BY <1>2 DEF HeldOf, Slots
<1> QED BY <1>1, <1>2, <1>3, <1>4 DEF qu_isempty

LEMMA StackIsLaid ==
    ASSUME NEW z, NEW V, NEW st, IsStack(z, V, st)
    PROVE  /\ st.top \in Int /\ st.top >= -1 /\ st \in StackOf(z, V) /\ z \in Nat /\ z > 1
           /\ StackItems(st) \in Seq(V \cup {Garbage}) /\ Len(StackItems(st)) = st.top + 1
           /\ StackFull(st) <=> st.top = z - 1
           /\ IsStack(z, V, Popped(st)) /\ Popped(st).top = -1 /\ StackItems(Popped(st)) = <<>>
<1>1. StackLaid(z, V, st) /\ z \in Nat /\ z > 1 /\ st \in StackOf(z, V)
  BY StackItemsAre DEF IsStack
<1>2. /\ st.top \in -1 .. z - 1
      /\ StackItems(st) \in Seq(V \cup {Garbage}) /\ Len(StackItems(st)) = st.top + 1
      /\ StackFull(st) <=> st.top = z - 1
  BY <1>1 DEF StackLaid
<1>3. Popped(st) \in StackOf(z, V) /\ Popped(st).top = -1
  BY <1>1 DEF StackOf, Popped
<1>4. StackItems(Popped(st)) = <<>>
  BY <1>3 DEF StackItems
<1>5. IsStack(z, V, Popped(st))
  BY <1>1, <1>3 DEF IsStack
<1> QED BY <1>1, <1>2, <1>3, <1>4, <1>5

\* The front ball is taken: nothing but head changes.
LEMMA BallTaken ==
    ASSUME NEW qu, NEW S, NEW w, Kept(qu, S, {}, 0, w)
    PROVE  /\ Foremost(qu) \in Balls /\ ~qu_isempty(qu)
           /\ Kept(qu_dequeue(qu), S, {Foremost(qu)}, 1, w)
<1> DEFINE m == qu_dequeue(qu)
           t == Foremost(qu)
           I == RingItems(qu)
<1>1. /\ IsRing(RINGSIZE, Balls, qu)
      /\ S = [s \in Stacks |-> S[s]]
      /\ \A s \in Stacks : IsStack(RINGSIZE, Balls, S[s]) /\ S[s].top <= Brims[s]
      /\ Len(I) + (S[1].top + S[2].top + S[3].top + 3) + 0 = NR_BALL
      /\ Range(I) \cup Range(StackItems(S[1])) \cup Range(StackItems(S[2]))
           \cup Range(StackItems(S[3])) \cup {} = Balls
      /\ qu.data[1] # Garbage
      /\ qu.data[0] # Garbage \/ qu.tail >= w
  BY DEF Kept
<1>2. /\ I \in Seq(Balls \cup {Garbage}) /\ Len(I) \in Nat /\ qu \in RingOf(RINGSIZE, Balls)
      /\ qu_isempty(qu) <=> Len(I) = 0
  <2> HIDE DEF I
  <2> QED BY <1>1, RingIsLaid DEF I
<1>3. \A s \in Stacks : S[s].top \in Int /\ S[s].top >= -1
  BY <1>1, StackIsLaid
<1>4. Len(I) # 0
  <2>1. /\ S[1].top \in Int /\ S[2].top \in Int /\ S[3].top \in Int
        /\ S[1].top <= MIN /\ S[2].top <= FIVEMIN /\ S[3].top <= HOUR
    BY <1>1, <1>3, ClockIs
  <2> HIDE DEF I
  <2>2. /\ NR_BALL \in Nat /\ MIN \in Nat /\ FIVEMIN \in Nat /\ HOUR \in Nat
        /\ NR_BALL > MIN + FIVEMIN + HOUR + 3
    BY ClockIs
  <2>3. Len(I) + (S[1].top + S[2].top + S[3].top + 3) = NR_BALL
    BY <1>1, <1>2, <2>1, <2>2, SMTT(60)
  <2> QED BY <1>2, <2>1, <2>2, <2>3, SMTT(60)
<1>5. IsRing(RINGSIZE, Balls, m) /\ RingItems(m) = RemoveAt(I, 1) /\ t = I[1] /\ ~qu_isempty(qu)
  BY <1>1, <1>2, <1>4, DequeuedIs
<1>6. m.data = qu.data /\ m.tail = qu.tail
  BY <1>2 DEF qu_dequeue, RingOf
<1> HIDE DEF m, t, I
<1>7. Len(RingItems(m)) = Len(I) - 1 /\ Range(RingItems(m)) \cup {t} = Range(I)
  BY <1>2, <1>4, <1>5, WithoutFirst
<1>8. Len(RingItems(m)) + (S[1].top + S[2].top + S[3].top + 3) + 1 = NR_BALL
  <2>1. S[1].top \in Int /\ S[2].top \in Int /\ S[3].top \in Int
    BY <1>3, ClockIs
  <2>2. Len(I) + (S[1].top + S[2].top + S[3].top + 3) + 0 = NR_BALL
    BY <1>1
  <2> QED BY <1>2, <1>7, <2>1, <2>2
<1>9. Range(RingItems(m)) \cup Range(StackItems(S[1])) \cup Range(StackItems(S[2]))
        \cup Range(StackItems(S[3])) \cup {t} = Balls
  BY <1>1, <1>7
<1>10. t \in Balls
  BY <1>9
<1>11. Kept(m, S, {t}, 1, w)
  BY <1>1, <1>5, <1>6, <1>8, <1>9 DEF Kept
<1> QED BY <1>5, <1>10, <1>11 DEF m, t

\* A stack empties into the queue.
LEMMA BallsBack ==
    ASSUME NEW qu, NEW S, NEW X, NEW k \in Nat, NEW w \in Nat, Kept(qu, S, X, k, w), NEW s \in Stacks
    PROVE  Kept(Emptied(qu, S[s]), [S EXCEPT ![s] = Popped(S[s])], X, k, w + S[s].top + 1)
<1> DEFINE items == Reverse(StackItems(S[s]))
           m == Emptied(qu, S[s])
           I == RingItems(qu)
           T == [S EXCEPT ![s] = Popped(S[s])]
           BallsOn(i) == Range(StackItems(S[i]))
<1>1. /\ IsRing(RINGSIZE, Balls, qu)
      /\ S = [i \in Stacks |-> S[i]]
      /\ \A i \in Stacks : IsStack(RINGSIZE, Balls, S[i]) /\ S[i].top <= Brims[i]
      /\ Len(I) + (S[1].top + S[2].top + S[3].top + 3) + k = NR_BALL
      /\ Range(I) \cup BallsOn(1) \cup BallsOn(2) \cup BallsOn(3) \cup X = Balls
      /\ qu.data[1] # Garbage
      /\ qu.data[0] # Garbage \/ qu.tail >= w
  BY DEF Kept
<1>2. Len(I) \in Nat /\ qu.tail \in Nat /\ 0 \in 0 .. RINGSIZE - 1 /\ 1 \in 0 .. RINGSIZE - 1
  <2>1. Len(I) \in Nat /\ qu.tail \in 0 .. RINGSIZE - 1
    BY <1>1, RingIsLaid DEF I
  <2> QED BY <2>1, ClockIs
<1>3. \A i \in Stacks : S[i].top \in Int /\ S[i].top >= -1
  BY <1>1, StackIsLaid
<1>4. S[1].top \in Int /\ S[2].top \in Int /\ S[3].top \in Int /\ S[1].top >= -1 /\ S[2].top >= -1 /\ S[3].top >= -1
  BY <1>3, ClockIs
<1>5. items \in Seq(Balls) /\ Len(items) = S[s].top + 1 /\ Range(items) = BallsOn(s)
  <2> DEFINE G == Balls \cup {Garbage}
             u == StackItems(S[s])
  <2>1. u \in Seq(G) /\ Len(u) = S[s].top + 1
    <3>1. StackLaid(RINGSIZE, Balls, S[s])
      BY <1>1, StackItemsAre
    <3> QED BY <3>1 DEF StackLaid
  <2>2. items \in Seq(G) /\ Len(items) = Len(u) /\ Range(items) = Range(u)
    <3>1. items = Reverse(u)
      OBVIOUS
    <3> HIDE DEF u, G, items
    <3> QED BY <2>1, <3>1, ReverseIs
  <2>3. s = 1 \/ s = 2 \/ s = 3
    BY ClockIs
  <2>4. Range(u) \subseteq Balls
    BY <1>1, <2>3
  <2>5. items \in Seq(Balls)
    <3> HIDE DEF u, G, items
    <3> QED BY <2>2, <2>4, InRange
  <2>6. Len(items) = S[s].top + 1 /\ Range(items) = BallsOn(s)
    BY <2>1, <2>2
  <2> HIDE DEF items
  <2> QED BY <2>5, <2>6
<1> HIDE DEF items, m, I, T, BallsOn
<1>6. Len(I) + Len(items) <= RINGSIZE - 1
  <2>1. NR_BALL \in Nat /\ RINGSIZE \in Nat /\ RINGSIZE > NR_BALL
    BY ClockIs
  <2>2. s = 1 \/ s = 2 \/ s = 3
    BY ClockIs
  <2>3. Len(I) + (S[1].top + S[2].top + S[3].top + 3) + k = NR_BALL
    BY <1>1
  <2>4. Len(I) + (S[s].top + 1) <= NR_BALL
    <3> DEFINE a == S[1].top
               b == S[2].top
               c == S[3].top
               l == Len(I)
    <3>1. /\ l \in Int /\ a \in Int /\ b \in Int /\ c \in Int /\ a >= -1 /\ b >= -1 /\ c >= -1
          /\ l + (a + b + c + 3) + k = NR_BALL
      BY <1>2, <1>4, <2>3
    <3>2. S[s].top = a \/ S[s].top = b \/ S[s].top = c
      BY <2>2
    <3> HIDE DEF a, b, c, l
    <3>3. l + (a + 1) <= NR_BALL /\ l + (b + 1) <= NR_BALL /\ l + (c + 1) <= NR_BALL
      BY <2>1, <3>1
    <3> QED BY <3>2, <3>3 DEF l
  <2>5. S[s].top \in Int
    BY <1>3
  <2> QED BY <1>2, <1>5, <2>1, <2>4, <2>5
<1>7. HasQueued(RINGSIZE, Balls, qu, BallsOn(s), S[s].top + 1, m)
  <2>1. Garbage \notin Balls
    BY ClockIs
  <2>2. m = Enqueued(qu, items)
    BY DEF m, items, Emptied
  <2>3. HasQueued(RINGSIZE, Balls, qu, Range(items), Len(items), Enqueued(qu, items))
    BY <1>1, <1>5, <1>6, <2>1, AllQueued DEF I
  <2> QED BY <1>5, <2>2, <2>3
<1>8. /\ IsRing(RINGSIZE, Balls, m) /\ m.tail \in Nat
      /\ Len(RingItems(m)) = Len(I) + (S[s].top + 1)
      /\ Range(RingItems(m)) = Range(I) \cup BallsOn(s)
      /\ \A i \in 0 .. RINGSIZE - 1 : qu.data[i] # Garbage => m.data[i] # Garbage
      /\ m.data[0] # Garbage \/ m.tail = qu.tail + (S[s].top + 1)
  BY <1>7 DEF HasQueued, I
<1>9. m.data[1] # Garbage /\ (m.data[0] # Garbage \/ m.tail >= w + S[s].top + 1)
  <2>1. qu.data[1] # Garbage /\ (qu.data[0] # Garbage \/ qu.tail >= w) /\ S[s].top \in Int /\ S[s].top >= -1
    BY <1>1, <1>3
  <2>2. m.data[1] # Garbage
    BY <1>2, <1>8, <2>1
  <2>3. qu.data[0] # Garbage => m.data[0] # Garbage
    BY <1>2, <1>8
  <2>4. m.data[0] # Garbage \/ m.tail = qu.tail + (S[s].top + 1)
    BY <1>8
  <2> QED BY <1>2, <2>1, <2>2, <2>3, <2>4
<1>10. /\ T[s] = Popped(S[s]) /\ \A i \in Stacks : i # s => T[i] = S[i]
       /\ T = [i \in Stacks |-> T[i]]
  <2>1. S = [i \in Stacks |-> S[i]]
    BY <1>1
  <2>2. DOMAIN S = Stacks
    BY <2>1
  <2>3. T = [i \in Stacks |-> IF i = s THEN Popped(S[s]) ELSE S[i]]
    BY <2>2 DEF T
  <2>4. T[s] = Popped(S[s])
    BY <2>3
  <2>5. \A i \in Stacks : i # s => T[i] = S[i]
    BY <2>3
  <2>6. T = [i \in Stacks |-> T[i]]
    BY <2>3
  <2> QED BY <2>4, <2>5, <2>6
<1>11. IsStack(RINGSIZE, Balls, T[s]) /\ T[s].top = -1 /\ StackItems(T[s]) = <<>>
  <2>1. IsStack(RINGSIZE, Balls, S[s])
    BY <1>1
  <2>2. LET st == Popped(S[s]) IN IsStack(RINGSIZE, Balls, st) /\ st.top = -1 /\ StackItems(st) = <<>>
    BY <2>1, StackIsLaid
  <2> QED BY <1>10, <2>2
<1>12. \A i \in Stacks : IsStack(RINGSIZE, Balls, T[i]) /\ T[i].top <= Brims[i]
  <2> TAKE i \in Stacks
  <2>1. CASE i = s
    BY <1>11, <2>1, ClockIs
  <2>2. CASE i # s
    BY <1>1, <1>10, <2>2
  <2> QED BY <2>1, <2>2
<1>13. Range(StackItems(T[s])) = {}
  BY <1>11 DEF Range
<1>14. /\ Len(RingItems(m)) + (T[1].top + T[2].top + T[3].top + 3) + k = NR_BALL
       /\ Range(RingItems(m)) \cup Range(StackItems(T[1])) \cup Range(StackItems(T[2]))
            \cup Range(StackItems(T[3])) \cup X = Balls
  <2> DEFINE a == S[1].top
             b == S[2].top
             c == S[3].top
  <2>0. 1 \in Stacks /\ 2 \in Stacks /\ 3 \in Stacks
    BY ClockIs
  <2>1. CASE s = 1
    <3>1. T[2] = S[2] /\ T[3] = S[3] /\ T[1].top = -1
      BY <1>10, <1>11, <2>0, <2>1
    <3>2. Len(RingItems(m)) + (T[1].top + T[2].top + T[3].top + 3) + k = NR_BALL
      <4> DEFINE l == Len(I)
                 n == Len(RingItems(m))
      <4>1. n = l + (a + 1)
        BY <1>8, <2>1
      <4>2. /\ l \in Int /\ a \in Int /\ b \in Int /\ c \in Int /\ k \in Int
            /\ l + (a + b + c + 3) + k = NR_BALL /\ NR_BALL \in Int
        BY <1>1, <1>2, <1>4, ClockIs
      <4> HIDE DEF a, b, c, l, n
      <4>3. n + (-1 + b + c + 3) + k = NR_BALL
        BY <4>1, <4>2
      <4> QED BY <3>1, <4>3 DEF a, b, c, n
    <3> QED BY <1>1, <1>8, <1>13, <2>1, <3>1, <3>2 DEF BallsOn
  <2>2. CASE s = 2
    <3>1. T[1] = S[1] /\ T[3] = S[3] /\ T[2].top = -1
      BY <1>10, <1>11, <2>0, <2>2
    <3>2. Len(RingItems(m)) + (T[1].top + T[2].top + T[3].top + 3) + k = NR_BALL
      <4> DEFINE l == Len(I)
                 n == Len(RingItems(m))
      <4>1. n = l + (b + 1)
        BY <1>8, <2>2
      <4>2. /\ l \in Int /\ a \in Int /\ b \in Int /\ c \in Int /\ k \in Int
            /\ l + (a + b + c + 3) + k = NR_BALL /\ NR_BALL \in Int
        BY <1>1, <1>2, <1>4, ClockIs
      <4> HIDE DEF a, b, c, l, n
      <4>3. n + (a + -1 + c + 3) + k = NR_BALL
        BY <4>1, <4>2
      <4> QED BY <3>1, <4>3 DEF a, b, c, n
    <3> QED BY <1>1, <1>8, <1>13, <2>2, <3>1, <3>2 DEF BallsOn
  <2>3. CASE s = 3
    <3>1. T[1] = S[1] /\ T[2] = S[2] /\ T[3].top = -1
      BY <1>10, <1>11, <2>0, <2>3
    <3>2. Len(RingItems(m)) + (T[1].top + T[2].top + T[3].top + 3) + k = NR_BALL
      <4> DEFINE l == Len(I)
                 n == Len(RingItems(m))
      <4>1. n = l + (c + 1)
        BY <1>8, <2>3
      <4>2. /\ l \in Int /\ a \in Int /\ b \in Int /\ c \in Int /\ k \in Int
            /\ l + (a + b + c + 3) + k = NR_BALL /\ NR_BALL \in Int
        BY <1>1, <1>2, <1>4, ClockIs
      <4> HIDE DEF a, b, c, l, n
      <4>3. n + (a + b + -1 + 3) + k = NR_BALL
        BY <4>1, <4>2
      <4> QED BY <3>1, <4>3 DEF a, b, c, n
    <3> QED BY <1>1, <1>8, <1>13, <2>3, <3>1, <3>2 DEF BallsOn
  <2> QED BY <2>1, <2>2, <2>3, ClockIs
<1>15. Kept(m, T, X, k, w + S[s].top + 1)
  BY <1>8, <1>9, <1>10, <1>12, <1>14 DEF Kept
<1> QED BY <1>15 DEF m, T

\* The ball in the hand comes onto a stack that is not at its brim.
LEMMA BallPut ==
    ASSUME NEW qu, NEW S, NEW t \in Balls, NEW w, Kept(qu, S, {t}, 1, w),
           NEW s \in Stacks, S[s].top # Brims[s]
    PROVE  Kept(qu, [S EXCEPT ![s] = st_push(S[s], t)], {}, 0, w)
<1> DEFINE m == st_push(S[s], t)
           I == RingItems(qu)
           T == [S EXCEPT ![s] = m]
           BallsOn(i) == Range(StackItems(S[i]))
<1>1. /\ IsRing(RINGSIZE, Balls, qu)
      /\ S = [i \in Stacks |-> S[i]]
      /\ \A i \in Stacks : IsStack(RINGSIZE, Balls, S[i]) /\ S[i].top <= Brims[i]
      /\ Len(I) + (S[1].top + S[2].top + S[3].top + 3) + 1 = NR_BALL
      /\ Range(I) \cup BallsOn(1) \cup BallsOn(2) \cup BallsOn(3) \cup {t} = Balls
      /\ qu.data[1] # Garbage
      /\ qu.data[0] # Garbage \/ qu.tail >= w
  BY DEF Kept
<1>2. Len(I) \in Nat
  BY <1>1, RingIsLaid DEF I
<1>3. \A i \in Stacks : S[i].top \in Int /\ S[i].top >= -1
  BY <1>1, StackIsLaid
<1>4. StackLaid(RINGSIZE, Balls, S[s])
  BY <1>1, StackItemsAre
<1>5. /\ StackItems(S[s]) \in Seq(Balls \cup {Garbage}) /\ ~StackFull(S[s])
      /\ Len(StackItems(S[s])) = S[s].top + 1
  <2>1. /\ StackItems(S[s]) \in Seq(Balls \cup {Garbage}) /\ Len(StackItems(S[s])) = S[s].top + 1
        /\ StackFull(S[s]) <=> S[s].top = RINGSIZE - 1
    BY <1>4 DEF StackLaid
  <2>2. S[s].top <= Brims[s] /\ Brims[s] \in Nat /\ Brims[s] < NR_BALL /\ NR_BALL < RINGSIZE
        /\ NR_BALL \in Nat /\ RINGSIZE \in Nat /\ S[s].top \in Int
    BY <1>1, <1>3, ClockIs
  <2> QED BY <2>1, <2>2
<1>6. IsStack(RINGSIZE, Balls, m) /\ StackItems(m) = WithLast(StackItems(S[s]), t) /\ m.top = S[s].top + 1
  <2>1. m = Pushed(S[s], t)
    BY <1>5 DEF st_push
  <2>2. /\ IsStack(RINGSIZE, Balls, Pushed(S[s], t))
        /\ StackItems(Pushed(S[s], t)) = WithLast(StackItems(S[s]), t)
    BY <1>1, <1>5, PushedIs DEF WithLast
  <2>3. Pushed(S[s], t).top = S[s].top + 1
    BY DEF Pushed
  <2> QED BY <2>1, <2>2, <2>3
<1> HIDE DEF m, T, I, BallsOn
<1>7. Range(StackItems(m)) = BallsOn(s) \cup {t}
  <2> DEFINE u == StackItems(S[s])
             G == Balls \cup {Garbage}
  <2>1. u \in Seq(G) /\ t \in G /\ StackItems(m) = WithLast(u, t)
    BY <1>5, <1>6
  <2> HIDE DEF u, G
  <2>2. IsLonger(G, u, t)
    BY <2>1, AtTheEnd
  <2>3. Range(StackItems(m)) = Range(u) \cup {t}
    BY <2>1, <2>2 DEF IsLonger
  <2> QED BY <2>3 DEF u, BallsOn
<1>8. T[s] = m /\ (\A i \in Stacks : i # s => T[i] = S[i]) /\ T = [i \in Stacks |-> T[i]]
  <2>1. S = [i \in Stacks |-> S[i]]
    BY <1>1
  <2>2. DOMAIN S = Stacks
    BY <2>1
  <2>3. T = [i \in Stacks |-> IF i = s THEN m ELSE S[i]]
    BY <2>2 DEF T
  <2>4. T[s] = m
    BY <2>3
  <2>5. \A i \in Stacks : i # s => T[i] = S[i]
    BY <2>3
  <2>6. T = [i \in Stacks |-> T[i]]
    BY <2>3
  <2> QED BY <2>4, <2>5, <2>6
<1>9. \A i \in Stacks : IsStack(RINGSIZE, Balls, T[i]) /\ T[i].top <= Brims[i]
  <2> TAKE i \in Stacks
  <2>1. CASE i = s
    <3>1. S[s].top <= Brims[s] /\ Brims[s] \in Nat /\ S[s].top \in Int
      BY <1>1, <1>3, ClockIs
    <3>2. m.top <= Brims[s]
      BY <1>6, <3>1
    <3> QED BY <1>6, <1>8, <2>1, <3>2
  <2>2. CASE i # s
    BY <1>1, <1>8, <2>2
  <2> QED BY <2>1, <2>2
<1>10. /\ Len(I) + (T[1].top + T[2].top + T[3].top + 3) + 0 = NR_BALL
       /\ Range(I) \cup Range(StackItems(T[1])) \cup Range(StackItems(T[2]))
            \cup Range(StackItems(T[3])) \cup {} = Balls
  <2> DEFINE a == S[1].top
             b == S[2].top
             c == S[3].top
             l == Len(I)
  <2>0. 1 \in Stacks /\ 2 \in Stacks /\ 3 \in Stacks
    BY ClockIs
  <2>1. /\ l \in Int /\ a \in Int /\ b \in Int /\ c \in Int
        /\ l + (a + b + c + 3) + 1 = NR_BALL /\ NR_BALL \in Int
    <3>1. a \in Int /\ b \in Int /\ c \in Int
      BY <1>3, <2>0
    <3>2. l \in Int /\ NR_BALL \in Int
      BY <1>2, ClockIs
    <3>3. l + (a + b + c + 3) + 1 = NR_BALL
      BY <1>1
    <3> QED BY <3>1, <3>2, <3>3
  <2>2. CASE s = 1
    <3>1. T[2] = S[2] /\ T[3] = S[3] /\ T[1] = m /\ T[1].top = a + 1
      BY <1>6, <1>8, <2>0, <2>2
    <3>2. l + ((a + 1) + b + c + 3) + 0 = NR_BALL
      <4> HIDE DEF a, b, c, l
      <4> QED BY <2>1
    <3>3. Len(I) + (T[1].top + T[2].top + T[3].top + 3) + 0 = NR_BALL
      BY <3>1, <3>2
    <3>4. Range(StackItems(T[1])) = BallsOn(1) \cup {t}
      BY <1>7, <2>2, <3>1
    <3> QED BY <1>1, <3>1, <3>3, <3>4 DEF BallsOn
  <2>3. CASE s = 2
    <3>1. T[1] = S[1] /\ T[3] = S[3] /\ T[2] = m /\ T[2].top = b + 1
      BY <1>6, <1>8, <2>0, <2>3
    <3>2. l + (a + (b + 1) + c + 3) + 0 = NR_BALL
      <4> HIDE DEF a, b, c, l
      <4> QED BY <2>1
    <3>3. Len(I) + (T[1].top + T[2].top + T[3].top + 3) + 0 = NR_BALL
      BY <3>1, <3>2
    <3>4. Range(StackItems(T[2])) = BallsOn(2) \cup {t}
      BY <1>7, <2>3, <3>1
    <3> QED BY <1>1, <3>1, <3>3, <3>4 DEF BallsOn
  <2>4. CASE s = 3
    <3>1. T[1] = S[1] /\ T[2] = S[2] /\ T[3] = m /\ T[3].top = c + 1
      BY <1>6, <1>8, <2>0, <2>4
    <3>2. l + (a + b + (c + 1) + 3) + 0 = NR_BALL
      <4> HIDE DEF a, b, c, l
      <4> QED BY <2>1
    <3>3. Len(I) + (T[1].top + T[2].top + T[3].top + 3) + 0 = NR_BALL
      BY <3>1, <3>2
    <3>4. Range(StackItems(T[3])) = BallsOn(3) \cup {t}
      BY <1>7, <2>4, <3>1
    <3> QED BY <1>1, <3>1, <3>3, <3>4 DEF BallsOn
  <2> QED BY <2>2, <2>3, <2>4, ClockIs
<1>11. Kept(qu, T, {}, 0, w)
  BY <1>1, <1>8, <1>9, <1>10 DEF Kept, I
<1> QED BY <1>11 DEF m, T

\* The ball in the hand comes back into the queue.
LEMMA BallRound ==
    ASSUME NEW qu, NEW S, NEW t \in Balls, NEW w \in Nat, Kept(qu, S, {t}, 1, w)
    PROVE  Kept(qu_enqueue(qu, t), S, {}, 0, w)
<1> DEFINE m == qu_enqueue(qu, t)
           I == RingItems(qu)
           a == S[1].top
           b == S[2].top
           c == S[3].top
<1>1. /\ IsRing(RINGSIZE, Balls, qu)
      /\ S = [i \in Stacks |-> S[i]]
      /\ \A i \in Stacks : IsStack(RINGSIZE, Balls, S[i]) /\ S[i].top <= Brims[i]
      /\ Len(I) + (a + b + c + 3) + 1 = NR_BALL
      /\ Range(I) \cup Range(StackItems(S[1])) \cup Range(StackItems(S[2]))
           \cup Range(StackItems(S[3])) \cup {t} = Balls
      /\ qu.data[1] # Garbage
      /\ qu.data[0] # Garbage \/ qu.tail >= w
  BY DEF Kept
<1>2. Len(I) \in Nat /\ qu.tail \in Nat /\ 0 \in 0 .. RINGSIZE - 1 /\ 1 \in 0 .. RINGSIZE - 1
  <2>1. Len(I) \in Nat /\ qu.tail \in 0 .. RINGSIZE - 1
    BY <1>1, RingIsLaid DEF I
  <2> QED BY <2>1, ClockIs
<1>3. \A i \in Stacks : S[i].top \in Int /\ S[i].top >= -1
  BY <1>1, StackIsLaid
<1>4. /\ a \in Int /\ b \in Int /\ c \in Int /\ a >= -1 /\ b >= -1 /\ c >= -1
      /\ NR_BALL \in Int /\ RINGSIZE \in Int /\ RINGSIZE > NR_BALL /\ Garbage \notin Balls
  BY <1>3, ClockIs
<1> HIDE DEF a, b, c, I, m
<1>5. Len(I) < RINGSIZE - 1
  BY <1>1, <1>2, <1>4, SMTT(60)
<1>6. HasQueued(RINGSIZE, Balls, qu, {t}, 1, m)
  BY <1>1, <1>4, <1>5, OneQueued DEF I, m
<1>7. /\ IsRing(RINGSIZE, Balls, m) /\ Len(RingItems(m)) = Len(I) + 1
      /\ Range(RingItems(m)) = Range(I) \cup {t}
      /\ \A i \in 0 .. RINGSIZE - 1 : qu.data[i] # Garbage => m.data[i] # Garbage
      /\ m.data[0] # Garbage \/ m.tail = qu.tail + 1
  BY <1>6 DEF HasQueued, I
<1>8. m.data[1] # Garbage /\ (m.data[0] # Garbage \/ m.tail >= w)
  <2>1. m.data[1] # Garbage
    BY <1>1, <1>2, <1>7
  <2>2. qu.data[0] # Garbage => m.data[0] # Garbage
    BY <1>2, <1>7
  <2>3. CASE qu.data[0] # Garbage
    BY <2>1, <2>2, <2>3
  <2>4. CASE qu.tail >= w
    BY <1>2, <1>7, <2>1, <2>4
  <2> QED BY <1>1, <2>3, <2>4
<1>9. Len(RingItems(m)) + (a + b + c + 3) + 0 = NR_BALL
  <2> DEFINE l == Len(I)
  <2>1. l + (a + b + c + 3) + 1 = NR_BALL /\ l \in Int
    BY <1>1, <1>2
  <2> HIDE DEF l
  <2>2. (l + 1) + (a + b + c + 3) + 0 = NR_BALL
    BY <1>4, <2>1
  <2> QED BY <1>7, <2>2 DEF l
<1>10. Range(RingItems(m)) \cup Range(StackItems(S[1])) \cup Range(StackItems(S[2]))
         \cup Range(StackItems(S[3])) \cup {} = Balls
  BY <1>1, <1>7
<1> QED BY <1>1, <1>7, <1>8, <1>9, <1>10 DEF Kept, a, b, c, m

\* No ball is in the hand between two turns, and the slot 0 is written by the time the
\* stack of fives of minutes has emptied once.
BallInv == Kept(balls, stacks, {}, 0, NR_BALL + stacks[2].top + 1)

LEMMA LessIsKept ==
    ASSUME NEW qu, NEW S, NEW X, NEW k, NEW w \in Int, NEW v \in Int, Kept(qu, S, X, k, w), v <= w
    PROVE  Kept(qu, S, X, k, v)
<1>1. /\ IsRing(RINGSIZE, Balls, qu)
      /\ S = [s \in Stacks |-> S[s]]
      /\ \A s \in Stacks : IsStack(RINGSIZE, Balls, S[s]) /\ S[s].top <= Brims[s]
      /\ Len(RingItems(qu)) + (S[1].top + S[2].top + S[3].top + 3) + k = NR_BALL
      /\ Range(RingItems(qu)) \cup Range(StackItems(S[1])) \cup Range(StackItems(S[2]))
           \cup Range(StackItems(S[3])) \cup X = Balls
      /\ qu.data[1] # Garbage
      /\ qu.data[0] # Garbage \/ qu.tail >= w
  BY DEF Kept
<1>2. qu.tail \in Int
  <2>1. qu.tail \in 0 .. RINGSIZE - 1
    BY <1>1, RingIsLaid
  <2> QED BY <2>1, ClockIs
<1>3. qu.data[0] # Garbage \/ qu.tail >= v
  BY <1>1, <1>2
<1> QED BY <1>1, <1>3 DEF Kept

\* Nothing is left unwritten once tail would have to be past the end.
LEMMA WrittenIsKept ==
    ASSUME NEW qu, NEW S, NEW X, NEW k, NEW w \in Int, NEW v \in Int, Kept(qu, S, X, k, w), w >= RINGSIZE
    PROVE  Kept(qu, S, X, k, v) /\ qu.data[0] # Garbage
<1>1. /\ IsRing(RINGSIZE, Balls, qu)
      /\ S = [s \in Stacks |-> S[s]]
      /\ \A s \in Stacks : IsStack(RINGSIZE, Balls, S[s]) /\ S[s].top <= Brims[s]
      /\ Len(RingItems(qu)) + (S[1].top + S[2].top + S[3].top + 3) + k = NR_BALL
      /\ Range(RingItems(qu)) \cup Range(StackItems(S[1])) \cup Range(StackItems(S[2]))
           \cup Range(StackItems(S[3])) \cup X = Balls
      /\ qu.data[1] # Garbage
      /\ qu.data[0] # Garbage \/ qu.tail >= w
  BY DEF Kept
<1>2. qu.tail \in Int /\ qu.tail < RINGSIZE
  <2>1. qu.tail \in 0 .. RINGSIZE - 1
    BY <1>1, RingIsLaid
  <2> QED BY <2>1, ClockIs
<1>3. qu.data[0] # Garbage
  BY <1>1, <1>2, ClockIs
<1> QED BY <1>1, <1>3 DEF Kept

LEMMA BallsThere ==
    ASSUME BallInv
    PROVE  BallsAreKept
<1> DEFINE I == RingItems(balls)
           A == StackItems(stacks[1])
           B == StackItems(stacks[2])
           C == StackItems(stacks[3])
           w == NR_BALL + stacks[2].top + 1
           G == Balls \cup {Garbage}
<1>1. /\ IsRing(RINGSIZE, Balls, balls)
      /\ \A s \in Stacks : IsStack(RINGSIZE, Balls, stacks[s]) /\ stacks[s].top <= Brims[s]
      /\ Len(I) + (stacks[1].top + stacks[2].top + stacks[3].top + 3) + 0 = NR_BALL
      /\ Range(I) \cup Range(A) \cup Range(B) \cup Range(C) \cup {} = Balls
      /\ balls.data[1] # Garbage
      /\ balls.data[0] # Garbage \/ balls.tail >= w
  BY DEF BallInv, Kept
<1>2. I \in Seq(G) /\ Len(I) \in Nat /\ balls.tail \in 0 .. RINGSIZE - 1
  BY <1>1, RingIsLaid
<1>3. \A s \in Stacks : /\ stacks[s].top \in Int /\ stacks[s].top >= -1
                        /\ StackItems(stacks[s]) \in Seq(G)
                        /\ Len(StackItems(stacks[s])) = stacks[s].top + 1
  <2> TAKE s \in Stacks
  <2>1. StackLaid(RINGSIZE, Balls, stacks[s])
    BY <1>1, StackItemsAre
  <2> QED BY <2>1 DEF StackLaid
<1>4. /\ A \in Seq(G) /\ B \in Seq(G) /\ C \in Seq(G)
      /\ Len(A) = stacks[1].top + 1 /\ Len(B) = stacks[2].top + 1 /\ Len(C) = stacks[3].top + 1
  BY <1>3, ClockIs
<1>5. stacks[1].top <= MIN /\ stacks[2].top <= FIVEMIN /\ stacks[3].top <= HOUR
  BY <1>1, ClockIs
<1>6. stacks[1].top \in Int /\ stacks[2].top \in Int /\ stacks[3].top \in Int
  BY <1>3, ClockIs
<1> HIDE DEF I, A, B, C, G
<1>7. Len(I) + Len(A) + Len(B) + Len(C) = NR_BALL
  <2> DEFINE a == stacks[1].top
             b == stacks[2].top
             c == stacks[3].top
  <2>1. Len(I) + (a + b + c + 3) + 0 = NR_BALL /\ a \in Int /\ b \in Int /\ c \in Int
        /\ Len(A) = a + 1 /\ Len(B) = b + 1 /\ Len(C) = c + 1 /\ NR_BALL \in Int
    BY <1>1, <1>4, <1>6, ClockIs
  <2> HIDE DEF a, b, c
  <2> QED BY <1>2, <2>1
<1>8. Range(I) \cup Range(A) \cup Range(B) \cup Range(C) = Balls
  BY <1>1
<1>9. I # <<>>
  <2> DEFINE a == stacks[1].top
             b == stacks[2].top
             c == stacks[3].top
  <2>1. /\ Len(I) + (a + b + c + 3) + 0 = NR_BALL /\ a \in Int /\ b \in Int /\ c \in Int
        /\ a <= MIN /\ b <= FIVEMIN /\ c <= HOUR /\ NR_BALL \in Int
        /\ MIN \in Int /\ FIVEMIN \in Int /\ HOUR \in Int /\ NR_BALL > MIN + FIVEMIN + HOUR + 3
    BY <1>1, <1>5, <1>6, ClockIs
  <2> HIDE DEF a, b, c
  <2>2. Len(I) # 0
    BY <1>2, <2>1
  <2> QED BY <2>2
<1>10. ASSUME \A s \in Stacks : Brim(s) PROVE Garbage \notin {balls.data[0], balls.data[1]}
  <2>1. stacks[2].top = FIVEMIN
    BY <1>10, ClockIs DEF Brim
  <2>2. w \in Int /\ w >= RINGSIZE
    BY <2>1, ClockIs
  <2>3. balls.data[0] # Garbage
    BY <1>1, <1>2, <2>2, ClockIs
  <2> QED BY <1>1, <2>3
<1>11. /\ Len(I \o A \o B \o C) = NR_BALL
       /\ Range(I \o A \o B \o C) = Balls
  <2> DEFINE IA == I \o A
             IAB == IA \o B
             everywhere == IAB \o C
  <2>1. AreJoined(G, IA, I, A)
    BY <1>2, <1>4, JoinedAre
  <2>2. IA \in Seq(G) /\ Len(IA) = Len(I) + Len(A) /\ Range(IA) = Range(I) \cup Range(A)
    <3> HIDE DEF IA
    <3> QED BY <2>1 DEF AreJoined
  <2>3. IAB \in Seq(G) /\ Len(IAB) = Len(IA) + Len(B) /\ Range(IAB) = Range(IA) \cup Range(B)
    <3> HIDE DEF IA
    <3>1. AreJoined(G, IAB, IA, B)
      BY <1>4, <2>2, JoinedAre
    <3> HIDE DEF IAB
    <3> QED BY <3>1 DEF AreJoined
  <2>4. Len(everywhere) = Len(IAB) + Len(C) /\ Range(everywhere) = Range(IAB) \cup Range(C)
    <3> HIDE DEF IAB
    <3>1. AreJoined(G, everywhere, IAB, C)
      BY <1>4, <2>3, JoinedAre
    <3> HIDE DEF everywhere
    <3> QED BY <3>1 DEF AreJoined
  <2> HIDE DEF IA, IAB, everywhere
  <2>5. Len(everywhere) = NR_BALL /\ Range(everywhere) = Balls
    BY <1>7, <1>8, <2>2, <2>3, <2>4
  <2> QED BY <2>5 DEF everywhere, IAB, IA
<1>12. BallsAreKept
  BY <1>9, <1>10, <1>11 DEF BallsAreKept, I, A, B, C
<1> QED BY <1>12

LEMMA BallsBegin ==
    ASSUME BallInit
    PROVE  BallInv
<1> DEFINE qu == qu_create(RINGSIZE)
           items == [i \in Balls |-> i]
<1>0. /\ NR_BALL \in Nat /\ NR_BALL # 0 /\ RINGSIZE \in Nat /\ RINGSIZE > NR_BALL /\ RINGSIZE > 2
      /\ Garbage \notin Balls
  BY ClockIs
<1>1. IsRing(RINGSIZE, Balls, qu) /\ qu.head = 0 /\ qu.tail = 0
  <2>1. Blank(RINGSIZE) \in HeldOf(RINGSIZE, Balls) /\ 0 \in Slots(RINGSIZE)
    BY <1>0 DEF Blank, HeldOf, Slots
  <2>2. qu = [data |-> Blank(RINGSIZE), head |-> 0, tail |-> 0]
    BY DEF qu_create
  <2> HIDE DEF qu
  <2> QED BY <1>0, <2>1, <2>2 DEF IsRing, RingOf
<1> HIDE DEF qu
<1>2. Len(RingItems(qu)) = 0 /\ Range(RingItems(qu)) = {}
  <2>1. Len(RingItems(qu)) = 0 /\ RingItems(qu) \in Seq(Balls \cup {Garbage})
    <3>1. qu_isempty(qu)
      BY <1>1 DEF qu_isempty
    <3> QED BY <1>1, <3>1, RingIsLaid
  <2>2. DOMAIN RingItems(qu) = {}
    BY <2>1
  <2> QED BY <2>1, <2>2 DEF Range
<1>3. items \in Seq(Balls) /\ Len(items) = NR_BALL /\ Range(items) = Balls
  <2>1. items \in [1 .. NR_BALL -> Balls]
    BY DEF Balls
  <2>2. items \in Seq(Balls) /\ Len(items) = NR_BALL
    BY <1>0, <2>1, ItemsInArray
  <2>3. Range(items) = Balls
    BY DEF Range
  <2> QED BY <2>2, <2>3
<1> HIDE DEF items
<1>4. HasQueued(RINGSIZE, Balls, qu, Balls, NR_BALL, balls)
  <2>1. Len(RingItems(qu)) + Len(items) <= RINGSIZE - 1
    BY <1>0, <1>2, <1>3
  <2>2. HasQueued(RINGSIZE, Balls, qu, Range(items), Len(items), Enqueued(qu, items))
    BY <1>0, <1>1, <1>3, <2>1, AllQueued
  <2>3. balls = Enqueued(qu, items)
    BY DEF BallInit, qu, items
  <2> QED BY <1>3, <2>2, <2>3
<1>5. /\ IsRing(RINGSIZE, Balls, balls) /\ balls.head = 0
      /\ Len(RingItems(balls)) = NR_BALL /\ Range(RingItems(balls)) = Balls
      /\ balls.data[0] # Garbage \/ balls.tail = NR_BALL
  <2>1. /\ IsRing(RINGSIZE, Balls, balls) /\ balls.head = qu.head
        /\ Len(RingItems(balls)) = Len(RingItems(qu)) + NR_BALL
        /\ Range(RingItems(balls)) = Range(RingItems(qu)) \cup Balls
        /\ balls.data[0] # Garbage \/ balls.tail = qu.tail + NR_BALL
    BY <1>4 DEF HasQueued
  <2> QED BY <1>0, <1>1, <1>2, <2>1
<1>6. balls.data[1] # Garbage
  <2>1. ~qu_isempty(balls) /\ RingItems(balls) \in Seq(Balls \cup {Garbage})
    BY <1>0, <1>5, RingIsLaid
  <2>2. Foremost(balls) = RingItems(balls)[1]
    BY <1>5, <2>1, DequeuedIs
  <2>3. RingItems(balls)[1] \in Balls
    <3>1. 1 \in DOMAIN RingItems(balls)
      BY <1>0, <1>5, <2>1
    <3> QED BY <1>5, <3>1 DEF Range
  <2>4. After(balls, balls.head) = 1
    <3>1. RingLaid(RINGSIZE, Balls, balls)
      BY <1>5, RingIs DEF IsRing
    <3>2. After(balls, 0) = IF 0 = RINGSIZE - 1 THEN 0 ELSE 0 + 1
      BY <1>0, <3>1 DEF RingLaid
    <3> QED BY <1>0, <1>5, <3>2
  <2> QED BY <1>0, <2>2, <2>3, <2>4 DEF Foremost
<1>7. stacks = [s \in Stacks |-> st_create(RINGSIZE)]
  BY DEF BallInit
<1>8. LET st == st_create(RINGSIZE)
      IN  IsStack(RINGSIZE, Balls, st) /\ st.top = -1 /\ Range(StackItems(st)) = {}
  <2> DEFINE st == st_create(RINGSIZE)
  <2>1. Blank(RINGSIZE) \in HeldOf(RINGSIZE, Balls) /\ -1 \in -1 .. RINGSIZE - 1
    BY <1>0 DEF Blank, HeldOf, Slots
  <2>2. st = [data |-> Blank(RINGSIZE), top |-> -1]
    BY DEF st_create
  <2> HIDE DEF st
  <2>3. IsStack(RINGSIZE, Balls, st) /\ st.top = -1
    BY <1>0, <2>1, <2>2 DEF IsStack, StackOf
  <2>4. DOMAIN StackItems(st) = {}
    BY <2>3 DEF StackItems
  <2>5. Range(StackItems(st)) = {}
    BY <2>4 DEF Range
  <2> QED BY <2>3, <2>5 DEF st
<1>9. \A s \in Stacks : /\ IsStack(RINGSIZE, Balls, stacks[s]) /\ stacks[s].top = -1
                        /\ Range(StackItems(stacks[s])) = {} /\ stacks[s].top <= Brims[s]
  <2>1. \A s \in Stacks : stacks[s] = st_create(RINGSIZE)
    BY <1>7
  <2>2. \A s \in Stacks : -1 <= Brims[s]
    BY ClockIs
  <2> QED BY <1>8, <2>1, <2>2
<1>10. /\ stacks[1].top = -1 /\ stacks[2].top = -1 /\ stacks[3].top = -1
       /\ Range(StackItems(stacks[1])) = {} /\ Range(StackItems(stacks[2])) = {}
       /\ Range(StackItems(stacks[3])) = {}
  BY <1>9, ClockIs
<1>11. stacks = [s \in Stacks |-> stacks[s]]
  BY <1>7
<1>12. Len(RingItems(balls)) + (stacks[1].top + stacks[2].top + stacks[3].top + 3) + 0 = NR_BALL
  BY <1>0, <1>5, <1>10
<1>13. balls.data[0] # Garbage \/ balls.tail >= NR_BALL + stacks[2].top + 1
  BY <1>0, <1>5, <1>10
<1> QED BY <1>5, <1>6, <1>9, <1>10, <1>11, <1>12, <1>13 DEF BallInv, Kept

LEMMA BallsTurn ==
    ASSUME BallInv, Turn
    PROVE  BallInv'
<1> DEFINE t == Foremost(balls)
           q0 == qu_dequeue(balls)
           q1 == Emptied(q0, stacks[1])
           q2 == Emptied(q1, stacks[2])
           q3 == Emptied(q2, stacks[3])
           w == NR_BALL + stacks[2].top + 1
           T0 == stacks
           T1 == [T0 EXCEPT ![1] = Popped(T0[1])]
           T2 == [T1 EXCEPT ![2] = Popped(T1[2])]
           T3 == [T2 EXCEPT ![3] = Popped(T2[3])]
<1>1. /\ T0 = [s \in Stacks |-> T0[s]] /\ DOMAIN T0 = Stacks
      /\ \A s \in Stacks : IsStack(RINGSIZE, Balls, T0[s]) /\ T0[s].top <= Brims[s]
  <2>1. T0 = [s \in Stacks |-> T0[s]]
    BY DEF BallInv, Kept
  <2>2. DOMAIN T0 = Stacks
    BY <2>1
  <2>3. \A s \in Stacks : IsStack(RINGSIZE, Balls, T0[s]) /\ T0[s].top <= Brims[s]
    BY DEF BallInv, Kept
  <2> QED BY <2>1, <2>2, <2>3
<1>2. \A s \in Stacks : T0[s].top \in Int /\ T0[s].top >= -1
  BY <1>1, StackIsLaid
<1>3. /\ T0[1].top \in Int /\ T0[2].top \in Int /\ T0[3].top \in Int
      /\ T0[1].top >= -1 /\ T0[2].top >= -1 /\ T0[3].top >= -1
      /\ 1 \in Stacks /\ 2 \in Stacks /\ 3 \in Stacks
  BY <1>2, ClockIs
<1>4. /\ NR_BALL \in Nat /\ RINGSIZE \in Nat /\ MIN \in Nat /\ FIVEMIN \in Nat
      /\ RINGSIZE <= NR_BALL + FIVEMIN + 1
      /\ Brims[1] = MIN /\ Brims[2] = FIVEMIN
  BY ClockIs
<1>5. DOMAIN T1 = Stacks /\ T1[2] = T0[2] /\ T1[3] = T0[3] /\ T1[1] = Popped(T0[1])
  BY <1>1, <1>3
<1>6. DOMAIN T2 = Stacks /\ T2[3] = T0[3] /\ T2[1] = Popped(T0[1]) /\ T2[2] = Popped(T0[2])
  <2> HIDE DEF T1
  <2> QED BY <1>3, <1>5
<1>7. DOMAIN T3 = Stacks /\ T3[1] = Popped(T0[1]) /\ T3[2] = Popped(T0[2]) /\ T3[3] = Popped(T0[3])
  <2> HIDE DEF T2
  <2> QED BY <1>3, <1>6
<1> DEFINE w1 == w + T0[1].top + 1
           w2 == w1 + T0[2].top + 1
           w3 == w2 + T0[3].top + 1
<1>8. w \in Nat /\ w1 \in Nat /\ w2 \in Nat /\ w3 \in Nat
  BY <1>3, <1>4
<1> HIDE DEF T0, T1, T2, T3
<1>9. t \in Balls /\ Kept(q0, T0, {t}, 1, w)
  <2>1. Kept(balls, stacks, {}, 0, w)
    BY DEF BallInv
  <2> HIDE DEF w
  <2> QED BY <2>1, BallTaken DEF T0
<1> HIDE DEF w
<1>10. Kept(q1, T1, {t}, 1, w1)
  <2>1. q1 = Emptied(q0, T0[1])
    BY DEF T0
  <2> HIDE DEF q0, q1
  <2>2. Kept(Emptied(q0, T0[1]), [T0 EXCEPT ![1] = Popped(T0[1])], {t}, 1, w + T0[1].top + 1)
    <3> HIDE DEF t
    <3> QED BY <1>3, <1>8, <1>9, BallsBack
  <2> QED BY <2>1, <2>2 DEF T1
<1>11. Kept(q2, T2, {t}, 1, w2)
  <2>1. q2 = Emptied(q1, T1[2]) /\ w2 = w1 + T1[2].top + 1
    BY <1>5 DEF T0
  <2> HIDE DEF q1, q2, w1, w2
  <2>2. Kept(Emptied(q1, T1[2]), [T1 EXCEPT ![2] = Popped(T1[2])], {t}, 1, w1 + T1[2].top + 1)
    <3> HIDE DEF t
    <3> QED BY <1>3, <1>8, <1>10, BallsBack
  <2> QED BY <2>1, <2>2 DEF T2
<1>12. Kept(q3, T3, {t}, 1, w3)
  <2>1. q3 = Emptied(q2, T2[3]) /\ w3 = w2 + T2[3].top + 1
    BY <1>6 DEF T0
  <2> HIDE DEF q2, q3, w2, w3
  <2>2. Kept(Emptied(q2, T2[3]), [T2 EXCEPT ![3] = Popped(T2[3])], {t}, 1, w2 + T2[3].top + 1)
    <3> HIDE DEF t
    <3> QED BY <1>3, <1>8, <1>11, BallsBack
  <2> QED BY <2>1, <2>2 DEF T3
<1>13. \/ Lands(q0, t, 1) \/ Lands(q1, t, 2) \/ Lands(q2, t, 3)
       \/ /\ \A s \in Stacks : Brim(s)
          /\ balls' = qu_enqueue(q3, t)
          /\ stacks' = [s \in Stacks |-> Popped(stacks[s])]
  BY DEF Turn
<1> HIDE DEF t, q0, q1, q2, q3
<1>14. CASE Lands(q0, t, 1)
  <2>1. /\ balls' = q0 /\ T0[1].top # Brims[1]
        /\ stacks' = [s \in Stacks |-> CASE s < 1 -> Popped(T0[s])
                                         [] s = 1 -> st_push(T0[1], t)
                                         [] s > 1 -> T0[s]]
    BY <1>14 DEF Lands, Brim, T0
  <2>2. stacks' = [T0 EXCEPT ![1] = st_push(T0[1], t)]
    <3>1. /\ stacks'[1] = st_push(T0[1], t) /\ stacks'[2] = T0[2] /\ stacks'[3] = T0[3]
          /\ DOMAIN stacks' = Stacks /\ stacks' = [s \in Stacks |-> stacks'[s]]
      <4>1. DOMAIN stacks' = Stacks /\ stacks' = [s \in Stacks |-> stacks'[s]]
        <5> DEFINE A(s) == CASE s < 1 -> Popped(T0[s]) [] s = 1 -> st_push(T0[1], t) [] s > 1 -> T0[s]
        <5>1. stacks' = [s \in Stacks |-> A(s)]
          BY <2>1
        <5> HIDE DEF A
        <5> QED BY <5>1
      <4>2. \A s \in Stacks : stacks'[s] = CASE s < 1 -> Popped(T0[s])
                                              [] s = 1 -> st_push(T0[1], t)
                                              [] s > 1 -> T0[s]
        BY <2>1
      <4>3. stacks'[1] = st_push(T0[1], t)
        BY <1>3, <4>2
      <4>4. stacks'[2] = T0[2]
        BY <1>3, <4>2
      <4>5. stacks'[3] = T0[3]
        BY <1>3, <4>2
      <4> QED BY <4>1, <4>3, <4>4, <4>5
    <3> QED BY <1>1, <1>3, <3>1, ClockIs
  <2>3. Kept(q0, [T0 EXCEPT ![1] = st_push(T0[1], t)], {}, 0, w)
    BY <1>3, <1>9, <2>1, BallPut
  <2>4. stacks'[2] = T0[2]
    BY <1>1, <1>3, <2>2
  <2> QED BY <2>1, <2>2, <2>3, <2>4 DEF BallInv, w, T0
<1>15. CASE Lands(q1, t, 2)
  <2>1. /\ balls' = q1 /\ T0[1].top = Brims[1] /\ T0[2].top # Brims[2]
        /\ stacks' = [s \in Stacks |-> CASE s < 2 -> Popped(T0[s])
                                         [] s = 2 -> st_push(T0[2], t)
                                         [] s > 2 -> T0[s]]
    BY <1>15 DEF Lands, Brim, T0
  <2>2. /\ stacks' = [T1 EXCEPT ![2] = st_push(T1[2], t)]
        /\ stacks'[2] = st_push(T0[2], t)
    <3>1. /\ stacks'[1] = Popped(T0[1]) /\ stacks'[2] = st_push(T0[2], t) /\ stacks'[3] = T0[3]
          /\ DOMAIN stacks' = Stacks /\ stacks' = [s \in Stacks |-> stacks'[s]]
      <4>1. DOMAIN stacks' = Stacks /\ stacks' = [s \in Stacks |-> stacks'[s]]
        <5> DEFINE A(s) == CASE s < 2 -> Popped(T0[s]) [] s = 2 -> st_push(T0[2], t) [] s > 2 -> T0[s]
        <5>1. stacks' = [s \in Stacks |-> A(s)]
          BY <2>1
        <5> HIDE DEF A
        <5> QED BY <5>1
      <4>2. \A s \in Stacks : stacks'[s] = CASE s < 2 -> Popped(T0[s])
                                              [] s = 2 -> st_push(T0[2], t)
                                              [] s > 2 -> T0[s]
        BY <2>1
      <4>3. stacks'[1] = Popped(T0[1])
        BY <1>3, <4>2
      <4>4. stacks'[2] = st_push(T0[2], t)
        BY <1>3, <4>2
      <4>5. stacks'[3] = T0[3]
        BY <1>3, <4>2
      <4> QED BY <4>1, <4>3, <4>4, <4>5
    <3> QED BY <1>3, <1>5, <3>1, ClockIs
  <2>3. Kept(q1, [T1 EXCEPT ![2] = st_push(T1[2], t)], {}, 0, w1)
    <3>1. T1[2].top # Brims[2]
      BY <1>5, <2>1
    <3> QED BY <1>3, <1>9, <1>10, <3>1, BallPut
  <2>4. stacks'[2].top = T0[2].top \/ stacks'[2].top = T0[2].top + 1
    BY <2>2 DEF st_push, Pushed
  <2>5. NR_BALL + stacks'[2].top + 1 \in Int /\ NR_BALL + stacks'[2].top + 1 <= w1
    BY <1>3, <1>4, <2>1, <2>4 DEF w, T0
  <2>6. Kept(balls', stacks', {}, 0, w1)
    BY <2>1, <2>2, <2>3
  <2> HIDE DEF w1
  <2>7. Kept(balls', stacks', {}, 0, NR_BALL + stacks'[2].top + 1)
    BY <1>8, <2>5, <2>6, LessIsKept
  <2> QED BY <2>7 DEF BallInv
<1>16. CASE Lands(q2, t, 3)
  <2>1. /\ balls' = q2 /\ T0[1].top = Brims[1] /\ T0[2].top = Brims[2] /\ T0[3].top # Brims[3]
        /\ stacks' = [s \in Stacks |-> CASE s < 3 -> Popped(T0[s])
                                         [] s = 3 -> st_push(T0[3], t)
                                         [] s > 3 -> T0[s]]
    BY <1>16 DEF Lands, Brim, T0
  <2>2. /\ stacks' = [T2 EXCEPT ![3] = st_push(T2[3], t)]
        /\ stacks'[2].top = -1
    <3>1. /\ stacks'[1] = Popped(T0[1]) /\ stacks'[2] = Popped(T0[2]) /\ stacks'[3] = st_push(T0[3], t)
          /\ DOMAIN stacks' = Stacks /\ stacks' = [s \in Stacks |-> stacks'[s]]
      <4>1. DOMAIN stacks' = Stacks /\ stacks' = [s \in Stacks |-> stacks'[s]]
        <5> DEFINE A(s) == CASE s < 3 -> Popped(T0[s]) [] s = 3 -> st_push(T0[3], t) [] s > 3 -> T0[s]
        <5>1. stacks' = [s \in Stacks |-> A(s)]
          BY <2>1
        <5> HIDE DEF A
        <5> QED BY <5>1
      <4>2. \A s \in Stacks : stacks'[s] = CASE s < 3 -> Popped(T0[s])
                                              [] s = 3 -> st_push(T0[3], t)
                                              [] s > 3 -> T0[s]
        BY <2>1
      <4>3. stacks'[1] = Popped(T0[1])
        BY <1>3, <4>2
      <4>4. stacks'[2] = Popped(T0[2])
        BY <1>3, <4>2
      <4>5. stacks'[3] = st_push(T0[3], t)
        BY <1>3, <4>2
      <4> QED BY <4>1, <4>3, <4>4, <4>5
    <3>2. Popped(T0[2]).top = -1
      BY <1>1, <1>3, StackIsLaid
    <3> QED BY <1>3, <1>6, <3>1, <3>2, ClockIs
  <2>3. Kept(q2, [T2 EXCEPT ![3] = st_push(T2[3], t)], {}, 0, w2)
    <3>1. T2[3].top # Brims[3]
      BY <1>6, <2>1
    <3> QED BY <1>3, <1>9, <1>11, <3>1, BallPut
  <2>4. w2 >= RINGSIZE
    BY <1>3, <1>4, <2>1 DEF w, T0
  <2>5. Kept(balls', stacks', {}, 0, w2)
    BY <2>1, <2>2, <2>3
  <2> HIDE DEF w2
  <2>6. Kept(balls', stacks', {}, 0, NR_BALL + stacks'[2].top + 1)
    BY <1>4, <1>8, <2>2, <2>4, <2>5, WrittenIsKept
  <2> QED BY <2>6 DEF BallInv
<1>17. CASE /\ \A s \in Stacks : Brim(s)
            /\ balls' = qu_enqueue(q3, t)
            /\ stacks' = [s \in Stacks |-> Popped(stacks[s])]
  <2>1. /\ stacks' = T3 /\ stacks'[2].top = -1
    <3>1. /\ stacks'[1] = Popped(T0[1]) /\ stacks'[2] = Popped(T0[2]) /\ stacks'[3] = Popped(T0[3])
          /\ DOMAIN stacks' = Stacks /\ stacks' = [s \in Stacks |-> stacks'[s]]
      BY <1>3, <1>17 DEF T0
    <3>2. Popped(T0[2]).top = -1
      BY <1>1, <1>3, StackIsLaid
    <3>3. T3 = [s \in Stacks |-> T3[s]]
      BY <1>7 DEF T3
    <3> QED BY <1>3, <1>7, <3>1, <3>2, <3>3, ClockIs
  <2>2. T0[1].top = Brims[1] /\ T0[2].top = Brims[2]
    BY <1>3, <1>17 DEF Brim, T0
  <2>3. w3 >= RINGSIZE
    BY <1>3, <1>4, <2>2 DEF w, T0
  <2> HIDE DEF w3
  <2>4. Kept(qu_enqueue(q3, t), T3, {}, 0, w3)
    BY <1>8, <1>9, <1>12, BallRound
  <2>5. Kept(balls', stacks', {}, 0, w3)
    BY <1>17, <2>1, <2>4
  <2>6. Kept(balls', stacks', {}, 0, NR_BALL + stacks'[2].top + 1)
    BY <1>4, <1>8, <2>1, <2>3, <2>5, WrittenIsKept
  <2> QED BY <2>6 DEF BallInv
<1> QED BY <1>13, <1>14, <1>15, <1>16, <1>17

\* The balls stay what they are, each in the queue or in one stack, for any number of
\* balls and any brims that the assumption allows: no call whose result main.c:65-97
\* does not look at ever fails, and check looks at slots that have been written.
THEOREM BallsKept == SpecStructures => []BallsAreKept
<1>1. InitStructures => BallInv
  BY BallsBegin DEF InitStructures
<1>2. BallInv /\ [NextStructures]_structureVars => BallInv'
  <2> SUFFICES ASSUME BallInv, [NextStructures]_structureVars PROVE BallInv'
    OBVIOUS
  <2>1. CASE OnClock(Turn)
    BY <2>1, BallsTurn DEF OnClock
  <2>2. CASE UNCHANGED ballVars
    BY <2>2 DEF ballVars, BallInv
  <2>3. CASE OnArray(ArrayPrograms, ArrayNext) \/ OnChain({"nohead"}, NoHeadNext)
             \/ OnChain({"head"}, HeadNext) \/ OnChain(Rings, LlistNext)
             \/ OnRing(Kill) \/ OnPoly(PolyNext)
             \/ OnTree(TreeNext) \/ OnTrie(TrieNext) \/ OnFile(SaveNext) \/ UNCHANGED structureVars
    BY <2>2, <2>3 DEF OnArray, OnChain, OnRing, OnPoly, OnTree, OnTrie, OnFile, structureVars
  <2> QED BY <2>1, <2>3 DEF NextStructures
<1>3. BallInv => BallsAreKept
  BY BallsThere
<1> QED BY <1>1, <1>2, <1>3, PTL DEF SpecStructures

-----------------------------------------------------------------------------
(* The survivor of the ring *)

\* What a recursion over the naturals says, one function has.
IsRecursion(g, V, F, x) == g \in [Nat -> V] /\ g[0] = x /\ \A k \in Nat : g[k + 1] = F[k][g[k]]

LEMMA Recursion ==
    ASSUME NEW V, NEW F \in [Nat -> [V -> V]], NEW x \in V
    PROVE  \E g : IsRecursion(g, V, F, x)
<1> DEFINE G(m) == [k \in 1 .. m |-> F[k - 1]]
           H(m) == CHOOSE h : IsHistory(h, V, G(m), x, m)
<1>1. \A m \in Nat : IsHistory(H(m), V, G(m), x, m)
  <2> TAKE m \in Nat
  <2>1. \A k \in 1 .. m : k - 1 \in Nat
    OBVIOUS
  <2>2. G(m) \in [1 .. m -> [V -> V]]
    BY <2>1
  <2> HIDE DEF G
  <2>3. \E h : IsHistory(h, V, G(m), x, m)
    BY <2>2, Histories
  <2> QED BY <2>3, Zenon
<1> HIDE DEF H
<1>2. \A m \in Nat : /\ H(m)[0] = x /\ \A k \in 0 .. m : H(m)[k] \in V
                     /\ \A k \in 1 .. m : H(m)[k] = F[k - 1][H(m)[k - 1]]
  <2> TAKE m \in Nat
  <2>1. IsHistory(H(m), V, G(m), x, m)
    BY <1>1
  <2>2. \A k \in 1 .. m : G(m)[k] = F[k - 1]
    OBVIOUS
  <2> HIDE DEF G
  <2> QED BY <2>1, <2>2 DEF IsHistory
<1> HIDE DEF G
<1> DEFINE Same(k) == \A m \in Nat : k <= m => H(m)[k] = H(k)[k]
           S == {k \in Nat : ~Same(k)}
<1>3. S = {}
  <2> SUFFICES ASSUME S # {} PROVE FALSE
    OBVIOUS
  <2>1. PICK k \in S : \A j \in S : k <= j
    <3>1. S \in SUBSET Nat
      OBVIOUS
    <3> HIDE DEF S
    <3> QED BY <3>1, Least
  <2>2. CASE k = 0
    BY <1>2, <2>1, <2>2
  <2>3. CASE k # 0
    <3>1. k \in Nat /\ k - 1 \in Nat /\ ~ (k <= k - 1) /\ k \in 1 .. k /\ k - 1 <= k
      BY <2>1, <2>3
    <3>2. Same(k - 1)
      <4> HIDE DEF Same
      <4> QED BY <2>1, <3>1
    <3>3. ASSUME NEW m \in Nat, k <= m PROVE H(m)[k] = H(k)[k]
      <4>1. k \in 1 .. m /\ k - 1 <= m
        BY <3>1, <3>3
      <4>2. H(m)[k - 1] = H(k - 1)[k - 1] /\ H(k)[k - 1] = H(k - 1)[k - 1]
        BY <3>1, <3>2, <4>1
      <4>3. H(m)[k] = F[k - 1][H(m)[k - 1]]
        BY <1>2, <4>1
      <4>4. H(k)[k] = F[k - 1][H(k)[k - 1]]
        BY <1>2, <3>1
      <4> QED BY <4>2, <4>3, <4>4
    <3> QED BY <2>1, <3>3
  <2> QED BY <2>2, <2>3
<1> DEFINE g == [m \in Nat |-> H(m)[m]]
<1>4. g \in [Nat -> V]
  <2>1. \A m \in Nat : m \in 0 .. m
    OBVIOUS
  <2> QED BY <1>2, <2>1
<1>5. g[0] = x
  BY <1>2
<1>6. ASSUME NEW k \in Nat PROVE g[k + 1] = F[k][g[k]]
  <2>1. k + 1 \in Nat /\ k + 1 \in 1 .. k + 1 /\ (k + 1) - 1 = k /\ k <= k + 1
    OBVIOUS
  <2>2. Same(k)
    <3> HIDE DEF Same
    <3> QED BY <1>3
  <2>3. H(k + 1)[k] = H(k)[k]
    BY <2>1, <2>2
  <2>4. H(k + 1)[k + 1] = F[k][H(k + 1)[k]]
    BY <1>2, <2>1
  <2> QED BY <2>1, <2>3, <2>4
<1> HIDE DEF g
<1> QED BY <1>4, <1>5, <1>6 DEF IsRecursion

\* M counts on along j, from c.
CountsOn(M, A, j, c) == M \in [Nat -> A] /\ M[0] = c /\ \A k \in Nat : M[k + 1] = j[M[k]]

MetBy(j, c) == LET f[k \in Nat] == IF k = 0 THEN c ELSE j[f[k - 1]] IN f

LEMMA MetIs ==
    ASSUME NEW A, NEW j \in [A -> A], NEW c \in A
    PROVE  CountsOn(MetBy(j, c), A, j, c)
<1> DEFINE f[k \in Nat] == IF k = 0 THEN c ELSE j[f[k - 1]]
           F == [k \in Nat |-> j]
<1>1. PICK g \in [Nat -> A] : g[0] = c /\ \A k \in Nat : g[k + 1] = j[g[k]]
  <2>1. F \in [Nat -> [A -> A]] /\ \A k \in Nat : F[k] = j
    OBVIOUS
  <2> HIDE DEF F
  <2>2. PICK g : IsRecursion(g, A, F, c)
    BY <2>1, Recursion
  <2> QED BY <2>1, <2>2 DEF IsRecursion
<1>2. g = [k \in Nat |-> IF k = 0 THEN c ELSE j[g[k - 1]]]
  <2>1. \A k \in Nat : g[k] = IF k = 0 THEN c ELSE j[g[k - 1]]
    <3> TAKE k \in Nat
    <3>1. k # 0 => k - 1 \in Nat /\ (k - 1) + 1 = k
      OBVIOUS
    <3> QED BY <1>1, <3>1
  <2> QED BY <1>1, <2>1
<1>3. f = [k \in Nat |-> IF k = 0 THEN c ELSE j[f[k - 1]]]
  BY <1>2, Zenon
<1>4. MetBy(j, c) = f
  BY Zenon DEF MetBy
<1> HIDE DEF f
<1>5. f[0] = c /\ \A k \in Nat : f[k + 1] = j[f[k]]
  <2>1. f[0] = c
    BY <1>3
  <2>2. ASSUME NEW k \in Nat PROVE f[k + 1] = j[f[k]]
    <3>1. k + 1 \in Nat /\ k + 1 # 0 /\ (k + 1) - 1 = k
      OBVIOUS
    <3> QED BY <1>3, <3>1
  <2> QED BY <2>1, <2>2
<1>6. f \in [Nat -> A]
  <2> DEFINE S == {k \in Nat : f[k] # g[k]}
  <2>1. S = {}
    <3> SUFFICES ASSUME S # {} PROVE FALSE
      OBVIOUS
    <3>1. PICK k \in S : \A i \in S : k <= i
      <4>1. S \in SUBSET Nat
        OBVIOUS
      <4> HIDE DEF S
      <4> QED BY <4>1, Least
    <3>2. k # 0
      BY <1>1, <1>5, <3>1
    <3>3. k - 1 \in Nat /\ (k - 1) + 1 = k /\ ~ (k <= k - 1)
      BY <3>1, <3>2
    <3>4. f[k - 1] = g[k - 1]
      BY <3>1, <3>3
    <3>5. f[(k - 1) + 1] = g[(k - 1) + 1]
      BY <1>1, <1>5, <3>3, <3>4
    <3> QED BY <3>1, <3>3, <3>5
  <2>2. \A k \in Nat : f[k] \in A
    BY <1>1, <2>1
  <2>3. DOMAIN f = Nat
    BY <1>3
  <2>4. f = [k \in Nat |-> f[k]]
    BY <1>3
  <2> QED BY <2>2, <2>4
<1> QED BY <1>4, <1>5, <1>6 DEF CountsOn

\* The recurrence, with the values of which it is made.
SurvivorBy(s) == LET f[n \in Nat \ {0}] == IF n = 1 THEN 0 ELSE (f[n - 1] + s) % n IN f

LEMMA SurvivorIs ==
    ASSUME NEW s \in Nat
    PROVE  /\ SurvivorBy(s)[1] = 0
           /\ \A n \in Nat \ {0} : SurvivorBy(s)[n] \in 0 .. n - 1
           /\ \A n \in Nat \ {0} : SurvivorBy(s)[n + 1] = (SurvivorBy(s)[n] + s) % (n + 1)
<1> DEFINE f[n \in Nat \ {0}] == IF n = 1 THEN 0 ELSE (f[n - 1] + s) % n
           F == [k \in Nat |-> [v \in Nat |-> (v + s) % (k + 2)]]
<1>1. PICK h : h \in [Nat -> Nat] /\ h[0] = 0 /\ \A k \in Nat : h[k + 1] = (h[k] + s) % (k + 2)
  <2>1. F \in [Nat -> [Nat -> Nat]]
    <3>1. ASSUME NEW k \in Nat, NEW v \in Nat PROVE (v + s) % (k + 2) \in Nat
      OBVIOUS
    <3> QED BY <3>1
  <2>2. \A k \in Nat, v \in Nat : F[k][v] = (v + s) % (k + 2)
    OBVIOUS
  <2> HIDE DEF F
  <2>3. PICK h : IsRecursion(h, Nat, F, 0)
    BY <2>1, Recursion
  <2>4. h \in [Nat -> Nat] /\ h[0] = 0 /\ \A k \in Nat : h[k + 1] = F[k][h[k]]
    BY <2>3 DEF IsRecursion
  <2>5. \A k \in Nat : F[k][h[k]] = (h[k] + s) % (k + 2)
    BY <2>2, <2>4
  <2> QED BY <2>4, <2>5
<1> DEFINE g == [n \in Nat \ {0} |-> h[n - 1]]
<1>2. g = [n \in Nat \ {0} |-> IF n = 1 THEN 0 ELSE (g[n - 1] + s) % n]
  <2>1. ASSUME NEW n \in Nat \ {0} PROVE g[n] = IF n = 1 THEN 0 ELSE (g[n - 1] + s) % n
    <3>1. CASE n = 1
      BY <1>1, <3>1
    <3>2. CASE n # 1
      <4>1. n - 1 \in Nat \ {0} /\ n - 2 \in Nat /\ (n - 2) + 1 = n - 1 /\ (n - 1) - 1 = n - 2 /\ (n - 2) + 2 = n
        BY <3>2
      <4>2. h[(n - 2) + 1] = (h[n - 2] + s) % ((n - 2) + 2)
        BY <1>1, <4>1
      <4>3. h[n - 1] = (h[n - 2] + s) % n
        BY <4>1, <4>2
      <4> QED BY <3>2, <4>1, <4>3
    <3> QED BY <3>1, <3>2
  <2>2. g = [n \in Nat \ {0} |-> g[n]]
    OBVIOUS
  <2> HIDE DEF g
  <2> QED BY <2>1, <2>2
<1> HIDE DEF g
<1>3. f = [n \in Nat \ {0} |-> IF n = 1 THEN 0 ELSE (f[n - 1] + s) % n]
  BY <1>2, Zenon
<1>4. SurvivorBy(s) = f
  BY Zenon DEF SurvivorBy
<1> HIDE DEF f
<1>5. f[1] = 0
  BY <1>3
<1>6. \A n \in Nat \ {0} : f[n + 1] = (f[n] + s) % (n + 1)
  <2> TAKE n \in Nat \ {0}
  <2>1. n + 1 \in Nat \ {0} /\ n + 1 # 1 /\ (n + 1) - 1 = n
    OBVIOUS
  <2> QED BY <1>3, <2>1
<1>7. \A n \in Nat \ {0} : f[n] \in 0 .. n - 1
  <2> DEFINE S == {n \in Nat \ {0} : ~ (f[n] \in 0 .. n - 1)}
  <2>1. S = {}
    <3> SUFFICES ASSUME S # {} PROVE FALSE
      OBVIOUS
    <3>1. PICK n \in S : \A i \in S : n <= i
      <4>1. S \in SUBSET Nat
        OBVIOUS
      <4> HIDE DEF S
      <4> QED BY <4>1, Least
    <3>2. n # 1
      BY <1>5, <3>1
    <3>3. n - 1 \in Nat \ {0} /\ (n - 1) + 1 = n /\ ~ (n <= n - 1) /\ n \in Nat \ {0}
      BY <3>1, <3>2
    <3>4. f[n - 1] \in Nat
      BY <3>1, <3>3
    <3>5. f[n] = (f[n - 1] + s) % n
      BY <1>6, <3>3
    <3>6. (f[n - 1] + s) % n \in 0 .. n - 1
      BY <3>3, <3>4
    <3> QED BY <3>1, <3>5, <3>6
  <2> QED BY <2>1
<1> QED BY <1>4, <1>5, <1>6, <1>7

LEMMA LessByN ==
    ASSUME NEW n \in Nat \ {0}, NEW k \in Nat, k - n \in Nat
    PROVE  k % n = (k - n) % n
<1> DEFINE a == k % n
           b == (k - n) % n
           d == k \div n
           e == (k - n) \div n
<1>1. a \in 0 .. n - 1 /\ d \in Int /\ k = n * d + a
  OBVIOUS
<1>2. b \in 0 .. n - 1 /\ e \in Int /\ k - n = n * e + b
  OBVIOUS
<1> HIDE DEF a, b, d, e
<1> DEFINE f == d - e - 1
<1>3. f \in Int /\ n * f = n * d - n * e - n
  BY <1>1, <1>2
<1>4. n * f = b - a
  BY <1>1, <1>2, <1>3
<1> HIDE DEF f
<1>5. CASE f >= 1
  <2>1. n * f >= n
    BY <1>3, <1>5
  <2> QED BY <1>1, <1>2, <1>4, <2>1
<1>6. CASE f <= -1
  <2>1. n * f <= -n
    BY <1>3, <1>6
  <2> QED BY <1>1, <1>2, <1>4, <2>1
<1>7. CASE f = 0
  <2>1. b - a = 0
    BY <1>4, <1>7
  <2>2. a = b
    BY <1>1, <1>2, <2>1
  <2> QED BY <2>2 DEF a, b
<1> QED BY <1>3, <1>5, <1>6, <1>7

\* M goes round A in n steps.
Circles(M, A, n) ==
    /\ M[n] = M[0] /\ \A i, j \in 0 .. n - 1 : M[i] = M[j] => i = j
    /\ A = {M[i] : i \in 0 .. n - 1}

\* Whatever it begins with, n steps visit everybody in A once.
Rounds(M, A, n) ==
    /\ \A k \in Nat : M[k + n] = M[k] /\ M[k % n] = M[k]
    /\ \A b \in Nat : \A i, j \in b .. b + n - 1 : M[i] = M[j] => i = j
    /\ \A b \in Nat : \A a \in A : \E i \in b .. b + n - 1 : a = M[i]

LEMMA CirclesRound ==
    ASSUME NEW A, NEW j, NEW c, NEW M, CountsOn(M, A, j, c), NEW n \in Nat \ {0}, Circles(M, A, n)
    PROVE  Rounds(M, A, n)
<1>1. M \in [Nat -> A] /\ \A k \in Nat : M[k + 1] = j[M[k]]
  BY DEF CountsOn
<1>2. /\ M[n] = M[0] /\ \A x, y \in 0 .. n - 1 : M[x] = M[y] => x = y
      /\ A = {M[x] : x \in 0 .. n - 1}
  BY DEF Circles
<1>3. \A k \in Nat : M[k + n] = M[k]
  <2> DEFINE S == {k \in Nat : M[k + n] # M[k]}
  <2> SUFFICES ASSUME S # {} PROVE FALSE
    OBVIOUS
  <2>1. PICK k \in S : \A i \in S : k <= i
    <3>1. S \in SUBSET Nat
      OBVIOUS
    <3> HIDE DEF S
    <3> QED BY <3>1, Least
  <2>2. CASE k = 0
    <3>1. 0 + n = n
      OBVIOUS
    <3> QED BY <1>2, <2>1, <2>2, <3>1
  <2>3. CASE k # 0
    <3>1. k - 1 \in Nat /\ (k - 1) + 1 = k /\ ~ (k <= k - 1) /\ (k - 1) + n \in Nat /\ ((k - 1) + n) + 1 = k + n
      BY <2>1, <2>3
    <3>2. M[(k - 1) + n] = M[k - 1]
      BY <2>1, <3>1
    <3>3. M[((k - 1) + n) + 1] = j[M[(k - 1) + n]] /\ M[(k - 1) + 1] = j[M[k - 1]]
      BY <1>1, <3>1
    <3> QED BY <2>1, <3>1, <3>2, <3>3
  <2> QED BY <2>2, <2>3
<1>4. \A k \in Nat : M[k % n] = M[k]
  <2> DEFINE S == {k \in Nat : M[k % n] # M[k]}
  <2> SUFFICES ASSUME S # {} PROVE FALSE
    OBVIOUS
  <2>1. PICK k \in S : \A i \in S : k <= i
    <3>1. S \in SUBSET Nat
      OBVIOUS
    <3> HIDE DEF S
    <3> QED BY <3>1, Least
  <2>2. CASE k < n
    <3>1. k \in 0 .. n - 1
      BY <2>1, <2>2
    <3>2. k % n = k
      BY <3>1, Wraps
    <3> QED BY <2>1, <3>2
  <2>3. CASE ~ (k < n)
    <3>1. k - n \in Nat /\ (k - n) + n = k /\ ~ (k <= k - n)
      BY <2>1, <2>3
    <3>2. k % n = (k - n) % n
      BY <2>1, <3>1, LessByN
    <3>3. M[(k - n) % n] = M[k - n]
      BY <2>1, <3>1
    <3>4. M[(k - n) + n] = M[k - n]
      BY <1>3, <3>1
    <3> QED BY <2>1, <3>1, <3>2, <3>3, <3>4
  <2> QED BY <2>1, <2>2, <2>3
<1>5. ASSUME NEW b \in Nat
      PROVE  /\ \A x, y \in b .. b + n - 1 : M[x] = M[y] => x = y
             /\ \A a \in A : \E x \in b .. b + n - 1 : a = M[x]
  <2> DEFINE Window(d) == /\ \A x, y \in d .. d + n - 1 : M[x] = M[y] => x = y
                          /\ \A a \in A : \E x \in d .. d + n - 1 : a = M[x]
             S == {d \in Nat : ~Window(d)}
  <2>1. S = {}
    <3> SUFFICES ASSUME S # {} PROVE FALSE
      OBVIOUS
    <3>1. PICK d \in S : \A i \in S : d <= i
      <4>1. S \in SUBSET Nat
        OBVIOUS
      <4> HIDE DEF S
      <4> QED BY <4>1, Least
    <3>2. CASE d = 0
      <4>1. 0 + n - 1 = n - 1
        OBVIOUS
      <4>2. Window(0)
        BY <1>2, <4>1
      <4> HIDE DEF Window
      <4> QED BY <3>1, <3>2, <4>2
    <3>3. CASE d # 0
      <4> DEFINE e == d - 1
      <4>1. d \in Nat /\ e \in Nat /\ ~ (d <= e) /\ d = e + 1
        BY <3>1, <3>3
      <4>2. Window(e)
        <5> HIDE DEF Window, e
        <5> QED BY <3>1, <4>1
      <4> HIDE DEF e
      <4>3. M[e + n] = M[e] /\ e + n \in Nat
        BY <1>3, <4>1
      <4>4. \A x \in d .. d + n - 1 : x \in e .. e + n - 1 \/ x = e + n
        BY <4>1
      <4>5. \A x \in e .. e + n - 1 : x \in d .. d + n - 1 \/ x = e
        BY <4>1
      <4>6. e \in e .. e + n - 1 /\ e + n \in d .. d + n - 1 /\ e \notin d .. d + n - 1
        BY <4>1
      <4>7. \A x, y \in d .. d + n - 1 : M[x] = M[y] => x = y
        BY <4>2, <4>3, <4>4, <4>6
      <4>8. \A a \in A : \E x \in d .. d + n - 1 : a = M[x]
        BY <4>2, <4>3, <4>5, <4>6
      <4>9. Window(d)
        BY <4>7, <4>8
      <4> HIDE DEF Window
      <4> QED BY <3>1, <4>1, <4>9
    <3> QED BY <3>2, <3>3
  <2>2. Window(b)
    <3> HIDE DEF Window
    <3> QED BY <2>1
  <2> QED BY <2>2
<1> QED BY <1>3, <1>4, <1>5 DEF Rounds

\* The living stand in a ring, which counting goes round; the one whom the recurrence
\* names is the same as in the beginning.
RingInv(alive, j, c, s, dead) ==
    LET n == Cardinality(alive)
        M == MetBy(j, c)
    IN  /\ s \in Nat /\ s > 1
        /\ alive \subseteq People /\ j \in [alive -> alive] /\ c \in alive
        /\ n \in Nat \ {0} /\ Circles(M, alive, n)
        /\ dead \in Seq(People) /\ alive = People \ {dead[i] : i \in 1 .. Len(dead)}
        /\ Len(dead) = JOSE_NUM - n
        /\ M[SurvivorBy(s)[n]] = SurvivorBy(s)[JOSE_NUM] + 1

JosephusInv == cur # 0 => RingInv(DOMAIN jnext, jnext, cur, step, killed)

LEMMA MetIsBy == Met = MetBy(jnext, cur) /\ Survivor = SurvivorBy(step)
<1>1. Met = MetBy(jnext, cur)
  BY Zenon DEF Met, MetBy
<1>2. Survivor = SurvivorBy(step)
  BY Zenon DEF Survivor, SurvivorBy
<1> QED BY <1>1, <1>2

LEMMA RingIsRight ==
    ASSUME JosephusInv
    PROVE  JosephusIsRight
<1> SUFFICES ASSUME cur # 0
             PROVE  LET alive == DOMAIN jnext
                        ring  == {Met[k] : k \in 0 .. Cardinality(alive) - 1}
                    IN  /\ ring = alive
                        /\ alive = People \ {killed[i] : i \in DOMAIN killed}
                        /\ Len(killed) = JOSE_NUM - Cardinality(alive)
                        /\ Met[Survivor[Cardinality(alive)]] = Survivor[JOSE_NUM] + 1
  BY Zenon DEF JosephusIsRight
<1> DEFINE alive == DOMAIN jnext
           n == Cardinality(alive)
<1>1. /\ Circles(Met, alive, n)
      /\ killed \in Seq(People) /\ alive = People \ {killed[i] : i \in 1 .. Len(killed)}
      /\ Len(killed) = JOSE_NUM - n
      /\ Met[Survivor[n]] = Survivor[JOSE_NUM] + 1
  BY MetIsBy, Zenon DEF JosephusInv, RingInv
<1>2. alive = {Met[k] : k \in 0 .. n - 1}
  BY <1>1 DEF Circles
<1>3. DOMAIN killed = 1 .. Len(killed)
  <2>1. killed \in Seq(People)
    BY <1>1
  <2> QED BY <2>1
<1> QED BY <1>1, <1>2, <1>3, Zenon

LEMMA JosephusBegins ==
    ASSUME JoseInit, cur # 0
    PROVE  JosephusInv
<1> DEFINE N == JOSE_NUM
           M == MetBy(jnext, cur)
<1>1. /\ N \in Nat \ {0} /\ cur = 1 /\ step \in Nat /\ step > 1 /\ killed = <<>>
      /\ jnext = [who \in People |-> IF who = N THEN 1 ELSE who + 1]
      /\ People = 1 .. N
  <2>1. N \in Nat \ {0} /\ Counts \subseteq Nat \ {0, 1} /\ step \in Counts
    BY JosephusAssumption DEF JoseInit
  <2>2. step \in Nat /\ step > 1
    BY <2>1
  <2> QED BY <2>1, <2>2 DEF JoseInit, People
<1>2. DOMAIN jnext = People /\ jnext \in [People -> People] /\ cur \in People
  <2>1. \A who \in People : (IF who = N THEN 1 ELSE who + 1) \in People
    BY <1>1
  <2> QED BY <1>1, <2>1
<1>3. Cardinality(People) = N
  BY <1>1, FS_Interval
<1>4. CountsOn(M, People, jnext, cur)
  BY <1>2, MetIs
<1> HIDE DEF M
<1>5. \A k \in 0 .. N - 1 : M[k] = k + 1
  <2> DEFINE S == {k \in 0 .. N - 1 : M[k] # k + 1}
  <2> SUFFICES ASSUME S # {} PROVE FALSE
    OBVIOUS
  <2>1. PICK k \in S : \A i \in S : k <= i
    <3>1. S \in SUBSET Nat
      BY <1>1
    <3> HIDE DEF S
    <3> QED BY <3>1, Least
  <2>2. k # 0
    BY <1>1, <1>4, <2>1 DEF CountsOn
  <2>3. k \in 0 .. N - 1 /\ k - 1 \in Nat /\ k - 1 \in 0 .. N - 1 /\ (k - 1) + 1 = k /\ ~ (k <= k - 1) /\ k # N /\ k \in 1 .. N
    BY <1>1, <2>1, <2>2
  <2>4. M[k - 1] = k
    BY <2>1, <2>3
  <2>5. M[(k - 1) + 1] = jnext[M[k - 1]]
    BY <1>4, <2>3 DEF CountsOn
  <2>6. jnext[k] = k + 1
    BY <1>1, <2>3
  <2> QED BY <2>1, <2>3, <2>4, <2>5, <2>6
<1>6. M[N] = M[0]
  <2>1. N - 1 \in Nat /\ (N - 1) + 1 = N /\ N - 1 \in 0 .. N - 1 /\ N \in 1 .. N
    BY <1>1
  <2>2. M[(N - 1) + 1] = jnext[M[N - 1]] /\ M[0] = cur
    BY <1>4, <2>1 DEF CountsOn
  <2>3. M[N - 1] = N
    BY <1>5, <2>1
  <2>4. jnext[N] = 1
    BY <1>1, <2>1
  <2> QED BY <1>1, <2>1, <2>2, <2>3, <2>4
<1>7. People = {M[i] : i \in 0 .. N - 1}
  <2>1. \A who \in People : who - 1 \in 0 .. N - 1 /\ who = (who - 1) + 1
    BY <1>1
  <2>2. \A i \in 0 .. N - 1 : i + 1 \in People
    BY <1>1
  <2>3. \A who \in People : M[who - 1] = who
    BY <1>5, <2>1
  <2> QED BY <1>5, <2>1, <2>2, <2>3
<1>8. \A i, k \in 0 .. N - 1 : M[i] = M[k] => i = k
  BY <1>1, <1>5
<1>9. Circles(M, People, N)
  BY <1>6, <1>7, <1>8 DEF Circles
<1>10. M[SurvivorBy(step)[N]] = SurvivorBy(step)[N] + 1
  <2>1. SurvivorBy(step)[N] \in 0 .. N - 1
    BY <1>1, SurvivorIs
  <2> QED BY <1>5, <2>1
<1>11. killed \in Seq(People) /\ Len(killed) = N - N /\ People = People \ {killed[i] : i \in 1 .. Len(killed)}
  BY <1>1
<1>12. RingInv(People, jnext, cur, step, killed)
  BY <1>1, <1>2, <1>3, <1>9, <1>10, <1>11 DEF RingInv, M
<1> QED BY <1>2, <1>12 DEF JosephusInv

\* One is killed.
LEMMA RingKept ==
    ASSUME JosephusInv, Kill
    PROVE  JosephusInv'
<1> DEFINE alive == DOMAIN jnext
           n == Cardinality(alive)
           s == step
           M == MetBy(jnext, cur)
           node == M[s - 2]
           victim == M[s - 1]
           left == alive \ {victim}
           j == [who \in left |-> IF who = node THEN jnext[victim] ELSE jnext[who]]
           c == jnext[victim]
           N == MetBy(j, c)
           V == SurvivorBy(s)
<1>1. /\ s \in Nat /\ s > 1
      /\ alive \subseteq People /\ jnext \in [alive -> alive] /\ cur \in alive
      /\ n \in Nat \ {0} /\ Circles(M, alive, n)
      /\ killed \in Seq(People) /\ alive = People \ {killed[i] : i \in 1 .. Len(killed)}
      /\ Len(killed) = JOSE_NUM - n
      /\ M[V[n]] = V[JOSE_NUM] + 1
  BY Zenon DEF JosephusInv, RingInv, Kill
<1>2. /\ killed' = Append(killed, victim) /\ jnext' = j /\ cur' = c /\ step' = s
      /\ cur # jnext[cur]
  BY MetIsBy DEF Kill
<1>3. CountsOn(M, alive, jnext, cur)
  BY <1>1, MetIs
<1> HIDE DEF M, V
<1>4. Rounds(M, alive, n)
  BY <1>1, <1>3, CirclesRound
<1>5. M \in [Nat -> alive] /\ M[0] = cur /\ \A k \in Nat : M[k + 1] = jnext[M[k]]
  BY <1>3 DEF CountsOn
<1>6. /\ \A k \in Nat : M[k + n] = M[k] /\ M[k % n] = M[k]
      /\ \A b \in Nat : \A x, y \in b .. b + n - 1 : M[x] = M[y] => x = y
      /\ \A b \in Nat : \A a \in alive : \E x \in b .. b + n - 1 : a = M[x]
  BY <1>4 DEF Rounds
<1>7. n >= 2
  <2>1. M[0 + 1] = jnext[cur]
    BY <1>5
  <2>2. n # 1
    <3>1. M[n] = M[0]
      BY <1>1 DEF Circles
    <3> QED BY <1>2, <1>5, <2>1, <3>1
  <2> QED BY <1>1, <2>2
<1>8. /\ s - 2 \in Nat /\ s - 1 \in Nat /\ (s - 2) + 1 = s - 1 /\ (s - 1) + 1 = s
      /\ (s - 2) + n = s + (n - 2) /\ s + (n - 2) \in Nat /\ n - 2 \in Nat /\ n - 1 \in Nat \ {0}
  <2>1. n \in Nat /\ n >= 2 /\ s \in Nat /\ s > 1
    BY <1>1, <1>7
  <2> HIDE DEF n
  <2> QED BY <2>1
<1>9. node \in alive /\ victim \in alive /\ c = M[s] /\ M[s + (n - 2)] = node
  <2>1. M[(s - 1) + 1] = jnext[M[s - 1]]
    BY <1>5, <1>8
  <2>2. M[(s - 2) + n] = M[s - 2]
    BY <1>6, <1>8
  <2> QED BY <1>5, <1>8, <2>1, <2>2
<1> HIDE DEF node, victim, alive, n
<1>10. \A k \in 0 .. n - 2 : M[s + k] # victim /\ s + k \in Nat
  <2> TAKE k \in 0 .. n - 2
  <2>1. /\ s + k \in (s - 1) .. (s - 1) + n - 1 /\ s - 1 \in (s - 1) .. (s - 1) + n - 1
        /\ s + k # s - 1 /\ s + k \in Nat
    BY <1>1, <1>7
  <2> QED BY <1>6, <1>8, <2>1 DEF victim
<1>11. \A k \in 0 .. n - 3 : M[s + k] # node
  <2> TAKE k \in 0 .. n - 3
  <2>1. /\ s + k \in (s - 2) .. (s - 2) + n - 1 /\ s - 2 \in (s - 2) .. (s - 2) + n - 1
        /\ s + k # s - 2
    BY <1>1, <1>7
  <2> QED BY <1>6, <1>8, <2>1 DEF node
<1>12. \A a \in left : \E k \in 0 .. n - 2 : a = M[s + k]
  <2> TAKE a \in left
  <2>1. PICK x \in (s - 1) .. (s - 1) + n - 1 : a = M[x]
    BY <1>6, <1>8
  <2>2. x # s - 1
    BY <2>1 DEF victim
  <2>3. x - s \in 0 .. n - 2 /\ s + (x - s) = x
    BY <1>1, <1>7, <2>1, <2>2
  <2> QED BY <2>1, <2>3
<1>13. \A k \in 0 .. n - 2 : M[s + k] \in left
  BY <1>5, <1>10
<1>14. node \in left /\ c \in left
  <2>1. n - 2 \in 0 .. n - 2 /\ 0 \in 0 .. n - 2 /\ s + 0 = s
    BY <1>1, <1>7
  <2>2. M[s + (n - 2)] \in left /\ M[s + 0] \in left
    BY <1>13, <2>1
  <2> QED BY <1>9, <2>1, <2>2
<1>15. \A k \in 0 .. n - 3 : j[M[s + k]] = M[s + (k + 1)] /\ k + 1 \in 0 .. n - 2
  <2> TAKE k \in 0 .. n - 3
  <2>1. k \in 0 .. n - 2 /\ k + 1 \in 0 .. n - 2 /\ (s + k) + 1 = s + (k + 1) /\ s + k \in Nat
    BY <1>1, <1>7
  <2>2. M[s + k] \in left /\ M[s + k] # node
    BY <1>11, <1>13, <2>1
  <2>3. j[M[s + k]] = jnext[M[s + k]]
    BY <2>2
  <2>4. M[(s + k) + 1] = jnext[M[s + k]]
    BY <1>5, <2>1
  <2> QED BY <2>1, <2>3, <2>4
<1>16. j[node] = c /\ DOMAIN j = left
  BY <1>14
<1>17. j \in [left -> left]
  <2>1. \A a \in left : j[a] \in left
    <3> TAKE a \in left
    <3>1. CASE a = node
      BY <1>14, <1>16, <3>1
    <3>2. CASE a # node
      <4>1. PICK k \in 0 .. n - 2 : a = M[s + k]
        BY <1>12
      <4>2. k # n - 2
        BY <1>9, <3>2, <4>1
      <4>3. k \in 0 .. n - 3
        BY <1>1, <4>1, <4>2
      <4>4. j[M[s + k]] = M[s + (k + 1)] /\ k + 1 \in 0 .. n - 2
        BY <1>15, <4>3
      <4> HIDE DEF j, left
      <4> QED BY <1>13, <4>1, <4>4
    <3> QED BY <3>1, <3>2
  <2>2. j = [a \in left |-> j[a]]
    OBVIOUS
  <2> HIDE DEF j
  <2> QED BY <2>1, <2>2
<1> HIDE DEF j, c
<1>18. CountsOn(N, left, j, c)
  BY <1>14, <1>17, MetIs
<1> HIDE DEF N
<1>19. N \in [Nat -> left] /\ N[0] = c /\ \A k \in Nat : N[k + 1] = j[N[k]]
  BY <1>18 DEF CountsOn
<1>20. \A k \in 0 .. n - 2 : N[k] = M[s + k]
  <2> DEFINE S == {k \in 0 .. n - 2 : N[k] # M[s + k]}
  <2> SUFFICES ASSUME S # {} PROVE FALSE
    OBVIOUS
  <2>1. PICK k \in S : \A i \in S : k <= i
    <3>1. S \in SUBSET Nat
      BY <1>8
    <3> HIDE DEF S
    <3> QED BY <3>1, Least
  <2>2. CASE k = 0
    <3>1. s + 0 = s
      BY <1>1
    <3> QED BY <1>9, <1>19, <2>1, <2>2, <3>1
  <2>3. CASE k # 0
    <3>1. k - 1 \in 0 .. n - 3 /\ k - 1 \in 0 .. n - 2 /\ (k - 1) + 1 = k /\ ~ (k <= k - 1) /\ k - 1 \in Nat
      BY <1>1, <2>1, <2>3
    <3>2. N[k - 1] = M[s + (k - 1)]
      BY <2>1, <3>1
    <3>3. N[(k - 1) + 1] = j[N[k - 1]]
      BY <1>19, <3>1
    <3>4. j[M[s + (k - 1)]] = M[s + ((k - 1) + 1)]
      BY <1>15, <3>1
    <3> QED BY <2>1, <3>1, <3>2, <3>3, <3>4
  <2> QED BY <2>2, <2>3
<1>21. Circles(N, left, n - 1)
  <2>1. N[n - 1] = N[0]
    <3>1. n - 2 \in 0 .. n - 2 /\ (n - 2) + 1 = n - 1
      BY <1>1, <1>8
    <3>2. N[(n - 2) + 1] = j[N[n - 2]]
      BY <1>8, <1>19
    <3>3. N[n - 2] = node
      BY <1>9, <1>20, <3>1
    <3> QED BY <1>16, <1>19, <3>1, <3>2, <3>3
  <2>2. (n - 1) - 1 = n - 2
    BY <1>1
  <2>3. \A x, y \in 0 .. n - 2 : N[x] = N[y] => x = y
    <3> TAKE x, y \in 0 .. n - 2
    <3>1. /\ s + x \in s .. s + n - 1 /\ s + y \in s .. s + n - 1
          /\ (s + x = s + y => x = y)
      BY <1>1, <1>7
    <3>2. M[s + x] = M[s + y] => s + x = s + y
      BY <1>1, <1>6, <3>1
    <3>3. N[x] = M[s + x] /\ N[y] = M[s + y]
      BY <1>20
    <3> QED BY <3>1, <3>2, <3>3
  <2>4. left = {N[x] : x \in 0 .. n - 2}
    <3> HIDE DEF left
    <3>1. \A a \in left : \E x \in 0 .. n - 2 : a = N[x]
      BY <1>12, <1>20
    <3>2. \A x \in 0 .. n - 2 : N[x] \in left
      BY <1>13, <1>20
    <3> QED BY <3>1, <3>2
  <2> QED BY <2>1, <2>2, <2>3, <2>4 DEF Circles
<1>22. Cardinality(left) = n - 1
  <2>1. IsFiniteSet(People)
    <3>1. JOSE_NUM \in Int
      BY JosephusAssumption
    <3> QED BY <3>1, FS_Interval DEF People
  <2>2. IsFiniteSet(alive)
    BY <1>1, <2>1, FS_Subset
  <2> QED BY <1>9, <2>2, FS_RemoveElement DEF n
<1>23. N[V[n - 1]] = V[JOSE_NUM] + 1
  <2> DEFINE v == V[n - 1]
  <2>1. v \in 0 .. n - 2 /\ V[n] = (v + s) % n
    <3>1. V[n - 1] \in 0 .. (n - 1) - 1 /\ V[(n - 1) + 1] = (V[n - 1] + s) % ((n - 1) + 1)
      BY <1>1, <1>8, SurvivorIs DEF V
    <3>2. (n - 1) + 1 = n /\ (n - 1) - 1 = n - 2
      BY <1>1
    <3> QED BY <3>1, <3>2
  <2> HIDE DEF v
  <2>2. N[v] = M[s + v]
    BY <1>20, <2>1
  <2>3. v + s \in Nat /\ v + s = s + v
    BY <1>1, <2>1
  <2>4. M[(v + s) % n] = M[v + s]
    BY <1>6, <2>3
  <2> QED BY <1>1, <2>1, <2>2, <2>3, <2>4 DEF v
<1>24. /\ killed' \in Seq(People) /\ Len(killed') = JOSE_NUM - (n - 1)
       /\ left = People \ {killed'[i] : i \in 1 .. Len(killed')}
  <2> DEFINE l == Len(killed)
             k2 == Append(killed, victim)
  <2>0. victim \in People /\ l \in Nat
    BY <1>1, <1>9
  <2>1. /\ k2 \in Seq(People) /\ Len(k2) = l + 1 /\ k2[l + 1] = victim
        /\ \A i \in 1 .. l : k2[i] = killed[i]
    BY <1>1, <2>0
  <2> HIDE DEF k2
  <2>2. \A i \in 1 .. l + 1 : i = l + 1 \/ i \in 1 .. l
    BY <2>0
  <2>3. l + 1 \in 1 .. l + 1 /\ \A i \in 1 .. l : i \in 1 .. l + 1
    BY <2>0
  <2>4. alive = People \ {killed[i] : i \in 1 .. l}
    BY <1>1
  <2>5. {k2[i] : i \in 1 .. l + 1} = {killed[i] : i \in 1 .. l} \cup {victim}
    <3> HIDE DEF l
    <3> QED BY <2>1, <2>2, <2>3
  <2>6. left = People \ {k2[i] : i \in 1 .. l + 1}
    BY <2>4, <2>5
  <2>7. l + 1 = JOSE_NUM - (n - 1)
    BY <1>1, <2>0, JosephusAssumption
  <2> QED BY <1>2, <2>1, <2>6, <2>7 DEF k2
<1>25. left \subseteq People
  BY <1>1
<1>26. RingInv(left, j, c, s, killed')
  BY <1>1, <1>8, <1>14, <1>17, <1>21, <1>22, <1>23, <1>24, <1>25 DEF RingInv, N, V
<1>27. DOMAIN jnext' = left /\ jnext' = j /\ cur' = c /\ step' = s
  BY <1>2, <1>16
<1> QED BY <1>26, <1>27, SMTT(60) DEF JosephusInv

\* For any number of people and any count from two on: the ring stays one ring of the
\* living, and its survivor is the one of the textbook's recurrence (jose.c).
THEOREM JosephusRight == SpecStructures => []JosephusIsRight
<1>1. InitStructures => JosephusInv
  <2> SUFFICES ASSUME InitStructures PROVE JosephusInv
    OBVIOUS
  <2>1. CASE program = "josephus"
    <3>1. JoseInit
      BY <2>1 DEF InitStructures, Begins
    <3>2. cur # 0 => JosephusInv
      BY <3>1, JosephusBegins
    <3> QED BY <3>2 DEF JosephusInv
  <2>2. CASE program # "josephus"
    BY <2>2 DEF InitStructures, Begins, JosephusInv
  <2> QED BY <2>1, <2>2
<1>2. JosephusInv /\ [NextStructures]_structureVars => JosephusInv'
  <2> SUFFICES ASSUME JosephusInv, [NextStructures]_structureVars PROVE JosephusInv'
    OBVIOUS
  <2>1. CASE OnRing(Kill)
    BY <2>1, RingKept DEF OnRing
  <2>2. CASE UNCHANGED joseVars
    BY <2>2 DEF joseVars, JosephusInv
  <2>3. CASE OnArray(ArrayPrograms, ArrayNext) \/ OnChain({"nohead"}, NoHeadNext)
             \/ OnChain({"head"}, HeadNext) \/ OnChain(Rings, LlistNext)
             \/ OnClock(Turn) \/ OnPoly(PolyNext)
             \/ OnTree(TreeNext) \/ OnTrie(TrieNext) \/ OnFile(SaveNext) \/ UNCHANGED structureVars
    BY <2>2, <2>3 DEF OnArray, OnChain, OnClock, OnPoly, OnTree, OnTrie, OnFile, structureVars
  <2> QED BY <2>1, <2>3 DEF NextStructures
<1>3. JosephusInv => JosephusIsRight
  BY RingIsRight
<1> QED BY <1>1, <1>2, <1>3, PTL DEF SpecStructures

-----------------------------------------------------------------------------
(* The sum of two polynomials *)

PolyNodes    == Node(1) \cup Node(2)
Distinct(ns) == \A x, y \in ns : exp(x) = exp(y) => x = y

\* The one behind d in the list of ns by rising exponents.
Following(ns, d) == Lowest(IF d = HeadTerm THEN ns ELSE {x \in ns : exp(x) > exp(d)})

\* What is left of a polynomial from n on.
Onward(i, n) == IF n = NoTerm THEN {} ELSE {x \in Node(i) : exp(x) >= exp(n)}

SumAt(e) == Given(1, e) + Given(2, e)

\* last is the last of the list of D, whose links are right but for its own.
Ordered(D, last_, links) ==
    /\ Distinct(D)
    /\ IF D = {} THEN last_ = HeadTerm ELSE last_ \in D /\ \A d \in D : exp(d) <= exp(last_)
    /\ \A d \in D \cup {HeadTerm} : d # last_ => links[d] = Following(D, d)

\* The nodes that are not left are settled, cf being the coefficients: those of D
\* hold the sums.
Settled(Left, D, cf) ==
    /\ Left \subseteq PolyNodes /\ D \subseteq PolyNodes \ Left
    /\ \A x \in PolyNodes \ Left, y \in Left : exp(x) < exp(y)
    /\ \A x \in Left : cf[x] = terms[x[1]][exp(x)]
    /\ \A x \in D : cf[x] = SumAt(exp(x)) /\ SumAt(exp(x)) # 0
    /\ \A x \in PolyNodes \ Left : SumAt(exp(x)) # 0 => \E d \in D : exp(d) = exp(x)

LinksOf(A, links) == \A x \in A : links[x] = Following(A, x)

PolyTypeOK ==
    /\ terms \in Terms \X Terms
    /\ coef \in [PolyNodes -> Int]
    /\ xnext \in [PolyNodes \cup {HeadTerm} -> PolyNodes \cup {NoTerm}]
    /\ p \in Node(1) \cup {NoTerm} /\ q \in Node(2) \cup {NoTerm}

Merging(D) ==
    /\ Settled(Onward(1, p) \cup Onward(2, q), D, coef)
    /\ p = Lowest(Onward(1, p)) /\ LinksOf(Onward(1, p), xnext)
    /\ q = Lowest(Onward(2, q)) /\ LinksOf(Onward(2, q), xnext)
    /\ r # NoTerm /\ Ordered(D, r, xnext)

\* The links lead through the nodes of D, by rising exponents, and these hold the sums.
IsSum(D, links) ==
    /\ D \in SUBSET PolyNodes /\ Distinct(D)
    /\ \A x \in D \cup {HeadTerm} : links[x] = Following(D, x)
    /\ \A x \in D : coef[x] = SumAt(exp(x)) /\ SumAt(exp(x)) # 0
    /\ \A x \in PolyNodes : SumAt(exp(x)) # 0 => \E d \in D : exp(d) = exp(x)

Merged(D) == IsSum(D, xnext) /\ ~Both /\ r = NoTerm

PolyInv == PolyTypeOK /\ \E D \in SUBSET PolyNodes : Merging(D) \/ Merged(D)

\* What a node is.
LEMMA NodesAre ==
    ASSUME PolyTypeOK
    PROVE  /\ \A i \in {1, 2} : \A n \in Node(i) : /\ n[1] = i /\ n = <<i, exp(n)>> /\ exp(n) \in Nat
                                                  /\ exp(n) \in Exponents /\ exp(n) \in DOMAIN terms[i]
                                                  /\ n # HeadTerm /\ n # NoTerm
                                                  /\ terms[i][exp(n)] \in Int \ {0}
           /\ \A i \in {1, 2} : \A e \in DOMAIN terms[i] : <<i, e>> \in Node(i) /\ exp(<<i, e>>) = e
           /\ \A i \in {1, 2} : Distinct(Node(i))
           /\ HeadTerm # NoTerm /\ HeadTerm \notin PolyNodes /\ NoTerm \notin PolyNodes
           /\ exp(NoTerm) = -1 /\ Node(1) \subseteq PolyNodes /\ Node(2) \subseteq PolyNodes
<1>1. ASSUME NEW i \in {1, 2}
      PROVE  terms[i] \in [DOMAIN terms[i] -> Coefficients] /\ DOMAIN terms[i] \subseteq Exponents
  <2>1. terms[i] \in Terms
    BY DEF PolyTypeOK
  <2>2. PICK E \in SUBSET Exponents : terms[i] \in [E -> Coefficients]
    BY <2>1 DEF Terms
  <2> QED BY <2>2
<1>2. ASSUME NEW i \in {1, 2}, NEW n \in Node(i)
      PROVE  /\ n[1] = i /\ n = <<i, exp(n)>> /\ exp(n) \in Nat
             /\ exp(n) \in Exponents /\ exp(n) \in DOMAIN terms[i]
             /\ n # HeadTerm /\ n # NoTerm
             /\ terms[i][exp(n)] \in Int \ {0}
  <2>1. PICK e \in DOMAIN terms[i] : n = <<i, e>>
    BY DEF Node
  <2>2. n[1] = i /\ exp(n) = e
    BY <2>1 DEF exp
  <2>3. e \in Exponents /\ terms[i][e] \in Coefficients
    BY <1>1, <2>1
  <2>4. e \in Nat /\ terms[i][e] \in Int \ {0}
    BY <2>3, PolyAssumption
  <2>5. n # HeadTerm /\ n # NoTerm
    BY <2>1 DEF HeadTerm, NoTerm
  <2> QED BY <2>1, <2>2, <2>3, <2>4, <2>5
<1>3. \A i \in {1, 2} : \A e \in DOMAIN terms[i] : <<i, e>> \in Node(i) /\ exp(<<i, e>>) = e
  BY DEF Node, exp
<1>4. \A i \in {1, 2} : Distinct(Node(i))
  <2> SUFFICES ASSUME NEW i \in {1, 2}, NEW x \in Node(i), NEW y \in Node(i), exp(x) = exp(y)
               PROVE  x = y
    BY DEF Distinct
  <2>1. x = <<i, exp(x)>> /\ y = <<i, exp(y)>>
    BY <1>2
  <2> QED BY <2>1
<1>5. HeadTerm # NoTerm /\ exp(NoTerm) = -1
  BY DEF HeadTerm, NoTerm, exp
<1>6. HeadTerm \notin PolyNodes /\ NoTerm \notin PolyNodes
  BY <1>2 DEF PolyNodes
<1> QED BY <1>2, <1>3, <1>4, <1>5, <1>6 DEF PolyNodes

\* The least of a set of nodes.
LEMMA LowestIs ==
    ASSUME NEW ns, \A n \in ns : exp(n) \in Nat
    PROVE  /\ ns = {} => Lowest(ns) = NoTerm
           /\ ns # {} => Lowest(ns) \in ns /\ \A x \in ns : exp(Lowest(ns)) <= exp(x)
<1>1. ns = {} => Lowest(ns) = NoTerm
  BY DEF Lowest
<1>2. ASSUME ns # {} PROVE Lowest(ns) \in ns /\ \A x \in ns : exp(Lowest(ns)) <= exp(x)
  <2> DEFINE S == {exp(n) : n \in ns}
  <2>1. S \in SUBSET Nat /\ S # {}
    BY <1>2
  <2>2. PICK m \in S : \A k \in S : m <= k
    <3> HIDE DEF S
    <3> QED BY <2>1, Least
  <2>3. \E n \in ns : \A x \in ns : exp(n) <= exp(x)
    <3>1. PICK n \in ns : m = exp(n)
      BY <2>2
    <3>2. \A x \in ns : exp(x) \in S
      OBVIOUS
    <3> HIDE DEF S
    <3> QED BY <2>2, <3>1, <3>2
  <2>4. Lowest(ns) = CHOOSE n \in ns : \A x \in ns : exp(n) <= exp(x)
    BY <1>2 DEF Lowest
  <2> QED BY <2>3, <2>4, Zenon
<1> QED BY <1>1, <1>2

\* There is one least node where exponents differ.
LEMMA LowestOf ==
    ASSUME NEW ns, \A n \in ns : exp(n) \in Nat, Distinct(ns),
           NEW n \in ns, \A x \in ns : exp(n) <= exp(x)
    PROVE  Lowest(ns) = n
<1>1. Lowest(ns) \in ns /\ exp(Lowest(ns)) <= exp(n)
  BY LowestIs
<1>2. exp(n) <= exp(Lowest(ns)) /\ exp(n) \in Nat /\ exp(Lowest(ns)) \in Nat
  BY <1>1
<1>3. exp(n) = exp(Lowest(ns))
  BY <1>1, <1>2
<1> QED BY <1>1, <1>3 DEF Distinct

\* A polynomial without its first node, which is what p = p->next makes of it.
LEMMA RestIs ==
    ASSUME PolyTypeOK, NEW i \in {1, 2}, NEW n \in Node(i), NEW m, m = Following(Onward(i, n), n)
    PROVE  /\ m \in Node(i) \cup {NoTerm} /\ n \in Onward(i, n) /\ \A x \in Onward(i, n) : exp(n) <= exp(x)
           /\ Onward(i, m) = Onward(i, n) \ {n} /\ m = Lowest(Onward(i, m))
           /\ \A x \in Onward(i, m) : exp(n) < exp(x) /\ Following(Onward(i, m), x) = Following(Onward(i, n), x)
<1> DEFINE A == Onward(i, n)
           C == {x \in A : exp(x) > exp(n)}
<1>1. /\ \A x \in Node(i) : exp(x) \in Nat /\ x # HeadTerm /\ x # NoTerm
      /\ Distinct(Node(i))
  BY NodesAre
<1>2. A = {x \in Node(i) : exp(x) >= exp(n)}
  BY <1>1 DEF Onward
<1> HIDE DEF A
<1>3. n \in A /\ A \subseteq Node(i) /\ \A x \in A : exp(n) <= exp(x) /\ exp(x) \in Nat
  BY <1>1, <1>2
<1>4. m = Lowest(C)
  BY <1>1 DEF Following, A
<1>5. C = A \ {n} /\ Distinct(C) /\ C \subseteq Node(i) /\ \A x \in C : exp(x) \in Nat
  <2>1. \A x \in A : x # n => exp(x) > exp(n)
    BY <1>1, <1>3 DEF Distinct
  <2> QED BY <1>1, <1>3, <2>1 DEF Distinct
<1> HIDE DEF C
<1>6. Onward(i, m) = C
  <2>1. CASE C = {}
    BY <1>4, <1>5, <2>1, LowestIs DEF Onward
  <2>2. CASE C # {}
    <3>1. m \in C /\ \A x \in C : exp(m) <= exp(x)
      BY <1>4, <1>5, <2>2, LowestIs
    <3>2. m # NoTerm /\ Onward(i, m) = {x \in Node(i) : exp(x) >= exp(m)}
      BY <1>1, <1>5, <3>1 DEF Onward
    <3>3. exp(m) > exp(n) /\ exp(m) \in Nat /\ exp(n) \in Nat
      BY <1>3, <1>5, <3>1 DEF C
    <3>4. \A x \in Node(i) : exp(x) >= exp(m) => x \in C
      BY <1>1, <1>2, <3>3 DEF C
    <3> QED BY <1>5, <3>1, <3>2, <3>4
  <2> QED BY <2>1, <2>2
<1>7. m \in Node(i) \cup {NoTerm}
  BY <1>4, <1>5, LowestIs
<1>8. \A x \in C : exp(n) < exp(x) /\ Following(C, x) = Following(A, x)
  <2> TAKE x \in C
  <2>1. exp(x) > exp(n) /\ x # HeadTerm /\ exp(x) \in Nat /\ exp(n) \in Nat
    BY <1>1, <1>3, <1>5 DEF C
  <2>2. {y \in C : exp(y) > exp(x)} = {y \in A : exp(y) > exp(x)}
    BY <1>3, <1>5, <2>1
  <2> QED BY <2>1, <2>2 DEF Following
<1> QED BY <1>3, <1>4, <1>5, <1>6, <1>7, <1>8 DEF A

\* Nodes behind all of C do not change which is the lowest.
LEMMA LowestOfBoth ==
    ASSUME NEW C, NEW X, C # {}, Distinct(C \cup X), \A x \in C \cup X : exp(x) \in Nat,
           \A x \in C, y \in X : exp(x) < exp(y)
    PROVE  Lowest(C \cup X) = Lowest(C)
<1> DEFINE l == Lowest(C)
<1>1. l \in C /\ \A x \in C : exp(l) <= exp(x)
  BY LowestIs
<1> HIDE DEF l
<1>2. l \in C \cup X /\ \A x \in C \cup X : exp(l) <= exp(x)
  BY <1>1
<1> QED BY <1>2, LowestOf DEF l

\* A node behind all of D becomes the last of the list.
LEMMA TakeOrders ==
    ASSUME NEW D, \A d \in D : exp(d) \in Nat, HeadTerm \notin D, NEW last_, NEW links,
           Ordered(D, last_, links), last_ \in DOMAIN links, D \cup {HeadTerm} \subseteq DOMAIN links,
           NEW n, exp(n) \in Nat, n # HeadTerm, \A d \in D : exp(d) < exp(n)
    PROVE  Ordered(D \cup {n}, n, [links EXCEPT ![last_] = n])
<1> DEFINE E == D \cup {n}
           to == [links EXCEPT ![last_] = n]
<1>1. /\ Distinct(D)
      /\ IF D = {} THEN last_ = HeadTerm ELSE last_ \in D /\ \A d \in D : exp(d) <= exp(last_)
      /\ \A d \in D \cup {HeadTerm} : d # last_ => links[d] = Following(D, d)
  BY DEF Ordered
<1>2. Distinct(E) /\ \A x \in E : exp(x) \in Nat
  BY <1>1 DEF Distinct
<1>3. n \in E /\ \A d \in E : exp(d) <= exp(n)
  OBVIOUS
<1>4. to[last_] = n /\ \A d \in D \cup {HeadTerm} : d # last_ => to[d] = links[d]
  OBVIOUS
<1> HIDE DEF to
<1>5. ASSUME NEW d \in E \cup {HeadTerm}, d # n PROVE to[d] = Following(E, d)
  <2>1. CASE d = last_
    <3>1. CASE D = {}
      <4>1. d = HeadTerm /\ E = {n}
        BY <1>1, <2>1, <3>1
      <4>2. Lowest(E) = n
        BY <1>2, <1>3, <4>1, LowestOf
      <4> QED BY <1>4, <2>1, <4>1, <4>2 DEF Following
    <3>2. CASE D # {}
      <4> DEFINE C == {x \in E : exp(x) > exp(d)}
      <4>1. d \in D /\ d # HeadTerm /\ \A x \in D : exp(x) <= exp(d)
        BY <1>1, <2>1, <3>2
      <4>2. C = {n}
        BY <4>1
      <4>3. Lowest(C) = n
        <5> HIDE DEF C
        <5>1. Distinct(C) /\ n \in C /\ \A x \in C : exp(x) \in Nat /\ exp(n) <= exp(x)
          BY <4>2 DEF Distinct
        <5> QED BY <5>1, LowestOf
      <4> QED BY <1>4, <2>1, <4>1, <4>3 DEF Following
    <3> QED BY <3>1, <3>2
  <2>2. CASE d # last_
    <3>1. d \in D \cup {HeadTerm} /\ to[d] = Following(D, d) /\ D # {}
      BY <1>1, <1>4, <1>5, <2>2
    <3>2. CASE d = HeadTerm
      <4>1. Lowest(E) = Lowest(D)
        BY <1>2, <3>1, LowestOfBoth
      <4> QED BY <3>1, <3>2, <4>1 DEF Following
    <3>3. CASE d # HeadTerm
      <4> DEFINE C == {x \in D : exp(x) > exp(d)}
      <4>1. d \in D /\ last_ \in D /\ exp(d) <= exp(last_)
        BY <1>1, <3>1, <3>3
      <4>2. last_ \in C
        BY <1>1, <2>2, <4>1 DEF Distinct
      <4>3. {x \in E : exp(x) > exp(d)} = C \cup {n}
        BY <4>1
      <4>4. /\ Distinct(C \cup {n})
            /\ \A x \in C \cup {n} : exp(x) \in Nat
            /\ \A x \in C, y \in {n} : exp(x) < exp(y)
        BY <1>2 DEF Distinct
      <4>5. Lowest(C \cup {n}) = Lowest(C)
        <5> HIDE DEF C
        <5> QED BY <4>2, <4>4, LowestOfBoth
      <4> QED BY <3>1, <3>3, <4>3, <4>5 DEF Following
    <3> QED BY <3>2, <3>3
  <2> QED BY <2>1, <2>2
<1> HIDE DEF E
<1>6. IF E = {} THEN n = HeadTerm ELSE n \in E /\ \A d \in E : exp(d) <= exp(n)
  BY <1>3
<1>7. Ordered(E, n, to)
  BY <1>2, <1>5, <1>6 DEF Ordered
<1> QED BY <1>7 DEF E, to

\* What is given at the exponent of a node.
LEMMA GivenAre ==
    ASSUME PolyTypeOK, NEW x \in PolyNodes
    PROVE  /\ x[1] \in {1, 2} /\ x \in Node(x[1]) /\ terms[x[1]][exp(x)] \in Int \ {0}
           /\ Given(x[1], exp(x)) = terms[x[1]][exp(x)]
           /\ \A i \in {1, 2} : Given(i, exp(x)) # 0 => <<i, exp(x)>> \in Node(i)
           /\ \A i \in {1, 2} : <<i, exp(x)>> \notin Node(i) => Given(i, exp(x)) = 0
<1>1. PICK i \in {1, 2} : x \in Node(i)
  BY DEF PolyNodes
<1>2. x[1] = i /\ exp(x) \in DOMAIN terms[i] /\ terms[i][exp(x)] \in Int \ {0}
  BY <1>1, NodesAre
<1>3. Given(i, exp(x)) = terms[i][exp(x)]
  BY <1>2 DEF Given
<1>4. \A k \in {1, 2} : <<k, exp(x)>> \notin Node(k) => Given(k, exp(x)) = 0
  <2> TAKE k \in {1, 2}
  <2>1. exp(x) \in DOMAIN terms[k] => <<k, exp(x)>> \in Node(k)
    BY NodesAre
  <2> QED BY <2>1 DEF Given
<1> QED BY <1>1, <1>2, <1>3, <1>4

\* The lowest node left, alone with its exponent, is settled with its own coefficient.
LEMMA SettleOne ==
    ASSUME PolyTypeOK, NEW Left, NEW D, Settled(Left, D, coef),
           NEW n \in Left, \A x \in Left : x # n => exp(n) < exp(x)
    PROVE  Settled(Left \ {n}, D \cup {n}, coef) /\ \A d \in D : exp(d) < exp(n)
<1>1. /\ Left \subseteq PolyNodes /\ D \subseteq PolyNodes \ Left
      /\ \A x \in PolyNodes \ Left, y \in Left : exp(x) < exp(y)
      /\ \A x \in Left : coef[x] = terms[x[1]][exp(x)]
      /\ \A x \in D : coef[x] = SumAt(exp(x)) /\ SumAt(exp(x)) # 0
      /\ \A x \in PolyNodes \ Left : SumAt(exp(x)) # 0 => \E d \in D : exp(d) = exp(x)
  BY DEF Settled
<1>2. \A x \in PolyNodes : exp(x) \in Nat
  BY NodesAre DEF PolyNodes
<1>3. /\ n[1] \in {1, 2} /\ n \in Node(n[1]) /\ terms[n[1]][exp(n)] \in Int \ {0}
      /\ Given(n[1], exp(n)) = terms[n[1]][exp(n)]
  BY <1>1, GivenAre
<1>4. ASSUME NEW i \in {1, 2}, i # n[1] PROVE Given(i, exp(n)) = 0
  <2> DEFINE x == <<i, exp(n)>>
  <2>1. x \notin Node(i)
    <3> SUFFICES ASSUME x \in Node(i) PROVE FALSE
      OBVIOUS
    <3>1. x \in PolyNodes /\ exp(x) = exp(n) /\ x # n /\ exp(n) \in Nat
      <4>1. x[1] = i /\ x[2] = exp(n)
        OBVIOUS
      <4> QED BY <1>1, <1>2, <1>4, <4>1 DEF PolyNodes, exp
    <3> HIDE DEF x
    <3>2. CASE x \in Left
      BY <3>1, <3>2
    <3>3. CASE x \notin Left
      BY <1>1, <3>1, <3>3
    <3> QED BY <3>2, <3>3
  <2> QED BY <1>1, <2>1, GivenAre
<1>5. SumAt(exp(n)) = terms[n[1]][exp(n)]
  <2>1. CASE n[1] = 1
    BY <1>3, <1>4, <2>1 DEF SumAt
  <2>2. CASE n[1] = 2
    BY <1>3, <1>4, <2>2 DEF SumAt
  <2> QED BY <1>3, <2>1, <2>2
<1>6. coef[n] = SumAt(exp(n)) /\ SumAt(exp(n)) # 0
  BY <1>1, <1>3, <1>5
<1>7. PolyNodes \ (Left \ {n}) = (PolyNodes \ Left) \cup {n}
  BY <1>1
<1>8. \A x \in PolyNodes \ (Left \ {n}), y \in Left \ {n} : exp(x) < exp(y)
  BY <1>1, <1>7
<1>9. \A x \in PolyNodes \ (Left \ {n}) : SumAt(exp(x)) # 0 => \E d \in D \cup {n} : exp(d) = exp(x)
  BY <1>1, <1>7
<1>10. D \cup {n} \subseteq PolyNodes \ (Left \ {n}) /\ Left \ {n} \subseteq PolyNodes
  BY <1>1
<1>11. \A x \in D \cup {n} : coef[x] = SumAt(exp(x)) /\ SumAt(exp(x)) # 0
  BY <1>1, <1>6
<1>12. Settled(Left \ {n}, D \cup {n}, coef)
  BY <1>1, <1>8, <1>9, <1>10, <1>11 DEF Settled
<1> QED BY <1>1, <1>12

\* n and m are the lowest nodes left, and have one exponent.
LowestTwo(Left, D, n, m) ==
    /\ Settled(Left, D, coef) /\ n \in Left /\ m \in Left /\ n \in Node(1) /\ m \in Node(2)
    /\ exp(n) = exp(m)
    /\ \A x \in Left : x # n /\ x # m => exp(n) < exp(x)

\* Two nodes with one exponent are settled with the sum, in the first of them, or not
\* at all.
LEMMA SettleTwo ==
    ASSUME PolyTypeOK, NEW Left, NEW D, NEW n, NEW m, LowestTwo(Left, D, n, m),
           NEW cf, cf = [coef EXCEPT ![n] = @ + coef[m]]
    PROVE  /\ IF cf[n] # 0 THEN Settled(Left \ {n, m}, D \cup {n}, cf) ELSE Settled(Left \ {n, m}, D, cf)
           /\ \A d \in D : exp(d) < exp(n)
           /\ cf \in [PolyNodes -> Int]
<1>0. /\ Settled(Left, D, coef) /\ n \in Left /\ m \in Left /\ n \in Node(1) /\ m \in Node(2)
      /\ exp(n) = exp(m)
      /\ \A x \in Left : x # n /\ x # m => exp(n) < exp(x)
  BY DEF LowestTwo
<1>1. /\ Left \subseteq PolyNodes /\ D \subseteq PolyNodes \ Left
      /\ \A x \in PolyNodes \ Left, y \in Left : exp(x) < exp(y)
      /\ \A x \in Left : coef[x] = terms[x[1]][exp(x)]
      /\ \A x \in D : coef[x] = SumAt(exp(x)) /\ SumAt(exp(x)) # 0
      /\ \A x \in PolyNodes \ Left : SumAt(exp(x)) # 0 => \E d \in D : exp(d) = exp(x)
  BY <1>0 DEF Settled
<1>2. n[1] = 1 /\ m[1] = 2 /\ n \in PolyNodes /\ m \in PolyNodes
  BY <1>0, NodesAre
<1>3. Given(1, exp(n)) = terms[1][exp(n)] /\ Given(2, exp(m)) = terms[2][exp(m)]
  BY <1>0, <1>2, GivenAre
<1>4. coef \in [PolyNodes -> Int]
  BY DEF PolyTypeOK
<1>5. cf[n] = coef[n] + coef[m] /\ \A x \in PolyNodes : x # n => cf[x] = coef[x]
  BY <1>0, <1>2, <1>4
<1>6. cf \in [PolyNodes -> Int]
  BY <1>0, <1>2, <1>4
<1>7. cf[n] = SumAt(exp(n))
  BY <1>0, <1>1, <1>2, <1>3, <1>5 DEF SumAt
<1>8. PolyNodes \ (Left \ {n, m}) = (PolyNodes \ Left) \cup {n, m}
  BY <1>0, <1>1
<1>9. \A x \in PolyNodes \ (Left \ {n, m}), y \in Left \ {n, m} : exp(x) < exp(y)
  BY <1>0, <1>1, <1>8
<1>10. \A x \in Left \ {n, m} : cf[x] = terms[x[1]][exp(x)]
  BY <1>0, <1>1, <1>5
<1>11. \A x \in D : cf[x] = SumAt(exp(x)) /\ SumAt(exp(x)) # 0
  BY <1>0, <1>1, <1>5
<1>12. CASE cf[n] # 0
  <2>1. \A x \in D \cup {n} : cf[x] = SumAt(exp(x)) /\ SumAt(exp(x)) # 0
    BY <1>7, <1>11, <1>12
  <2>2. \A x \in PolyNodes \ (Left \ {n, m}) : SumAt(exp(x)) # 0 => \E d \in D \cup {n} : exp(d) = exp(x)
    BY <1>0, <1>1, <1>8
  <2>3. D \cup {n} \subseteq PolyNodes \ (Left \ {n, m}) /\ Left \ {n, m} \subseteq PolyNodes
    BY <1>0, <1>1
  <2>4. Settled(Left \ {n, m}, D \cup {n}, cf)
    BY <1>9, <1>10, <2>1, <2>2, <2>3 DEF Settled
  <2> QED BY <1>0, <1>1, <1>6, <1>12, <2>4
<1>13. CASE cf[n] = 0
  <2>1. \A x \in PolyNodes \ (Left \ {n, m}) : SumAt(exp(x)) # 0 => \E d \in D : exp(d) = exp(x)
    BY <1>0, <1>1, <1>7, <1>8, <1>13
  <2>2. D \subseteq PolyNodes \ (Left \ {n, m}) /\ Left \ {n, m} \subseteq PolyNodes
    BY <1>0, <1>1
  <2>3. Settled(Left \ {n, m}, D, cf)
    BY <1>9, <1>10, <1>11, <2>1, <2>2 DEF Settled
  <2> QED BY <1>0, <1>1, <1>6, <1>13, <2>3
<1> QED BY <1>12, <1>13

\* What is left of a polynomial are nodes of it.
LEMMA OnwardAre ==
    ASSUME PolyTypeOK, NEW i \in {1, 2}, NEW n
    PROVE  /\ Onward(i, n) \subseteq Node(i) /\ Onward(i, n) \subseteq PolyNodes
           /\ \A x \in Onward(i, n) : x[1] = i /\ exp(x) \in Nat
           /\ Onward(i, NoTerm) = {}
<1>1. Onward(i, n) \subseteq Node(i) /\ Onward(i, NoTerm) = {}
  BY DEF Onward
<1>2. \A x \in Node(i) : x[1] = i /\ exp(x) \in Nat
  BY NodesAre
<1>3. Node(i) \subseteq PolyNodes
  BY DEF PolyNodes
<1> QED BY <1>1, <1>2, <1>3

\* n is the next node of polynomial i, o that of polynomial k, and n is lower.
LowerNext(D, i, k, n, o) ==
    /\ i \in {1, 2} /\ k \in {1, 2} /\ i # k
    /\ n \in Node(i) /\ o \in Node(k) /\ exp(n) < exp(o)
    /\ Settled(Onward(i, n) \cup Onward(k, o), D, coef) /\ Ordered(D, r, xnext)
    /\ LinksOf(Onward(i, n), xnext) /\ LinksOf(Onward(k, o), xnext)

\* n is in the list of E, by the links, and m the next node after it.
IsTaken(E, i, k, n, o, m, links) ==
    /\ Settled(Onward(i, m) \cup Onward(k, o), E, coef)
    /\ Ordered(E, n, links) /\ n # NoTerm
    /\ m \in Node(i) \cup {NoTerm} /\ m = Lowest(Onward(i, m))
    /\ LinksOf(Onward(i, m), links) /\ LinksOf(Onward(k, o), links)
    /\ links \in [PolyNodes \cup {HeadTerm} -> PolyNodes \cup {NoTerm}]
    /\ E \in SUBSET PolyNodes

\* The lower of the two next nodes comes to the end of the list.
LEMMA LowerIsTaken ==
    ASSUME PolyTypeOK, NEW D \in SUBSET PolyNodes, NEW i, NEW k, NEW n, NEW o,
           LowerNext(D, i, k, n, o)
    PROVE  IsTaken(D \cup {n}, i, k, n, o, xnext[n], [xnext EXCEPT ![r] = n])
<1> DEFINE m == xnext[n]
           to == [xnext EXCEPT ![r] = n]
<1>0. /\ i \in {1, 2} /\ k \in {1, 2} /\ i # k
      /\ n \in Node(i) /\ o \in Node(k) /\ exp(n) < exp(o)
      /\ Settled(Onward(i, n) \cup Onward(k, o), D, coef) /\ Ordered(D, r, xnext)
      /\ LinksOf(Onward(i, n), xnext) /\ LinksOf(Onward(k, o), xnext)
  BY DEF LowerNext
<1> DEFINE A == Onward(i, n)
           B == Onward(k, o)
           C == Onward(i, m)
<1>1. /\ A \subseteq PolyNodes /\ B \subseteq PolyNodes
      /\ \A x \in A : x[1] = i /\ exp(x) \in Nat
      /\ \A x \in B : x[1] = k /\ exp(x) \in Nat
  BY <1>0, OnwardAre
<1>2. n \in PolyNodes /\ exp(n) \in Nat /\ exp(o) \in Nat /\ n # HeadTerm /\ n # NoTerm /\ HeadTerm \notin PolyNodes
      /\ \A x \in PolyNodes : exp(x) \in Nat
  BY <1>0, NodesAre DEF PolyNodes
<1>3. n \in A
  <2>1. n \in A /\ \A x \in A : exp(n) <= exp(x)
    BY <1>0, RestIs
  <2> QED BY <2>1
<1>4. m = Following(A, n)
  BY <1>0, <1>3 DEF LinksOf
<1>5. /\ m \in Node(i) \cup {NoTerm} /\ C = A \ {n} /\ m = Lowest(C)
      /\ \A x \in C : exp(n) < exp(x) /\ Following(C, x) = Following(A, x)
  BY <1>0, <1>4, RestIs
<1>6. \A x \in B : exp(o) <= exp(x)
  BY <1>0, RestIs
<1> HIDE DEF A, B, C, m
<1>7. \A x \in A \cup B : x # n => exp(n) < exp(x)
  <2>1. ASSUME NEW x \in B PROVE exp(n) < exp(x)
    BY <1>0, <1>1, <1>2, <1>6
  <2> QED BY <1>5, <2>1
<1>8. (A \cup B) \ {n} = C \cup B /\ n \notin B
  BY <1>0, <1>1, <1>2, <1>5, <1>6
<1>9. Settled(C \cup B, D \cup {n}, coef) /\ \A d \in D : exp(d) < exp(n)
  <2>1. Settled((A \cup B) \ {n}, D \cup {n}, coef) /\ \A d \in D : exp(d) < exp(n)
    <3>1. Settled(A \cup B, D, coef)
      BY <1>0 DEF A, B
    <3> QED BY <1>3, <1>7, <3>1, SettleOne
  <2> QED BY <1>8, <2>1
<1>10. r \in D \cup {HeadTerm}
  BY <1>0 DEF Ordered
<1>11. /\ xnext \in [PolyNodes \cup {HeadTerm} -> PolyNodes \cup {NoTerm}]
       /\ DOMAIN xnext = PolyNodes \cup {HeadTerm}
  BY DEF PolyTypeOK
<1>12. Ordered(D \cup {n}, n, to)
  <2>1. /\ \A d \in D : exp(d) \in Nat
        /\ HeadTerm \notin D /\ r \in DOMAIN xnext /\ D \cup {HeadTerm} \subseteq DOMAIN xnext
    BY <1>2, <1>10, <1>11
  <2> QED BY <1>0, <1>2, <1>9, <2>1, TakeOrders
<1>13. to \in [PolyNodes \cup {HeadTerm} -> PolyNodes \cup {NoTerm}]
  BY <1>2, <1>11
<1>14. \A x \in A \cup B : x # r
  <2>1. D \subseteq PolyNodes \ (A \cup B)
    BY <1>0 DEF Settled, A, B
  <2> QED BY <1>1, <1>2, <1>10, <2>1
<1>15. \A x \in A \cup B : to[x] = xnext[x]
  BY <1>1, <1>11, <1>14
<1>16. LinksOf(B, to)
  BY <1>0, <1>15 DEF LinksOf, B
<1>17. LinksOf(C, to)
  <2>1. \A x \in C : x \in A /\ xnext[x] = Following(A, x)
    BY <1>0, <1>5 DEF LinksOf, A
  <2> QED BY <1>5, <1>15, <2>1 DEF LinksOf
<1>18. D \cup {n} \in SUBSET PolyNodes
  BY <1>2
<1> HIDE DEF to
<1>19. IsTaken(D \cup {n}, i, k, n, o, m, to)
  BY <1>2, <1>5, <1>9, <1>12, <1>13, <1>16, <1>17, <1>18 DEF B, C, IsTaken
<1> QED BY <1>19 DEF m, to

\* What depends on the polynomials alone stays, with them.
PolyStays ==
    /\ PolyNodes' = PolyNodes /\ Node(1)' = Node(1) /\ Node(2)' = Node(2)
    /\ \A e : SumAt(e)' = SumAt(e)
    /\ Onward(1, p)' = Onward(1, p') /\ Onward(2, q)' = Onward(2, q')

\* The polynomials as they were given do not change.
LEMMA GivenStay ==
    ASSUME terms' = terms
    PROVE PolyStays
BY DEF PolyStays, PolyNodes, Node, Onward, SumAt, Given

\* The next node of the first polynomial is taken.
LEMMA TakePKeeps ==
    ASSUME PolyTypeOK, NEW D \in SUBSET PolyNodes, Merging(D), TakeP
    PROVE  PolyInv'
<1>1. /\ p \in Node(1) /\ q \in Node(2) /\ p # NoTerm /\ q # NoTerm /\ exp(p) < exp(q)
      /\ p' = xnext[p] /\ q' = q /\ r' = p /\ xnext' = [xnext EXCEPT ![r] = p]
      /\ terms' = terms /\ coef' = coef
  BY DEF TakeP, Take, Both, PolyTypeOK
<1>2. LowerNext(D, 1, 2, p, q) /\ q = Lowest(Onward(2, q))
  BY <1>1 DEF Merging, LowerNext
<1>e. PICK E : E = D \cup {p}
  OBVIOUS
<1>3. IsTaken(E, 1, 2, p, q, p', xnext')
  BY <1>1, <1>2, <1>e, LowerIsTaken
<1>4. PolyStays
  BY <1>1, GivenStay
<1>5. PolyTypeOK'
  <2>1. /\ terms \in Terms \X Terms /\ coef \in [PolyNodes -> Int] /\ q \in Node(2) \cup {NoTerm}
    BY DEF PolyTypeOK
  <2>2. p' \in Node(1) \cup {NoTerm} /\ xnext' \in [PolyNodes \cup {HeadTerm} -> PolyNodes \cup {NoTerm}]
    BY <1>3 DEF IsTaken
  <2> QED BY <1>1, <1>4, <2>1, <2>2 DEF PolyTypeOK, PolyStays
<1>6. Settled(Onward(1, p) \cup Onward(2, q), E, coef)'
  <2>1. Settled(Onward(1, p') \cup Onward(2, q'), E, coef')
    BY <1>1, <1>3 DEF IsTaken
  <2> QED BY <1>1, <1>4, <2>1 DEF Settled, PolyStays
<1>7. Merging(E)'
  <2>1. /\ p' = Lowest(Onward(1, p')) /\ LinksOf(Onward(1, p'), xnext')
        /\ q' = Lowest(Onward(2, q')) /\ LinksOf(Onward(2, q'), xnext')
        /\ r' # NoTerm /\ Ordered(E, r', xnext')
    BY <1>1, <1>2, <1>3 DEF IsTaken
  <2> QED BY <1>4, <1>6, <2>1 DEF Merging, PolyStays
<1>8. E \in SUBSET PolyNodes'
  BY <1>3, <1>4 DEF IsTaken, PolyStays
<1> QED BY <1>5, <1>7, <1>8 DEF PolyInv

\* The next node of the second polynomial is taken.
LEMMA TakeQKeeps ==
    ASSUME PolyTypeOK, NEW D \in SUBSET PolyNodes, Merging(D), TakeQ
    PROVE  PolyInv'
<1>1. /\ p \in Node(1) /\ q \in Node(2) /\ p # NoTerm /\ q # NoTerm /\ exp(q) < exp(p)
      /\ p' = p /\ q' = xnext[q] /\ r' = q /\ xnext' = [xnext EXCEPT ![r] = q]
      /\ terms' = terms /\ coef' = coef
  <2>1. /\ p \in Node(1) /\ q \in Node(2) /\ p # NoTerm /\ q # NoTerm /\ exp(p) > exp(q)
        /\ p' = p /\ q' = xnext[q] /\ r' = q /\ xnext' = [xnext EXCEPT ![r] = q]
        /\ terms' = terms /\ coef' = coef
    BY DEF TakeQ, Take, Both, PolyTypeOK
  <2>2. exp(p) \in Nat /\ exp(q) \in Nat
    BY <2>1, NodesAre
  <2> QED BY <2>1, <2>2
<1>2. LowerNext(D, 2, 1, q, p) /\ p = Lowest(Onward(1, p))
  <2>1. Onward(2, q) \cup Onward(1, p) = Onward(1, p) \cup Onward(2, q)
    OBVIOUS
  <2>2. /\ Settled(Onward(1, p) \cup Onward(2, q), D, coef) /\ Ordered(D, r, xnext)
        /\ LinksOf(Onward(1, p), xnext) /\ LinksOf(Onward(2, q), xnext)
        /\ p = Lowest(Onward(1, p))
    BY DEF Merging
  <2>3. Settled(Onward(2, q) \cup Onward(1, p), D, coef)
    BY <2>1, <2>2
  <2> QED BY <1>1, <2>2, <2>3 DEF LowerNext
<1>e. PICK E : E = D \cup {q}
  OBVIOUS
<1>3. IsTaken(E, 2, 1, q, p, q', xnext')
  BY <1>1, <1>2, <1>e, LowerIsTaken
<1>4. PolyStays
  BY <1>1, GivenStay
<1>5. PolyTypeOK'
  <2>1. /\ terms \in Terms \X Terms /\ coef \in [PolyNodes -> Int] /\ p \in Node(1) \cup {NoTerm}
    BY DEF PolyTypeOK
  <2>2. q' \in Node(2) \cup {NoTerm} /\ xnext' \in [PolyNodes \cup {HeadTerm} -> PolyNodes \cup {NoTerm}]
    BY <1>3 DEF IsTaken
  <2> QED BY <1>1, <1>4, <2>1, <2>2 DEF PolyTypeOK, PolyStays
<1>6. Settled(Onward(1, p) \cup Onward(2, q), E, coef)'
  <2>1. Settled(Onward(2, q') \cup Onward(1, p'), E, coef')
    BY <1>1, <1>3 DEF IsTaken
  <2>2. Onward(2, q') \cup Onward(1, p') = Onward(1, p') \cup Onward(2, q')
    OBVIOUS
  <2> QED BY <1>1, <1>4, <2>1, <2>2 DEF Settled, PolyStays
<1>7. Merging(E)'
  <2>1. /\ p' = Lowest(Onward(1, p')) /\ LinksOf(Onward(1, p'), xnext')
        /\ q' = Lowest(Onward(2, q')) /\ LinksOf(Onward(2, q'), xnext')
        /\ r' # NoTerm /\ Ordered(E, r', xnext')
    BY <1>1, <1>2, <1>3 DEF IsTaken
  <2> QED BY <1>4, <1>6, <2>1 DEF Merging, PolyStays
<1>8. E \in SUBSET PolyNodes'
  BY <1>3, <1>4 DEF IsTaken, PolyStays
<1> QED BY <1>5, <1>7, <1>8 DEF PolyInv

\* The links of all but D stay where one node of D, or the head, gets another.
LEMMA OthersLinks ==
    ASSUME PolyTypeOK, NEW Left, NEW D, Settled(Left, D, coef), r \in D \cup {HeadTerm}, NEW n, NEW C,
           C \subseteq Left, LinksOf(C, xnext)
    PROVE  LinksOf(C, [xnext EXCEPT ![r] = n])
<1>1. Left \subseteq PolyNodes /\ D \subseteq PolyNodes \ Left /\ HeadTerm \notin PolyNodes
  BY NodesAre DEF Settled
<1>2. \A x \in C : x # r /\ x \in PolyNodes
  BY <1>1
<1>3. xnext \in [PolyNodes \cup {HeadTerm} -> PolyNodes \cup {NoTerm}]
  BY DEF PolyTypeOK
<1>4. \A x \in C : [xnext EXCEPT ![r] = n][x] = xnext[x]
  BY <1>2, <1>3
<1> QED BY <1>4 DEF LinksOf

\* Two terms are added up, or cancel.
LEMMA AddUpKeeps ==
    ASSUME PolyTypeOK, NEW D \in SUBSET PolyNodes, Merging(D), AddUp
    PROVE  PolyInv'
<1> DEFINE A == Onward(1, p)
           B == Onward(2, q)
<1>1. /\ p \in Node(1) /\ q \in Node(2) /\ p # NoTerm /\ q # NoTerm /\ exp(p) = exp(q)
      /\ p' = xnext[p] /\ q' = xnext[q] /\ terms' = terms
      /\ coef' = [coef EXCEPT ![p] = @ + coef[q]]
      /\ IF coef'[p] # 0 THEN r' = p /\ xnext' = [xnext EXCEPT ![r] = p] ELSE r' = r /\ xnext' = xnext
  BY DEF AddUp, Take, Both, PolyTypeOK
<1>2. /\ Settled(A \cup B, D, coef) /\ Ordered(D, r, xnext) /\ r # NoTerm
      /\ LinksOf(A, xnext) /\ LinksOf(B, xnext)
  BY DEF Merging
<1>3. /\ p \in A /\ q \in B
      /\ \A x \in A : exp(p) <= exp(x)
      /\ \A x \in B : exp(q) <= exp(x)
  BY <1>1, RestIs
<1>4. p' = Following(A, p) /\ q' = Following(B, q)
  BY <1>1, <1>2, <1>3 DEF LinksOf
<1>5. /\ p' \in Node(1) \cup {NoTerm} /\ Onward(1, p') = A \ {p} /\ p' = Lowest(Onward(1, p'))
      /\ \A x \in Onward(1, p') : exp(p) < exp(x) /\ Following(Onward(1, p'), x) = Following(A, x)
  BY <1>1, <1>4, RestIs
<1>6. /\ q' \in Node(2) \cup {NoTerm} /\ Onward(2, q') = B \ {q} /\ q' = Lowest(Onward(2, q'))
      /\ \A x \in Onward(2, q') : exp(q) < exp(x) /\ Following(Onward(2, q'), x) = Following(B, x)
  BY <1>1, <1>4, RestIs
<1>7. /\ \A x \in A : x[1] = 1
      /\ \A x \in B : x[1] = 2
      /\ A \subseteq PolyNodes /\ B \subseteq PolyNodes
  BY OnwardAre
<1> HIDE DEF A, B
<1>8. (A \cup B) \ {p, q} = Onward(1, p') \cup Onward(2, q')
  BY <1>3, <1>5, <1>6, <1>7
<1>9. \A x \in A \cup B : x # p /\ x # q => exp(p) < exp(x)
  BY <1>1, <1>5, <1>6
<1>10. PICK E : E = IF coef'[p] # 0 THEN D \cup {p} ELSE D
  OBVIOUS
<1>11. /\ Settled(Onward(1, p') \cup Onward(2, q'), E, coef')
       /\ \A d \in D : exp(d) < exp(p)
       /\ coef' \in [PolyNodes -> Int]
  <2>1. /\ IF coef'[p] # 0 THEN Settled((A \cup B) \ {p, q}, D \cup {p}, coef')
                           ELSE Settled((A \cup B) \ {p, q}, D, coef')
        /\ \A d \in D : exp(d) < exp(p)
        /\ coef' \in [PolyNodes -> Int]
    <3> DEFINE cf == [coef EXCEPT ![p] = @ + coef[q]]
    <3>1. p \in A \cup B /\ q \in A \cup B
      BY <1>3
    <3>2. /\ IF cf[p] # 0 THEN Settled((A \cup B) \ {p, q}, D \cup {p}, cf)
                          ELSE Settled((A \cup B) \ {p, q}, D, cf)
          /\ \A d \in D : exp(d) < exp(p)
          /\ cf \in [PolyNodes -> Int]
      <4>1. LowestTwo(A \cup B, D, p, q)
        BY <1>1, <1>2, <1>9, <3>1 DEF LowestTwo
      <4> QED BY <4>1, SettleTwo
    <3>3. coef' = cf
      BY <1>1
    <3> HIDE DEF cf
    <3> QED BY <3>2, <3>3
  <2> QED BY <1>8, <1>10, <2>1
<1>12. r \in D \cup {HeadTerm}
  BY <1>2 DEF Ordered
<1>13. /\ xnext \in [PolyNodes \cup {HeadTerm} -> PolyNodes \cup {NoTerm}] /\ HeadTerm \notin PolyNodes
       /\ p \in PolyNodes /\ exp(p) \in Nat /\ \A d \in D : exp(d) \in Nat
       /\ p # HeadTerm
  <2>1. \A x \in PolyNodes : exp(x) \in Nat /\ x # HeadTerm
    BY NodesAre DEF PolyNodes
  <2> QED BY <1>3, <1>7, <2>1, NodesAre DEF PolyTypeOK
<1>14. xnext' \in [PolyNodes \cup {HeadTerm} -> PolyNodes \cup {NoTerm}]
  BY <1>1, <1>12, <1>13
<1>15. Ordered(E, r', xnext')
  <2>1. CASE coef'[p] # 0
    <3>1. HeadTerm \notin D /\ r \in DOMAIN xnext /\ D \cup {HeadTerm} \subseteq DOMAIN xnext
      BY <1>12, <1>13
    <3>2. Ordered(D \cup {p}, p, [xnext EXCEPT ![r] = p])
      BY <1>2, <1>11, <1>13, <3>1, TakeOrders
    <3> QED BY <1>1, <1>10, <2>1, <3>2
  <2>2. CASE coef'[p] = 0
    BY <1>1, <1>2, <1>10, <2>2
  <2> QED BY <2>1, <2>2
<1>16. LinksOf(A, xnext') /\ LinksOf(B, xnext')
  <2>1. A \subseteq A \cup B /\ B \subseteq A \cup B
    OBVIOUS
  <2>2. LinksOf(A, [xnext EXCEPT ![r] = p])
    BY <1>2, <1>12, <2>1, OthersLinks
  <2>3. LinksOf(B, [xnext EXCEPT ![r] = p])
    BY <1>2, <1>12, <2>1, OthersLinks
  <2> QED BY <1>1, <1>2, <2>2, <2>3
<1>17. LinksOf(Onward(1, p'), xnext') /\ LinksOf(Onward(2, q'), xnext')
  <2>1. \A x \in Onward(1, p') : x \in A
    BY <1>5
  <2>2. \A x \in Onward(2, q') : x \in B
    BY <1>6
  <2>3. \A x \in Onward(1, p') : xnext'[x] = Following(Onward(1, p'), x)
    BY <1>5, <1>16, <2>1 DEF LinksOf
  <2>4. \A x \in Onward(2, q') : xnext'[x] = Following(Onward(2, q'), x)
    BY <1>6, <1>16, <2>2 DEF LinksOf
  <2> QED BY <2>3, <2>4 DEF LinksOf
<1>18. PolyStays
  BY <1>1, GivenStay
<1>19. PolyTypeOK'
  <2>1. terms \in Terms \X Terms
    BY DEF PolyTypeOK
  <2> QED BY <1>1, <1>5, <1>6, <1>11, <1>14, <1>18, <2>1 DEF PolyTypeOK, PolyStays
<1>20. Settled(Onward(1, p) \cup Onward(2, q), E, coef)'
  BY <1>1, <1>11, <1>18 DEF Settled, PolyStays
<1>21. r' # NoTerm
  BY <1>1, <1>2
<1>22. Merging(E)'
  BY <1>5, <1>6, <1>15, <1>17, <1>18, <1>20, <1>21 DEF Merging, PolyStays
<1>23. E \in SUBSET PolyNodes'
  BY <1>10, <1>13, <1>18 DEF PolyStays
<1> QED BY <1>19, <1>22, <1>23 DEF PolyInv

\* What is left of one polynomial is hung on behind the others.
LEMMA RestHangs ==
    ASSUME PolyTypeOK, NEW D, NEW i \in {1, 2}, NEW Left, Left \subseteq Node(i),
           Settled(Left, D, coef), LinksOf(Left, xnext), Ordered(D, r, xnext),
           NEW n, n = Lowest(Left)
    PROVE  /\ IsSum(D \cup Left, [xnext EXCEPT ![r] = n])
           /\ [xnext EXCEPT ![r] = n] \in [PolyNodes \cup {HeadTerm} -> PolyNodes \cup {NoTerm}]
<1> DEFINE E == D \cup Left
           to == [xnext EXCEPT ![r] = n]
<1>1. /\ Left \subseteq PolyNodes /\ D \subseteq PolyNodes \ Left
      /\ \A x \in PolyNodes \ Left, y \in Left : exp(x) < exp(y)
      /\ \A x \in Left : coef[x] = terms[x[1]][exp(x)]
      /\ \A x \in D : coef[x] = SumAt(exp(x)) /\ SumAt(exp(x)) # 0
      /\ \A x \in PolyNodes \ Left : SumAt(exp(x)) # 0 => \E d \in D : exp(d) = exp(x)
  BY DEF Settled
<1>2. /\ Distinct(D)
      /\ IF D = {} THEN r = HeadTerm ELSE r \in D /\ \A d \in D : exp(d) <= exp(r)
      /\ \A d \in D \cup {HeadTerm} : d # r => xnext[d] = Following(D, d)
  BY DEF Ordered
<1>3. /\ \A x \in PolyNodes : exp(x) \in Nat /\ x # HeadTerm
      /\ Distinct(Node(i)) /\ HeadTerm \notin PolyNodes
  BY NodesAre DEF PolyNodes
<1>4. xnext \in [PolyNodes \cup {HeadTerm} -> PolyNodes \cup {NoTerm}]
  BY DEF PolyTypeOK
<1>5. E \in SUBSET PolyNodes /\ \A x \in E : exp(x) \in Nat /\ x # HeadTerm
  BY <1>1, <1>3
<1>6. \A d \in D, x \in Left : exp(d) < exp(x)
  BY <1>1
<1>7. Distinct(E)
  <2> SUFFICES ASSUME NEW x \in E, NEW y \in E, exp(x) = exp(y) PROVE x = y
    BY DEF Distinct
  <2>1. exp(x) \in Nat /\ exp(y) \in Nat
    BY <1>5
  <2>2. CASE x \in D /\ y \in D
    BY <1>2, <2>2 DEF Distinct
  <2>3. CASE x \in Left /\ y \in Left
    BY <1>3, <2>3 DEF Distinct
  <2>4. CASE x \in D /\ y \in Left
    BY <1>6, <2>1, <2>4
  <2>5. CASE x \in Left /\ y \in D
    BY <1>6, <2>1, <2>5
  <2> QED BY <2>2, <2>3, <2>4, <2>5
<1>8. n \in PolyNodes \cup {NoTerm}
  <2>1. \A x \in Left : exp(x) \in Nat
    BY <1>5
  <2>2. Left = {} \/ n \in Left
    BY <2>1, LowestIs
  <2> QED BY <1>1, <2>1, <2>2, LowestIs
<1>9. r \in D \cup {HeadTerm}
  BY <1>2
<1>10. to \in [PolyNodes \cup {HeadTerm} -> PolyNodes \cup {NoTerm}]
  BY <1>1, <1>4, <1>8, <1>9
<1>11. to[r] = n /\ \A x \in E \cup {HeadTerm} : x # r => to[x] = xnext[x]
  BY <1>1, <1>4, <1>9
<1> HIDE DEF to
<1>12. ASSUME NEW x \in Left PROVE to[x] = Following(E, x)
  <2>1. x # r /\ x # HeadTerm /\ x \in E
    BY <1>1, <1>3, <1>9
  <2>2. to[x] = Following(Left, x)
    BY <1>11, <2>1 DEF LinksOf
  <2>3. exp(x) \in Nat /\ \A d \in D : exp(d) \in Nat /\ exp(d) < exp(x)
    BY <1>5, <1>6
  <2>4. {y \in E : exp(y) > exp(x)} = {y \in Left : exp(y) > exp(x)}
    BY <2>3
  <2> QED BY <2>1, <2>2, <2>4 DEF Following
<1>13. to[r] = Following(E, r)
  <2>1. CASE D = {}
    BY <1>2, <1>11, <2>1 DEF Following
  <2>2. CASE D # {}
    <3>1. r \in D /\ r # HeadTerm /\ exp(r) \in Nat /\ \A d \in D : exp(d) <= exp(r) /\ exp(d) \in Nat
      BY <1>2, <1>5, <2>2
    <3>2. {y \in E : exp(y) > exp(r)} = Left
      BY <1>6, <3>1
    <3> QED BY <1>11, <3>1, <3>2 DEF Following
  <2> QED BY <2>1, <2>2
<1>14. ASSUME NEW d \in D \cup {HeadTerm}, d # r PROVE to[d] = Following(E, d)
  <2>1. to[d] = Following(D, d) /\ D # {}
    BY <1>2, <1>11, <1>14
  <2>2. CASE d = HeadTerm
    <3>1. Lowest(E) = Lowest(D)
      BY <1>5, <1>6, <1>7, <2>1, LowestOfBoth
    <3> QED BY <2>1, <2>2, <3>1 DEF Following
  <2>3. CASE d # HeadTerm
    <3> DEFINE C == {y \in D : exp(y) > exp(d)}
    <3>1. d \in D /\ r \in D /\ exp(d) <= exp(r) /\ exp(d) \in Nat /\ exp(r) \in Nat
      BY <1>2, <1>5, <2>1, <2>3
    <3>2. r \in C
      BY <1>2, <1>14, <3>1 DEF Distinct
    <3>3. {y \in E : exp(y) > exp(d)} = C \cup Left
      BY <1>5, <1>6, <3>1
    <3>4. Distinct(C \cup Left) /\ \A x \in C \cup Left : exp(x) \in Nat
      BY <1>5, <1>7 DEF Distinct
    <3>5. \A x \in C, y \in Left : exp(x) < exp(y)
      BY <1>6
    <3>6. Lowest(C \cup Left) = Lowest(C)
      <4> HIDE DEF C
      <4> QED BY <3>2, <3>4, <3>5, LowestOfBoth
    <3> QED BY <2>1, <2>3, <3>3, <3>6 DEF Following
  <2> QED BY <2>2, <2>3
<1>15. \A x \in E \cup {HeadTerm} : to[x] = Following(E, x)
  BY <1>12, <1>13, <1>14
<1>16. ASSUME NEW x \in Left PROVE coef[x] = SumAt(exp(x)) /\ SumAt(exp(x)) # 0
  <2>1. /\ x \in PolyNodes /\ x \in Node(i) /\ x[1] = i /\ exp(x) \in Nat
        /\ terms[i][exp(x)] \in Int \ {0} /\ coef[x] = terms[i][exp(x)]
    BY <1>1, NodesAre
  <2>2. Given(i, exp(x)) = terms[i][exp(x)]
    BY <2>1, GivenAre
  <2>3. ASSUME NEW k \in {1, 2}, k # i PROVE Given(k, exp(x)) = 0
    <3> DEFINE y == <<k, exp(x)>>
    <3>1. y \notin Node(k)
      <4> SUFFICES ASSUME y \in Node(k) PROVE FALSE
        OBVIOUS
      <4>1. y[1] = k /\ exp(y) = exp(x)
        BY DEF exp
      <4> HIDE DEF y
      <4>2. y \in PolyNodes
        BY DEF PolyNodes
      <4>3. y \notin Left
        <5>1. \A z \in Node(i) : z[1] = i
          BY NodesAre
        <5> QED BY <2>3, <4>1, <5>1
      <4> QED BY <1>1, <2>1, <4>1, <4>2, <4>3
    <3> QED BY <2>1, <3>1, GivenAre
  <2>4. SumAt(exp(x)) = terms[i][exp(x)]
    <3>1. CASE i = 1
      BY <2>1, <2>2, <2>3, <3>1 DEF SumAt
    <3>2. CASE i = 2
      BY <2>1, <2>2, <2>3, <3>2 DEF SumAt
    <3> QED BY <3>1, <3>2
  <2> QED BY <2>1, <2>4
<1>17. \A x \in E : coef[x] = SumAt(exp(x)) /\ SumAt(exp(x)) # 0
  BY <1>1, <1>16
<1>18. \A x \in PolyNodes : SumAt(exp(x)) # 0 => \E d \in E : exp(d) = exp(x)
  BY <1>1
<1> HIDE DEF E
<1>19. IsSum(E, to)
  BY <1>5, <1>7, <1>15, <1>17, <1>18 DEF IsSum
<1> QED BY <1>10, <1>19 DEF E, to

\* With one polynomial at its end the other's rest is the end of the list.
LEMMA HangOnKeeps ==
    ASSUME PolyTypeOK, NEW D \in SUBSET PolyNodes, Merging(D), HangOn
    PROVE  PolyInv'
<1> DEFINE A == Onward(1, p)
           B == Onward(2, q)
<1>1. /\ p = NoTerm \/ q = NoTerm
      /\ xnext' = [xnext EXCEPT ![r] = IF p = NoTerm THEN q ELSE p] /\ r' = NoTerm
      /\ terms' = terms /\ coef' = coef /\ p' = p /\ q' = q
  BY DEF HangOn, Both
<1>2. /\ Settled(A \cup B, D, coef) /\ Ordered(D, r, xnext)
      /\ LinksOf(A, xnext) /\ LinksOf(B, xnext) /\ p = Lowest(A) /\ q = Lowest(B)
  BY DEF Merging
<1>3. A \subseteq Node(1) /\ B \subseteq Node(2)
  BY OnwardAre
<1>4. /\ p = NoTerm => A = {}
      /\ q = NoTerm => B = {}
  BY OnwardAre
<1> HIDE DEF A, B
<1>5. PICK E : E = D \cup (A \cup B)
  OBVIOUS
<1>6. IsSum(E, xnext') /\ xnext' \in [PolyNodes \cup {HeadTerm} -> PolyNodes \cup {NoTerm}]
  <2>1. CASE p = NoTerm
    <3>1. A \cup B = B /\ xnext' = [xnext EXCEPT ![r] = q]
      BY <1>1, <1>4, <2>1
    <3>2. /\ IsSum(D \cup B, [xnext EXCEPT ![r] = q])
          /\ [xnext EXCEPT ![r] = q] \in [PolyNodes \cup {HeadTerm} -> PolyNodes \cup {NoTerm}]
      <4>1. Settled(B, D, coef)
        BY <1>2, <3>1
      <4> QED BY <1>2, <1>3, <4>1, RestHangs
    <3> QED BY <1>5, <3>1, <3>2
  <2>2. CASE p # NoTerm
    <3>1. A \cup B = A /\ xnext' = [xnext EXCEPT ![r] = p]
      BY <1>1, <1>4, <2>2
    <3>2. /\ IsSum(D \cup A, [xnext EXCEPT ![r] = p])
          /\ [xnext EXCEPT ![r] = p] \in [PolyNodes \cup {HeadTerm} -> PolyNodes \cup {NoTerm}]
      <4>1. Settled(A, D, coef)
        BY <1>2, <3>1
      <4> QED BY <1>2, <1>3, <4>1, RestHangs
    <3> QED BY <1>5, <3>1, <3>2
  <2> QED BY <2>1, <2>2
<1>7. PolyStays
  BY <1>1, GivenStay
<1>8. PolyTypeOK'
  <2>1. /\ terms \in Terms \X Terms /\ coef \in [PolyNodes -> Int]
        /\ p \in Node(1) \cup {NoTerm} /\ q \in Node(2) \cup {NoTerm}
    BY DEF PolyTypeOK
  <2> QED BY <1>1, <1>6, <1>7, <2>1 DEF PolyTypeOK, PolyStays
<1>9. IsSum(E, xnext)'
  BY <1>1, <1>6, <1>7 DEF IsSum, PolyStays
<1>10. Merged(E)'
  BY <1>1, <1>9 DEF Merged, Both
<1>11. E \in SUBSET PolyNodes'
  BY <1>6, <1>7 DEF IsSum, PolyStays
<1> QED BY <1>8, <1>10, <1>11 DEF PolyInv

\* Before the first turn everything is left.
LEMMA PolyBegins ==
    ASSUME PolyInit
    PROVE PolyInv
<1>1. /\ terms \in Terms \X Terms
      /\ coef = [n \in PolyNodes |-> terms[n[1]][n[2]]]
      /\ xnext = [n \in PolyNodes \cup {HeadTerm} |->
                    Lowest(IF n = HeadTerm THEN Node(1) ELSE {x \in Node(n[1]) : exp(x) > exp(n)})]
      /\ p = Lowest(Node(1)) /\ q = Lowest(Node(2)) /\ r = HeadTerm
  BY DEF PolyInit, PolyNodes
<1>2. ASSUME NEW i \in {1, 2}, NEW n \in Node(i)
      PROVE  n[1] = i /\ exp(n) \in Nat /\ terms[i][exp(n)] \in Int /\ n # HeadTerm /\ n # NoTerm
  <2>1. terms[i] \in Terms
    BY <1>1
  <2>2. PICK E \in SUBSET Exponents : terms[i] \in [E -> Coefficients]
    BY <2>1 DEF Terms
  <2>3. PICK e \in DOMAIN terms[i] : n = <<i, e>>
    BY DEF Node
  <2>4. e \in Nat /\ terms[i][e] \in Int
    BY <2>2, <2>3, PolyAssumption
  <2> QED BY <2>3, <2>4 DEF exp, HeadTerm, NoTerm
<1>3. \A i \in {1, 2} : Lowest(Node(i)) \in Node(i) \cup {NoTerm} /\ Onward(i, Lowest(Node(i))) = Node(i)
  <2> TAKE i \in {1, 2}
  <2>1. \A n \in Node(i) : exp(n) \in Nat /\ n # NoTerm
    BY <1>2
  <2>2. CASE Node(i) = {}
    BY <2>1, <2>2, LowestIs DEF Onward
  <2>3. CASE Node(i) # {}
    <3>1. Lowest(Node(i)) \in Node(i) /\ \A x \in Node(i) : exp(Lowest(Node(i))) <= exp(x)
      BY <2>1, <2>3, LowestIs
    <3> QED BY <2>1, <3>1 DEF Onward
  <2> QED BY <2>2, <2>3
<1>4. coef \in [PolyNodes -> Int]
  <2>1. \A n \in PolyNodes : terms[n[1]][n[2]] \in Int
    BY <1>2 DEF PolyNodes, exp
  <2> QED BY <1>1, <2>1
<1>5. \A n \in PolyNodes \cup {HeadTerm} : xnext[n] \in PolyNodes \cup {NoTerm}
  <2>1. ASSUME NEW ns, ns \subseteq Node(1) \/ ns \subseteq Node(2)
        PROVE  Lowest(ns) \in PolyNodes \cup {NoTerm}
    <3>1. \A n \in ns : exp(n) \in Nat
      BY <1>2, <2>1
    <3> QED BY <2>1, <3>1, LowestIs DEF PolyNodes
  <2> TAKE n \in PolyNodes \cup {HeadTerm}
  <2> DEFINE ns == IF n = HeadTerm THEN Node(1) ELSE {x \in Node(n[1]) : exp(x) > exp(n)}
  <2>2. ns \subseteq Node(1) \/ ns \subseteq Node(2)
    BY <1>2 DEF PolyNodes
  <2>3. xnext[n] = Lowest(ns)
    BY <1>1
  <2> HIDE DEF ns
  <2> QED BY <2>1, <2>2, <2>3
<1>6. PolyTypeOK
  <2>1. xnext \in [PolyNodes \cup {HeadTerm} -> PolyNodes \cup {NoTerm}]
    <3>1. xnext = [n \in PolyNodes \cup {HeadTerm} |-> xnext[n]]
      BY <1>1
    <3> QED BY <1>5, <3>1
  <2> QED BY <1>1, <1>3, <1>4, <2>1 DEF PolyTypeOK
<1>7. ASSUME NEW i \in {1, 2} PROVE LinksOf(Node(i), xnext)
  <2> SUFFICES ASSUME NEW x \in Node(i) PROVE xnext[x] = Following(Node(i), x)
    BY DEF LinksOf
  <2>1. x \in PolyNodes /\ x[1] = i /\ x # HeadTerm
    BY <1>2 DEF PolyNodes
  <2>2. xnext[x] = Lowest({y \in Node(x[1]) : exp(y) > exp(x)})
    BY <1>1, <2>1
  <2> QED BY <2>1, <2>2 DEF Following
<1>8. Settled(PolyNodes, {}, coef)
  BY <1>1 DEF Settled, exp
<1>9. Ordered({}, r, xnext) /\ r # NoTerm
  BY <1>1 DEF Ordered, Distinct, HeadTerm, NoTerm
<1>10. Merging({})
  BY <1>1, <1>3, <1>7, <1>8, <1>9 DEF Merging, PolyNodes
<1> QED BY <1>6, <1>10 DEF PolyInv

\* Every turn of the merge.
LEMMA PolyKept ==
    ASSUME PolyInv, PolyNext
    PROVE PolyInv'
<1>1. PICK D \in SUBSET PolyNodes : Merging(D) \/ Merged(D)
  BY DEF PolyInv
<1>2. PolyTypeOK
  BY DEF PolyInv
<1>3. CASE Merging(D)
  BY <1>2, <1>3, TakePKeeps, TakeQKeeps, AddUpKeeps, HangOnKeeps DEF PolyNext
<1>4. CASE Merged(D)
  BY <1>4 DEF Merged, PolyNext, TakeP, TakeQ, AddUp, HangOn
<1> QED BY <1>1, <1>3, <1>4

\* The equation of Walk, which its definition has a solution for.
LEMMA WalkIs ==
    ASSUME PolyTypeOK
    PROVE  /\ Walk[0] = HeadTerm
           /\ \A k \in Nat : Walk[k + 1] = IF Walk[k] = NoTerm THEN NoTerm ELSE xnext[Walk[k]]
<1> DEFINE V == PolyNodes \cup {HeadTerm, NoTerm}
           on == [x \in V |-> IF x = NoTerm THEN NoTerm ELSE xnext[x]]
           F == [k \in Nat |-> on]
<1>1. on \in [V -> V]
  BY DEF PolyTypeOK
<1>2. PICK g \in [Nat -> V] : g[0] = HeadTerm /\ \A k \in Nat : g[k + 1] = on[g[k]]
  <2>1. F \in [Nat -> [V -> V]] /\ \A k \in Nat : F[k] = on
    BY <1>1
  <2>2. HeadTerm \in V
    OBVIOUS
  <2> HIDE DEF F, V, on
  <2>3. PICK g : IsRecursion(g, V, F, HeadTerm)
    BY <2>1, <2>2, Recursion
  <2> QED BY <2>1, <2>3 DEF IsRecursion
<1>3. \A k \in Nat : g[k + 1] = IF g[k] = NoTerm THEN NoTerm ELSE xnext[g[k]]
  <2> TAKE k \in Nat
  <2>1. g[k] \in V
    BY <1>2
  <2> QED BY <1>2, <2>1
<1> HIDE DEF V, on, F
<1>4. g = [k \in Nat |-> IF k = 0 THEN HeadTerm ELSE IF g[k - 1] = NoTerm THEN NoTerm ELSE xnext[g[k - 1]]]
  <2>1. \A k \in Nat : g[k] = IF k = 0 THEN HeadTerm ELSE IF g[k - 1] = NoTerm THEN NoTerm ELSE xnext[g[k - 1]]
    <3> TAKE k \in Nat
    <3>1. k # 0 => k - 1 \in Nat /\ (k - 1) + 1 = k
      OBVIOUS
    <3> QED BY <1>2, <1>3, <3>1
  <2> QED BY <1>2, <2>1
<1>5. Walk = [k \in Nat |-> IF k = 0 THEN HeadTerm ELSE IF Walk[k - 1] = NoTerm THEN NoTerm ELSE xnext[Walk[k - 1]]]
  BY <1>4, Zenon DEF Walk
<1>6. Walk[0] = HeadTerm
  BY <1>5
<1>7. ASSUME NEW k \in Nat PROVE Walk[k + 1] = IF Walk[k] = NoTerm THEN NoTerm ELSE xnext[Walk[k]]
  <2>1. k + 1 \in Nat /\ k + 1 # 0 /\ (k + 1) - 1 = k
    OBVIOUS
  <2> QED BY <1>5, <2>1
<1> QED BY <1>6, <1>7

\* Of the nodes of the list of D, those up to node n have these exponents.
ExpsTo(D, n) == {exp(x) : x \in {y \in D : exp(y) <= exp(n)}}

\* The k-th node met is in the list of D, behind the one before it and behind k - 1.
MetAt(D, k) ==
    /\ Walk[k] \in D
    /\ Walk[k - 1] # NoTerm
    /\ Walk[k - 1] = HeadTerm \/ (Walk[k - 1] \in D /\ exp(Walk[k - 1]) < exp(Walk[k]))
    /\ Cardinality(ExpsTo(D, Walk[k])) = k

\* Met k-th is a node of the list, k of whose nodes are then met.
LEMMA WalkGoesUp ==
    ASSUME PolyTypeOK, NEW D, IsSum(D, xnext)
    PROVE  \A k \in Nat \ {0} : Walk[k] = NoTerm \/ MetAt(D, k)
<1>1. /\ D \in SUBSET PolyNodes /\ Distinct(D)
      /\ \A x \in D \cup {HeadTerm} : xnext[x] = Following(D, x)
  BY DEF IsSum
<1>2. \A x \in D : exp(x) \in Nat /\ exp(x) \in Exponents /\ x # HeadTerm /\ x # NoTerm
  <2>1. \A x \in PolyNodes : exp(x) \in Nat /\ exp(x) \in Exponents /\ x # HeadTerm /\ x # NoTerm
    BY NodesAre DEF PolyNodes
  <2> QED BY <1>1, <2>1
<1>3. /\ Walk[0] = HeadTerm /\ HeadTerm # NoTerm
      /\ \A k \in Nat : Walk[k + 1] = IF Walk[k] = NoTerm THEN NoTerm ELSE xnext[Walk[k]]
  BY WalkIs, NodesAre
<1> DEFINE S == {k \in Nat : k # 0 /\ Walk[k] # NoTerm /\ ~MetAt(D, k)}
<1> SUFFICES ASSUME S # {} PROVE FALSE
  OBVIOUS
<1>4. PICK k \in S : \A i \in S : k <= i
  <2>1. S \in SUBSET Nat
    OBVIOUS
  <2> HIDE DEF S
  <2> QED BY <2>1, Least
<1>5. k \in Nat /\ k # 0 /\ Walk[k] # NoTerm /\ ~MetAt(D, k)
  BY <1>4
<1> DEFINE j == k - 1
<1>6. j \in Nat /\ j + 1 = k /\ j < k
  BY <1>5
<1> HIDE DEF j
<1>7. Walk[j] # NoTerm /\ Walk[k] = xnext[Walk[j]]
  BY <1>3, <1>5, <1>6
<1>8. j = 0 \/ MetAt(D, j)
  <2>1. j \notin S
    <3> HIDE DEF S
    <3> QED BY <1>4, <1>5, <1>6
  <2> QED BY <1>6, <1>7, <2>1
<1>9. CASE j = 0
  <2>1. Walk[j] = HeadTerm /\ k = 1
    BY <1>3, <1>6, <1>9
  <2>2. Walk[k] = Lowest(D)
    BY <1>1, <1>7, <2>1 DEF Following
  <2>3. Walk[k] \in D /\ \A x \in D : exp(Walk[k]) <= exp(x)
    BY <1>2, <1>5, <2>2, LowestIs
  <2> DEFINE U == ExpsTo(D, Walk[k])
  <2>4. U = {exp(Walk[k])}
    <3>1. \A x \in D : exp(x) <= exp(Walk[k]) => x = Walk[k]
      BY <1>1, <1>2, <2>3 DEF Distinct
    <3>2. exp(Walk[k]) <= exp(Walk[k])
      BY <1>2, <2>3
    <3> QED BY <2>3, <3>1, <3>2 DEF ExpsTo
  <2>5. U = {} \cup {exp(Walk[k])}
    BY <2>4
  <2> HIDE DEF U
  <2>6. Cardinality(U) = 1
    <3>1. Cardinality({} \cup {exp(Walk[k])}) = 0 + 1
      BY FS_EmptySet, FS_AddElement
    <3> QED BY <2>5, <3>1
  <2>7. MetAt(D, k)
    BY <1>3, <1>6, <2>1, <2>3, <2>6 DEF MetAt, U, j
  <2> QED BY <1>5, <2>7
<1>10. CASE j # 0 /\ MetAt(D, j)
  <2> DEFINE a == Walk[j]
             b == Walk[k]
             C == {x \in D : exp(x) > exp(a)}
  <2>1. a \in D /\ Cardinality(ExpsTo(D, a)) = j /\ a # HeadTerm
    BY <1>2, <1>10 DEF MetAt
  <2>2. b = Lowest(C)
    BY <1>1, <1>7, <2>1 DEF Following
  <2>3. b \in C /\ \A x \in C : exp(b) <= exp(x)
    <3>1. \A x \in C : exp(x) \in Nat
      BY <1>2
    <3>2. b # NoTerm
      BY <1>5
    <3> HIDE DEF C, b
    <3> QED BY <2>2, <3>1, <3>2, LowestIs
  <2> HIDE DEF a, b
  <2>4. b \in D /\ exp(a) < exp(b) /\ exp(a) \in Nat /\ exp(b) \in Nat
    BY <1>2, <2>1, <2>3
  <2>5. ExpsTo(D, b) = ExpsTo(D, a) \cup {exp(b)} /\ exp(b) \notin ExpsTo(D, a)
    <3>1. ASSUME NEW x \in D PROVE exp(x) <= exp(b) <=> exp(x) <= exp(a) \/ exp(x) = exp(b)
      <4>1. exp(x) \in Nat
        BY <1>2
      <4>2. exp(x) > exp(a) => exp(b) <= exp(x)
        BY <2>3
      <4> QED BY <2>4, <4>1, <4>2
    <3>2. \A e : e \in ExpsTo(D, b) <=> \E x \in D : exp(x) <= exp(b) /\ e = exp(x)
      BY DEF ExpsTo
    <3>3. \A e : e \in ExpsTo(D, a) <=> \E x \in D : exp(x) <= exp(a) /\ e = exp(x)
      BY DEF ExpsTo
    <3>4. ASSUME NEW e PROVE e \in ExpsTo(D, b) <=> e \in ExpsTo(D, a) \/ e = exp(b)
      BY <2>4, <3>1, <3>2, <3>3
    <3>5. exp(b) \notin ExpsTo(D, a)
      BY <2>4, <3>3
    <3> QED BY <3>4, <3>5
  <2>6. IsFiniteSet(ExpsTo(D, a))
    <3>1. ExpsTo(D, a) \in SUBSET Exponents
      BY <1>2 DEF ExpsTo
    <3> QED BY <3>1, PolyAssumption, FS_Subset
  <2>7. Cardinality(ExpsTo(D, b)) = k
    BY <1>6, <2>1, <2>5, <2>6, FS_AddElement
  <2>8. MetAt(D, k)
    <3>1. /\ Walk[k] \in D /\ exp(Walk[j]) < exp(Walk[k]) /\ Walk[j] \in D
          /\ Cardinality(ExpsTo(D, Walk[k])) = k /\ Walk[j] # NoTerm
      BY <1>7, <2>1, <2>4, <2>7 DEF a, b
    <3> QED BY <3>1 DEF MetAt, j
  <2> QED BY <1>5, <2>8
<1> QED BY <1>8, <1>9, <1>10

\* So it meets at most as many nodes as there are exponents.
LEMMA WalkIsShort ==
    ASSUME PolyTypeOK, NEW D, IsSum(D, xnext)
    PROVE  /\ Cardinality(Exponents) \in Nat
           /\ \A k \in Nat \ {0} : Walk[k] # NoTerm => k <= Cardinality(Exponents)
<1>1. IsFiniteSet(Exponents) /\ Cardinality(Exponents) \in Nat
  BY PolyAssumption, FS_CardinalityType
<1>2. ASSUME NEW k \in Nat \ {0}, Walk[k] # NoTerm PROVE k <= Cardinality(Exponents)
  <2>1. Cardinality(ExpsTo(D, Walk[k])) = k
    BY <1>2, WalkGoesUp DEF MetAt
  <2>2. ExpsTo(D, Walk[k]) \in SUBSET Exponents
    <3>1. \A x \in PolyNodes : exp(x) \in Exponents
      BY NodesAre DEF PolyNodes
    <3> QED BY <3>1 DEF ExpsTo, IsSum
  <2> QED BY <1>1, <2>1, <2>2, FS_Subset
<1> QED BY <1>1, <1>2

\* And no node of the list is passed over.
LEMMA WalkMeetsAll ==
    ASSUME PolyTypeOK, NEW D, IsSum(D, xnext), NEW d \in D
    PROVE  \E k \in Nat \ {0} : Walk[k] = d
<1>1. /\ D \in SUBSET PolyNodes /\ Distinct(D)
      /\ \A x \in D \cup {HeadTerm} : xnext[x] = Following(D, x)
  BY DEF IsSum
<1>2. \A x \in D : exp(x) \in Nat /\ x # HeadTerm /\ x # NoTerm
  <2>1. \A x \in PolyNodes : exp(x) \in Nat /\ x # HeadTerm /\ x # NoTerm
    BY NodesAre DEF PolyNodes
  <2> QED BY <1>1, <2>1
<1>3. /\ Walk[0] = HeadTerm /\ HeadTerm # NoTerm
      /\ \A k \in Nat : Walk[k + 1] = IF Walk[k] = NoTerm THEN NoTerm ELSE xnext[Walk[k]]
  BY WalkIs, NodesAre
<1> DEFINE S == {k \in Nat : k # 0 /\ (Walk[k] # NoTerm => exp(d) <= exp(Walk[k]))}
<1>4. S # {}
  <2>1. Cardinality(Exponents) + 1 \in S
    <3>1. Cardinality(Exponents) + 1 \in Nat \ {0} /\ ~ (Cardinality(Exponents) + 1 <= Cardinality(Exponents))
      BY WalkIsShort
    <3> QED BY <3>1, WalkIsShort
  <2> QED BY <2>1
<1>5. PICK k \in S : \A i \in S : k <= i
  <2>1. S \in SUBSET Nat
    OBVIOUS
  <2> HIDE DEF S
  <2> QED BY <1>4, <2>1, Least
<1> DEFINE j == k - 1
<1>6. k \in Nat \ {0} /\ j \in Nat /\ j + 1 = k /\ j < k
  BY <1>5
<1>7. Walk[k] # NoTerm => exp(d) <= exp(Walk[k])
  BY <1>5
<1> HIDE DEF j
<1>8. j = 0 \/ (Walk[j] # NoTerm /\ ~ (exp(d) <= exp(Walk[j])))
  <2>1. j \notin S
    <3> HIDE DEF S
    <3> QED BY <1>5, <1>6
  <2> QED BY <1>6, <2>1
<1>9. Walk[j] # NoTerm /\ Walk[j] \in D \cup {HeadTerm}
  <2>1. CASE j = 0
    BY <1>3, <2>1
  <2>2. CASE j # 0
    <3>1. j \in Nat \ {0} /\ Walk[j] # NoTerm
      BY <1>6, <1>8, <2>2
    <3> QED BY <3>1, WalkGoesUp DEF MetAt
  <2> QED BY <2>1, <2>2
<1> DEFINE C == IF Walk[j] = HeadTerm THEN D ELSE {x \in D : exp(x) > exp(Walk[j])}
<1>10. Walk[k] = Lowest(C)
  BY <1>1, <1>3, <1>6, <1>9 DEF Following
<1>11. d \in C /\ C \subseteq D
  <2>1. CASE Walk[j] = HeadTerm
    BY <2>1
  <2>2. CASE Walk[j] # HeadTerm
    <3>1. j # 0
      BY <1>3, <2>2
    <3>2. exp(d) \in Nat /\ exp(Walk[j]) \in Nat
      BY <1>2, <1>9, <2>2
    <3> QED BY <1>8, <2>2, <3>1, <3>2
  <2> QED BY <2>1, <2>2
<1> HIDE DEF C
<1>12. Walk[k] \in C /\ exp(Walk[k]) <= exp(d)
  BY <1>2, <1>10, <1>11, LowestIs
<1>13. exp(Walk[k]) = exp(d)
  BY <1>2, <1>7, <1>11, <1>12
<1> QED BY <1>1, <1>6, <1>11, <1>12, <1>13 DEF Distinct

\* The list of the sum, read as its readers do.
LEMMA SumIsMerged ==
    ASSUME PolyInv
    PROVE  SumIsRight
<1> SUFFICES ASSUME r = NoTerm PROVE SumIsRight
  BY DEF SumIsRight
<1> DEFINE result == {k \in 1 .. 1 + 2 * Cardinality(Exponents) : Walk[k] # NoTerm}
           Sums == {<<e, Given(1, e) + Given(2, e)>> :
                      e \in {x \in Exponents : Given(1, x) + Given(2, x) # 0}}
<1>1. PolyTypeOK
  BY DEF PolyInv
<1>2. PICK D \in SUBSET PolyNodes : IsSum(D, xnext)
  BY DEF PolyInv, Merging, Merged
<1>3. \A k : k \in result <=> k \in Nat \ {0} /\ Walk[k] # NoTerm
  <2>1. /\ Cardinality(Exponents) \in Nat
        /\ \A k \in Nat \ {0} : Walk[k] # NoTerm => k <= Cardinality(Exponents)
    BY <1>1, <1>2, WalkIsShort
  <2> QED BY <2>1
<1> HIDE DEF result
<1>4. \A k \in result : k \in Nat \ {0} /\ MetAt(D, k)
  BY <1>1, <1>2, <1>3, WalkGoesUp
<1>5. ASSUME NEW k \in result, k + 1 \in result PROVE exp(Walk[k]) < exp(Walk[k + 1])
  <2>1. MetAt(D, k + 1) /\ (k + 1) - 1 = k /\ Walk[k] \in D
    BY <1>4, <1>5 DEF MetAt
  <2>2. Walk[k] # HeadTerm
    BY <1>1, <1>2, <2>1, NodesAre
  <2> QED BY <2>1, <2>2 DEF MetAt
<1>6. ASSUME NEW k \in result PROVE <<exp(Walk[k]), coef[Walk[k]]>> \in Sums
  <2>1. Walk[k] \in D /\ Walk[k] \in PolyNodes
    BY <1>2, <1>4 DEF MetAt
  <2>2. coef[Walk[k]] = SumAt(exp(Walk[k])) /\ SumAt(exp(Walk[k])) # 0
    BY <1>2, <2>1 DEF IsSum
  <2>3. exp(Walk[k]) \in Exponents
    BY <1>1, <2>1, NodesAre DEF PolyNodes
  <2> QED BY <2>2, <2>3 DEF SumAt
<1>7. ASSUME NEW e \in Exponents, SumAt(e) # 0
      PROVE  \E k \in result : <<e, SumAt(e)>> = <<exp(Walk[k]), coef[Walk[k]]>>
  <2>1. PICK i \in {1, 2} : Given(i, e) # 0
    BY <1>7 DEF SumAt
  <2>2. e \in DOMAIN terms[i]
    BY <2>1 DEF Given
  <2>3. <<i, e>> \in PolyNodes /\ exp(<<i, e>>) = e
    BY <1>1, <2>2, NodesAre DEF PolyNodes
  <2>4. PICK d \in D : exp(d) = e
    BY <1>2, <1>7, <2>3 DEF IsSum
  <2>5. PICK k \in Nat \ {0} : Walk[k] = d
    BY <1>1, <1>2, WalkMeetsAll
  <2>6. d # NoTerm
    BY <1>1, <1>2, NodesAre
  <2>7. k \in result
    BY <1>3, <2>5, <2>6
  <2>8. coef[d] = SumAt(e)
    BY <1>2, <2>4 DEF IsSum
  <2> QED BY <2>4, <2>5, <2>7, <2>8
<1>8. {<<exp(Walk[k]), coef[Walk[k]]>> : k \in result} = Sums
  <2>1. \A e \in {x \in Exponents : Given(1, x) + Given(2, x) # 0} :
          \E k \in result : <<e, Given(1, e) + Given(2, e)>> = <<exp(Walk[k]), coef[Walk[k]]>>
    BY <1>7 DEF SumAt
  <2>2. \A s \in Sums : \E k \in result : s = <<exp(Walk[k]), coef[Walk[k]]>>
    BY <2>1
  <2> HIDE DEF Sums
  <2> QED BY <1>6, <2>2
<1> QED BY <1>5, <1>8 DEF SumIsRight, result

\* Whatever the two polynomials are, with whatever terms cancelling, the merged list is
\* their sum (poly.c).
THEOREM SumRight == SpecStructures => []SumIsRight
<1>1. InitStructures => PolyInv
  BY PolyBegins DEF InitStructures, Begins
<1>2. PolyInv /\ [NextStructures]_structureVars => PolyInv'
  <2> SUFFICES ASSUME PolyInv, [NextStructures]_structureVars PROVE PolyInv'
    OBVIOUS
  <2>1. CASE OnPoly(PolyNext)
    BY <2>1, PolyKept DEF OnPoly
  <2>2. CASE UNCHANGED polyVars
    <3>1. terms' = terms /\ coef' = coef /\ xnext' = xnext /\ p' = p /\ q' = q /\ r' = r
      BY <2>2 DEF polyVars
    <3>2. PolyStays
      BY <3>1, GivenStay
    <3>3. PolyTypeOK'
      BY <3>1, <3>2 DEF PolyInv, PolyTypeOK, PolyStays
    <3>4. ASSUME NEW D, Merging(D) PROVE Merging(D)'
      <4>1. Settled(Onward(1, p) \cup Onward(2, q), D, coef)'
        BY <3>1, <3>2, <3>4 DEF Merging, Settled, PolyStays
      <4> QED BY <3>1, <3>2, <3>4, <4>1 DEF Merging, PolyStays
    <3>5. ASSUME NEW D, Merged(D) PROVE Merged(D)'
      <4>1. IsSum(D, xnext)'
        BY <3>1, <3>2, <3>5 DEF Merged, IsSum, PolyStays
      <4> QED BY <3>1, <3>5, <4>1 DEF Merged, Both
    <3> QED BY <3>2, <3>3, <3>4, <3>5 DEF PolyInv, PolyStays
  <2>3. CASE OnArray(ArrayPrograms, ArrayNext) \/ OnChain({"nohead"}, NoHeadNext)
             \/ OnChain({"head"}, HeadNext) \/ OnChain(Rings, LlistNext)
             \/ OnClock(Turn) \/ OnRing(Kill)
             \/ OnTree(TreeNext) \/ OnTrie(TrieNext) \/ OnFile(SaveNext) \/ UNCHANGED structureVars
    BY <2>2, <2>3 DEF OnArray, OnChain, OnClock, OnRing, OnTree, OnTrie, OnFile, structureVars
  <2> QED BY <2>1, <2>3 DEF NextStructures
<1>3. PolyInv => SumIsRight
  BY SumIsMerged
<1> QED BY <1>1, <1>2, <1>3, PTL DEF SpecStructures

-----------------------------------------------------------------------------
(* The dictionary *)

LEMMA PrefixesAre ==
    ASSUME NEW S, NEW w \in Seq(S)
    PROVE  /\ w \in Prefixes(w)
           /\ \A v \in Prefixes(w) : /\ v \in Seq(S) /\ Len(v) \in 0 .. Len(w) /\ IsPrefix(v, w)
                                     /\ Prefixes(v) \subseteq Prefixes(w)
                                     /\ (Len(v) = Len(w) => v = w)
                                     /\ \A u \in Prefixes(v) : Len(u) <= Len(v)
<1>0. Len(w) \in Nat /\ Len(w) \in 0 .. Len(w)
  BY LenProperties
<1>a. SubSeq(w, 1, Len(w)) = w
  BY <1>0
<1>1. w \in Prefixes(w)
  BY <1>0, <1>a, Zenon DEF Prefixes
<1>2. ASSUME NEW v \in Prefixes(w)
      PROVE  /\ v \in Seq(S) /\ Len(v) \in 0 .. Len(w) /\ IsPrefix(v, w)
             /\ Prefixes(v) \subseteq Prefixes(w)
             /\ (Len(v) = Len(w) => v = w)
             /\ \A u \in Prefixes(v) : Len(u) <= Len(v)
  <2>1. PICK l \in 0 .. Len(w) : v = SubSeq(w, 1, l)
    BY DEF Prefixes
  <2>2. v \in Seq(S) /\ Len(v) = l /\ \A i \in 1 .. l : v[i] = w[i]
    BY <1>0, <2>1
  <2>3. ASSUME NEW k \in 0 .. l
        PROVE  SubSeq(v, 1, k) = SubSeq(w, 1, k) /\ Len(SubSeq(v, 1, k)) = k /\ k \in 0 .. Len(w)
    <3>1. SubSeq(v, 1, k) \in Seq(S) /\ Len(SubSeq(v, 1, k)) = k /\ \A i \in 1 .. k : SubSeq(v, 1, k)[i] = v[i]
      BY <1>0, <2>2
    <3>2. SubSeq(w, 1, k) \in Seq(S) /\ Len(SubSeq(w, 1, k)) = k /\ \A i \in 1 .. k : SubSeq(w, 1, k)[i] = w[i]
      BY <1>0
    <3>3. \A i \in 1 .. k : SubSeq(v, 1, k)[i] = SubSeq(w, 1, k)[i]
      BY <2>2, <3>1, <3>2
    <3>4. SubSeq(v, 1, k) = SubSeq(w, 1, k)
      BY <3>1, <3>2, <3>3, SeqEqual
    <3> QED BY <1>0, <3>1, <3>4
  <2>4. IsPrefix(v, w)
    <3>1. SubSeq(v, 1, l) = SubSeq(w, 1, l)
      BY <1>0, <2>3
    <3> QED BY <1>0, <2>2, <3>1 DEF IsPrefix
  <2>5. Prefixes(v) \subseteq Prefixes(w) /\ \A u \in Prefixes(v) : Len(u) <= Len(v)
    <3>1. ASSUME NEW u \in Prefixes(v) PROVE u \in Prefixes(w) /\ Len(u) <= Len(v)
      <4>1. PICK k \in 0 .. l : u = SubSeq(v, 1, k)
        BY <2>2 DEF Prefixes
      <4>2. u = SubSeq(w, 1, k) /\ Len(u) = k /\ k \in 0 .. Len(w)
        BY <2>3, <4>1
      <4> QED BY <2>2, <4>2 DEF Prefixes
    <3> QED BY <3>1
  <2>6. Len(v) = Len(w) => v = w
    BY <1>a, <2>1, <2>2
  <2> QED BY <2>1, <2>2, <2>4, <2>5, <2>6
<1> QED BY <1>1, <1>2

\* The nodes are closed under prefixes; those of words entered hold their
\* descriptions, the others the empty one.
TrieInv ==
    /\ DOMAIN entered \subseteq DOMAIN nodes
    /\ \A w \in DOMAIN entered : nodes[w] = entered[w]
    /\ \A v \in DOMAIN nodes : v \notin DOMAIN entered => nodes[v] = Empty
    /\ \A v \in DOMAIN nodes : Prefixes(v) \subseteq DOMAIN nodes
    /\ ~TrieFails => \A v \in DOMAIN nodes : \E w \in DOMAIN entered : IsPrefix(v, w)

LEMMA GrownIs ==
    ASSUME TrieInv, NEW w \in Words, NEW n \in Int
    PROVE  LET more == {v \in Prefixes(w) : Len(v) < n}
           IN  /\ DOMAIN Grown(w, n) = DOMAIN nodes \cup more
               /\ \A v \in DOMAIN nodes : Grown(w, n)[v] = nodes[v]
               /\ \A v \in more : v \notin DOMAIN nodes => Grown(w, n)[v] = Empty
               /\ \A v \in DOMAIN nodes \cup more : Prefixes(v) \subseteq DOMAIN nodes \cup more
<1> DEFINE more == {v \in Prefixes(w) : Len(v) < n}
<1>1. w \in Seq(STRING)
  BY TrieAssumption
<1>2. ASSUME NEW v \in more PROVE Prefixes(v) \subseteq more
  <2>1. /\ Len(v) \in 0 .. Len(w) /\ Prefixes(v) \subseteq Prefixes(w)
        /\ \A u \in Prefixes(v) : Len(u) <= Len(v)
    BY <1>1, PrefixesAre
  <2>2. ASSUME NEW u \in Prefixes(v) PROVE u \in Prefixes(w) /\ Len(u) < n
    <3>1. u \in Prefixes(w) /\ Len(u) <= Len(v) /\ Len(v) < n /\ Len(u) \in 0 .. Len(w)
      BY <1>1, <2>1, PrefixesAre
    <3>2. Len(w) \in Nat
      BY <1>1
    <3> QED BY <2>1, <3>1, <3>2
  <2> QED BY <2>2
<1> QED BY <1>2 DEF Grown, TrieInv

LEMMA TrieKept ==
    ASSUME TrieInv, TrieNext
    PROVE  TrieInv'
<1>1. CASE ReadWord
  <2>1. PICK w \in Words, d \in Descs :
            /\ nodes' = [Grown(w, Len(w) + 1) EXCEPT ![w] = d]
            /\ entered' = [x \in DOMAIN entered \cup {w} |-> IF x = w THEN d ELSE entered[x]]
    BY <1>1 DEF ReadWord
  <2>2. w \in Seq(STRING) /\ Len(w) \in Nat
    BY TrieAssumption
  <2>3. {v \in Prefixes(w) : Len(v) < Len(w) + 1} = Prefixes(w) /\ w \in Prefixes(w)
    <3>1. \A v \in Prefixes(w) : Len(v) < Len(w) + 1
      <4> TAKE v \in Prefixes(w)
      <4>1. Len(v) \in 0 .. Len(w)
        BY <2>2, PrefixesAre
      <4> QED BY <2>2, <4>1
    <3> QED BY <2>2, <3>1, PrefixesAre
  <2> DEFINE g == Grown(w, Len(w) + 1)
  <2>4. /\ DOMAIN g = DOMAIN nodes \cup Prefixes(w)
        /\ \A v \in DOMAIN nodes : g[v] = nodes[v]
        /\ \A v \in Prefixes(w) : v \notin DOMAIN nodes => g[v] = Empty
        /\ \A v \in DOMAIN nodes \cup Prefixes(w) : Prefixes(v) \subseteq DOMAIN nodes \cup Prefixes(w)
    <3> DEFINE more == {v \in Prefixes(w) : Len(v) < Len(w) + 1}
    <3>1. Len(w) + 1 \in Int
      BY <2>2
    <3>2. /\ DOMAIN g = DOMAIN nodes \cup more
          /\ \A v \in DOMAIN nodes : g[v] = nodes[v]
          /\ \A v \in more : v \notin DOMAIN nodes => g[v] = Empty
          /\ \A v \in DOMAIN nodes \cup more : Prefixes(v) \subseteq DOMAIN nodes \cup more
      BY <3>1, GrownIs
    <3>3. more = Prefixes(w)
      BY <2>3
    <3> HIDE DEF more, g
    <3> QED BY <3>2, <3>3
  <2> HIDE DEF g
  <2>5. /\ DOMAIN nodes' = DOMAIN nodes \cup Prefixes(w)
        /\ nodes'[w] = d /\ \A v \in DOMAIN nodes' : v # w => nodes'[v] = g[v]
    BY <2>1, <2>3, <2>4 DEF g
  <2>6. /\ DOMAIN entered' = DOMAIN entered \cup {w}
        /\ entered'[w] = d /\ \A v \in DOMAIN entered : v # w => entered'[v] = entered[v]
    BY <2>1
  <2>7. ~TrieFails => \A v \in DOMAIN nodes' : \E x \in DOMAIN entered' : IsPrefix(v, x)
    <3>1. \A v \in Prefixes(w) : IsPrefix(v, w)
      BY <2>2, PrefixesAre
    <3> QED BY <2>5, <2>6, <3>1 DEF TrieInv
  <2>8. \A v \in DOMAIN nodes' : v \notin DOMAIN entered' => nodes'[v] = Empty
    BY <2>4, <2>5, <2>6 DEF TrieInv
  <2>9. DOMAIN entered' \subseteq DOMAIN nodes' /\ \A v \in DOMAIN entered' : nodes'[v] = entered'[v]
    BY <2>3, <2>4, <2>5, <2>6 DEF TrieInv
  <2> QED BY <2>4, <2>5, <2>7, <2>8, <2>9 DEF TrieInv
<1>2. CASE ReadWordFails
  <2>1. PICK w \in Words, n \in Int : TrieFails /\ nodes' = Grown(w, n) /\ entered' = entered
    BY <1>2 DEF ReadWordFails
  <2> DEFINE more == {v \in Prefixes(w) : Len(v) < n}
  <2>2. /\ DOMAIN nodes' = DOMAIN nodes \cup more
        /\ \A v \in DOMAIN nodes : nodes'[v] = nodes[v]
        /\ \A v \in more : v \notin DOMAIN nodes => nodes'[v] = Empty
        /\ \A v \in DOMAIN nodes \cup more : Prefixes(v) \subseteq DOMAIN nodes \cup more
    BY <2>1, GrownIs
  <2> HIDE DEF more
  <2> QED BY <2>1, <2>2 DEF TrieInv
<1>3. CASE Dies
  BY <1>3 DEF Dies, TrieInv
<1>4. CASE ReadOther
  BY <1>4 DEF ReadOther, TrieInv
<1> QED BY <1>1, <1>2, <1>3, <1>4 DEF TrieNext

\* As long as the lines read had keys of letters, whatever words they were: find gives a
\* word's last description, and nothing for what was never entered (or the empty one, on
\* the way to another); without failures of malloc every node is on the way to a word,
\* and none hangs in the air (trie.c).
THEOREM DictionaryRight == SpecStructures => []DictionaryIsRight
<1>1. InitStructures => TrieInv
  BY DEF InitStructures, Begins, TrieInit, Nothing, TrieInv
<1>2. TrieInv /\ [NextStructures]_structureVars => TrieInv'
  <2> SUFFICES ASSUME TrieInv, [NextStructures]_structureVars PROVE TrieInv'
    OBVIOUS
  <2>1. CASE OnTrie(TrieNext)
    BY <2>1, TrieKept DEF OnTrie
  <2>2. CASE UNCHANGED trieVars
    BY <2>2 DEF trieVars, TrieInv
  <2> QED BY <2>1, <2>2 DEF NextStructures, OnArray, OnChain, OnClock, OnRing, OnPoly, OnTree, OnFile,
                          structureVars
<1>3. TrieInv => DictionaryIsRight
  <2> SUFFICES ASSUME TrieInv PROVE DictionaryIsRight
    OBVIOUS
  <2>1. ASSUME NEW w \in Words
        PROVE  IF w \in DOMAIN entered THEN FindWord(w) = <<entered[w]>>
               ELSE FindWord(w) \in {<<>>, <<Empty>>}
    BY DEF TrieInv, FindWord
  <2> QED BY <2>1 DEF TrieInv, DictionaryIsRight
<1> QED BY <1>1, <1>2, <1>3, PTL DEF SpecStructures

-----------------------------------------------------------------------------
(* The tree kept in a file *)

\* The functions of G on A, as turn unfolds them, take at x no values but those at what
\* ranks above x; from top on they take none.
Unfolds(A, V, G, turn, rank, top) ==
    /\ G \in SUBSET [A -> V] /\ turn \in [G -> G]
    /\ rank \in [A -> Nat] /\ top \in Nat
    /\ \A f, g \in G : \A x \in A :
        (rank[x] >= top \/ \A y \in A : rank[y] > rank[x] => f[y] = g[y]) => turn[f][x] = turn[g][x]

\* So there is one that turn leaves as it is.
LEMMA Fixpoint ==
    ASSUME NEW A, NEW V, NEW G, NEW turn, NEW rank, NEW top, NEW h \in G,
           Unfolds(A, V, G, turn, rank, top)
    PROVE  \E g \in G : turn[g] = g
<1>0. /\ G \in SUBSET [A -> V] /\ turn \in [G -> G]
      /\ rank \in [A -> Nat] /\ top \in Nat
  BY DEF Unfolds
<1> DEFINE F == [k \in Nat |-> turn]
<1>1. PICK H : H \in [Nat -> G] /\ \A k \in Nat : H[k + 1] = turn[H[k]]
  <2>1. F \in [Nat -> [G -> G]] /\ \A k \in Nat : F[k] = turn
    BY <1>0
  <2> HIDE DEF F
  <2>2. PICK H : IsRecursion(H, G, F, h)
    BY <2>1, Recursion
  <2> QED BY <2>1, <2>2 DEF IsRecursion
<1> DEFINE Stays(k) == \A x \in A : rank[x] + k >= top => H[k + 2][x] = H[k + 1][x]
           S == {k \in Nat : ~Stays(k)}
<1>2. S = {}
  <2> SUFFICES ASSUME S # {} PROVE FALSE
    OBVIOUS
  <2>1. PICK k \in S : \A j \in S : k <= j
    <3>1. S \in SUBSET Nat
      OBVIOUS
    <3> HIDE DEF S
    <3> QED BY <3>1, Least
  <2>2. k \in Nat /\ H[k + 2] = turn[H[k + 1]] /\ H[k + 1] = turn[H[k]]
        /\ H[k] \in G /\ H[k + 1] \in G
    <3>1. k \in Nat /\ k + 1 \in Nat /\ (k + 1) + 1 = k + 2
      BY <2>1
    <3> QED BY <1>0, <1>1, <3>1
  <2>3. ASSUME NEW f \in G, NEW g \in G, NEW x \in A,
               rank[x] >= top \/ \A y \in A : rank[y] > rank[x] => f[y] = g[y]
        PROVE  turn[f][x] = turn[g][x]
    BY <2>3, Zenon DEF Unfolds
  <2>4. ASSUME NEW x \in A, rank[x] + k >= top PROVE H[k + 2][x] = H[k + 1][x]
    <3>1. CASE k = 0
      <4>1. rank[x] >= top
        BY <1>0, <2>4, <3>1
      <4>2. turn[H[k + 1]][x] = turn[H[k]][x]
        BY <2>2, <2>3, <4>1
      <4> QED BY <2>2, <4>2
    <3>2. CASE k # 0
      <4>1. k - 1 \in Nat /\ ~ (k <= k - 1) /\ (k - 1) + 2 = k + 1 /\ (k - 1) + 1 = k
        BY <2>2, <3>2
      <4>2. Stays(k - 1)
        <5>1. k - 1 \notin S
          <6> HIDE DEF S
          <6> QED BY <2>1, <4>1
        <5> QED BY <4>1, <5>1
      <4>3. \A y \in A : rank[y] > rank[x] => H[k + 1][y] = H[k][y]
        <5> TAKE y \in A
        <5>1. rank[y] \in Nat /\ rank[x] \in Nat
          BY <1>0
        <5>2. rank[y] > rank[x] => rank[y] + (k - 1) >= top
          BY <1>0, <2>2, <2>4, <5>1
        <5> QED BY <4>1, <4>2, <5>2
      <4>4. turn[H[k + 1]][x] = turn[H[k]][x]
        BY <2>2, <2>3, <4>3
      <4> QED BY <2>2, <4>4
    <3> QED BY <3>1, <3>2
  <2> QED BY <2>1, <2>4
<1>3. Stays(top)
  <2> HIDE DEF Stays
  <2> QED BY <1>0, <1>2
<1>4. \A x \in A : H[top + 2][x] = H[top + 1][x]
  BY <1>0, <1>3
<1>5. H[top + 1] \in G /\ H[top + 2] = turn[H[top + 1]] /\ H[top + 2] \in G
  <2>1. top + 1 \in Nat /\ (top + 1) + 1 = top + 2 /\ top + 2 \in Nat
    BY <1>0
  <2> QED BY <1>0, <1>1, <2>1
<1>6. H[top + 2] = H[top + 1]
  <2>1. H[top + 2] \in [A -> V] /\ H[top + 1] \in [A -> V]
    BY <1>0, <1>5
  <2> QED BY <1>4, <2>1
<1> QED BY <1>5, <1>6

Sides == {"l", "r"}

\* A tree as save_load has it: its nodes are the ways to them, each with a character,
\* and there is a node on every way to one.
IsTree(t) ==
    /\ t \in [DOMAIN t -> Chars] /\ DOMAIN t \subseteq Ways
    /\ \A v \in Ways : \A w \in Ways : v \o w \in DOMAIN t => v \in DOMAIN t
    /\ \E n \in Nat : \A v \in DOMAIN t : Len(v) < n

LEMMA WaysAre ==
    /\ <<>> \in Ways /\ Len(<<>>) = 0
    /\ \A v \in Ways : Len(v) \in Nat /\ \A s \in Sides : To(v, s) \in Ways /\ Len(To(v, s)) = Len(v) + 1
    /\ \A v \in Ways, w \in Ways : v \o w \in Ways /\ Len(v \o w) = Len(v) + Len(w)
<1>1. <<>> \in Ways /\ Len(<<>>) = 0
  BY EmptySeq DEF Ways
<1>2. \A v \in Ways : Len(v) \in Nat /\ \A s \in Sides : To(v, s) \in Ways /\ Len(To(v, s)) = Len(v) + 1
  BY AppendProperties, LenProperties DEF Ways, Sides, To
<1>3. \A v \in Ways, w \in Ways : v \o w \in Ways /\ Len(v \o w) = Len(v) + Len(w)
  BY ConcatProperties DEF Ways
<1> QED BY <1>1, <1>2, <1>3

\* g has a value for each way, made in the tree of those for the ways one further.
MadeBy(t, V, base, join, g) ==
    /\ g \in [Ways -> V]
    /\ \A v \in Ways :
          g[v] = IF v \notin DOMAIN t THEN base[v] ELSE join[v][g[To(v, "l")]][g[To(v, "r")]]

LEMMA TreeRecursion ==
    ASSUME NEW t, IsTree(t), NEW V, NEW base \in [Ways -> V], NEW join \in [Ways -> [V -> [V -> V]]]
    PROVE  \E g : MadeBy(t, V, base, join, g)
<1> DEFINE G == [Ways -> V]
           Turned(f) == [v \in Ways |-> IF v \notin DOMAIN t THEN base[v]
                                        ELSE join[v][f[To(v, "l")]][f[To(v, "r")]]]
           turn == [f \in G |-> Turned(f)]
           rank == [v \in Ways |-> Len(v)]
<1>1. PICK n \in Nat : \A v \in DOMAIN t : Len(v) < n
  BY DEF IsTree
<1>2. \A v \in Ways : Len(v) \in Nat /\ To(v, "l") \in Ways /\ To(v, "r") \in Ways
                      /\ Len(To(v, "l")) = Len(v) + 1 /\ Len(To(v, "r")) = Len(v) + 1
  BY WaysAre DEF Sides
<1>9. ASSUME NEW v \in Ways
      PROVE  /\ rank[v] \in Nat /\ rank[To(v, "l")] = rank[v] + 1 /\ rank[To(v, "r")] = rank[v] + 1
             /\ v \in DOMAIN t => rank[v] < n
  <2>1. rank[v] = Len(v) /\ rank[To(v, "l")] = Len(To(v, "l")) /\ rank[To(v, "r")] = Len(To(v, "r"))
    BY <1>2
  <2> HIDE DEF rank
  <2>2. v \in DOMAIN t => Len(v) < n
    BY <1>1
  <2> QED BY <1>2, <2>1, <2>2
<1>3. \A f \in G : Turned(f) \in G
  BY <1>2
<1>4. turn \in [G -> G] /\ rank \in [Ways -> Nat] /\ G \in SUBSET [Ways -> V] /\ base \in G
  <2> HIDE DEF G, Turned
  <2>1. turn \in [G -> G]
    BY <1>3
  <2> QED BY <1>2, <2>1 DEF G
<1>5. Unfolds(Ways, V, G, turn, rank, n)
  <2> SUFFICES ASSUME NEW f \in G, NEW g \in G, NEW v \in Ways,
                      rank[v] >= n \/ \A y \in Ways : rank[y] > rank[v] => f[y] = g[y]
               PROVE  turn[f][v] = turn[g][v]
    <3> HIDE DEF G, turn, rank
    <3> QED BY <1>4 DEF Unfolds
  <2>1. turn[f] = Turned(f) /\ turn[g] = Turned(g)
    <3> HIDE DEF G, Turned
    <3> QED OBVIOUS
  <2>2. Turned(f)[v] = Turned(g)[v]
    <3>1. CASE v \notin DOMAIN t
      BY <3>1
    <3>2. CASE v \in DOMAIN t
      <4> HIDE DEF rank
      <4>1. ~ (rank[v] >= n)
        BY <1>9, <3>2
      <4>2. rank[To(v, "l")] > rank[v] /\ rank[To(v, "r")] > rank[v]
        BY <1>9
      <4>3. f[To(v, "l")] = g[To(v, "l")] /\ f[To(v, "r")] = g[To(v, "r")]
        BY <1>2, <4>1, <4>2
      <4> QED BY <4>3
    <3> QED BY <3>1, <3>2
  <2> QED BY <2>1, <2>2
<1>6. PICK g \in G : turn[g] = g
  <2> HIDE DEF G, turn, rank
  <2> QED BY <1>4, <1>5, Fixpoint
<1>7. g = Turned(g)
  <2> HIDE DEF G, Turned
  <2> QED BY <1>6
<1>8. \A v \in Ways : g[v] = Turned(g)[v]
  BY <1>7, Zenon
<1> QED BY <1>6, <1>8 DEF MadeBy

\* What holds outside of the tree, and of a node when of both its sides, holds everywhere.
LEMMA TreeInduction ==
    ASSUME NEW t, IsTree(t), NEW C,
           \A v \in Ways : v \notin DOMAIN t \/ (To(v, "l") \in C /\ To(v, "r") \in C) => v \in C
    PROVE  \A v \in Ways : v \in C
<1>1. PICK n \in Nat : \A v \in DOMAIN t : Len(v) < n
  BY DEF IsTree
<1>2. \A v \in Ways : Len(v) \in Nat /\ To(v, "l") \in Ways /\ To(v, "r") \in Ways
                      /\ Len(To(v, "l")) = Len(v) + 1 /\ Len(To(v, "r")) = Len(v) + 1
  BY WaysAre DEF Sides
<1> DEFINE S == {k \in Nat : \E v \in Ways : Len(v) + k >= n /\ v \notin C}
<1>3. S = {}
  <2> SUFFICES ASSUME S # {} PROVE FALSE
    OBVIOUS
  <2>1. PICK k \in S : \A j \in S : k <= j
    <3>1. S \in SUBSET Nat
      OBVIOUS
    <3> HIDE DEF S
    <3> QED BY <3>1, Least
  <2>2. PICK v \in Ways : Len(v) + k >= n /\ v \notin C
    BY <2>1
  <2>3. v \in DOMAIN t /\ Len(v) < n /\ k \in Nat /\ Len(v) \in Nat
    BY <1>1, <1>2, <2>1, <2>2
  <2>4. k - 1 \in Nat /\ ~ (k <= k - 1) /\ (Len(v) + 1) + (k - 1) >= n
    BY <1>1, <2>2, <2>3
  <2>5. k - 1 \notin S
    <3> HIDE DEF S
    <3> QED BY <2>1, <2>4
  <2>6. To(v, "l") \in C /\ To(v, "r") \in C
    BY <1>2, <2>4, <2>5
  <2> QED BY <2>2, <2>6
<1>4. ASSUME NEW v \in Ways PROVE v \in C
  <2>1. n \in Nat /\ n \notin S
    BY <1>1, <1>3
  <2>2. Len(v) + n >= n
    BY <1>1, <1>2
  <2> QED BY <2>1, <2>2
<1> QED BY <1>4

\* What the recursions of insert and save give.
DownBy(t, c) ==
    LET down[v \in Ways] ==
            IF v \notin DOMAIN t THEN v ELSE down[To(v, IF c <= t[v] THEN "l" ELSE "r")]
    IN  down

TextBy(t) ==
    LET text[v \in Ways] ==
            IF v \notin DOMAIN t THEN <<OPEN, CLOSE>>
            ELSE <<OPEN, t[v]>> \o text[To(v, "l")] \o text[To(v, "r")] \o <<CLOSE>>
    IN  text

LEMMA DownIs ==
    ASSUME NEW t, IsTree(t), NEW c \in Chars, NEW v \in Ways
    PROVE  DownBy(t, c)[v] =
              IF v \notin DOMAIN t THEN v ELSE DownBy(t, c)[To(v, IF c <= t[v] THEN "l" ELSE "r")]
<1> DEFINE base == [w \in Ways |-> w]
           join == [w \in Ways |-> [a \in Ways |-> [b \in Ways |-> IF c <= t[w] THEN a ELSE b]]]
<1>1. base \in [Ways -> Ways] /\ \A w \in Ways : base[w] = w
  OBVIOUS
<1>2. /\ join \in [Ways -> [Ways -> [Ways -> Ways]]]
      /\ \A w, a, b \in Ways : join[w][a][b] = IF c <= t[w] THEN a ELSE b
  OBVIOUS
<1> HIDE DEF base, join
<1>3. PICK g : MadeBy(t, Ways, base, join, g)
  BY <1>1, <1>2, TreeRecursion
<1>4. \A w \in Ways : g[w] = IF w \notin DOMAIN t THEN w ELSE g[To(w, IF c <= t[w] THEN "l" ELSE "r")]
  <2> TAKE w \in Ways
  <2>1. To(w, "l") \in Ways /\ To(w, "r") \in Ways
    BY WaysAre DEF Sides
  <2>2. g[To(w, "l")] \in Ways /\ g[To(w, "r")] \in Ways
    BY <1>3, <2>1 DEF MadeBy
  <2>3. CASE w \notin DOMAIN t
    BY <1>1, <1>3, <2>3 DEF MadeBy
  <2>4. CASE w \in DOMAIN t /\ c <= t[w]
    BY <1>2, <1>3, <2>2, <2>4, Zenon DEF MadeBy
  <2>5. CASE w \in DOMAIN t /\ ~ (c <= t[w])
    BY <1>2, <1>3, <2>2, <2>5 DEF MadeBy
  <2> QED BY <2>3, <2>4, <2>5
<1>5. g = [w \in Ways |-> IF w \notin DOMAIN t THEN w ELSE g[To(w, IF c <= t[w] THEN "l" ELSE "r")]]
  <2>1. g \in [Ways -> Ways]
    BY <1>3 DEF MadeBy
  <2> DEFINE G(w) == IF w \notin DOMAIN t THEN w ELSE g[To(w, IF c <= t[w] THEN "l" ELSE "r")]
  <2>2. \A w \in Ways : g[w] = G(w)
    BY <1>4
  <2> HIDE DEF G
  <2>3. g = [w \in Ways |-> G(w)]
    BY <2>1, <2>2
  <2> QED BY <2>3 DEF G
<1> DEFINE down[w \in Ways] ==
        IF w \notin DOMAIN t THEN w ELSE down[To(w, IF c <= t[w] THEN "l" ELSE "r")]
<1>6. down = [w \in Ways |-> IF w \notin DOMAIN t THEN w ELSE down[To(w, IF c <= t[w] THEN "l" ELSE "r")]]
  BY <1>5, ZenonT(60)
<1>7. DownBy(t, c) = down
  BY Zenon DEF DownBy
<1> HIDE DEF down
<1>8. down[v] = IF v \notin DOMAIN t THEN v ELSE down[To(v, IF c <= t[v] THEN "l" ELSE "r")]
  <2> DEFINE G(w) == IF w \notin DOMAIN t THEN w ELSE down[To(w, IF c <= t[w] THEN "l" ELSE "r")]
  <2>1. down = [w \in Ways |-> G(w)]
    BY <1>6
  <2> HIDE DEF G
  <2>2. down[v] = G(v)
    BY <2>1
  <2> QED BY <2>2 DEF G
<1> QED BY <1>7, <1>8

\* A node's place is behind a node of the tree, and free.
LEMMA DownEnds ==
    ASSUME NEW t, IsTree(t), NEW c \in Chars, NEW w, w = DownBy(t, c)[<<>>]
    PROVE  w \in Ways \ DOMAIN t /\ (w = <<>> \/ \E v \in DOMAIN t, s \in Sides : w = To(v, s))
<1> DEFINE d == DownBy(t, c)
           Hung(x) == \E v \in DOMAIN t, s \in Sides : x = To(v, s) /\ To(v, s) \notin DOMAIN t
           C == {v \in Ways : v \in DOMAIN t => Hung(d[v])}
<1>1. \A v \in Ways : d[v] = IF v \notin DOMAIN t THEN v ELSE d[To(v, IF c <= t[v] THEN "l" ELSE "r")]
  BY DownIs
<1>2. DOMAIN t \subseteq Ways /\ "l" \in Sides /\ "r" \in Sides
  BY DEF IsTree, Sides
<1> HIDE DEF d
<1>3. ASSUME NEW v \in Ways, v \notin DOMAIN t \/ (To(v, "l") \in C /\ To(v, "r") \in C) PROVE v \in C
  <2> SUFFICES ASSUME v \in DOMAIN t PROVE Hung(d[v])
    OBVIOUS
  <2>1. PICK s \in Sides : d[v] = d[To(v, s)] /\ To(v, s) \in C /\ To(v, s) \in Ways
    <3>1. To(v, "l") \in C /\ To(v, "r") \in C /\ To(v, "l") \in Ways /\ To(v, "r") \in Ways
      BY <1>2, <1>3, WaysAre
    <3>2. CASE c <= t[v]
      BY <1>1, <1>2, <3>1, <3>2
    <3>3. CASE ~ (c <= t[v])
      BY <1>1, <1>2, <3>1, <3>3
    <3> QED BY <3>2, <3>3
  <2>2. CASE To(v, s) \in DOMAIN t
    BY <2>1, <2>2
  <2>3. CASE To(v, s) \notin DOMAIN t
    BY <1>1, <2>1, <2>3
  <2> QED BY <2>2, <2>3
<1>4. \A v \in Ways : v \in C
  <2> HIDE DEF C
  <2> QED BY <1>3, TreeInduction
<1>5. w = d[<<>>] /\ <<>> \in Ways /\ <<>> \in C
  BY <1>4, WaysAre DEF d
<1>6. CASE <<>> \notin DOMAIN t
  BY <1>1, <1>5, <1>6
<1>7. CASE <<>> \in DOMAIN t
  <2>1. PICK v \in DOMAIN t, s \in Sides : w = To(v, s) /\ To(v, s) \notin DOMAIN t
    BY <1>5, <1>7
  <2> QED BY <1>2, <2>1, WaysAre
<1> QED BY <1>6, <1>7

LEMMA SameFront ==
    ASSUME NEW y \in Ways, NEW z \in Ways, NEW s \in Sides, NEW a \in Sides,
           Append(z, s) = Append(y, a)
    PROVE  z = y
<1>0. y \in Seq(Sides) /\ z \in Seq(Sides)
  BY DEF Ways, Sides
<1>1. Len(z) = Len(y)
  <2>1. Len(Append(z, s)) = Len(z) + 1 /\ Len(Append(y, a)) = Len(y) + 1
    BY <1>0, AppendProperties
  <2> QED BY <1>0, <2>1, LenProperties
<1>2. \A i \in 1 .. Len(z) : z[i] = y[i]
  BY <1>0, <1>1, AppendProperties
<1> QED BY <1>0, <1>1, <1>2, SeqEqual

\* insert makes a tree of a tree.
LEMMA NodeAdded ==
    ASSUME NEW t, IsTree(t), NEW c \in Chars
    PROVE  IsTree(SaveInserted(t, c))
<1> DEFINE w == DownBy(t, c)[<<>>]
           u == SaveInserted(t, c)
<1>1. u = [v \in DOMAIN t \cup {w} |-> IF v \in DOMAIN t THEN t[v] ELSE c]
  BY Zenon DEF SaveInserted, DownBy
<1>2. w \in Ways \ DOMAIN t /\ (w = <<>> \/ \E v \in DOMAIN t, s \in Sides : w = To(v, s))
  BY DownEnds
<1> HIDE DEF w, u
<1>3. /\ t \in [DOMAIN t -> Chars] /\ DOMAIN t \subseteq Ways
      /\ \A v \in Ways : \A x \in Ways : v \o x \in DOMAIN t => v \in DOMAIN t
  BY DEF IsTree
<1>4. PICK n \in Nat : \A v \in DOMAIN t : Len(v) < n
  BY DEF IsTree
<1>5. DOMAIN u = DOMAIN t \cup {w} /\ u \in [DOMAIN t \cup {w} -> Chars] /\ DOMAIN u \subseteq Ways
  BY <1>1, <1>2, <1>3
<1>6. \A v \in DOMAIN u : Len(v) < n + 1
  <2>1. Len(w) < n + 1
    <3>1. CASE w = <<>>
      BY <1>4, <3>1, WaysAre
    <3>2. CASE w # <<>>
      <4>1. PICK v \in DOMAIN t, s \in Sides : w = To(v, s)
        BY <1>2, <3>2
      <4>2. Len(w) = Len(v) + 1 /\ Len(v) < n /\ Len(v) \in Nat
        BY <1>3, <1>4, <4>1, WaysAre
      <4> QED BY <1>4, <4>2
    <3> QED BY <3>1, <3>2
  <2>2. \A v \in DOMAIN t : Len(v) \in Nat /\ Len(v) < n
    BY <1>3, <1>4, WaysAre
  <2> QED BY <1>4, <1>5, <2>1, <2>2
<1>7. ASSUME NEW v \in Ways, NEW x \in Ways, v \o x \in DOMAIN u PROVE v \in DOMAIN u
  <2>1. CASE v \o x \in DOMAIN t
    BY <1>3, <1>5, <2>1
  <2>2. CASE v \o x = w /\ x = <<>>
    <3>1. v \o x = v
      BY <2>2, ConcatEmptySeq DEF Ways
    <3> QED BY <1>5, <2>2, <3>1
  <2>3. CASE v \o x = w /\ x # <<>>
    <3>1. PICK y \in Ways, a \in Sides : x = Append(y, a)
      <4>1. x \in Seq({"l", "r"}) /\ x # <<>>
        BY <2>3 DEF Ways
      <4>2. \E y \in Seq({"l", "r"}), a \in {"l", "r"} : x = Append(y, a)
        BY <4>1, SequenceEmptyOrAppend
      <4> QED BY <4>2 DEF Ways, Sides
    <3>2. w = Append(v \o y, a) /\ v \o y \in Ways
      <4>1. v \o Append(y, a) = Append(v \o y, a)
        BY DEF Ways, Sides
      <4> QED BY <2>3, <3>1, <4>1, WaysAre
    <3>3. w # <<>>
      BY <3>2, AppendProperties DEF Ways, Sides
    <3>4. PICK z \in DOMAIN t, s \in Sides : w = To(z, s)
      BY <1>2, <3>3
    <3>5. z = v \o y
      <4>1. z \in Ways
        BY <1>3
      <4>2. Append(z, s) = Append(v \o y, a)
        BY <3>2, <3>4 DEF To
      <4> QED BY <3>2, <4>1, <4>2, SameFront, Zenon
    <3> QED BY <1>3, <1>5, <3>4, <3>5
  <2> QED BY <1>5, <1>7, <2>1, <2>2, <2>3
<1>8. n + 1 \in Nat
  BY <1>4
<1>9. IsTree(u)
  BY <1>5, <1>6, <1>7, <1>8 DEF IsTree
<1> QED BY <1>9 DEF u

LEMMA TextIs ==
    ASSUME NEW t, IsTree(t), NEW v \in Ways
    PROVE  /\ TextBy(t)[v] =
                 IF v \notin DOMAIN t THEN <<OPEN, CLOSE>>
                 ELSE <<OPEN, t[v]>> \o TextBy(t)[To(v, "l")] \o TextBy(t)[To(v, "r")] \o <<CLOSE>>
           /\ TextBy(t)[v] \in Seq(Int)
<1> DEFINE V == Seq(Int)
           c(w) == IF w \in DOMAIN t THEN t[w] ELSE OPEN
           base == [w \in Ways |-> <<OPEN, CLOSE>>]
           join == [w \in Ways |-> [a \in V |-> [b \in V |-> <<OPEN, c(w)>> \o a \o b \o <<CLOSE>>]]]
<1>0. \A w \in Ways : c(w) \in Int
  BY SaveAssumption DEF IsTree, OPEN
<1>1. base \in [Ways -> V] /\ \A w \in Ways : base[w] = <<OPEN, CLOSE>>
  BY DEF OPEN, CLOSE
<1>2. /\ join \in [Ways -> [V -> [V -> V]]]
      /\ \A w \in Ways : \A a, b \in V : join[w][a][b] = <<OPEN, c(w)>> \o a \o b \o <<CLOSE>>
  <2>1. ASSUME NEW w \in Ways, NEW a \in V, NEW b \in V PROVE <<OPEN, c(w)>> \o a \o b \o <<CLOSE>> \in V
    <3>1. <<OPEN, c(w)>> \in V /\ <<CLOSE>> \in V
      BY <1>0 DEF OPEN, CLOSE
    <3> QED BY <3>1
  <2> HIDE DEF V, c
  <2> QED BY <2>1
<1> HIDE DEF base, join
<1>3. PICK g : MadeBy(t, V, base, join, g)
  <2> HIDE DEF V
  <2> QED BY <1>1, <1>2, TreeRecursion
<1> DEFINE T(h, w) == IF w \notin DOMAIN t THEN <<OPEN, CLOSE>>
                      ELSE <<OPEN, t[w]>> \o h[To(w, "l")] \o h[To(w, "r")] \o <<CLOSE>>
<1>4. \A w \in Ways : g[w] = T(g, w)
  <2> HIDE DEF V
  <2> TAKE w \in Ways
  <2>1. To(w, "l") \in Ways /\ To(w, "r") \in Ways
    BY WaysAre DEF Sides
  <2>2. g[To(w, "l")] \in V /\ g[To(w, "r")] \in V
    BY <1>3, <2>1 DEF MadeBy
  <2>3. CASE w \notin DOMAIN t
    BY <1>1, <1>3, <2>3 DEF MadeBy
  <2>4. CASE w \in DOMAIN t
    <3>1. g[w] = join[w][g[To(w, "l")]][g[To(w, "r")]]
      BY <1>3, <2>4 DEF MadeBy
    <3>2. c(w) = t[w]
      BY <2>4
    <3> HIDE DEF c
    <3>3. g[w] = <<OPEN, c(w)>> \o g[To(w, "l")] \o g[To(w, "r")] \o <<CLOSE>>
      BY <1>2, <2>2, <3>1
    <3>4. T(g, w) = <<OPEN, t[w]>> \o g[To(w, "l")] \o g[To(w, "r")] \o <<CLOSE>>
      BY <2>4
    <3> HIDE DEF T
    <3> QED BY <3>2, <3>3, <3>4
  <2> QED BY <2>3, <2>4
<1>5. g = [w \in Ways |-> T(g, w)]
  <2>1. g \in [Ways -> V]
    BY <1>3 DEF MadeBy
  <2> HIDE DEF T, V
  <2> QED BY <1>4, <2>1
<1> DEFINE text[w \in Ways] ==
        IF w \notin DOMAIN t THEN <<OPEN, CLOSE>>
        ELSE <<OPEN, t[w]>> \o text[To(w, "l")] \o text[To(w, "r")] \o <<CLOSE>>
<1>6. text = [w \in Ways |-> T(text, w)]
  BY <1>5, Zenon
<1>7. TextBy(t) = text
  BY Zenon DEF TextBy
<1> HIDE DEF text
<1>8. \A w \in Ways : text[w] = T(text, w)
  <2> HIDE DEF T
  <2> QED BY <1>6
<1> DEFINE C == {w \in Ways : text[w] \in V}
<1>9. ASSUME NEW w \in Ways, w \notin DOMAIN t \/ (To(w, "l") \in C /\ To(w, "r") \in C)
      PROVE  w \in C
  <2>1. CASE w \notin DOMAIN t
    <3>1. <<OPEN, CLOSE>> \in V
      BY DEF OPEN, CLOSE
    <3> QED BY <1>8, <2>1, <3>1
  <2>2. CASE w \in DOMAIN t
    <3>1. <<OPEN, t[w]>> \in V /\ <<CLOSE>> \in V
      BY <1>0, <2>2 DEF OPEN, CLOSE
    <3>2. text[To(w, "l")] \in V /\ text[To(w, "r")] \in V
      BY <1>9, <2>2
    <3>3. text[w] = <<OPEN, t[w]>> \o text[To(w, "l")] \o text[To(w, "r")] \o <<CLOSE>>
      BY <1>8, <2>2
    <3>4. \A a, b, x, y \in V : x \o a \o b \o y \in V
      OBVIOUS
    <3> HIDE DEF V
    <3>5. <<OPEN, t[w]>> \o text[To(w, "l")] \o text[To(w, "r")] \o <<CLOSE>> \in V
      BY <3>1, <3>2, <3>4, Zenon
    <3> QED BY <3>3, <3>5
  <2> QED BY <2>1, <2>2
<1>10. \A w \in Ways : w \in C
  <2> HIDE DEF C
  <2> QED BY <1>9, TreeInduction
<1> QED BY <1>7, <1>8, <1>10

LEMMA Concats ==
    ASSUME NEW a \in Seq(Int), NEW b \in Seq(Int)
    PROVE  /\ a \o b \in Seq(Int) /\ Len(a) \in Nat /\ Len(b) \in Nat /\ Len(a \o b) = Len(a) + Len(b)
           /\ \A k \in 1 .. Len(a) : (a \o b)[k] = a[k]
           /\ \A k \in 1 .. Len(b) : (a \o b)[Len(a) + k] = b[k]
<1>1. Len(a) \in Nat /\ Len(b) \in Nat
  OBVIOUS
<1>2. PICK x : x = a \o b
  OBVIOUS
<1>3. /\ x \in Seq(Int) /\ Len(x) = Len(a) + Len(b)
      /\ \A i \in 1 .. Len(a) + Len(b) : x[i] = IF i <= Len(a) THEN a[i] ELSE b[i - Len(a)]
  BY <1>2, ConcatProperties
<1>4. ASSUME NEW k \in 1 .. Len(b) PROVE x[Len(a) + k] = b[k]
  <2>1. Len(a) + k \in 1 .. Len(a) + Len(b) /\ ~ (Len(a) + k <= Len(a)) /\ (Len(a) + k) - Len(a) = k
    BY <1>1
  <2> QED BY <1>3, <2>1
<1>5. \A k \in 1 .. Len(a) : x[k] = a[k]
  BY <1>1, <1>3
<1> QED BY <1>1, <1>2, <1>3, <1>4, <1>5

\* Two sequences behind two items and before one.
Encloses(u, d, e, a, b) ==
    /\ Len(a) \in Nat /\ Len(b) \in Nat /\ Len(u) = Len(a) + Len(b) + 3
    /\ u[1] = d /\ u[2] = e
    /\ \A k \in 1 .. Len(a) : u[k + 2] = a[k]
    /\ \A k \in 1 .. Len(b) : u[k + Len(a) + 2] = b[k]

LEMMA Bracketed ==
    ASSUME NEW d \in Int, NEW e \in Int, NEW f \in Int, NEW a \in Seq(Int), NEW b \in Seq(Int),
           NEW u, u = <<d, e>> \o a \o b \o <<f>>
    PROVE  Encloses(u, d, e, a, b)
<1>1. Len(a) \in Nat /\ Len(b) \in Nat
  OBVIOUS
<1>a. PICK h : h = <<d, e>>
  OBVIOUS
<1>2. h \in Seq(Int) /\ Len(h) = 2 /\ h[1] = d /\ h[2] = e
  BY <1>a
<1>b. PICK z : z = <<f>>
  OBVIOUS
<1>3. z \in Seq(Int) /\ Len(z) = 1
  BY <1>b
<1>4. PICK x : x = h \o a
  OBVIOUS
<1>5. /\ x \in Seq(Int) /\ Len(x) = 2 + Len(a) /\ x[1] = d /\ x[2] = e
      /\ \A k \in 1 .. Len(a) : x[2 + k] = a[k]
  <2>1. /\ x \in Seq(Int) /\ Len(x) = Len(h) + Len(a)
        /\ \A k \in 1 .. Len(h) : x[k] = h[k]
        /\ \A k \in 1 .. Len(a) : x[Len(h) + k] = a[k]
    BY <1>2, <1>4, Concats
  <2> QED BY <1>2, <2>1
<1>6. PICK y : y = x \o b
  OBVIOUS
<1>7. /\ y \in Seq(Int) /\ Len(y) = Len(x) + Len(b)
      /\ \A k \in 1 .. Len(x) : y[k] = x[k]
      /\ \A k \in 1 .. Len(b) : y[Len(x) + k] = b[k]
  BY <1>5, <1>6, Concats
<1>8. u = y \o z
  BY <1>a, <1>b, <1>4, <1>6
<1>9. /\ Len(u) = Len(y) + Len(z)
      /\ \A k \in 1 .. Len(y) : u[k] = y[k]
  <2>1. /\ Len(y \o z) = Len(y) + Len(z)
        /\ \A k \in 1 .. Len(y) : (y \o z)[k] = y[k]
    BY <1>3, <1>7, Concats
  <2> QED BY <1>8, <2>1
<1>10. u[1] = d /\ u[2] = e
  <2>1. 1 \in 1 .. Len(y) /\ 2 \in 1 .. Len(y) /\ 1 \in 1 .. Len(x) /\ 2 \in 1 .. Len(x)
    BY <1>1, <1>5, <1>7, SMTT(60)
  <2> QED BY <1>5, <1>7, <1>9, <2>1
<1>11. ASSUME NEW k \in 1 .. Len(a) PROVE u[k + 2] = a[k]
  <2>1. 2 + k = k + 2 /\ k + 2 \in 1 .. Len(y) /\ k + 2 \in 1 .. Len(x)
    BY <1>1, <1>5, <1>7
  <2> QED BY <1>5, <1>7, <1>9, <2>1
<1>12. ASSUME NEW k \in 1 .. Len(b) PROVE u[k + Len(a) + 2] = b[k]
  <2>1. Len(x) + k = k + Len(a) + 2 /\ k + Len(a) + 2 \in 1 .. Len(y)
    BY <1>1, <1>5, <1>7
  <2> QED BY <1>7, <1>9, <2>1
<1>13. Len(u) = Len(a) + Len(b) + 3
  BY <1>1, <1>3, <1>5, <1>7, <1>9
<1> QED BY <1>1, <1>10, <1>11, <1>12, <1>13 DEF Encloses

\* What is below a way, and the parts of a node as load_ puts them together.
Sub(t, v) == [w \in {x \in Ways : v \o x \in DOMAIN t} |-> t[v \o w]]

LEMMA Ahead ==
    ASSUME NEW s \in Sides, NEW z \in Ways
    PROVE  /\ <<s>> \o z \in Ways /\ <<s>> \o z # <<>>
           /\ (<<s>> \o z)[1] = s /\ Tail(<<s>> \o z) = z
<1>1. z \in Seq(Sides) /\ <<s>> \in Seq(Sides)
  BY DEF Ways, Sides
<1>2. Len(<<s>>) = 1 /\ <<s>>[1] = s
  OBVIOUS
<1>3. <<s>> \o z \in Seq(Sides) /\ Len(<<s>> \o z) = 1 + Len(z)
      /\ \A k \in 1 .. 1 + Len(z) : (<<s>> \o z)[k] = IF k <= 1 THEN <<s>>[k] ELSE z[k - 1]
  BY <1>1, <1>2, ConcatProperties
<1>4. Len(z) \in Nat
  BY <1>1
<1>5. (<<s>> \o z)[1] = s /\ <<s>> \o z # <<>>
  BY <1>2, <1>3, <1>4
<1>6. Tail(<<s>> \o z) = z
  <2>1. PICK x : x = <<s>> \o z
    OBVIOUS
  <2>2. x \in Seq(Sides) /\ x # <<>>
    BY <1>3, <1>5, <2>1
  <2>3. Tail(x) \in Seq(Sides) /\ Len(Tail(x)) = Len(x) - 1
        /\ \A i \in 1 .. Len(Tail(x)) : Tail(x)[i] = x[i + 1]
    BY <2>2, HeadTailProperties
  <2>4. Len(Tail(x)) = Len(z)
    BY <1>3, <1>4, <2>1, <2>3
  <2>5. \A i \in 1 .. Len(Tail(x)) : Tail(x)[i] = z[i]
    BY <1>3, <1>4, <2>1, <2>3, <2>4
  <2>6. Tail(x) = z
    BY <1>1, <2>3, <2>4, <2>5, SeqEqual
  <2> QED BY <2>1, <2>6
<1> QED BY <1>3, <1>5, <1>6 DEF Ways, Sides

LEMMA Below1 ==
    ASSUME NEW v \in Ways, NEW s \in Sides, NEW w \in Ways
    PROVE  v \o (<<s>> \o w) = To(v, s) \o w
<1>1. v \in Seq(Sides) /\ w \in Seq(Sides) /\ <<s>> \in Seq(Sides)
  BY DEF Ways, Sides
<1>2. (v \o <<s>>) \o w = v \o (<<s>> \o w)
  BY <1>1, ConcatAssociative
<1>3. To(v, s) = v \o <<s>>
  BY <1>1, AppendIsConcat DEF To
<1> QED BY <1>2, <1>3

LEMMA WaySplit ==
    ASSUME NEW w \in Ways, w # <<>>
    PROVE  \E s \in Sides, x \in Ways : w = <<s>> \o x
<1>1. w \in Seq(Sides)
  BY DEF Ways, Sides
<1>2. Head(w) \in Sides /\ Tail(w) \in Seq(Sides) /\ w = <<Head(w)>> \o Tail(w)
  <2>1. Head(w) \in Sides /\ Tail(w) \in Seq(Sides)
    BY <1>1, HeadTailProperties
  <2>2. w = <<Head(w)>> \o Tail(w)
    BY <1>1
  <2> QED BY <2>1, <2>2
<1> QED BY <1>2, Zenon DEF Ways, Sides

LEMMA SubIs ==
    ASSUME NEW t, IsTree(t), NEW v \in Ways
    PROVE  IF v \notin DOMAIN t THEN Sub(t, v) = NoTree
           ELSE Joined(Sub(t, To(v, "l")), t[v], Sub(t, To(v, "r"))) = Sub(t, v)
<1> DEFINE D(x) == {w \in Ways : x \o w \in DOMAIN t}
<1>1. /\ DOMAIN t \subseteq Ways
      /\ \A x \in Ways : \A w \in Ways : x \o w \in DOMAIN t => x \in DOMAIN t
  BY DEF IsTree
<1>2. CASE v \notin DOMAIN t
  <2>1. D(v) = {}
    BY <1>1, <1>2
  <2>2. Sub(t, v) = [w \in D(v) |-> t[v \o w]]
    BY DEF Sub
  <2>3. [w \in {} |-> t[v \o w]] = [x \in {} |-> EOF]
    OBVIOUS
  <2> HIDE DEF D
  <2> QED BY <1>2, <2>1, <2>2, <2>3 DEF NoTree
<1>3. CASE v \in DOMAIN t
  <2> DEFINE l == Sub(t, To(v, "l"))
             m == Sub(t, To(v, "r"))
             E == {<<>>} \cup {<<"l">> \o w : w \in DOMAIN l} \cup {<<"r">> \o w : w \in DOMAIN m}
             J(w) == IF w = <<>> THEN t[v] ELSE IF w[1] = "l" THEN l[Tail(w)] ELSE m[Tail(w)]
  <2>1. "l" \in Sides /\ "r" \in Sides /\ "l" # "r" /\ To(v, "l") \in Ways /\ To(v, "r") \in Ways
        /\ <<>> \in Ways /\ \A s \in Sides : s = "l" \/ s = "r"
    BY WaysAre DEF Sides
  <2>2. /\ DOMAIN l = D(To(v, "l")) /\ \A w \in DOMAIN l : l[w] = t[To(v, "l") \o w]
        /\ DOMAIN m = D(To(v, "r")) /\ \A w \in DOMAIN m : m[w] = t[To(v, "r") \o w]
    BY DEF Sub
  <2>3. /\ DOMAIN l \subseteq Ways /\ DOMAIN m \subseteq Ways
        /\ \A w \in Ways : /\ w \in DOMAIN l <=> v \o (<<"l">> \o w) \in DOMAIN t
                           /\ w \in DOMAIN m <=> v \o (<<"r">> \o w) \in DOMAIN t
                           /\ w \in DOMAIN l => l[w] = t[v \o (<<"l">> \o w)]
                           /\ w \in DOMAIN m => m[w] = t[v \o (<<"r">> \o w)]
    <3>1. \A w \in Ways : /\ v \o (<<"l">> \o w) = To(v, "l") \o w
                          /\ v \o (<<"r">> \o w) = To(v, "r") \o w
      BY <2>1, Below1
    <3> HIDE DEF l, m
    <3> QED BY <2>2, <3>1
  <2> HIDE DEF l, m
  <2>4. v \o <<>> = v
    BY ConcatEmptySeq DEF Ways
  <2>5. ASSUME NEW w \in E PROVE w \in D(v) /\ J(w) = t[v \o w]
    <3>1. CASE w = <<>>
      BY <1>3, <2>1, <2>4, <3>1
    <3>2. CASE \E x \in DOMAIN l : w = <<"l">> \o x
      <4>1. PICK x \in DOMAIN l : w = <<"l">> \o x
        BY <3>2
      <4>2. x \in Ways /\ w \in Ways /\ w # <<>> /\ w[1] = "l" /\ Tail(w) = x
        BY <2>1, <2>3, <4>1, Ahead
      <4> QED BY <2>3, <4>1, <4>2
    <3>3. CASE \E x \in DOMAIN m : w = <<"r">> \o x
      <4>1. PICK x \in DOMAIN m : w = <<"r">> \o x
        BY <3>3
      <4>2. x \in Ways /\ w \in Ways /\ w # <<>> /\ w[1] = "r" /\ Tail(w) = x
        BY <2>1, <2>3, <4>1, Ahead
      <4> QED BY <2>1, <2>3, <4>1, <4>2
    <3> QED BY <3>1, <3>2, <3>3
  <2>6. ASSUME NEW w \in D(v) PROVE w \in E
    <3>1. CASE w = <<>>
      BY <3>1
    <3>2. CASE w # <<>>
      <4>1. PICK s \in Sides, x \in Ways : w = <<s>> \o x
        BY <3>2, WaySplit
      <4>2. CASE s = "l"
        BY <2>3, <4>1, <4>2
      <4>3. CASE s = "r"
        BY <2>3, <4>1, <4>3
      <4> QED BY <2>1, <4>2, <4>3
    <3> QED BY <3>1, <3>2
  <2>7. Joined(l, t[v], m) = [w \in E |-> J(w)]
    BY DEF Joined
  <2>8. Sub(t, v) = [w \in D(v) |-> t[v \o w]]
    BY DEF Sub
  <2>9. E = D(v)
    <3>1. E \subseteq D(v)
      BY <2>5
    <3>2. D(v) \subseteq E
      BY <2>6
    <3> QED BY <3>1, <3>2
  <2>10. Joined(l, t[v], m) = Sub(t, v)
    <3> HIDE DEF E, D, J
    <3> QED BY <2>5, <2>7, <2>8, <2>9
  <2> QED BY <1>3, <2>10 DEF l, m
<1> QED BY <1>2, <1>3

LEMMA SubOfAll ==
    ASSUME NEW t, IsTree(t)
    PROVE  Sub(t, <<>>) = t
<1>1. t \in [DOMAIN t -> Chars] /\ DOMAIN t \subseteq Ways
  BY DEF IsTree
<1>2. \A w \in Ways : <<>> \o w = w
  BY ConcatEmptySeq DEF Ways
<1>3. {x \in Ways : <<>> \o x \in DOMAIN t} = DOMAIN t
  BY <1>1, <1>2
<1>4. \A w \in DOMAIN t : t[<<>> \o w] = t[w]
  BY <1>1, <1>2
<1>5. Sub(t, <<>>) = [w \in DOMAIN t |-> t[<<>> \o w]]
  BY <1>3 DEF Sub
<1> QED BY <1>1, <1>4, <1>5

SomeTrees == UNION {[D -> Int] : D \in SUBSET Ways}
Loads     == [ok : BOOLEAN, t : SomeTrees, to : Nat]

LoadStep(h, i) ==
    IF Char(i) # OPEN THEN [ok |-> FALSE, t |-> NoTree, to |-> i]
    ELSE IF Char(i + 1) = CLOSE THEN [ok |-> TRUE, t |-> NoTree, to |-> i + 2]
    ELSE LET l == h[i + 2]
             m == IF l.ok THEN h[l.to] ELSE l
         IN  [ok |-> m.ok, t |-> Joined(l.t, Char(i + 1), m.t), to |-> m.to + 1]

LEMMA JoinedIs ==
    ASSUME NEW l \in SomeTrees, NEW m \in SomeTrees, NEW c \in Int
    PROVE  Joined(l, c, m) \in SomeTrees
<1> DEFINE E == {<<>>} \cup {<<"l">> \o w : w \in DOMAIN l} \cup {<<"r">> \o w : w \in DOMAIN m}
           J(w) == IF w = <<>> THEN c ELSE IF w[1] = "l" THEN l[Tail(w)] ELSE m[Tail(w)]
<1>1. DOMAIN l \subseteq Ways /\ l \in [DOMAIN l -> Int] /\ DOMAIN m \subseteq Ways /\ m \in [DOMAIN m -> Int]
  BY DEF SomeTrees
<1>2. "l" \in Sides /\ "r" \in Sides /\ "l" # "r" /\ <<>> \in Ways
  BY WaysAre DEF Sides
<1>3. ASSUME NEW w \in E PROVE w \in Ways /\ J(w) \in Int
  <2>1. CASE w = <<>>
    BY <1>2, <2>1
  <2>2. CASE \E x \in DOMAIN l : w = <<"l">> \o x
    <3>1. PICK x \in DOMAIN l : w = <<"l">> \o x
      BY <2>2
    <3>2. w \in Ways /\ w # <<>> /\ w[1] = "l" /\ Tail(w) = x
      BY <1>1, <1>2, <3>1, Ahead
    <3> QED BY <1>1, <3>2
  <2>3. CASE \E x \in DOMAIN m : w = <<"r">> \o x
    <3>1. PICK x \in DOMAIN m : w = <<"r">> \o x
      BY <2>3
    <3>2. w \in Ways /\ w # <<>> /\ w[1] = "r" /\ Tail(w) = x
      BY <1>1, <1>2, <3>1, Ahead
    <3> QED BY <1>1, <1>2, <3>2
  <2> QED BY <2>1, <2>2, <2>3
<1>4. Joined(l, c, m) = [w \in E |-> J(w)]
  BY DEF Joined
<1> HIDE DEF E, J
<1>5. Joined(l, c, m) \in [E -> Int] /\ E \in SUBSET Ways
  BY <1>3, <1>4
<1> QED BY <1>5 DEF SomeTrees

LEMMA LoadIs ==
    ASSUME file \in Seq(Int), NEW i \in Nat
    PROVE  load_[i] = LoadStep(load_, i)
<1> DEFINE G == {h \in [Nat -> Loads] : \A k \in Nat : h[k].to >= k}
           Turned(h) == [k \in Nat |-> LoadStep(h, k)]
           turn == [h \in G |-> Turned(h)]
           rank == [k \in Nat |-> k]
           top == Len(file) + 1
<1>1. NoTree \in SomeTrees
  <2>1. NoTree \in [{} -> Int]
    BY DEF NoTree
  <2> QED BY <2>1 DEF SomeTrees
<1>2. /\ OPEN \in Int /\ EOF # OPEN /\ Len(file) \in Nat
      /\ \A k \in Nat : Char(k) \in Int /\ (k > Len(file) => Char(k) # OPEN)
  BY DEF Char, EOF, OPEN
<1>3. ASSUME NEW h \in G, NEW k \in Nat
      PROVE  LoadStep(h, k) \in Loads /\ LoadStep(h, k).to >= k
  <2>1. CASE Char(k) # OPEN
    BY <1>1, <2>1 DEF LoadStep, Loads
  <2>2. CASE Char(k) = OPEN /\ Char(k + 1) = CLOSE
    <3>1. LoadStep(h, k) = [ok |-> TRUE, t |-> NoTree, to |-> k + 2]
      BY <2>2 DEF LoadStep
    <3> QED BY <1>1, <3>1 DEF Loads
  <2>3. CASE Char(k) = OPEN /\ Char(k + 1) # CLOSE
    <3> DEFINE l == h[k + 2]
               m == IF l.ok THEN h[l.to] ELSE l
    <3>1. l \in Loads /\ l.to \in Nat /\ l.to >= k + 2
      BY DEF Loads
    <3>2. m \in Loads /\ m.to \in Nat /\ m.to >= k + 2
      <4> HIDE DEF l
      <4>1. h[l.to] \in Loads /\ h[l.to].to >= l.to
        BY <3>1
      <4>2. h[l.to].to \in Nat
        BY <4>1 DEF Loads
      <4> QED BY <3>1, <4>1, <4>2
    <3>3. LoadStep(h, k) = [ok |-> m.ok, t |-> Joined(l.t, Char(k + 1), m.t), to |-> m.to + 1]
      BY <2>3 DEF LoadStep
    <3> HIDE DEF l, m
    <3>4. Joined(l.t, Char(k + 1), m.t) \in SomeTrees
      BY <1>2, <3>1, <3>2, JoinedIs DEF Loads
    <3>5. m.ok \in BOOLEAN
      BY <3>2 DEF Loads
    <3>6. PICK x : x = m.to
      OBVIOUS
    <3>7. x \in Nat /\ x >= k + 2
      BY <3>2, <3>6
    <3>8. x + 1 \in Nat /\ x + 1 >= k
      BY <3>7
    <3>9. PICK j : j = Joined(l.t, Char(k + 1), m.t)
      OBVIOUS
    <3>10. LoadStep(h, k) = [ok |-> m.ok, t |-> j, to |-> x + 1]
      BY <3>3, <3>6, <3>9
    <3>11. j \in SomeTrees /\ x + 1 \in Nat
      BY <3>4, <3>8, <3>9
    <3>12. [ok |-> m.ok, t |-> j, to |-> x + 1] \in Loads
      BY <3>5, <3>11 DEF Loads
    <3> QED BY <3>8, <3>10, <3>12
  <2> QED BY <2>1, <2>2, <2>3
<1>4. \A h \in G : Turned(h) \in G
  <2> TAKE h \in G
  <2>1. \A k \in Nat : Turned(h)[k] \in Loads /\ Turned(h)[k].to >= k
    BY <1>3
  <2> QED BY <2>1
<1>5. turn \in [G -> G] /\ rank \in [Nat -> Nat] /\ top \in Nat /\ G \in SUBSET [Nat -> Loads]
  <2>1. turn \in [G -> G]
    <3> HIDE DEF G, Turned
    <3> QED BY <1>4
  <2> HIDE DEF turn
  <2> QED BY <1>2, <2>1, SMTT(60)
<1>6. ASSUME NEW f \in G, NEW g \in G, NEW k \in Nat,
             k >= top \/ \A y \in Nat : y > k => f[y] = g[y]
      PROVE  LoadStep(f, k) = LoadStep(g, k)
  <2>1. CASE k >= top
    <3>1. Char(k) # OPEN
      BY <1>2, <2>1
    <3> QED BY <3>1 DEF LoadStep
  <2>2. CASE \A y \in Nat : y > k => f[y] = g[y]
    <3>1. f[k + 2] = g[k + 2] /\ f[k + 2].to \in Nat /\ f[k + 2].to > k
      <4>1. f[k + 2] \in Loads /\ f[k + 2].to >= k + 2
        OBVIOUS
      <4> QED BY <2>2, <4>1 DEF Loads
    <3>2. f[f[k + 2].to] = g[g[k + 2].to]
      BY <2>2, <3>1
    <3> QED BY <3>1, <3>2, Zenon DEF LoadStep
  <2> QED BY <1>6, <2>1, <2>2
<1>7. Unfolds(Nat, Loads, G, turn, rank, top)
  <2>1. ASSUME NEW f \in G, NEW g \in G, NEW k \in Nat,
               rank[k] >= top \/ \A y \in Nat : rank[y] > rank[k] => f[y] = g[y]
        PROVE  turn[f][k] = turn[g][k]
    <3>1. turn[f] = Turned(f) /\ turn[g] = Turned(g)
      <4> HIDE DEF G, Turned
      <4> QED OBVIOUS
    <3>2. Turned(f)[k] = LoadStep(f, k) /\ Turned(g)[k] = LoadStep(g, k)
      OBVIOUS
    <3>3. k >= top \/ \A y \in Nat : y > k => f[y] = g[y]
      <4> HIDE DEF G, top
      <4> QED BY <2>1
    <3> HIDE DEF G, turn, Turned, rank, top
    <3> QED BY <1>6, <3>1, <3>2, <3>3
  <2> HIDE DEF G, turn, rank, top
  <2> QED BY <1>5, <2>1 DEF Unfolds
<1>8. \E h : h \in G
  <2>1. PICK n : n = [ok |-> FALSE, t |-> NoTree, to |-> 0]
    OBVIOUS
  <2> DEFINE H == [k \in Nat |-> [ok |-> FALSE, t |-> NoTree, to |-> k]]
  <2>2. H \in [Nat -> Loads] /\ \A k \in Nat : H[k].to = k
    BY <1>1 DEF Loads
  <2>3. H \in G
    <3> HIDE DEF H
    <3> QED BY <2>2
  <2> QED BY <2>3
<1>9. PICK g \in G : turn[g] = g
  <2> HIDE DEF G, turn, rank, top
  <2> QED BY <1>5, <1>7, <1>8, Fixpoint
<1>10. g = [k \in Nat |-> LoadStep(g, k)]
  <2>1. turn[g] = Turned(g)
    <3> HIDE DEF G, Turned
    <3> QED OBVIOUS
  <2> QED BY <1>9, <2>1
<1>11. load_ = [k \in Nat |-> LoadStep(load_, k)]
  BY <1>10, Zenon DEF load_, LoadStep
<1> QED BY <1>11

\* From the i-th character on, as far as it goes, the file reads as u.
ReadsAs(i, u) ==
    \A k \in 1 .. Len(u) : Char(i + k - 1) = u[k] \/ (Char(i + k - 1) = EOF /\ i + k - 1 > Len(file))

\* Reading there gets through only to the end of u, with tree s, and does if the file
\* has all of u.
GetsThrough(i, u, s) ==
    /\ load_[i].ok => load_[i].t = s /\ load_[i].to = i + Len(u)
    /\ i + Len(u) - 1 <= Len(file) => load_[i].ok

LEMMA EmptyRead ==
    ASSUME file \in Seq(Int), NEW i \in Nat, ReadsAs(i, <<OPEN, CLOSE>>)
    PROVE  GetsThrough(i, <<OPEN, CLOSE>>, NoTree)
<1>1. PICK u : u = <<OPEN, CLOSE>> /\ Len(u) = 2 /\ u[1] = OPEN /\ u[2] = CLOSE
  OBVIOUS
<1>2. /\ Char(i) = OPEN \/ (Char(i) = EOF /\ i > Len(file))
      /\ Char(i + 1) = CLOSE \/ (Char(i + 1) = EOF /\ i + 1 > Len(file))
  <2>1. /\ 1 \in 1 .. Len(u) /\ i + 1 - 1 = i
        /\ 2 \in 1 .. Len(u) /\ i + 2 - 1 = i + 1
    BY <1>1
  <2>2. ReadsAs(i, u)
    BY <1>1
  <2> QED BY <1>1, <2>1, <2>2 DEF ReadsAs
<1>3. load_[i] = LoadStep(load_, i) /\ load_[i + 2] = LoadStep(load_, i + 2) /\ Len(file) \in Nat
  BY LoadIs
<1>4. OPEN # EOF /\ CLOSE # EOF
  BY DEF OPEN, CLOSE, EOF
<1>5. CASE Char(i) # OPEN
  <2>1. load_[i].ok = FALSE
    BY <1>3, <1>5, SMTT(60) DEF LoadStep
  <2> QED BY <1>1, <1>2, <1>3, <1>5, <2>1 DEF GetsThrough
<1>6. CASE Char(i) = OPEN /\ Char(i + 1) = CLOSE
  <2>1. load_[i] = [ok |-> TRUE, t |-> NoTree, to |-> i + 2]
    BY <1>3, <1>6 DEF LoadStep
  <2> QED BY <1>1, <2>1 DEF GetsThrough
<1>7. CASE Char(i) = OPEN /\ Char(i + 1) # CLOSE
  <2>1. i + 1 > Len(file)
    BY <1>2, <1>7
  <2>2. Char(i + 2) # OPEN
    BY <1>3, <1>4, <2>1 DEF Char
  <2>3. load_[i + 2].ok = FALSE
    BY <1>3, <2>2 DEF LoadStep
  <2>4. load_[i].ok = FALSE
    <3>1. LoadStep(load_, i).ok = load_[i + 2].ok
      BY <1>7, <2>3 DEF LoadStep
    <3> QED BY <1>3, <2>3, <3>1
  <2> QED BY <1>1, <1>3, <2>1, <2>4 DEF GetsThrough
<1> QED BY <1>5, <1>6, <1>7

LEMMA NodeRead ==
    ASSUME file \in Seq(Int), NEW i \in Nat, NEW c \in Int, c # CLOSE,
           NEW a \in Seq(Int), NEW b \in Seq(Int), NEW sa, NEW sb,
           NEW u, u = <<OPEN, c>> \o a \o b \o <<CLOSE>>, ReadsAs(i, u),
           \A j \in Nat : ReadsAs(j, a) => GetsThrough(j, a, sa),
           \A j \in Nat : ReadsAs(j, b) => GetsThrough(j, b, sb)
    PROVE  GetsThrough(i, u, Joined(sa, c, sb))
<1> DEFINE na == Len(a)
           nb == Len(b)
           end == i + 2 + na
<1>1. /\ na \in Nat /\ nb \in Nat /\ Len(u) = na + nb + 3
      /\ u[1] = OPEN /\ u[2] = c
      /\ \A k \in 1 .. na : u[k + 2] = a[k]
      /\ \A k \in 1 .. nb : u[k + na + 2] = b[k]
  <2>1. OPEN \in Int /\ CLOSE \in Int
    BY DEF OPEN, CLOSE
  <2>2. Encloses(u, OPEN, c, a, b)
    BY <2>1, Bracketed
  <2> QED BY <2>2 DEF Encloses
<1>2. /\ Len(file) \in Nat /\ OPEN # EOF /\ c # CLOSE /\ EOF # CLOSE
      /\ \A k \in Nat : k > Len(file) => Char(k) = EOF
      /\ \A k \in Nat : Char(k) # OPEN => ~ load_[k].ok
  <2>1. \A k \in Nat : k > Len(file) => Char(k) = EOF
    BY DEF Char
  <2>2. ASSUME NEW k \in Nat, Char(k) # OPEN PROVE ~ load_[k].ok
    <3>1. load_[k] = LoadStep(load_, k)
      BY LoadIs
    <3> QED BY <2>2, <3>1 DEF LoadStep
  <2> QED BY <2>1, <2>2 DEF OPEN, CLOSE, EOF
<1> HIDE DEF na, nb
<1>3. /\ Char(i) = OPEN \/ (Char(i) = EOF /\ i > Len(file))
      /\ Char(i + 1) = c \/ (Char(i + 1) = EOF /\ i + 1 > Len(file))
  <2>1. /\ 1 \in 1 .. Len(u) /\ i + 1 - 1 = i
        /\ 2 \in 1 .. Len(u) /\ i + 2 - 1 = i + 1
    BY <1>1
  <2> QED BY <1>1, <2>1 DEF ReadsAs
<1>4. GetsThrough(i + 2, a, sa)
  <2>1. ASSUME NEW k \in 1 .. na
        PROVE  Char((i + 2) + k - 1) = a[k] \/ (Char((i + 2) + k - 1) = EOF /\ (i + 2) + k - 1 > Len(file))
    <3>1. k + 2 \in 1 .. Len(u) /\ i + (k + 2) - 1 = (i + 2) + k - 1 /\ u[k + 2] = a[k]
      BY <1>1
    <3> QED BY <3>1 DEF ReadsAs
  <2>2. ReadsAs(i + 2, a)
    BY <2>1 DEF ReadsAs, na
  <2> QED BY <2>2
<1>5. end \in Nat /\ GetsThrough(end, b, sb)
  <2>1. ASSUME NEW k \in 1 .. nb
        PROVE  Char(end + k - 1) = b[k] \/ (Char(end + k - 1) = EOF /\ end + k - 1 > Len(file))
    <3>1. /\ k + na + 2 \in 1 .. Len(u) /\ i + (k + na + 2) - 1 = end + k - 1
          /\ u[k + na + 2] = b[k]
      BY <1>1
    <3> HIDE DEF end
    <3> QED BY <3>1 DEF ReadsAs
  <2>2. end \in Nat
    BY <1>1
  <2> HIDE DEF end
  <2>3. ReadsAs(end, b)
    BY <2>1 DEF ReadsAs, nb
  <2> QED BY <2>2, <2>3
<1>6. end - 1 = (i + 2) + na - 1 /\ end + nb - 1 <= i + Len(u) - 1 /\ end + nb + 1 = i + Len(u)
      /\ end - 1 <= i + Len(u) - 1
  <2>1. na \in Nat /\ nb \in Nat /\ Len(u) = na + nb + 3
    BY <1>1
  <2>2. end - 1 = (i + 2) + na - 1 /\ end + nb + 1 = i + (na + nb + 3)
        /\ end + nb - 1 <= i + (na + nb + 3) - 1 /\ end - 1 <= i + (na + nb + 3) - 1
    BY <2>1
  <2> HIDE DEF end
  <2> QED BY <2>1, <2>2
<1>a. /\ load_[i + 2].ok => load_[i + 2].t = sa /\ load_[i + 2].to = end
      /\ end - 1 <= Len(file) => load_[i + 2].ok
  BY <1>4, <1>6 DEF GetsThrough, na
<1>b. /\ load_[end].ok => load_[end].t = sb /\ load_[end].to = end + nb
      /\ end + nb - 1 <= Len(file) => load_[end].ok
  <2> HIDE DEF end
  <2> QED BY <1>5 DEF GetsThrough, nb
<1> HIDE DEF end
<1>7. CASE Char(i) # OPEN
  <2>1. ~ load_[i].ok /\ i > Len(file)
    BY <1>2, <1>3, <1>7
  <2>2. ~ (i + Len(u) - 1 <= Len(file))
    BY <1>1, <1>2, <2>1
  <2> QED BY <2>1, <2>2 DEF GetsThrough
<1>8. CASE Char(i) = OPEN
  <2> DEFINE l == load_[i + 2]
             s == IF l.ok THEN load_[l.to] ELSE l
  <2>1. Char(i + 1) # CLOSE
    BY <1>2, <1>3
  <2>2. load_[i] = [ok |-> s.ok, t |-> Joined(l.t, Char(i + 1), s.t), to |-> s.to + 1]
    <3>1. load_[i] = LoadStep(load_, i)
      BY LoadIs
    <3> QED BY <1>8, <2>1, <3>1 DEF LoadStep
  <2>3. CASE ~ l.ok
    <3>1. ~ load_[i].ok
      BY <2>2, <2>3
    <3>2. ~ (end - 1 <= Len(file))
      BY <1>a, <2>3
    <3>3. ~ (i + Len(u) - 1 <= Len(file))
      BY <1>1, <1>2, <1>5, <1>6, <3>2
    <3> QED BY <3>1, <3>3 DEF GetsThrough
  <2>4. CASE l.ok
    <3>1. l.t = sa /\ s = load_[end]
      BY <1>a, <2>4
    <3>2. Char(i + 1) = c
      <4> SUFFICES ASSUME i + 1 > Len(file) PROVE FALSE
        BY <1>3
      <4>1. i + 1 > Len(file)
        OBVIOUS
      <4>2. i + 2 \in Nat /\ i + 2 > Len(file)
        BY <1>2, <4>1
      <4> QED BY <1>2, <2>4, <4>2
    <3>3. load_[i] = [ok |-> load_[end].ok, t |-> Joined(sa, c, load_[end].t), to |-> load_[end].to + 1]
      <4> HIDE DEF l, s
      <4> QED BY <2>2, <3>1, <3>2
    <3>4. load_[i].ok => load_[i].t = Joined(sa, c, sb) /\ load_[i].to = i + Len(u)
      BY <1>b, <1>6, <3>3
    <3>5. i + Len(u) - 1 <= Len(file) => load_[i].ok
      <4>1. i + Len(u) - 1 <= Len(file) => end + nb - 1 <= Len(file)
        BY <1>1, <1>2, <1>5, <1>6
      <4> QED BY <1>b, <3>3, <4>1
    <3> QED BY <3>4, <3>5 DEF GetsThrough
  <2> QED BY <2>3, <2>4
<1> QED BY <1>7, <1>8

LEMMA AllRead ==
    ASSUME file \in Seq(Int), NEW t, IsTree(t), NEW i \in Nat, ReadsAs(i, TextBy(t)[<<>>])
    PROVE  GetsThrough(i, TextBy(t)[<<>>], t)
<1> DEFINE x == TextBy(t)
           C == {v \in Ways : \A j \in Nat : ReadsAs(j, x[v]) => GetsThrough(j, x[v], Sub(t, v))}
<1>1. \A v \in Ways : /\ x[v] \in Seq(Int)
                      /\ x[v] = IF v \notin DOMAIN t THEN <<OPEN, CLOSE>>
                                ELSE <<OPEN, t[v]>> \o x[To(v, "l")] \o x[To(v, "r")] \o <<CLOSE>>
  BY TextIs
<1> HIDE DEF x
<1>2. ASSUME NEW v \in Ways, v \notin DOMAIN t \/ (To(v, "l") \in C /\ To(v, "r") \in C)
      PROVE  v \in C
  <2> SUFFICES ASSUME NEW j \in Nat, ReadsAs(j, x[v]) PROVE GetsThrough(j, x[v], Sub(t, v))
    OBVIOUS
  <2>1. CASE v \notin DOMAIN t
    <3>1. x[v] = <<OPEN, CLOSE>> /\ Sub(t, v) = NoTree
      BY <1>1, <2>1, SubIs
    <3> QED BY <3>1, EmptyRead
  <2>2. CASE v \in DOMAIN t
    <3>1. /\ To(v, "l") \in C /\ To(v, "r") \in C /\ To(v, "l") \in Ways /\ To(v, "r") \in Ways
      BY <1>2, <2>2
    <3>2. PICK a \in Seq(Int) : a = x[To(v, "l")]
      BY <1>1, <3>1
    <3>3. PICK b \in Seq(Int) : b = x[To(v, "r")]
      BY <1>1, <3>1
    <3>4. PICK u : u = x[v]
      OBVIOUS
    <3>5. u = <<OPEN, t[v]>> \o a \o b \o <<CLOSE>>
      BY <1>1, <2>2, <3>2, <3>3, <3>4
    <3>6. t[v] \in Int /\ t[v] # CLOSE
      BY <2>2, SaveAssumption DEF IsTree, CLOSE
    <3>7. /\ \A k \in Nat : ReadsAs(k, a) => GetsThrough(k, a, Sub(t, To(v, "l")))
          /\ \A k \in Nat : ReadsAs(k, b) => GetsThrough(k, b, Sub(t, To(v, "r")))
      BY <3>1, <3>2, <3>3
    <3>8. Joined(Sub(t, To(v, "l")), t[v], Sub(t, To(v, "r"))) = Sub(t, v)
      BY <2>2, SubIs
    <3>9. ReadsAs(j, u)
      BY <3>4
    <3>10. GetsThrough(j, u, Joined(Sub(t, To(v, "l")), t[v], Sub(t, To(v, "r"))))
      BY <3>5, <3>6, <3>7, <3>9, NodeRead
    <3> QED BY <3>4, <3>8, <3>10
  <2> QED BY <2>1, <2>2
<1>3. \A v \in Ways : v \in C
  <2> HIDE DEF C
  <2> QED BY <1>2, TreeInduction
<1>4. <<>> \in C /\ Sub(t, <<>>) = t
  BY <1>3, WaysAre, SubOfAll
<1> QED BY <1>4 DEF x

\* What is in the file is a beginning of the text of the tree that the file was opened
\* for last, which is save.c's unless it could not open it; what load.c has is that
\* tree, or nothing if it could not open the file.
FileHolds == \A t \in written : IsTree(t) /\ file \in Prefixes(save_(t) \o <<LINE>>)
SaveInv ==
    /\ IsTree(kept)
    /\ FileHolds
    /\ \A t, u \in written : t = u
    /\ phase # "insert" /\ "save" \notin unopened => written = {kept}
    /\ phase = "loaded" => IF "load" \in unopened THEN loaded = NoTree ELSE written = {loaded}
    /\ phase \in {"insert", "saved"} => "load" \notin unopened

LEMMA SavedReads ==
    ASSUME NEW t, IsTree(t), file \in Prefixes(save_(t) \o <<LINE>>)
    PROVE  /\ load_[1].ok => load_[1].t = t
           /\ file = save_(t) \o <<LINE>> => load_[1].ok
<1>1. PICK u : u = save_(t)
  OBVIOUS
<1>2. u = TextBy(t)[<<>>] /\ u \in Seq(Int)
  <2>1. u = TextBy(t)[<<>>]
    BY <1>1, Zenon DEF save_, TextBy
  <2>2. TextBy(t)[<<>>] \in Seq(Int)
    BY WaysAre, TextIs
  <2> QED BY <2>1, <2>2
<1>3. PICK z : z = u \o <<LINE>>
  OBVIOUS
<1>4. /\ z \in Seq(Int) /\ Len(u) \in Nat /\ Len(z) = Len(u) + 1
      /\ \A k \in 1 .. Len(u) : z[k] = u[k]
  <2>1. PICK w : w = <<LINE>>
    OBVIOUS
  <2>2. w \in Seq(Int) /\ Len(w) = 1
    BY <2>1 DEF LINE
  <2>3. /\ u \o w \in Seq(Int) /\ Len(u) \in Nat /\ Len(u \o w) = Len(u) + Len(w)
        /\ \A k \in 1 .. Len(u) : (u \o w)[k] = u[k]
    BY <1>2, <2>2, Concats
  <2>4. z = u \o w
    BY <1>3, <2>1
  <2> QED BY <2>2, <2>3, <2>4
<1>5. PICK n \in 0 .. Len(z) : file = SubSeq(z, 1, n)
  BY <1>1, <1>3 DEF Prefixes
<1>6. /\ file \in Seq(Int) /\ Len(file) = n
      /\ \A k \in 1 .. n : file[k] = z[k]
  <2>1. n \in Int /\ 1 \in Int /\ \A k \in 1 .. n : z[k] \in Int
    BY <1>4, <1>5
  <2>2. /\ SubSeq(z, 1, n) \in Seq(Int)
        /\ Len(SubSeq(z, 1, n)) = IF 1 <= n THEN n - 1 + 1 ELSE 0
        /\ \A k \in 1 .. n - 1 + 1 : SubSeq(z, 1, n)[k] = z[1 + k - 1]
    BY <2>1, SubSeqProperties
  <2>3. n - 1 + 1 = n /\ \A k \in 1 .. n : 1 + k - 1 = k
    BY <2>1
  <2>4. (IF 1 <= n THEN n - 1 + 1 ELSE 0) = n
    BY <1>4, <1>5
  <2> QED BY <1>5, <2>2, <2>3, <2>4
<1>7. ReadsAs(1, u)
  <2> SUFFICES ASSUME NEW k \in 1 .. Len(u)
               PROVE  Char(k) = u[k] \/ (Char(k) = EOF /\ k > Len(file))
    <3>1. \A k \in 1 .. Len(u) : 1 + k - 1 = k
      OBVIOUS
    <3> QED BY <3>1 DEF ReadsAs
  <2>1. k \in Nat /\ k \in 1 .. Len(z) /\ DOMAIN file = 1 .. n /\ n \in Nat
    BY <1>4, <1>5, <1>6
  <2>2. CASE k <= n
    BY <1>4, <1>6, <2>1, <2>2 DEF Char
  <2>3. CASE k > n
    BY <1>4, <1>6, <2>1, <2>3 DEF Char
  <2> QED BY <1>5, <2>1, <2>2, <2>3
<1>8. GetsThrough(1, u, t)
  <2>1. ReadsAs(1, TextBy(t)[<<>>])
    BY <1>2, <1>7
  <2>2. GetsThrough(1, TextBy(t)[<<>>], t)
    BY <1>6, <2>1, AllRead
  <2> QED BY <1>2, <2>2
<1>9. file = z => 1 + Len(u) - 1 <= Len(file)
  BY <1>4
<1> QED BY <1>1, <1>3, <1>8, <1>9 DEF GetsThrough

\* The part of SaveInv that speaks of the file is kept with file and written.
LEMMA FileKept ==
    ASSUME SaveInv, UNCHANGED <<file, written>>
    PROVE  FileHolds'
<1>1. \A t \in written : IsTree(t) /\ file \in Prefixes(save_(t) \o <<LINE>>)
  BY Zenon DEF SaveInv, FileHolds
<1>2. (\A t \in written : IsTree(t))'
  BY <1>1 DEF IsTree
<1>3. (\A t \in written : file \in Prefixes(save_(t) \o <<LINE>>))'
  BY <1>1, Zenon
<1> QED BY <1>2, <1>3, Zenon DEF FileHolds

LEMMA SaveKept ==
    ASSUME SaveInv, SaveNext
    PROVE  SaveInv'
<1>1. CASE Insert1
  <2>1. PICK c \in Chars : kept' = SaveInserted(kept, c)
    BY <1>1 DEF Insert1
  <2>2. IsTree(SaveInserted(kept, c))
    BY NodeAdded DEF SaveInv
  <2>3. IsTree(kept)'
    BY <2>1, <2>2 DEF IsTree
  <2>4. phase = "insert" /\ phase' = "insert" /\ UNCHANGED <<file, written, unopened>>
    BY <1>1 DEF Insert1
  <2> QED BY <2>3, <2>4, FileKept DEF SaveInv
<1>2. CASE Save
  <2>1. /\ kept' = kept /\ phase' = "saved" /\ written' = {kept}
        /\ file' \in Prefixes(save_(kept) \o <<LINE>>)
    BY <1>2 DEF Save
  <2>2. IsTree(kept)' /\ IsTree(kept)
    BY <2>1 DEF IsTree, SaveInv
  <2>3. (\A t \in written : IsTree(t))'
    BY <2>1, <2>2 DEF IsTree
  <2>4. (\A t \in written : file \in Prefixes(save_(t) \o <<LINE>>))'
    BY <2>1, Zenon
  <2>5. FileHolds'
    BY <2>3, <2>4, Zenon DEF FileHolds
  <2>6. "load" \notin unopened'
    BY <1>2 DEF Save, SaveInv
  <2> QED BY <2>1, <2>2, <2>5, <2>6 DEF SaveInv
<1>3. ASSUME UNCHANGED <<kept, file, written>>,
             phase' # "insert" /\ "save" \notin unopened' => written = {kept},
             phase' = "loaded" =>
                 IF "load" \in unopened' THEN loaded' = NoTree ELSE written = {loaded'},
             phase' \in {"insert", "saved"} => "load" \notin unopened'
      PROVE  SaveInv'
  <2>1. IsTree(kept)'
    BY <1>3 DEF IsTree, SaveInv
  <2>2. FileHolds'
    BY <1>3, FileKept
  <2>3. (\A t, u \in written : t = u)'
    BY <1>3 DEF SaveInv
  <2> QED BY <1>3, <2>1, <2>2, <2>3 DEF SaveInv
<1>4. CASE Load
  <2>1. \A t \in written : load_[1].ok => load_[1].t = t
    BY SavedReads, Zenon DEF SaveInv, FileHolds
  <2>2. /\ UNCHANGED <<kept, file, written, unopened>>
        /\ phase = "saved" /\ written # {} /\ phase' \in {"loaded", "failed"}
        /\ phase' = "loaded" => load_[1].ok /\ loaded' = load_[1].t
    BY <1>4 DEF Load
  <2>3. phase' = "loaded" => written = {loaded'}
    BY <2>1, <2>2 DEF SaveInv
  <2>4. "load" \notin unopened
    BY <2>2 DEF SaveInv
  <2> QED BY <1>3, <2>2, <2>3, <2>4 DEF SaveInv
<1>5. CASE SaveUnopened \/ LoadUnopened \/ LoadFails
  BY <1>3, <1>5 DEF SaveInv, SaveUnopened, LoadUnopened, LoadFails
<1>6. CASE SaveAgain
  <2>1. kept' = NoTree /\ unopened' = {} /\ phase' = "insert" /\ UNCHANGED <<file, written>>
    BY <1>6 DEF SaveAgain
  <2>2. IsTree(kept)'
    BY <2>1 DEF IsTree, NoTree
  <2> QED BY <2>1, <2>2, FileKept DEF SaveInv
<1> QED BY <1>1, <1>2, <1>4, <1>5, <1>6 DEF SaveNext

\* For trees of any size, and wherever the writing stopped: what load gives is the tree
\* that was saved last with success in opening the file, or nothing if load cannot open
\* it, and a whole file is never refused (save.c, load.c).
THEOREM LoadedRight == SpecStructures => []LoadedIsSaved
<1>1. InitStructures => SaveInv
  <2>1. IsTree(NoTree)
    BY DEF IsTree, NoTree
  <2>2. InitStructures => kept = NoTree /\ phase = "insert" /\ written = {} /\ unopened = {}
    BY DEF InitStructures, Begins, SaveInit
  <2>3. written = {} => FileHolds
    BY Zenon DEF FileHolds
  <2> QED BY <2>1, <2>2, <2>3 DEF SaveInv
<1>2. SaveInv /\ [NextStructures]_structureVars => SaveInv'
  <2> SUFFICES ASSUME SaveInv, [NextStructures]_structureVars PROVE SaveInv'
    OBVIOUS
  <2>1. CASE OnFile(SaveNext)
    BY <2>1, SaveKept DEF OnFile
  <2>2. CASE UNCHANGED saveVars
    <3>1. /\ kept' = kept /\ file' = file /\ written' = written /\ loaded' = loaded
          /\ unopened' = unopened /\ phase' = phase
      BY <2>2 DEF saveVars
    <3>2. IsTree(kept)'
      BY <3>1 DEF IsTree, SaveInv
    <3>3. FileHolds'
      BY <3>1, FileKept
    <3> QED BY <3>1, <3>2, <3>3 DEF SaveInv
  <2> QED BY <2>1, <2>2 DEF NextStructures, OnArray, OnChain, OnClock, OnRing, OnPoly, OnTree, OnTrie,
                          structureVars
<1>3. SaveInv => LoadedIsSaved
  <2> SUFFICES ASSUME SaveInv PROVE LoadedIsSaved
    OBVIOUS
  <2>1. \A t \in written : file = save_(t) \o <<LINE>> => load_[1].ok
    BY SavedReads, Zenon DEF SaveInv, FileHolds
  <2>2. phase = "loaded" /\ unopened = {} => loaded = kept
    BY DEF SaveInv
  <2> QED BY <2>1, <2>2 DEF SaveInv, LoadedIsSaved
<1> QED BY <1>1, <1>2, <1>3, PTL DEF SpecStructures

-----------------------------------------------------------------------------
(* The properties that join several structures *)

\* All lists, stacks and queues, in chains of nodes and in arrays, implement the
\* abstract sequence, for any sizes and any calls.
THEOREM SequencesImplemented == SpecStructures => ImplementsSequence
BY ListsAreSequences, ArraysAreSequences DEF ImplementsSequence

\* For instances of any size: the right one of the ring survives, polynomials add up,
\* and of the dictionary and the saved tree what the two theorems above say.
THEOREM ResultsRight == SpecStructures => []ResultsAreRight
<1>1. JosephusIsRight /\ SumIsRight /\ DictionaryIsRight /\ LoadedIsSaved => ResultsAreRight
  BY DEF ResultsAreRight
<1> QED BY <1>1, JosephusRight, SumRight, DictionaryRight, LoadedRight, PTL

-----------------------------------------------------------------------------
(* The relay between two terminals, in every version: every wait and every *)
(* drive leaves the machines what RelayFsmProofs shows of them.            *)

\* The two terminals: neither is read, or written, by both machines.
LEMMA TwoWays == OneEach
BY RelayAssumption DEF OneEach, fsm12, fsm21, sfd, dfd

LEMMA RelayKeeps ==
    ASSUME FsmInv, [Next]_vars
    PROVE  FsmInv'
<1>1. fsm12 \in Machines /\ fsm21 \in Machines
  BY RelayAssumption
<1>2. CASE UNCHANGED fsmVars
  BY <1>2, TwoWays, FsmKept
<1>3. CASE Drive(fsm12, "drive12", "drive21")
  <2>1. fsm_driver(fsm12) \/ UNCHANGED fsmVars
    BY <1>3 DEF Drive
  <2> QED BY <1>1, <1>2, <2>1, TwoWays, FsmKept
<1>4. CASE Drive(fsm21, "drive21", "loop")
  <2>1. fsm_driver(fsm21) \/ UNCHANGED fsmVars
    BY <1>4 DEF Drive
  <2> QED BY <1>1, <1>2, <2>1, TwoWays, FsmKept
<1>5. CASE World
  BY <1>5, TwoWays, FsmKept
<1>6. CASE Loop \/ Wait \/ NoWait \/ UNCHANGED vars
  BY <1>2, <1>6 DEF Loop, Wait, NoWait, vars
<1> QED BY <1>3, <1>4, <1>5, <1>6 DEF Next, Step

LEMMA RelayInvariant == Spec => []FsmInv
<1>1. Init => FsmInv
  BY FsmStarts DEF Init
<1>2. FsmInv /\ [Next]_vars => FsmInv'
  BY RelayKeeps
<1> QED BY <1>1, <1>2, PTL DEF Spec

\* What a terminal has been sent, and then what the machine that feeds it still
\* holds, is what was read from the other one, byte for byte, in every version
\* and however reads and writes are cut short (relay.c, fsm_driver).
THEOREM BytesInOrder == Spec => []InOrder
<1>1. FsmInv => InOrder
  BY FsmIsRight
<1> QED BY <1>1, RelayInvariant, PTL

\* A machine has stopped only because its input is over and all of it sent, or
\* because a terminal has failed (the states STATE_Ex and STATE_T of fsm_driver).
THEOREM NoneStopsEarly == Spec => []StopsForAReason
<1>1. FsmInv => StopsForAReason
  BY FsmIsRight
<1> QED BY <1>1, RelayInvariant, PTL
=============================================================================
