--------------------------- MODULE MytbfMtProofs ---------------------------
(***************************************************************************)
(* The thread token bucket: for any callers, buckets, table, rate and      *)
(* burst, the table holds exactly the buckets callers may use, thr_alrm    *)
(* refills nothing else, and the whole implements the token bucket.        *)
(***************************************************************************)
EXTENDS MytbfMt, TLAPS

\* Where a caller holds mut_job, where its bucket's mut, and what it is doing.
TableHolding  == {"place", "placed", "full", "clear", "cleared"}
BucketHolding == {"fetch", "fetched", "return", "returned"}
Outside       == {"out", "join", "unload", "gone"}
Inside        == {"fetchlock", "fetch", "wait", "relock", "fetched",
                  "returnlock", "return", "returned"}
Unlisted      == {"initlock", "place", "full", "cleared", "free"}
Listed        == Inside \cup {"placed", "destroylock", "clear"}
Alone         == Unlisted \cup {"placed", "destroylock", "clear"}
Leaving       == {"join", "unload", "gone"}

Rounds   == {"visit", "refill", "broadcast", "release"}
OnBucket == {"refill", "broadcast", "release"}

LockInv ==
    /\ \A t \in Threads : pc[t] \in TableHolding <=> mut_job = t
    /\ apc \in Rounds <=> mut_job = Alrm
    /\ \A t \in Threads : pc[t] \in BucketHolding => mut[me[t]] = t
    /\ apc \in OnBucket => i \in Slots /\ job[i] # NULL /\ mut[job[i]] = Alrm

\* The bucket of a call exists throughout; it is in the table but while it is
\* being made or destroyed, and then it is that call's alone.
CallsInv ==
    \A t \in Threads :
        /\ pc[t] \in Outside <=> me[t] = NULL
        /\ me[t] # NULL => me[t] \in live
        /\ pc[t] \in Unlisted => \A s \in Slots : job[s] # me[t]
        /\ pc[t] \in Listed => job[pos[me[t]]] = me[t]
        /\ pc[t] \in Alone => \A u \in Threads : u # t => me[u] # me[t]
        /\ pc[t] \in Inside => size[t] \in Sizes
        /\ pc[t] \in {"returnlock", "return"} => size[t] > 0

TableInv == \A s \in Slots : job[s] # NULL => job[s] \in live /\ pos[job[s]] = s

\* While one thread exits nobody else calls, and thr_alrm has ended before the
\* table is destroyed.
ExitInv ==
    \A t \in Threads :
        /\ pc[t] \in Leaving => \A u \in Threads : u # t => pc[u] = "out"
        /\ pc[t] \in {"unload", "gone"} => apc = "ended"

MtInv ==
    /\ TypeOK
    /\ LockInv /\ CallsInv /\ TableInv /\ ExitInv
    /\ LiveAreRefilled

LEMMA Sorts ==
    /\ MYTBF_MAX \in Nat \ {0} /\ BURST \in Nat /\ CPS \in Nat /\ Sizes \subseteq Nat
    /\ Alrm \notin Threads /\ Nobody \notin Threads /\ Nobody # Alrm /\ NULL \notin Buckets
BY MtAssumption

-----------------------------------------------------------------------------
(* The steps that leave the table and the callers' buckets alone: a caller   *)
(* only moves between places of one kind.                                    *)

LEMMA QuietKept ==
    ASSUME MtInv, TypeOK', LockInv', ExitInv',
           UNCHANGED <<job, live, pos, me, size>>,
           \A u \in Threads :
              /\ pc'[u] \in Outside <=> pc[u] \in Outside
              /\ pc'[u] \in Unlisted <=> pc[u] \in Unlisted
              /\ pc'[u] \in Inside => pc[u] \in Inside
              /\ pc'[u] \in Alone => pc[u] \in Alone
              /\ pc'[u] \in Listed => pc[u] \in Listed
              /\ pc'[u] \in {"returnlock", "return"} => pc[u] \in {"returnlock", "return"}
    PROVE  MtInv'
<1>1. CallsInv'
  BY DEF MtInv, CallsInv
<1>2. TableInv'
  BY DEF MtInv, TableInv
<1>3. LiveAreRefilled'
  BY DEF MtInv, LiveAreRefilled, Unlisted
<1> QED BY <1>1, <1>2, <1>3 DEF MtInv

LEMMA AlrmKept ==
    ASSUME MtInv, AlrmStep
    PROVE  MtInv'
<1>1. TypeOK /\ LockInv /\ CallsInv /\ TableInv /\ ExitInv
  BY DEF MtInv
<1>2. UNCHANGED <<job, live, pos, me, size>>
  BY DEF AlrmStep, AlrmLock, AlrmSkip, AlrmVisit, AlrmRefill, AlrmBroadcast, AlrmRelease,
         AlrmUnlock, AlrmWake, AlrmCancelled, table, heap, callers
<1>3. /\ \A u \in Threads :
            pc'[u] = pc[u] \/ (pc[u] = "wait" /\ pc'[u] = "relock")
      /\ pc' \in [Threads -> CallerAt]
  <2>1. CASE AlrmBroadcast
    BY <1>1, <2>1 DEF AlrmBroadcast, Woken, TypeOK, CallerAt
  <2>2. CASE ~AlrmBroadcast
    BY <1>1, <2>2 DEF AlrmStep, AlrmLock, AlrmSkip, AlrmVisit, AlrmRefill, AlrmRelease,
                      AlrmUnlock, AlrmWake, AlrmCancelled, callers, TypeOK
  <2> QED BY <2>1, <2>2
<1>4. \A u \in Threads :
         /\ pc'[u] \in Outside <=> pc[u] \in Outside
         /\ pc'[u] \in Unlisted <=> pc[u] \in Unlisted
         /\ pc'[u] \in Inside => pc[u] \in Inside
         /\ pc'[u] \in Alone => pc[u] \in Alone
         /\ pc'[u] \in Listed => pc[u] \in Listed
         /\ pc'[u] \in {"returnlock", "return"} => pc[u] \in {"returnlock", "return"}
         /\ pc'[u] \in TableHolding <=> pc[u] \in TableHolding
         /\ pc'[u] \in BucketHolding <=> pc[u] \in BucketHolding
  BY <1>3 DEF Outside, Unlisted, Inside, Alone, Listed, TableHolding, BucketHolding
<1>5. ExitInv'
  <2>1. apc # "ended" \/ apc' = "ended"
    BY DEF AlrmStep, AlrmLock, AlrmSkip, AlrmVisit, AlrmRefill, AlrmBroadcast, AlrmRelease,
           AlrmUnlock, AlrmWake, AlrmCancelled
  <2>2. \A u \in Threads : /\ pc'[u] \in Leaving <=> pc[u] \in Leaving
                           /\ pc'[u] \in {"unload", "gone"} <=> pc[u] \in {"unload", "gone"}
                           /\ pc[u] = "out" => pc'[u] = "out"
    BY <1>3 DEF Leaving
  <2> QED BY <1>1, <2>1, <2>2 DEF ExitInv
<1>6. apc \in OnBucket => i \in Slots /\ job[i] \in Buckets /\ mut[job[i]] = Alrm
  BY <1>1 DEF LockInv, TypeOK
<1>7. TypeOK'
  <2>1. token' \in [Buckets -> 0 .. BURST]
    <3>1. CASE AlrmRefill
      <4>1. job[i] \in Buckets /\ token[job[i]] \in 0 .. BURST
        BY <1>1, <1>6, <3>1 DEF AlrmRefill, OnBucket, TypeOK
      <4>2. Least(token[job[i]] + CPS, BURST) \in 0 .. BURST
        BY <4>1, Sorts DEF Least
      <4> QED BY <1>1, <3>1, <4>1, <4>2 DEF AlrmRefill, TypeOK
    <3>2. CASE ~AlrmRefill
      BY <1>1, <3>2 DEF AlrmStep, AlrmLock, AlrmSkip, AlrmVisit, AlrmBroadcast, AlrmRelease,
                        AlrmUnlock, AlrmWake, AlrmCancelled, heap, TypeOK
    <3> QED BY <3>1, <3>2
  <2>2. /\ mut_job' \in Owner /\ mut' \in [Buckets -> Owner]
        /\ apc' \in AlarmAt /\ cancel' \in BOOLEAN
    BY <1>1 DEF AlrmStep, AlrmLock, AlrmSkip, AlrmVisit, AlrmRefill, AlrmBroadcast, AlrmRelease,
                AlrmUnlock, AlrmWake, AlrmCancelled, table, heap, TypeOK, Owner, AlarmAt
  <2>3. i' \in 0 .. MYTBF_MAX
    BY <1>1, <1>6, Sorts DEF AlrmStep, AlrmLock, AlrmSkip, AlrmVisit, AlrmRefill, AlrmBroadcast,
                AlrmRelease, AlrmUnlock, AlrmWake, AlrmCancelled, TypeOK, OnBucket, Slots
  <2> QED BY <1>1, <1>2, <1>3, <2>1, <2>2, <2>3 DEF TypeOK
<1>8. LockInv'
  <2>1. \A u \in Threads : pc'[u] \in TableHolding <=> mut_job' = u
    BY <1>1, <1>4, Sorts DEF AlrmStep, AlrmLock, AlrmSkip, AlrmVisit, AlrmRefill, AlrmBroadcast,
                AlrmRelease, AlrmUnlock, AlrmWake, AlrmCancelled, table, LockInv, Rounds
  <2>2. apc' \in Rounds <=> mut_job' = Alrm
    BY <1>1, Sorts DEF AlrmStep, AlrmLock, AlrmSkip, AlrmVisit, AlrmRefill, AlrmBroadcast,
                AlrmRelease, AlrmUnlock, AlrmWake, AlrmCancelled, table, LockInv, Rounds
  <2>3. \A b \in Buckets : mut[b] \in Threads => mut'[b] = mut[b]
    BY <1>1, <1>6, Sorts DEF AlrmStep, AlrmLock, AlrmSkip, AlrmVisit, AlrmRefill, AlrmBroadcast,
                AlrmRelease, AlrmUnlock, AlrmWake, AlrmCancelled, heap, TypeOK, OnBucket
  <2>4. \A u \in Threads : pc'[u] \in BucketHolding => mut'[me[u]] = u
    <3>1. \A u \in Threads : pc[u] \in BucketHolding => me[u] \in Buckets
      BY <1>1 DEF CallsInv, TypeOK, BucketHolding, Outside
    <3> QED BY <1>1, <1>4, <2>3, <3>1 DEF LockInv
  <2>5. apc' \in OnBucket => i' \in Slots /\ job[i'] # NULL /\ mut'[job[i']] = Alrm
    <3>1. CASE AlrmVisit
      BY <1>1, <3>1, Sorts DEF AlrmVisit, TypeOK, Slots
    <3>2. CASE ~AlrmVisit
      BY <1>1, <1>6, <3>2, Sorts DEF AlrmStep, AlrmLock, AlrmSkip, AlrmRefill, AlrmBroadcast,
           AlrmRelease, AlrmUnlock, AlrmWake, AlrmCancelled, heap, OnBucket
    <3> QED BY <3>1, <3>2
  <2> QED BY <1>2, <2>1, <2>2, <2>4, <2>5 DEF LockInv
<1> QED BY <1>2, <1>4, <1>5, <1>7, <1>8, QuietKept

\* A caller takes or releases a mutex, or works under it.
LEMMA CallerQuietKept ==
    ASSUME MtInv, NEW t \in Threads,
           \/ InitLock(t) \/ PlaceFull(t) \/ FetchTake(t) \/ FetchWait(t) \/ WakeSpuriously(t)
           \/ LockBucket(t, "fetchlock", "fetch") \/ LockBucket(t, "relock", "fetch")
           \/ LockBucket(t, "returnlock", "return") \/ ReturnAdd(t)
           \/ DestroyLock(t) \/ DestroyUnlock(t) \/ Join(t) \/ Gone(t)
           \/ InitNoMemory(t) \/ ExitBegin(t)
    PROVE  MtInv'
<1> DEFINE Takes == LockBucket(t, "fetchlock", "fetch") \/ LockBucket(t, "relock", "fetch")
                       \/ LockBucket(t, "returnlock", "return")
           b == me[t]
<1>1. TypeOK /\ LockInv /\ CallsInv /\ TableInv /\ ExitInv
  BY DEF MtInv
<1>2. UNCHANGED <<job, live, pos, me, size>>
  BY DEF InitLock, PlaceFull, FetchTake, FetchWait, WakeSpuriously, LockBucket, ReturnAdd,
         DestroyLock, DestroyUnlock, Join, Gone, InitNoMemory, ExitBegin, table, heap, callers
<1>3. /\ \A u \in Threads \ {t} :
            pc'[u] = pc[u] \/ (pc[u] = "wait" /\ pc'[u] = "relock")
      /\ <<pc[t], pc'[t]>> \in
            {<<"initlock", "place">>, <<"place", "full">>, <<"fetch", "fetched">>,
             <<"fetch", "wait">>, <<"wait", "relock">>, <<"fetchlock", "fetch">>,
             <<"relock", "fetch">>, <<"returnlock", "return">>, <<"return", "returned">>,
             <<"destroylock", "clear">>, <<"cleared", "free">>, <<"join", "unload">>,
             <<"unload", "gone">>, <<"out", "out">>, <<"out", "join">>}
      /\ pc' \in [Threads -> CallerAt]
  <2>1. CASE ReturnAdd(t)
    BY <1>1, <2>1 DEF ReturnAdd, Woken, TypeOK, CallerAt
  <2>2. CASE ~ReturnAdd(t)
    BY <1>1, <2>2
       DEF InitLock, PlaceFull, FetchTake, FetchWait, WakeSpuriously, LockBucket, DestroyLock,
           DestroyUnlock, Join, Gone, InitNoMemory, ExitBegin, callers, Goto, TypeOK, CallerAt
  <2> QED BY <2>1, <2>2
<1>4. \A u \in Threads :
         /\ pc'[u] \in Outside <=> pc[u] \in Outside
         /\ pc'[u] \in Unlisted <=> pc[u] \in Unlisted
         /\ pc'[u] \in Inside => pc[u] \in Inside
         /\ pc'[u] \in Alone => pc[u] \in Alone
         /\ pc'[u] \in Listed => pc[u] \in Listed
         /\ pc'[u] \in {"returnlock", "return"} => pc[u] \in {"returnlock", "return"}
  BY <1>3 DEF Outside, Unlisted, Inside, Alone, Listed
<1>5. pc[t] \in Inside \cup Alone => b \in Buckets
  BY <1>1 DEF CallsInv, TypeOK, Inside, Alone, Unlisted, Outside
<1>6. pc[t] \in {"fetchlock", "fetch", "relock", "return"} => size[t] \in Nat
  BY <1>1, Sorts DEF CallsInv, Inside
<1>7. TypeOK'
  <2>1. token' \in [Buckets -> 0 .. BURST]
    <3>1. CASE FetchTake(t)
      <4>1. b \in Buckets /\ token[b] \in 0 .. BURST /\ size[t] \in Nat
        BY <1>1, <1>5, <1>6, <3>1 DEF FetchTake, Inside, TypeOK
      <4>2. token[b] - Least(token[b], size[t]) \in 0 .. BURST
        <5> HIDE DEF b
        <5> QED BY <4>1, Sorts DEF Least
      <4> QED BY <1>1, <3>1, <4>1, <4>2 DEF FetchTake, TypeOK
    <3>2. CASE ReturnAdd(t)
      <4>1. b \in Buckets /\ token[b] \in 0 .. BURST /\ size[t] \in Nat
        BY <1>1, <1>5, <1>6, <3>2 DEF ReturnAdd, Inside, TypeOK
      <4>2. Least(token[b] + size[t], BURST) \in 0 .. BURST
        <5> HIDE DEF b
        <5> QED BY <4>1, Sorts DEF Least
      <4> QED BY <1>1, <3>2, <4>1, <4>2 DEF ReturnAdd, TypeOK
    <3>3. CASE ~FetchTake(t) /\ ~ReturnAdd(t)
      BY <1>1, <3>3
         DEF InitLock, PlaceFull, FetchWait, WakeSpuriously, LockBucket, DestroyLock,
             DestroyUnlock, Join, Gone, InitNoMemory, ExitBegin, heap, TypeOK
    <3> QED BY <3>1, <3>2, <3>3
  <2>2. mut_job' \in Owner /\ mut' \in [Buckets -> Owner]
    BY <1>1 DEF InitLock, PlaceFull, FetchTake, FetchWait, WakeSpuriously, LockBucket, ReturnAdd,
                DestroyLock, DestroyUnlock, Join, Gone, InitNoMemory, ExitBegin, table, heap,
                TypeOK, Owner
  <2>3. apc' \in AlarmAt /\ cancel' \in BOOLEAN /\ i' \in 0 .. MYTBF_MAX
    <3>1. 0 \in 0 .. MYTBF_MAX
      BY Sorts
    <3>2. CASE Join(t) \/ InitNoMemory(t) \/ ExitBegin(t)
      BY <1>1, <3>1, <3>2 DEF Join, InitNoMemory, ExitBegin, TypeOK, AlarmAt
    <3>3. CASE UNCHANGED alarm
      BY <1>1, <3>3 DEF alarm, TypeOK
    <3> QED BY <3>2, <3>3
            DEF InitLock, PlaceFull, FetchTake, FetchWait, WakeSpuriously, LockBucket, ReturnAdd,
                DestroyLock, DestroyUnlock, Gone
  <2> QED BY <1>1, <1>2, <1>3, <2>1, <2>2, <2>3 DEF TypeOK
<1>8. /\ apc' = apc \/ (apc = "none" /\ apc' = "lockjob")
      /\ i' = i \/ apc = "ended"
      /\ pc'[t] = "unload" => apc = "ended"
      /\ pc'[t] = "join" => \A u \in Threads : pc[u] = "out"
  <2>1. CASE Join(t) \/ InitNoMemory(t) \/ ExitBegin(t)
    BY <1>1, <2>1 DEF Join, InitNoMemory, ExitBegin, callers, Goto, TypeOK
  <2>2. CASE ~Join(t) /\ ~InitNoMemory(t) /\ ~ExitBegin(t)
    <3>1. UNCHANGED alarm
      BY <2>2 DEF InitLock, PlaceFull, FetchTake, FetchWait, WakeSpuriously, LockBucket,
           ReturnAdd, DestroyLock, DestroyUnlock, Gone
    <3>2. pc[t] \notin {"join", "out"}
      BY <2>2 DEF InitLock, PlaceFull, FetchTake, FetchWait, WakeSpuriously, LockBucket,
           ReturnAdd, DestroyLock, DestroyUnlock, Gone
    <3> QED BY <1>3, <3>1, <3>2 DEF alarm
  <2> QED BY <2>1, <2>2
<1>9. ExitInv'
  <2>1. /\ \A u \in Threads : pc[u] = "out" => pc'[u] = "out" \/ pc'[u] = "join"
        /\ \A u \in Threads \ {t} : /\ pc'[u] \in Leaving <=> pc[u] \in Leaving
                                    /\ pc'[u] \in {"unload", "gone"} => pc[u] \in {"unload", "gone"}
                                    /\ pc[u] = "out" => pc'[u] = "out"
    BY <1>3 DEF Leaving
  <2>2. pc'[t] \in Leaving => pc[t] \in Leaving \/ \A u \in Threads : pc[u] = "out"
    BY <1>3, <1>8 DEF Leaving
  <2>3. ASSUME NEW u \in Threads, u # t, pc[u] \in Leaving
        PROVE  pc'[t] = "out"
    <3>1. pc[t] = "out" /\ pc'[t] # "join"
      BY <1>1, <1>8, <2>3 DEF ExitInv, Leaving
    <3> QED BY <1>3, <3>1
  <2>4. pc'[t] \in {"unload", "gone"} => apc = "ended"
    BY <1>1, <1>3, <1>8 DEF ExitInv
  <2>5. \A u \in Threads : pc'[u] \in Leaving => \A v \in Threads : v # u => pc'[v] = "out"
    BY <1>1, <2>1, <2>2, <2>3 DEF ExitInv, Leaving
  <2>6. \A u \in Threads : pc'[u] \in {"unload", "gone"} => apc' = "ended"
    BY <1>1, <1>8, <2>1, <2>4 DEF ExitInv
  <2> QED BY <2>5, <2>6 DEF ExitInv
<1>10. \A u \in Threads \ {t} :
          /\ pc'[u] \in TableHolding <=> pc[u] \in TableHolding
          /\ pc'[u] \in BucketHolding <=> pc[u] \in BucketHolding
  BY <1>3 DEF TableHolding, BucketHolding
<1>11. /\ \A u \in Threads : pc'[u] \in TableHolding <=> mut_job' = u
       /\ apc' \in Rounds <=> mut_job' = Alrm
  <2>1. CASE InitLock(t) \/ DestroyLock(t)
    <3>1. mut_job = Nobody /\ mut_job' = t /\ apc' = apc /\ pc'[t] \in TableHolding
      BY <1>1, <2>1 DEF InitLock, DestroyLock, alarm, Goto, TypeOK, TableHolding
    <3> QED BY <1>1, <1>10, <3>1, Sorts DEF LockInv
  <2>2. CASE DestroyUnlock(t)
    <3>1. /\ pc[t] \in TableHolding /\ mut_job' = Nobody /\ apc' = apc
          /\ pc'[t] \notin TableHolding
      BY <1>1, <2>2 DEF DestroyUnlock, alarm, Goto, TypeOK, TableHolding
    <3> QED BY <1>1, <1>10, <3>1, Sorts DEF LockInv
  <2>3. CASE ~InitLock(t) /\ ~DestroyLock(t) /\ ~DestroyUnlock(t)
    <3>1. mut_job' = mut_job
      BY <2>3 DEF PlaceFull, FetchTake, FetchWait, WakeSpuriously, LockBucket,
           ReturnAdd, Join, Gone, InitNoMemory, ExitBegin, table
    <3>2. pc[t] \notin {"initlock", "destroylock", "cleared"}
      BY <2>3 DEF PlaceFull, FetchTake, FetchWait, WakeSpuriously, LockBucket,
           ReturnAdd, Join, Gone, InitNoMemory, ExitBegin
    <3>3. pc'[t] \in TableHolding <=> pc[t] \in TableHolding
      BY <1>3, <3>2 DEF TableHolding
    <3>4. apc' \in Rounds <=> apc \in Rounds
      BY <1>8 DEF Rounds
    <3> QED BY <1>1, <1>10, <3>1, <3>3, <3>4 DEF LockInv
  <2> QED BY <2>1, <2>2, <2>3
<1>12. /\ \A c \in Buckets : mut[c] \in Owner \ {t, Nobody} => mut'[c] = mut[c]
       /\ pc'[t] \in BucketHolding => mut'[b] = t
  <2>1. CASE Takes
    BY <1>1, <1>5, <2>1 DEF LockBucket, TypeOK, Inside
  <2>2. CASE FetchWait(t)
    <3>1. b \in Buckets /\ mut[b] = t
      BY <1>1, <1>5, <2>2 DEF FetchWait, LockInv, Inside, BucketHolding
    <3>2. pc'[t] = "wait"
      BY <1>1, <2>2 DEF FetchWait, Goto, TypeOK
    <3> QED BY <1>1, <2>2, <3>1, <3>2 DEF FetchWait, TypeOK, BucketHolding
  <2>3. CASE ~Takes /\ ~FetchWait(t)
    <3>1. mut' = mut
      BY <2>3 DEF InitLock, PlaceFull, FetchTake, WakeSpuriously, ReturnAdd, DestroyLock,
           DestroyUnlock, Join, Gone, InitNoMemory, ExitBegin, heap
    <3>2. pc[t] \notin {"fetchlock", "relock", "returnlock"}
      BY <2>3 DEF InitLock, PlaceFull, FetchTake, WakeSpuriously, ReturnAdd, DestroyLock,
           DestroyUnlock, Join, Gone, InitNoMemory, ExitBegin
    <3>3. pc'[t] \in BucketHolding => pc[t] \in BucketHolding
      BY <1>3, <3>2 DEF BucketHolding
    <3> QED BY <1>1, <3>1, <3>3 DEF LockInv
  <2> QED BY <2>1, <2>2, <2>3
<1>13. \A u \in Threads : pc'[u] \in BucketHolding => mut'[me[u]] = u
  <2>1. ASSUME NEW u \in Threads, u # t, pc'[u] \in BucketHolding
        PROVE  mut'[me[u]] = u
    <3>1. mut[me[u]] = u /\ me[u] \in Buckets
      BY <1>1, <1>10, <2>1 DEF LockInv, CallsInv, TypeOK, BucketHolding, Outside
    <3>2. u \in Owner \ {t, Nobody}
      BY <2>1, Sorts DEF Owner
    <3> QED BY <1>12, <3>1, <3>2
  <2> QED BY <1>12, <2>1
<1>14. apc' \in OnBucket => i' \in Slots /\ job[i'] # NULL /\ mut'[job[i']] = Alrm
  <2>1. apc' \in OnBucket => apc \in OnBucket /\ i' = i
    BY <1>8 DEF OnBucket
  <2>2. apc \in OnBucket => i \in Slots /\ job[i] \in Buckets /\ mut[job[i]] = Alrm
    BY <1>1 DEF LockInv, TypeOK
  <2>3. Alrm \in Owner \ {t, Nobody}
    BY Sorts DEF Owner
  <2> QED BY <1>12, <2>1, <2>2, <2>3, Sorts
<1>15. LockInv'
  BY <1>2, <1>11, <1>13, <1>14 DEF LockInv
<1> QED BY <1>2, <1>4, <1>7, <1>9, <1>15, QuietKept

-----------------------------------------------------------------------------
(* A call begins.                                                            *)

LEMMA InitBeginKept ==
    ASSUME MtInv, NEW t \in Threads, NEW b \in Buckets, InitBegin(t, b)
    PROVE  MtInv'
<1>1. TypeOK /\ LockInv /\ CallsInv /\ TableInv /\ ExitInv /\ LiveAreRefilled
  BY DEF MtInv
<1>2. /\ UNCHANGED <<job, mut_job, mut, pos, size, i, cancel>>
      /\ b \notin live /\ live' = live \cup {b}
      /\ pc[t] = "out" /\ pc'[t] = "initlock" /\ me'[t] = b
      /\ \A u \in Threads \ {t} : pc'[u] = pc[u] /\ me'[u] = me[u]
      /\ apc' = apc \/ (apc = "none" /\ apc' = "lockjob")
      /\ \A u \in Threads : pc[u] \notin Leaving
  BY <1>1 DEF InitBegin, Goto, TypeOK, table, Exiting, Leaving
<1>3. TypeOK'
  BY <1>1, <1>2, Sorts DEF InitBegin, Goto, TypeOK, CallerAt, AlarmAt
<1>4. LockInv'
  BY <1>1, <1>2 DEF LockInv, TableHolding, BucketHolding, Rounds, OnBucket
<1>5. /\ \A s \in Slots : job[s] # b
      /\ \A u \in Threads \ {t} : me'[u] # b /\ me[u] # b
  <2>1. b # NULL
    BY Sorts
  <2> QED BY <1>1, <1>2, <2>1 DEF TableInv, CallsInv
<1>6. CallsInv'
  <2>1. ASSUME NEW u \in Threads
        PROVE  /\ pc'[u] \in Outside <=> me'[u] = NULL
               /\ me'[u] # NULL => me'[u] \in live'
               /\ pc'[u] \in Unlisted => \A s \in Slots : job[s] # me'[u]
               /\ pc'[u] \in Listed => job[pos[me'[u]]] = me'[u]
               /\ pc'[u] \in Alone => \A v \in Threads : v # u => me'[v] # me'[u]
               /\ pc'[u] \in Inside => size[u] \in Sizes
               /\ pc'[u] \in {"returnlock", "return"} => size[u] > 0
    <3>1. CASE u = t
      BY <1>2, <1>5, <3>1, Sorts DEF Outside, Unlisted, Listed, Inside
    <3>2. CASE u # t
      <4>1. pc'[u] = pc[u] /\ me'[u] = me[u] /\ me[u] # b
        BY <1>2, <1>5, <3>2
      <4>2. pc[u] \in Alone => \A v \in Threads : v # u => me'[v] # me[u]
        BY <1>1, <1>2, <4>1 DEF CallsInv
      <4> QED BY <1>1, <1>2, <4>1, <4>2 DEF CallsInv
    <3> QED BY <3>1, <3>2
  <2> QED BY <1>2, <2>1 DEF CallsInv
<1>7. TableInv' /\ ExitInv'
  BY <1>1, <1>2 DEF TableInv, ExitInv, Leaving
<1>8. LiveAreRefilled'
  <2>1. me'[t] = b /\ pc'[t] \in {"initlock", "place", "full", "cleared", "free"}
    BY <1>2
  <2>2. ASSUME NEW c \in live
        PROVE  \/ job[pos[c]] = c
               \/ \E u \in Threads : me'[u] = c /\
                     pc'[u] \in {"initlock", "place", "full", "cleared", "free"}
    <3>1. CASE job[pos[c]] = c
      BY <3>1
    <3>2. CASE job[pos[c]] # c
      <4>1. PICK u \in Threads : me[u] = c /\
                     pc[u] \in {"initlock", "place", "full", "cleared", "free"}
        BY <1>1, <3>2 DEF LiveAreRefilled
      <4>2. u # t
        BY <1>2, <4>1
      <4> QED BY <1>2, <4>1, <4>2
    <3> QED BY <3>1, <3>2
  <2> QED BY <1>2, <2>1, <2>2 DEF LiveAreRefilled
<1> QED BY <1>3, <1>4, <1>6, <1>7, <1>8 DEF MtInv

\* A call on a bucket that exists, from a caller that may make it.
LEMMA UseKept ==
    ASSUME MtInv, NEW t \in Threads, NEW b \in Buckets,
           \/ DestroyBegin(t, b)
           \/ \E s \in Sizes : FetchBegin(t, b, s) \/ ReturnBegin(t, b, s)
    PROVE  MtInv'
<1>1. TypeOK /\ LockInv /\ CallsInv /\ TableInv /\ ExitInv /\ LiveAreRefilled
  BY DEF MtInv
<1>2. /\ UNCHANGED <<table, heap, alarm>>
      /\ pc[t] = "out" /\ me'[t] = b
      /\ pc'[t] \in {"fetchlock", "returnlock", "destroylock"}
      /\ \A u \in Threads \ {t} : pc'[u] = pc[u] /\ me'[u] = me[u] /\ size'[u] = size[u]
      /\ pc'[t] \in {"fetchlock", "returnlock"} => size'[t] \in Sizes
      /\ pc'[t] = "returnlock" => size'[t] > 0
      /\ pc'[t] = "destroylock" => \A u \in Threads : ~Using(u, b)
      /\ Usable(b)
      /\ \A u \in Threads : pc[u] \notin Leaving
  BY <1>1 DEF FetchBegin, ReturnBegin, DestroyBegin, Goto, TypeOK, Exiting, Leaving
<1>3. b \in live /\ job[pos[b]] = b /\ b # NULL
  BY <1>2, Sorts DEF Usable
<1>4. \A u \in Threads \ {t} : me[u] = b => pc[u] \in Inside /\ pc'[t] # "destroylock"
  <2>1. \A u \in Threads : me[u] = b => Using(u, b)
    BY <1>1, <1>3 DEF CallsInv, Using, Outside
  <2> QED BY <1>2, <2>1 DEF Usable, Inside
<1>5. TypeOK'
  <2>1. pc' \in [Threads -> CallerAt] /\ me' \in [Threads -> Buckets \cup {NULL}]
    BY <1>1 DEF FetchBegin, ReturnBegin, DestroyBegin, Goto, TypeOK, CallerAt
  <2>2. size' \in [Threads -> Sizes \cup {0}]
    BY <1>1 DEF FetchBegin, ReturnBegin, DestroyBegin, TypeOK
  <2> QED BY <1>1, <1>2, <2>1, <2>2 DEF TypeOK, table, heap, alarm
<1>6. LockInv'
  BY <1>1, <1>2 DEF LockInv, TableHolding, BucketHolding, table, heap, alarm
<1>7. CallsInv'
  <2>1. ASSUME NEW u \in Threads
        PROVE  /\ pc'[u] \in Outside <=> me'[u] = NULL
               /\ me'[u] # NULL => me'[u] \in live
               /\ pc'[u] \in Unlisted => \A s \in Slots : job[s] # me'[u]
               /\ pc'[u] \in Listed => job[pos[me'[u]]] = me'[u]
               /\ pc'[u] \in Alone => \A v \in Threads : v # u => me'[v] # me'[u]
               /\ pc'[u] \in Inside => size'[u] \in Sizes
               /\ pc'[u] \in {"returnlock", "return"} => size'[u] > 0
    <3>1. CASE u = t
      <4>1. pc'[t] \in Alone => pc'[t] = "destroylock"
        BY <1>2 DEF Alone, Unlisted
      <4>2. pc'[t] \in Alone => \A v \in Threads : v # t => me'[v] # me'[t]
        BY <1>2, <1>4, <4>1
      <4>3. /\ pc'[t] \notin Outside /\ pc'[t] \notin Unlisted
            /\ pc'[t] \in Inside => size'[t] \in Sizes
        BY <1>2 DEF Outside, Unlisted, Inside
      <4> QED BY <1>2, <1>3, <3>1, <4>2, <4>3
    <3>2. CASE u # t
      <4>1. pc'[u] = pc[u] /\ me'[u] = me[u] /\ size'[u] = size[u]
        BY <1>2, <3>2
      <4>2. pc[u] \in Alone => me[u] # b
        BY <1>4, <3>2 DEF Alone, Unlisted, Inside
      <4>3. pc[u] \in Alone => \A v \in Threads : v # u => me'[v] # me[u]
        BY <1>1, <1>2, <4>2 DEF CallsInv
      <4> QED BY <1>1, <1>2, <4>1, <4>3 DEF CallsInv
    <3> QED BY <3>1, <3>2
  <2> QED BY <1>2, <2>1 DEF CallsInv, table, heap
<1>8. TableInv' /\ ExitInv'
  BY <1>1, <1>2 DEF TableInv, ExitInv, Leaving, table, heap, alarm
<1>9. LiveAreRefilled'
  <2>1. ASSUME NEW c \in live
        PROVE  \/ job[pos[c]] = c
               \/ \E u \in Threads : me'[u] = c /\
                     pc'[u] \in {"initlock", "place", "full", "cleared", "free"}
    <3>1. CASE job[pos[c]] = c
      BY <3>1
    <3>2. CASE job[pos[c]] # c
      <4>1. PICK u \in Threads : me[u] = c /\
                     pc[u] \in {"initlock", "place", "full", "cleared", "free"}
        BY <1>1, <3>2 DEF LiveAreRefilled
      <4>2. u # t
        BY <1>2, <4>1
      <4> QED BY <1>2, <4>1, <4>2
    <3> QED BY <3>1, <3>2
  <2> QED BY <1>2, <2>1 DEF LiveAreRefilled, table, heap
<1> QED BY <1>5, <1>6, <1>7, <1>8, <1>9 DEF MtInv

-----------------------------------------------------------------------------
(* A call ends: its bucket stays in the table, or is out of it and is freed. *)

LEMMA LeaveKept ==
    ASSUME MtInv, NEW t \in Threads,
           \/ InitUnlock(t) \/ InitFailed(t) \/ Free(t)
           \/ UnlockBucket(t, "fetched") \/ UnlockBucket(t, "returned")
    PROVE  MtInv'
<1> DEFINE b == me[t]
<1>1. TypeOK /\ LockInv /\ CallsInv /\ TableInv /\ ExitInv /\ LiveAreRefilled
  BY DEF MtInv
<1>2. /\ UNCHANGED <<job, token, pos, alarm>>
      /\ pc[t] \in {"placed", "full", "free", "fetched", "returned"}
      /\ pc'[t] = "out" /\ me'[t] = NULL
      /\ \A u \in Threads \ {t} : pc'[u] = pc[u] /\ me'[u] = me[u] /\ size'[u] = size[u]
  BY <1>1 DEF InitUnlock, InitFailed, Free, UnlockBucket, Leave, Goto, TypeOK, heap, table
<1>3. /\ b \in Buckets /\ b \in live
      /\ pc[t] \in {"full", "free"} =>
            (\A s \in Slots : job[s] # b) /\ \A u \in Threads : u # t => me[u] # b
      /\ pc[t] \notin {"full", "free"} => job[pos[b]] = b
  <2>1. b # NULL
    BY <1>1, <1>2 DEF CallsInv, Outside
  <2> QED BY <1>1, <1>2, <2>1 DEF CallsInv, TypeOK, Unlisted, Listed, Alone, Inside
<1>4. /\ pc[t] \in {"full", "free"} => live' = live \ {b}
      /\ pc[t] \notin {"full", "free"} => live' = live
  BY DEF InitUnlock, InitFailed, Free, UnlockBucket, heap
<1>5. TypeOK'
  <2>1. /\ pc' \in [Threads -> CallerAt] /\ me' \in [Threads -> Buckets \cup {NULL}]
        /\ size' \in [Threads -> Sizes \cup {0}]
    BY <1>1 DEF InitUnlock, InitFailed, Free, UnlockBucket, Leave, Goto, TypeOK, CallerAt
  <2>2. mut_job' \in Owner /\ mut' \in [Buckets -> Owner]
    BY <1>1 DEF InitUnlock, InitFailed, Free, UnlockBucket, TypeOK, Owner, heap, table
  <2> QED BY <1>1, <1>2, <1>4, <2>1, <2>2 DEF TypeOK, alarm
<1>6. LockInv'
  <2>1. CASE InitUnlock(t) \/ InitFailed(t)
    <3>1. mut_job = t /\ mut_job' = Nobody /\ mut' = mut
      BY <1>1, <2>1 DEF InitUnlock, InitFailed, LockInv, TableHolding, heap
    <3> QED BY <1>1, <1>2, <3>1, Sorts DEF LockInv, TableHolding, BucketHolding, alarm
  <2>2. CASE Free(t)
    <3>1. mut_job' = mut_job /\ mut' = mut /\ pc[t] \notin TableHolding
      BY <2>2 DEF Free, table, TableHolding
    <3> QED BY <1>1, <1>2, <3>1 DEF LockInv, TableHolding, BucketHolding, alarm
  <2>3. CASE UnlockBucket(t, "fetched") \/ UnlockBucket(t, "returned")
    <3>1. /\ mut_job' = mut_job /\ mut[b] = t /\ mut' = [mut EXCEPT ![b] = Nobody]
          /\ pc[t] \notin TableHolding
      BY <1>1, <2>3 DEF UnlockBucket, table, LockInv, TableHolding, BucketHolding
    <3>2. \A c \in Buckets : mut[c] # t => mut'[c] = mut[c]
      BY <1>1, <3>1 DEF TypeOK
    <3>3. \A u \in Threads : pc'[u] \in BucketHolding => mut'[me'[u]] = u
      <4>1. \A u \in Threads \ {t} : pc[u] \in BucketHolding => me[u] \in Buckets /\ mut[me[u]] = u
        BY <1>1 DEF LockInv, CallsInv, TypeOK, BucketHolding, Outside
      <4> QED BY <1>2, <3>2, <4>1 DEF BucketHolding
    <3>4. apc \in OnBucket => job[i] \in Buckets /\ mut[job[i]] = Alrm
      BY <1>1 DEF LockInv, TypeOK
    <3> QED BY <1>1, <1>2, <3>1, <3>2, <3>3, <3>4, Sorts DEF LockInv, TableHolding, alarm
  <2> QED BY <2>1, <2>2, <2>3
<1>7. CallsInv'
  <2>1. ASSUME NEW u \in Threads
        PROVE  /\ pc'[u] \in Outside <=> me'[u] = NULL
               /\ me'[u] # NULL => me'[u] \in live'
               /\ pc'[u] \in Unlisted => \A s \in Slots : job[s] # me'[u]
               /\ pc'[u] \in Listed => job[pos[me'[u]]] = me'[u]
               /\ pc'[u] \in Alone => \A v \in Threads : v # u => me'[v] # me'[u]
               /\ pc'[u] \in Inside => size'[u] \in Sizes
               /\ pc'[u] \in {"returnlock", "return"} => size'[u] > 0
    <3>1. CASE u = t
      BY <1>2, <3>1 DEF Outside, Unlisted, Listed, Alone, Inside
    <3>2. CASE u # t
      <4>1. pc'[u] = pc[u] /\ me'[u] = me[u] /\ size'[u] = size[u]
        BY <1>2, <3>2
      <4>2. me[u] # NULL => me[u] \in live'
        BY <1>1, <1>3, <1>4, <3>2 DEF CallsInv
      <4>3. pc[u] \in Alone => \A v \in Threads : v # u => me'[v] # me[u]
        <5>1. pc[u] \in Alone => me[u] # NULL
          BY <1>1 DEF CallsInv, Alone, Unlisted, Outside
        <5> QED BY <1>1, <1>2, <5>1 DEF CallsInv
      <4> QED BY <1>1, <4>1, <4>2, <4>3 DEF CallsInv
    <3> QED BY <3>1, <3>2
  <2> QED BY <1>2, <2>1 DEF CallsInv
<1>8. TableInv'
  BY <1>1, <1>2, <1>3, <1>4 DEF TableInv
<1>9. ExitInv'
  BY <1>1, <1>2 DEF ExitInv, Leaving, alarm
<1>10. LiveAreRefilled'
  <2>1. ASSUME NEW c \in live'
        PROVE  \/ job[pos[c]] = c
               \/ \E u \in Threads : me'[u] = c /\
                     pc'[u] \in {"initlock", "place", "full", "cleared", "free"}
    <3>1. CASE job[pos[c]] = c
      BY <3>1
    <3>2. CASE job[pos[c]] # c
      <4>1. c \in live /\ c # b
        BY <1>3, <1>4, <2>1, <3>2
      <4>2. PICK u \in Threads : me[u] = c /\
                     pc[u] \in {"initlock", "place", "full", "cleared", "free"}
        BY <1>1, <3>2, <4>1 DEF LiveAreRefilled
      <4>3. u # t
        BY <4>1, <4>2
      <4> QED BY <1>2, <4>2, <4>3
    <3> QED BY <3>1, <3>2
  <2> QED BY <1>2, <2>1 DEF LiveAreRefilled
<1> QED BY <1>5, <1>6, <1>7, <1>8, <1>9, <1>10 DEF MtInv

-----------------------------------------------------------------------------
(* The table changes. *)

LEMMA PlaceKept ==
    ASSUME MtInv, NEW t \in Threads, Place(t)
    PROVE  MtInv'
<1> DEFINE b == me[t]
<1>1. TypeOK /\ LockInv /\ CallsInv /\ TableInv /\ ExitInv /\ LiveAreRefilled
  BY DEF MtInv
<1>2. PICK p \in Slots : /\ job[p] = NULL
                         /\ job' = [job EXCEPT ![p] = b]
                         /\ pos' = [pos EXCEPT ![b] = p]
  BY DEF Place, IsFreePos
<1>3. /\ pc[t] = "place" /\ b \in Buckets /\ b \in live
      /\ \A s \in Slots : job[s] # b
      /\ \A u \in Threads : u # t => me[u] # b
  <2>1. pc[t] = "place" /\ b # NULL
    BY <1>1 DEF Place, CallsInv, Outside
  <2> QED BY <1>1, <2>1 DEF CallsInv, TypeOK, Unlisted, Alone
<1>4. /\ UNCHANGED <<mut_job, live, token, mut, me, size, alarm>>
      /\ pc'[t] = "placed" /\ \A u \in Threads \ {t} : pc'[u] = pc[u]
      /\ job'[p] = b /\ \A s \in Slots : s # p => job'[s] = job[s]
      /\ pos'[b] = p /\ \A c \in Buckets : c # b => pos'[c] = pos[c]
  BY <1>1, <1>2, <1>3 DEF Place, Goto, TypeOK
<1> HIDE DEF b
<1>5. TypeOK'
  <2>1. job' \in [Slots -> Buckets \cup {NULL}] /\ pos' \in [Buckets -> Slots]
    BY <1>1, <1>2, <1>3 DEF TypeOK
  <2>2. pc' \in [Threads -> CallerAt]
    BY <1>1 DEF Place, Goto, TypeOK, CallerAt
  <2> QED BY <1>1, <1>4, <2>1, <2>2 DEF TypeOK, alarm
<1>6. mut_job = t /\ apc \notin Rounds
  BY <1>1, <1>3, Sorts DEF LockInv, TableHolding
<1>7. LockInv'
  <2>1. apc \notin OnBucket
    BY <1>6 DEF Rounds, OnBucket
  <2> QED BY <1>1, <1>3, <1>4, <1>6, <2>1 DEF LockInv, TableHolding, BucketHolding, alarm
<1>8. \A c \in Buckets : job[pos[c]] = c => job'[pos'[c]] = c
  <2>1. \A c \in Buckets : c # NULL /\ pos[c] \in Slots
    BY <1>1, Sorts DEF TypeOK
  <2> QED BY <1>2, <1>3, <1>4, <2>1
<1>9. CallsInv'
  <2>1. ASSUME NEW u \in Threads
        PROVE  /\ pc'[u] \in Outside <=> me[u] = NULL
               /\ pc'[u] \in Unlisted => \A s \in Slots : job'[s] # me[u]
               /\ pc'[u] \in Listed => job'[pos'[me[u]]] = me[u]
               /\ pc'[u] \in Alone => pc[u] \in Alone
               /\ pc'[u] \in Inside => pc[u] \in Inside
               /\ pc'[u] \in {"returnlock", "return"} => pc[u] \in {"returnlock", "return"}
    <3>1. CASE u = t
      <4>1. pc[t] \in Alone /\ pc[t] \notin Outside
        BY <1>3 DEF Alone, Unlisted, Outside
      <4>2. /\ pc'[t] \notin Outside /\ pc'[t] \notin Unlisted /\ pc'[t] \notin Inside
            /\ pc'[t] \notin {"returnlock", "return"}
        BY <1>4 DEF Outside, Unlisted, Inside
      <4>3. me[t] # NULL /\ job'[pos'[me[t]]] = me[t]
        BY <1>3, <1>4, Sorts DEF b
      <4> QED BY <3>1, <4>1, <4>2, <4>3
    <3>2. CASE u # t
      <4>1. pc'[u] = pc[u] /\ me[u] # b
        BY <1>3, <1>4, <3>2
      <4>2. pc[u] \in Listed => me[u] \in Buckets
        BY <1>1 DEF CallsInv, TypeOK, Listed, Inside, Outside
      <4> QED BY <1>1, <1>4, <1>8, <4>1, <4>2 DEF CallsInv
    <3> QED BY <3>1, <3>2
  <2> QED BY <1>1, <1>4, <2>1 DEF CallsInv
<1>10. TableInv'
  BY <1>1, <1>3, <1>4, <1>5 DEF TableInv, TypeOK
<1>11. ExitInv'
  BY <1>1, <1>3, <1>4 DEF ExitInv, Leaving, alarm
<1>12. LiveAreRefilled'
  <2>1. ASSUME NEW c \in live
        PROVE  \/ job'[pos'[c]] = c
               \/ \E u \in Threads : me[u] = c /\
                     pc'[u] \in {"initlock", "place", "full", "cleared", "free"}
    <3>1. CASE job[pos[c]] = c
      BY <1>1, <1>8, <3>1 DEF TypeOK
    <3>2. CASE job[pos[c]] # c /\ c # b
      <4>1. PICK u \in Threads : me[u] = c /\
                     pc[u] \in {"initlock", "place", "full", "cleared", "free"}
        BY <1>1, <3>2 DEF LiveAreRefilled
      <4>2. u # t
        BY <3>2, <4>1 DEF b
      <4> QED BY <1>4, <4>1, <4>2
    <3>3. CASE c = b
      BY <1>4, <3>3
    <3> QED BY <3>1, <3>2, <3>3
  <2> QED BY <1>4, <2>1 DEF LiveAreRefilled
<1> QED BY <1>5, <1>7, <1>9, <1>10, <1>11, <1>12 DEF MtInv

LEMMA ClearKept ==
    ASSUME MtInv, NEW t \in Threads, Clear(t)
    PROVE  MtInv'
<1> DEFINE b == me[t]
           p == pos[b]
<1>1. TypeOK /\ LockInv /\ CallsInv /\ TableInv /\ ExitInv /\ LiveAreRefilled
  BY DEF MtInv
<1>2. /\ pc[t] = "clear" /\ b \in Buckets /\ b \in live /\ p \in Slots /\ job[p] = b
      /\ \A u \in Threads : u # t => me[u] # b
  <2>1. pc[t] = "clear" /\ b # NULL
    BY <1>1 DEF Clear, CallsInv, Outside
  <2> QED BY <1>1, <2>1 DEF CallsInv, TypeOK, Unlisted, Listed, Alone
<1>3. /\ UNCHANGED <<mut_job, heap, me, size, alarm>>
      /\ pc'[t] = "cleared" /\ \A u \in Threads \ {t} : pc'[u] = pc[u]
      /\ job' = [job EXCEPT ![p] = NULL]
      /\ job'[p] = NULL /\ \A s \in Slots : s # p => job'[s] = job[s]
  BY <1>1, <1>2 DEF Clear, Goto, TypeOK
<1>4. TypeOK'
  <2>1. job' \in [Slots -> Buckets \cup {NULL}]
    BY <1>1, <1>3 DEF TypeOK
  <2>2. pc' \in [Threads -> CallerAt]
    BY <1>1 DEF Clear, Goto, TypeOK, CallerAt
  <2> QED BY <1>1, <1>3, <2>1, <2>2 DEF TypeOK, alarm, heap
<1>5. mut_job = t /\ apc \notin OnBucket
  BY <1>1, <1>2, Sorts DEF LockInv, TableHolding, Rounds, OnBucket
<1>6. LockInv'
  BY <1>1, <1>2, <1>3, <1>5 DEF LockInv, TableHolding, BucketHolding, alarm, heap
<1>7. \A c \in Buckets : c # b /\ job[pos[c]] = c => job'[pos[c]] = c
  BY <1>1, <1>2, <1>3 DEF TypeOK
<1>8. \A s \in Slots : job'[s] # b
  BY <1>1, <1>2, <1>3, Sorts DEF TableInv
<1> HIDE DEF b, p
<1>9. CallsInv'
  <2>1. ASSUME NEW u \in Threads
        PROVE  /\ pc'[u] \in Outside <=> me[u] = NULL
               /\ pc'[u] \in Unlisted => \A s \in Slots : job'[s] # me[u]
               /\ pc'[u] \in Listed => job'[pos[me[u]]] = me[u]
               /\ pc'[u] \in Alone => pc[u] \in Alone
               /\ pc'[u] \in Inside => pc[u] \in Inside
               /\ pc'[u] \in {"returnlock", "return"} => pc[u] \in {"returnlock", "return"}
    <3>1. CASE u = t
      <4>1. pc[t] \in Alone /\ me[t] # NULL
        BY <1>1, <1>2 DEF CallsInv, Alone, Outside
      <4>2. /\ pc'[t] \notin Outside /\ pc'[t] \notin Listed /\ pc'[t] \notin Inside
            /\ pc'[t] \notin {"returnlock", "return"}
        BY <1>3 DEF Outside, Listed, Inside
      <4> QED BY <1>8, <3>1, <4>1, <4>2 DEF b
    <3>2. CASE u # t
      <4>1. pc'[u] = pc[u] /\ me[u] # b
        BY <1>2, <1>3, <3>2
      <4>2. pc[u] \in Listed => me[u] \in Buckets
        BY <1>1 DEF CallsInv, TypeOK, Listed, Inside, Outside
      <4>3. pc[u] \in Unlisted => \A s \in Slots : job'[s] # me[u]
        <5>1. pc[u] \in Unlisted => me[u] # NULL /\ \A s \in Slots : job[s] # me[u]
          BY <1>1 DEF CallsInv, Unlisted, Outside
        <5> QED BY <1>3, <5>1
      <4> QED BY <1>1, <1>7, <4>1, <4>2, <4>3 DEF CallsInv
    <3> QED BY <3>1, <3>2
  <2> QED BY <1>1, <1>3, <2>1 DEF CallsInv, heap
<1>10. TableInv' /\ ExitInv'
  BY <1>1, <1>2, <1>3 DEF TableInv, ExitInv, Leaving, alarm, heap
<1>11. LiveAreRefilled'
  <2>1. ASSUME NEW c \in live
        PROVE  \/ job'[pos[c]] = c
               \/ \E u \in Threads : me[u] = c /\
                     pc'[u] \in {"initlock", "place", "full", "cleared", "free"}
    <3>1. CASE job[pos[c]] = c /\ c # b
      BY <1>1, <1>7, <3>1 DEF TypeOK
    <3>2. CASE job[pos[c]] # c
      <4>1. PICK u \in Threads : me[u] = c /\
                     pc[u] \in {"initlock", "place", "full", "cleared", "free"}
        BY <1>1, <3>2 DEF LiveAreRefilled
      <4>2. u # t
        BY <1>2, <4>1
      <4> QED BY <1>3, <4>1, <4>2
    <3>3. CASE c = b
      BY <1>3, <3>3 DEF b
    <3> QED BY <3>1, <3>2, <3>3
  <2> QED BY <1>3, <2>1 DEF LiveAreRefilled, heap
<1> QED BY <1>4, <1>6, <1>9, <1>10, <1>11 DEF MtInv

\* exit destroys what is left: thr_alrm has ended and no other thread calls.
LEMMA UnloadKept ==
    ASSUME MtInv, NEW t \in Threads, Unload(t)
    PROVE  MtInv'
<1>1. TypeOK /\ LockInv /\ CallsInv /\ TableInv /\ ExitInv /\ LiveAreRefilled
  BY DEF MtInv
<1>2. /\ pc[t] = "unload" /\ i \in Slots /\ i' = i + 1 /\ apc = "ended"
      /\ UNCHANGED <<mut_job, token, mut, pos, pc, me, size, apc, cancel>>
      /\ \/ job[i] = NULL /\ job' = job /\ live' = live
         \/ /\ job[i] # NULL /\ job' = [job EXCEPT ![pos[job[i]]] = NULL]
            /\ live' = live \ {job[i]}
  BY <1>1, Sorts DEF Unload, ExitInv, TypeOK, Slots, callers
<1>3. \A u \in Threads : me[u] = NULL /\ pc[u] \in {"out", "unload"}
  BY <1>1, <1>2 DEF CallsInv, ExitInv, Leaving, Outside
<1>4. job[i] # NULL => pos[job[i]] = i
  BY <1>1, <1>2 DEF TableInv
<1>5. TypeOK'
  <2>1. i' \in 0 .. MYTBF_MAX
    BY <1>2, Sorts DEF Slots
  <2>2. job' \in [Slots -> Buckets \cup {NULL}] /\ live' \subseteq Buckets
    BY <1>1, <1>2 DEF TypeOK
  <2> QED BY <1>1, <1>2, <2>1, <2>2 DEF TypeOK
<1>6. LockInv' /\ ExitInv'
  BY <1>1, <1>2, <1>3 DEF LockInv, ExitInv, TableHolding, BucketHolding, OnBucket
<1>7. CallsInv'
  BY <1>1, <1>2, <1>3 DEF CallsInv, Unlisted, Listed, Alone, Inside
<1>8. TableInv' /\ LiveAreRefilled'
  <2>1. \A c \in live : job[pos[c]] = c /\ pos[c] \in Slots /\ c # NULL
    BY <1>1, <1>3, Sorts DEF LiveAreRefilled, TypeOK
  <2>2. CASE job[i] = NULL
    BY <1>1, <1>2, <1>3, <2>1, <2>2 DEF TableInv, LiveAreRefilled
  <2>3. CASE job[i] # NULL
    <3>1. /\ job'[i] = NULL /\ live' = live \ {job[i]} /\ pos' = pos
          /\ \A s \in Slots : s # i => job'[s] = job[s]
      BY <1>1, <1>2, <1>4, <2>3 DEF TypeOK
    <3>2. \A s \in Slots : s # i /\ job[s] # NULL => job[s] # job[i]
      BY <1>1, <1>2 DEF TableInv
    <3>3. \A c \in live' : pos[c] # i
      BY <2>1, <3>1
    <3>4. TableInv'
      BY <1>1, <3>1, <3>2 DEF TableInv
    <3>5. LiveAreRefilled'
      BY <2>1, <3>1, <3>3 DEF LiveAreRefilled
    <3> QED BY <3>4, <3>5
  <2> QED BY <2>2, <2>3
<1> QED BY <1>5, <1>6, <1>7, <1>8 DEF MtInv

-----------------------------------------------------------------------------
LEMMA MtStarts ==
    ASSUME Init
    PROVE  MtInv
<1>1. 0 \in Slots /\ 0 \in 0 .. MYTBF_MAX /\ 0 \in 0 .. BURST
  BY Sorts DEF Slots
<1>2. TypeOK
  BY <1>1 DEF Init, TypeOK, Owner, CallerAt, AlarmAt
<1>3. LockInv
  BY Sorts DEF Init, LockInv, TableHolding, BucketHolding, Rounds, OnBucket
<1>4. CallsInv /\ TableInv /\ ExitInv /\ LiveAreRefilled
  BY DEF Init, CallsInv, TableInv, ExitInv, LiveAreRefilled, Outside, Unlisted, Listed, Alone,
         Inside, Leaving
<1> QED BY <1>2, <1>3, <1>4 DEF MtInv

LEMMA MtKeeps ==
    ASSUME MtInv, [Next]_vars
    PROVE  MtInv'
<1>1. CASE UNCHANGED vars
  BY <1>1 DEF vars, table, heap, callers, alarm, MtInv, TypeOK, LockInv, CallsInv, TableInv,
              ExitInv, LiveAreRefilled
<1>2. ASSUME NEW t \in Threads, Begin(t)
      PROVE  MtInv'
  <2>1. CASE \E b \in Buckets : InitBegin(t, b)
    BY <2>1, InitBeginKept
  <2>2. CASE \E b \in Buckets : \/ DestroyBegin(t, b)
                                \/ \E s \in Sizes : FetchBegin(t, b, s) \/ ReturnBegin(t, b, s)
    BY <2>2, UseKept
  <2>3. CASE InitNoMemory(t) \/ ExitBegin(t)
    BY <2>3, CallerQuietKept
  <2> QED BY <1>2, <2>1, <2>2, <2>3 DEF Begin
<1>3. ASSUME NEW t \in Threads, Step(t)
      PROVE  MtInv'
  <2>1. CASE InitStep(t)
    BY <2>1, CallerQuietKept, PlaceKept, LeaveKept DEF InitStep
  <2>2. CASE FetchStep(t) \/ ReturnStep(t)
    BY <2>2, CallerQuietKept, LeaveKept DEF FetchStep, ReturnStep
  <2>3. CASE DestroyStep(t)
    BY <2>3, CallerQuietKept, ClearKept, LeaveKept DEF DestroyStep
  <2>4. CASE ExitStep(t)
    BY <2>4, CallerQuietKept, UnloadKept DEF ExitStep
  <2> QED BY <1>3, <2>1, <2>2, <2>3, <2>4 DEF Step
<1> QED BY <1>1, <1>2, <1>3, AlrmKept DEF Next

LEMMA MtInvariant == Spec => []MtInv
<1> QED BY MtStarts, MtKeeps, PTL DEF Spec

\* thr_alrm works on no freed bucket and holds the mutex of the one it works on,
\* and every bucket that callers may wait on is in the table it goes through,
\* whatever is created and destroyed beside it (mytbf.c:32-44, 125-215).
THEOREM TableSafe == Spec => []TableIsSafe
<1>1. MtInv => AlrmTouchesLive
  BY DEF MtInv, LockInv, TableInv, AlrmTouchesLive, OnBucket
<1>2. MtInv => LiveAreRefilled
  BY DEF MtInv
<1> QED BY <1>1, <1>2, MtInvariant, PTL DEF TableIsSafe

-----------------------------------------------------------------------------
(* The refinement: each step that changes a bucket is the abstract step of   *)
(* its name, and every other one leaves the buckets alone.                   *)

LEMMA AlrmRefines ==
    ASSUME MtInv, AlrmStep
    PROVE  [Abstract!Next]_(Abstract!bucketVars)
<1>1. live' = live
  BY DEF AlrmStep, AlrmLock, AlrmSkip, AlrmVisit, AlrmRefill, AlrmBroadcast, AlrmRelease,
         AlrmUnlock, AlrmWake, AlrmCancelled, heap
<1>2. CASE AlrmRefill
  <2>1. job[i] \in Buckets /\ job[i] \in live
    BY <1>2 DEF AlrmRefill, MtInv, TypeOK, LockInv, TableInv, OnBucket
  <2>2. Abstract!Tick(job[i])
    BY <1>1, <1>2, <2>1 DEF AlrmRefill, Abstract!Tick, Abstract!Least, Least
  <2> QED BY <2>1, <2>2 DEF Abstract!Next
<1>3. CASE ~AlrmRefill
  BY <1>1, <1>3 DEF AlrmStep, AlrmLock, AlrmSkip, AlrmVisit, AlrmBroadcast, AlrmRelease,
         AlrmUnlock, AlrmWake, AlrmCancelled, heap, Abstract!bucketVars
<1> QED BY <1>2, <1>3

LEMMA CallerRefines ==
    ASSUME MtInv, NEW t \in Threads, Begin(t) \/ Step(t)
    PROVE  [Abstract!Next]_(Abstract!bucketVars)
<1>1. TypeOK /\ CallsInv /\ TableInv
  BY DEF MtInv
<1>2. CASE Begin(t)
  <2>1. CASE \E b \in Buckets : InitBegin(t, b)
    BY <2>1 DEF InitBegin, Abstract!Next, Abstract!Create
  <2>2. CASE ~\E b \in Buckets : InitBegin(t, b)
    BY <1>2, <2>2 DEF Begin, DestroyBegin, FetchBegin, ReturnBegin, InitNoMemory, ExitBegin,
                      heap, Abstract!bucketVars
  <2> QED BY <2>1, <2>2
<1>3. pc[t] \notin Outside => me[t] \in Buckets /\ me[t] \in live
  BY <1>1 DEF CallsInv, TypeOK
<1>4. CASE InitFailed(t) \/ Free(t)
  <2>1. me[t] \in Buckets /\ me[t] \in live
    BY <1>3, <1>4 DEF InitFailed, Free, Outside
  <2>2. Abstract!Destroy(me[t])
    BY <1>4, <2>1 DEF InitFailed, Free, Abstract!Destroy
  <2> QED BY <2>1, <2>2 DEF Abstract!Next
<1>5. CASE FetchTake(t)
  <2>1. me[t] \in Buckets /\ me[t] \in live /\ size[t] \in Sizes
    BY <1>1, <1>3, <1>5 DEF FetchTake, Outside, CallsInv, Inside
  <2>2. Abstract!Fetch(me[t], size[t])
    BY <1>5, <2>1 DEF FetchTake, Abstract!Fetch, Abstract!Least, Least
  <2> QED BY <2>1, <2>2 DEF Abstract!Next
<1>6. CASE ReturnAdd(t)
  <2>1. me[t] \in Buckets /\ me[t] \in live /\ size[t] \in Sizes /\ size[t] > 0
    BY <1>1, <1>3, <1>6 DEF ReturnAdd, Outside, CallsInv, Inside
  <2>2. Abstract!Return(me[t], size[t])
    BY <1>6, <2>1 DEF ReturnAdd, Abstract!Return, Abstract!Least, Least
  <2> QED BY <2>1, <2>2 DEF Abstract!Next
<1>7. CASE Unload(t)
  <2>1. CASE job[i] # NULL
    <3>1. i \in Slots
      BY <1>1, <1>7, Sorts DEF Unload, TypeOK, Slots
    <3>2. job[i] \in Buckets /\ job[i] \in live
      BY <1>1, <2>1, <3>1 DEF TypeOK, TableInv
    <3>3. Abstract!Destroy(job[i])
      BY <1>7, <2>1, <3>2 DEF Unload, Abstract!Destroy
    <3> QED BY <3>2, <3>3 DEF Abstract!Next
  <2>2. CASE job[i] = NULL
    BY <1>7, <2>2 DEF Unload, Abstract!bucketVars
  <2> QED BY <2>1, <2>2
<1>8. CASE Step(t) /\ ~(\/ InitFailed(t) \/ Free(t) \/ FetchTake(t) \/ ReturnAdd(t)
                        \/ Unload(t))
  BY <1>8 DEF Step, InitStep, InitLock, Place, PlaceFull, InitUnlock, FetchStep, LockBucket,
              FetchWait, WakeSpuriously, UnlockBucket, ReturnStep, DestroyStep, DestroyLock,
              Clear, DestroyUnlock, ExitStep, Join, Gone, heap, Abstract!bucketVars
<1> QED BY <1>2, <1>4, <1>5, <1>6, <1>7, <1>8

\* The library implements the token bucket: what is fetched was there, the
\* refill and what is returned stop at the burst, and a bucket is used only
\* from the call that made it to the one that frees it.
THEOREM BucketImplemented == Spec => ImplementsBucket
<1>1. Init => Abstract!Init
  BY DEF Init, Abstract!Init
<1>2. MtInv /\ [Next]_vars => [Abstract!Next]_(Abstract!bucketVars)
  <2> SUFFICES ASSUME MtInv, [Next]_vars
               PROVE  [Abstract!Next]_(Abstract!bucketVars)
    OBVIOUS
  <2>1. CASE UNCHANGED vars
    BY <2>1 DEF vars, heap, Abstract!bucketVars
  <2>2. CASE AlrmStep
    BY <2>2, AlrmRefines
  <2>3. CASE \E t \in Threads : Begin(t) \/ Step(t)
    BY <2>3, CallerRefines
  <2> QED BY <2>1, <2>2, <2>3 DEF Next
<1> QED BY <1>1, <1>2, MtInvariant, PTL DEF Spec, ImplementsBucket, Abstract!Spec

=============================================================================
