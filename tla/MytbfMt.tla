------------------------------- MODULE MytbfMt -------------------------------
(***************************************************************************)
(* The token-bucket library for threads, posix/mytbf_mt/mytbf.c.           *)
(*                                                                         *)
(* mut_job protects the table of buckets, each bucket's mut protects its   *)
(* tokens, and the thread thr_alrm refills every bucket once a second      *)
(* holding mut_job throughout and each bucket's mut in turn.  Taking a     *)
(* mutex, the work under it and its release are separate steps.            *)
(***************************************************************************)
EXTENDS Integers, FiniteSets

CONSTANTS
    Threads,     \* the callers' threads
    Alrm,        \* the thread thr_alrm
    Nobody,      \* a mutex that is free
    Buckets,     \* the addresses malloc may return
    NULL,
    MYTBF_MAX,   \* slots of the table job
    CPS, BURST,  \* the arguments of every mytbf_init
    Sizes        \* the sizes passed to mytbf_fetchtoken and mytbf_returntoken

ASSUME MtAssumption ==
    /\ MYTBF_MAX \in Nat \ {0}
    /\ CPS \in Nat \ {0}
    /\ BURST \in Nat \ {0}
    /\ Sizes \subseteq Nat
    /\ Alrm \notin Threads
    /\ Nobody \notin Threads \cup {Alrm}
    /\ NULL \notin Buckets

VARIABLES
    job,      \* the table: a bucket or NULL in each slot
    mut_job,  \* who holds the table's mutex
    live,     \* the buckets malloc has given out and free has not taken back
    token,    \* me->token
    mut,      \* me->mut: who holds it
    pos,      \* me->pos
    pc,       \* where each caller is
    me,       \* the bucket of each caller's call
    size,     \* the size of each caller's call
    apc,      \* where thr_alrm is
    i,        \* thr_alrm's, and then module_unload's, loop counter
    cancel    \* pthread_cancel has been called on thr_alrm

table   == <<job, mut_job>>
heap    == <<live, token, mut, pos>>
callers == <<pc, me, size>>
alarm   == <<apc, i, cancel>>
vars    == <<table, heap, callers, alarm>>

Slots == 0 .. MYTBF_MAX - 1
Owner == Threads \cup {Alrm, Nobody}

CallerAt == {"out", "initlock", "place", "placed", "full",
             "fetchlock", "fetch", "wait", "relock", "fetched",
             "returnlock", "return", "returned",
             "destroylock", "clear", "cleared", "free",
             "join", "unload", "gone"}
AlarmAt  == {"none", "lockjob", "visit", "refill", "broadcast", "release",
             "unlockjob", "sleep", "ended"}

TypeOK ==
    /\ job \in [Slots -> Buckets \cup {NULL}]
    /\ mut_job \in Owner
    /\ live \subseteq Buckets
    /\ token \in [Buckets -> 0 .. BURST]
    /\ mut \in [Buckets -> Owner]
    /\ pos \in [Buckets -> Slots]
    /\ pc \in [Threads -> CallerAt]
    /\ me \in [Threads -> Buckets \cup {NULL}]
    /\ size \in [Threads -> Sizes \cup {0}]
    /\ apc \in AlarmAt
    /\ i \in 0 .. MYTBF_MAX
    /\ cancel \in BOOLEAN

Init ==
    /\ job = [s \in Slots |-> NULL]
    /\ mut_job = Nobody
    /\ live = {}
    /\ token = [b \in Buckets |-> 0]
    /\ mut = [b \in Buckets |-> Nobody]
    /\ pos = [b \in Buckets |-> 0]
    /\ pc = [t \in Threads |-> "out"]
    /\ me = [t \in Threads |-> NULL]
    /\ size = [t \in Threads |-> 0]
    /\ apc = "none"
    /\ i = 0
    /\ cancel = FALSE

Least(a, b) == IF a < b THEN a ELSE b

Goto(t, l) == pc' = [pc EXCEPT ![t] = l]

\* A call returns and its variables are gone.
Leave(t) ==
    /\ Goto(t, "out")
    /\ me' = [me EXCEPT ![t] = NULL]
    /\ size' = [size EXCEPT ![t] = 0]

\* Every waiter on bucket b's condition goes on to take its mutex again.
Woken(b) ==
    [t \in Threads |-> IF pc[t] = "wait" /\ me[t] = b THEN "relock" ELSE pc[t]]

\* A caller is in a call on bucket b.
Using(t, b) == pc[t] # "out" /\ me[t] = b
Exiting == \E t \in Threads : pc[t] \in {"join", "unload", "gone"}

-----------------------------------------------------------------------------
(* mytbf_init *)

\* pthread_once(module_load) by the first caller starts thr_alrm; then the new
\* bucket is filled in, as yet unknown to anybody else.
InitBegin(t, b) ==
    /\ pc[t] = "out" /\ ~Exiting
    /\ b \notin live
    /\ live' = live \cup {b}
    /\ token' = [token EXCEPT ![b] = 0]
    /\ me' = [me EXCEPT ![t] = b]
    /\ apc' = IF apc = "none" THEN "lockjob" ELSE apc
    /\ Goto(t, "initlock")
    /\ UNCHANGED <<table, mut, pos, size, i, cancel>>

\* No memory: NULL, with thr_alrm running all the same.
InitNoMemory(t) ==
    /\ pc[t] = "out" /\ ~Exiting
    /\ apc = "none"
    /\ apc' = "lockjob"
    /\ UNCHANGED <<table, heap, callers, i, cancel>>

InitLock(t) ==
    /\ pc[t] = "initlock"
    /\ mut_job = Nobody
    /\ mut_job' = t
    /\ Goto(t, "place")
    /\ UNCHANGED <<job, heap, me, size, alarm>>

\* get_free_pos_unlocked
IsFreePos(p) == job[p] = NULL /\ \A q \in 0 .. p - 1 : job[q] # NULL

\* Mutant of Place: the slot is taken whether or not it is free.
PlaceFirst(t) ==
    /\ pc[t] = "place"
    /\ job' = [job EXCEPT ![0] = me[t]]
    /\ pos' = [pos EXCEPT ![me[t]] = 0]
    /\ Goto(t, "placed")
    /\ UNCHANGED <<mut_job, live, token, mut, me, size, alarm>>
Place(t) ==
    /\ pc[t] = "place"
    /\ \E p \in Slots :
          /\ IsFreePos(p)
          /\ job' = [job EXCEPT ![p] = me[t]]
          /\ pos' = [pos EXCEPT ![me[t]] = p]
    /\ Goto(t, "placed")
    /\ UNCHANGED <<mut_job, live, token, mut, me, size, alarm>>

PlaceFull(t) ==
    /\ pc[t] = "place"
    /\ \A p \in Slots : job[p] # NULL
    /\ Goto(t, "full")
    /\ UNCHANGED <<table, heap, me, size, alarm>>

InitUnlock(t) ==
    /\ pc[t] = "placed"
    /\ mut_job' = Nobody
    /\ Leave(t)
    /\ UNCHANGED <<job, heap, alarm>>

\* Unlock, free the bucket and return NULL.
InitFailed(t) ==
    /\ pc[t] = "full"
    /\ mut_job' = Nobody
    /\ live' = live \ {me[t]}
    /\ Leave(t)
    /\ UNCHANGED <<job, token, mut, pos, alarm>>

-----------------------------------------------------------------------------
(* mytbf_fetchtoken.  A negative size is refused before anything is touched. *)

\* Callers use a bucket from mytbf_init's return to mytbf_destroy's call.
Usable(b) ==
    /\ b \in live
    /\ job[pos[b]] = b
    /\ \A u \in Threads :
          Using(u, b) => pc[u] \in {"fetchlock", "fetch", "wait", "relock",
                                    "fetched", "returnlock", "return", "returned"}

FetchBegin(t, b, s) ==
    /\ pc[t] = "out" /\ ~Exiting
    /\ Usable(b)
    /\ me' = [me EXCEPT ![t] = b]
    /\ size' = [size EXCEPT ![t] = s]
    /\ Goto(t, "fetchlock")
    /\ UNCHANGED <<table, heap, alarm>>

LockBucket(t, from, to) ==
    /\ pc[t] = from
    /\ mut[me[t]] = Nobody
    /\ mut' = [mut EXCEPT ![me[t]] = t]
    /\ Goto(t, to)
    /\ UNCHANGED <<table, live, token, pos, me, size, alarm>>

UnlockBucket(t, from) ==
    /\ pc[t] = from
    /\ mut' = [mut EXCEPT ![me[t]] = Nobody]
    /\ Leave(t)
    /\ UNCHANGED <<table, live, token, pos, alarm>>

\* Mutant of FetchTake: what was asked for, whatever there is.
FetchTakeSize(t) ==
    /\ pc[t] = "fetch"
    /\ token[me[t]] > 0
    /\ token' = [token EXCEPT ![me[t]] = @ - size[t]]
    /\ Goto(t, "fetched")
    /\ UNCHANGED <<table, live, mut, pos, me, size, alarm>>
FetchTake(t) ==
    /\ pc[t] = "fetch"
    /\ token[me[t]] > 0
    /\ token' = [token EXCEPT ![me[t]] = @ - Least(@, size[t])]
    /\ Goto(t, "fetched")
    /\ UNCHANGED <<table, live, mut, pos, me, size, alarm>>

FetchWait(t) ==
    /\ pc[t] = "fetch"
    /\ token[me[t]] <= 0
    /\ mut' = [mut EXCEPT ![me[t]] = Nobody]
    /\ Goto(t, "wait")
    /\ UNCHANGED <<table, live, token, pos, me, size, alarm>>

WakeSpuriously(t) ==
    /\ pc[t] = "wait"
    /\ Goto(t, "relock")
    /\ UNCHANGED <<table, heap, me, size, alarm>>

FetchStep(t) ==
    \/ LockBucket(t, "fetchlock", "fetch")
    \/ FetchTake(t) \/ FetchWait(t) \/ WakeSpuriously(t)
    \/ LockBucket(t, "relock", "fetch")
    \/ UnlockBucket(t, "fetched")

-----------------------------------------------------------------------------
(* mytbf_returntoken.  A size that is not positive is refused at once.       *)

ReturnBegin(t, b, s) ==
    /\ pc[t] = "out" /\ ~Exiting
    /\ Usable(b)
    /\ s > 0
    /\ me' = [me EXCEPT ![t] = b]
    /\ size' = [size EXCEPT ![t] = s]
    /\ Goto(t, "returnlock")
    /\ UNCHANGED <<table, heap, alarm>>

ReturnAdd(t) ==
    /\ pc[t] = "return"
    /\ token' = [token EXCEPT ![me[t]] = Least(@ + size[t], BURST)]
    /\ pc' = [Woken(me[t]) EXCEPT ![t] = "returned"]
    /\ UNCHANGED <<table, live, mut, pos, me, size, alarm>>

ReturnStep(t) ==
    \/ LockBucket(t, "returnlock", "return")
    \/ ReturnAdd(t)
    \/ UnlockBucket(t, "returned")

-----------------------------------------------------------------------------
(* mytbf_destroy: callers destroy a bucket nobody else is using. *)

DestroyBegin(t, b) ==
    /\ pc[t] = "out" /\ ~Exiting
    /\ Usable(b)
    /\ \A u \in Threads : ~Using(u, b)
    /\ me' = [me EXCEPT ![t] = b]
    /\ Goto(t, "destroylock")
    /\ UNCHANGED <<table, heap, size, alarm>>

\* Mutant of DestroyLock: the slot is cleared without the table's mutex.
DestroyLockNot(t) ==
    /\ pc[t] = "destroylock"
    /\ Goto(t, "clear")
    /\ UNCHANGED <<table, heap, me, size, alarm>>
DestroyLock(t) ==
    /\ pc[t] = "destroylock"
    /\ mut_job = Nobody
    /\ mut_job' = t
    /\ Goto(t, "clear")
    /\ UNCHANGED <<job, heap, me, size, alarm>>

Clear(t) ==
    /\ pc[t] = "clear"
    /\ job' = [job EXCEPT ![pos[me[t]]] = NULL]
    /\ Goto(t, "cleared")
    /\ UNCHANGED <<mut_job, heap, me, size, alarm>>

DestroyUnlock(t) ==
    /\ pc[t] = "cleared"
    /\ mut_job' = Nobody
    /\ Goto(t, "free")
    /\ UNCHANGED <<job, heap, me, size, alarm>>

\* pthread_mutex_destroy, pthread_cond_destroy and free.
Free(t) ==
    /\ pc[t] = "free"
    /\ live' = live \ {me[t]}
    /\ Leave(t)
    /\ UNCHANGED <<table, token, mut, pos, alarm>>

DestroyStep(t) == DestroyLock(t) \/ Clear(t) \/ DestroyUnlock(t) \/ Free(t)

-----------------------------------------------------------------------------
(* module_unload, in the thread that calls exit once the others are out.     *)

ExitBegin(t) ==
    /\ ~Exiting
    /\ \A u \in Threads : pc[u] = "out"
    /\ apc # "none"
    /\ cancel' = TRUE
    /\ Goto(t, "join")
    /\ UNCHANGED <<table, heap, me, size, apc, i>>

Join(t) ==
    /\ pc[t] = "join"
    /\ apc = "ended"
    /\ i' = 0
    /\ Goto(t, "unload")
    /\ UNCHANGED <<table, heap, me, size, apc, cancel>>

\* mytbf_destroy of the bucket in slot i, if any: no other thread is left.
Unload(t) ==
    /\ pc[t] = "unload"
    /\ i < MYTBF_MAX
    /\ \/ job[i] = NULL /\ UNCHANGED <<job, live>>
       \/ /\ job[i] # NULL
          /\ mut_job = Nobody
          /\ job' = [job EXCEPT ![pos[job[i]]] = NULL]
          /\ live' = live \ {job[i]}
    /\ i' = i + 1
    /\ UNCHANGED <<mut_job, token, mut, pos, callers, apc, cancel>>

\* pthread_mutex_destroy(&mut_job), and the process ends.
Gone(t) ==
    /\ pc[t] = "unload"
    /\ i = MYTBF_MAX
    /\ Goto(t, "gone")
    /\ UNCHANGED <<table, heap, me, size, alarm>>

ExitStep(t) == Join(t) \/ Unload(t) \/ Gone(t)

-----------------------------------------------------------------------------
(* thr_alrm *)

AlrmLock ==
    /\ apc = "lockjob"
    /\ mut_job = Nobody
    /\ mut_job' = Alrm
    /\ i' = 0
    /\ apc' = "visit"
    /\ UNCHANGED <<job, heap, callers, cancel>>

AlrmSkip ==
    /\ apc = "visit"
    /\ i < MYTBF_MAX
    /\ job[i] = NULL
    /\ i' = i + 1
    /\ UNCHANGED <<table, heap, callers, apc, cancel>>

AlrmVisit ==
    /\ apc = "visit"
    /\ i < MYTBF_MAX
    /\ job[i] # NULL
    /\ mut[job[i]] = Nobody
    /\ mut' = [mut EXCEPT ![job[i]] = Alrm]
    /\ apc' = "refill"
    /\ UNCHANGED <<table, live, token, pos, callers, i, cancel>>

AlrmRefill ==
    /\ apc = "refill"
    /\ token' = [token EXCEPT ![job[i]] = Least(@ + CPS, BURST)]
    /\ apc' = "broadcast"
    /\ UNCHANGED <<table, live, mut, pos, callers, i, cancel>>

AlrmBroadcast ==
    /\ apc = "broadcast"
    /\ pc' = Woken(job[i])
    /\ apc' = "release"
    /\ UNCHANGED <<table, heap, me, size, i, cancel>>

AlrmRelease ==
    /\ apc = "release"
    /\ mut' = [mut EXCEPT ![job[i]] = Nobody]
    /\ i' = i + 1
    /\ apc' = "visit"
    /\ UNCHANGED <<table, live, token, pos, callers, cancel>>

\* Mutant of AlrmUnlock: the table stays locked while the thread sleeps.
AlrmUnlockNot ==
    /\ apc = "visit"
    /\ i = MYTBF_MAX
    /\ apc' = "sleep"
    /\ UNCHANGED <<table, heap, callers, i, cancel>>
AlrmUnlock ==
    /\ apc = "visit"
    /\ i = MYTBF_MAX
    /\ mut_job' = Nobody
    /\ apc' = "sleep"
    /\ UNCHANGED <<job, heap, callers, i, cancel>>

\* nanosleep, the thread's only cancellation point.
AlrmWake ==
    /\ apc = "sleep"
    /\ apc' = "lockjob"
    /\ UNCHANGED <<table, heap, callers, i, cancel>>

AlrmCancelled ==
    /\ apc = "sleep"
    /\ cancel
    /\ apc' = "ended"
    /\ UNCHANGED <<table, heap, callers, i, cancel>>

AlrmStep ==
    \/ AlrmLock \/ AlrmSkip \/ AlrmVisit \/ AlrmRefill \/ AlrmBroadcast
    \/ AlrmRelease \/ AlrmUnlock \/ AlrmWake \/ AlrmCancelled

-----------------------------------------------------------------------------
InitStep(t) ==
    InitLock(t) \/ Place(t) \/ PlaceFull(t) \/ InitUnlock(t) \/ InitFailed(t)

Begin(t) ==
    \/ \E b \in Buckets :
          \/ InitBegin(t, b) \/ DestroyBegin(t, b)
          \/ \E s \in Sizes : FetchBegin(t, b, s) \/ ReturnBegin(t, b, s)
    \/ InitNoMemory(t) \/ ExitBegin(t)

Step(t) ==
    InitStep(t) \/ FetchStep(t) \/ ReturnStep(t) \/ DestroyStep(t) \/ ExitStep(t)

Next == AlrmStep \/ \E t \in Threads : Begin(t) \/ Step(t)

Spec == Init /\ [][Next]_vars

\* Threads run, and a thread that wants a mutex that is free again and again
\* gets it.  A cancelled thread may just be leaving nanosleep, but it does not
\* do so for ever.  Nobody is made to call anything, nor to wake without reason.
WantsMutex(t) ==
    \/ InitLock(t) \/ DestroyLock(t)
    \/ LockBucket(t, "fetchlock", "fetch") \/ LockBucket(t, "relock", "fetch")
    \/ LockBucket(t, "returnlock", "return")

Fairness ==
    /\ WF_vars(AlrmStep)
    /\ SF_vars(AlrmLock) /\ SF_vars(AlrmVisit)
    /\ SF_vars(AlrmCancelled)
    /\ \A t \in Threads :
          /\ WF_vars(Step(t) /\ pc[t] # "wait")
          /\ SF_vars(WantsMutex(t))

FairSpec == Spec /\ Fairness

-----------------------------------------------------------------------------
(* Properties *)

\* The two locks order themselves: thr_alrm works on a bucket only while it is
\* in the table and has not been freed, whatever is created and destroyed.
AlrmTouchesLive ==
    apc \in {"refill", "broadcast", "release"} =>
        job[i] \in live /\ mut[job[i]] = Alrm

\* A caller whose mytbf_init succeeded stays in the table until it destroys:
\* a bucket that nobody refills would let its fetches wait for ever.
LiveAreRefilled ==
    \A b \in live :
        \/ job[pos[b]] = b
        \/ \E t \in Threads : me[t] = b /\
              pc[t] \in {"initlock", "place", "full", "cleared", "free"}

\* Table and buckets agree: thr_alrm works on no freed bucket and passes over no
\* live one, whatever is created and destroyed beside it (mytbf.c:32-44, 125-215).
TableIsSafe == AlrmTouchesLive /\ LiveAreRefilled

\* Callers that wait for tokens are served: some fetch is granted again.
FetchIsGranted ==
    (\E t \in Threads : pc[t] = "wait") ~> (\E t \in Threads : pc[t] = "fetched")

\* exit ends: the cancelled thread is joined, every bucket destroyed.
ExitEnds == Exiting ~> (\E t \in Threads : pc[t] = "gone")

\* Nobody waits for ever: neither a fetch for its tokens nor exit for thr_alrm.
CallsEnd == FetchIsGranted /\ ExitEnds

\* The code implements the token bucket.  A bucket exists for its callers from
\* the call that made it until free, or until exit has destroyed it.
Abstract == INSTANCE TokenBucket

ImplementsBucket == Abstract!Spec
=============================================================================
