------------------------------ MODULE PrimePool ------------------------------
(***************************************************************************)
(* parallel/thread/posix/primer0_pool.c and primer0_pool_busy.c: the main  *)
(* thread hands the numbers to a fixed number of threads, one at a time,   *)
(* through num: 0 when there is none, -1 when there will be no more.       *)
(* primer0_pool waits on a condition variable (except in the main thread's *)
(* loop), primer0_pool_busy releases the mutex and tries again.            *)
(***************************************************************************)
EXTENDS PrimeTest

CONSTANTS
    THRNUM,
    PoolCreateFails   \* may pthread_create return an error?

ASSUME PoolAssumption == THRNUM \in Nat \ {0} /\ PoolCreateFails \in BOOLEAN

VARIABLES
    num,
    mut_num,   \* the thread that holds the mutex
    at,        \* where each thread is
    it,        \* i in main
    got        \* i in thr_prime

poolVars == <<num, mut_num, at, it, got>>

PoolThreads == 1 .. THRNUM
PoolMain    == 0
NoHolder    == -1

Busy == program = "primer0_pool_busy"

PoolTypeOK ==
    /\ num \in Numbers \cup {-1, 0}
    /\ mut_num \in PoolThreads \cup {PoolMain, NoHolder}
    /\ at \in [PoolThreads \cup {PoolMain} ->
                  {"none", "create", "lock", "test", "tell", "unlock", "end_lock", "end_test",
                   "end_tell", "end_unlock", "sleep", "woken", "join", "compute", "over",
                   "exited", "failed"}]
    /\ it \in Nat
    /\ got \in [PoolThreads -> Numbers \cup {0}]

PoolInit ==
    /\ num = 0
    /\ mut_num = NoHolder
    /\ at = [t \in PoolThreads \cup {PoolMain} |-> IF t = PoolMain THEN "create" ELSE "none"]
    /\ it = 0
    /\ got = [t \in PoolThreads |-> 0]

PoolGoto(t, l) == at' = [at EXCEPT ![t] = l]

\* The process has not exited.
PoolRuns == at[PoolMain] \notin {"exited", "failed"}

CreateThread ==
    /\ at[PoolMain] = "create"
    /\ at' = [at EXCEPT ![it + 1] = "lock",
                        ![PoolMain] = IF it + 1 = THRNUM THEN "lock" ELSE "create"]
    /\ it' = IF it + 1 = THRNUM THEN LEFT ELSE it + 1
    /\ UNCHANGED <<num, mut_num, got, testVars>>

CreateThreadFails ==
    /\ PoolCreateFails
    /\ at[PoolMain] = "create"
    /\ PoolGoto(PoolMain, "failed")
    /\ UNCHANGED <<num, mut_num, it, got, testVars>>

\* pthread_mutex_lock, and the end of pthread_cond_wait.
LockNum(t) ==
    /\ at[t] \in {"lock", "end_lock", "woken"}
    /\ mut_num = NoHolder
    /\ mut_num' = t
    /\ PoolGoto(t, IF at[t] = "end_lock" \/ (t = PoolMain /\ at[t] = "woken")
                   THEN "end_test" ELSE "test")
    /\ UNCHANGED <<num, it, got, testVars>>

\* pthread_mutex_unlock, sched_yield, and on to pthread_mutex_lock.
Yield(t, l) ==
    /\ mut_num' = NoHolder
    /\ PoolGoto(t, l)
    /\ UNCHANGED <<num, it, got, testVars>>

\* pthread_cond_wait, up to its wait.
Sleep(t) ==
    /\ mut_num' = NoHolder
    /\ PoolGoto(t, "sleep")
    /\ UNCHANGED <<num, it, got, testVars>>

WakeNum(t) ==
    /\ at[t] = "sleep"
    /\ PoolGoto(t, "woken")
    /\ UNCHANGED <<num, mut_num, it, got, testVars>>

TellAll(t, l) ==
    /\ at' = [u \in PoolThreads \cup {PoolMain} |->
                 IF u = t THEN l ELSE IF at[u] = "sleep" THEN "woken" ELSE at[u]]
    /\ UNCHANGED <<num, mut_num, it, got, testVars>>

-----------------------------------------------------------------------------
(* main *)

MainYield ==
    /\ at[PoolMain] = "test"
    /\ num # 0
    /\ Yield(PoolMain, "lock")

Put ==
    /\ at[PoolMain] = "test"
    /\ num = 0
    /\ num' = it
    /\ PoolGoto(PoolMain, IF Busy THEN "unlock" ELSE "tell")
    /\ UNCHANGED <<mut_num, it, got, testVars>>

\* pthread_cond_signal: only threads of the pool can be waiting here.
Signal ==
    /\ at[PoolMain] = "tell"
    /\ IF \E t \in PoolThreads : at[t] = "sleep"
       THEN \E t \in PoolThreads :
               /\ at[t] = "sleep"
               /\ at' = [at EXCEPT ![t] = "woken", ![PoolMain] = "unlock"]
       ELSE PoolGoto(PoolMain, "unlock")
    /\ UNCHANGED <<num, mut_num, it, got, testVars>>

MainUnlock ==
    /\ at[PoolMain] = "unlock"
    /\ mut_num' = NoHolder
    /\ it' = it + 1
    /\ PoolGoto(PoolMain, IF it = RIGHT THEN "end_lock" ELSE "lock")
    /\ UNCHANGED <<num, got, testVars>>

\* The last number has not been taken yet.
EndWait ==
    /\ at[PoolMain] = "end_test"
    /\ num # 0
    /\ IF Busy THEN Yield(PoolMain, "end_lock") ELSE Sleep(PoolMain)

\* Mutant of EndPool: the wait for the last number is left out.
EndEarly ==
    /\ at[PoolMain] = "end_test"
    /\ num' = -1
    /\ PoolGoto(PoolMain, IF Busy THEN "end_unlock" ELSE "end_tell")
    /\ UNCHANGED <<mut_num, it, got, testVars>>
EndPool ==
    /\ at[PoolMain] = "end_test"
    /\ num = 0
    /\ num' = -1
    /\ PoolGoto(PoolMain, IF Busy THEN "end_unlock" ELSE "end_tell")
    /\ UNCHANGED <<mut_num, it, got, testVars>>

EndTell ==
    /\ at[PoolMain] = "end_tell"
    /\ TellAll(PoolMain, "end_unlock")

EndUnlock ==
    /\ at[PoolMain] = "end_unlock"
    /\ mut_num' = NoHolder
    /\ it' = 0
    /\ PoolGoto(PoolMain, "join")
    /\ UNCHANGED <<num, got, testVars>>

JoinThread ==
    /\ at[PoolMain] = "join"
    /\ it < THRNUM
    /\ at[it + 1] = "exited"
    /\ it' = it + 1
    /\ UNCHANGED <<num, mut_num, at, got, testVars>>

PoolExit ==
    /\ at[PoolMain] = "join"
    /\ it = THRNUM
    /\ PoolGoto(PoolMain, "exited")
    /\ UNCHANGED <<num, mut_num, it, got, testVars>>

-----------------------------------------------------------------------------
(* thr_prime *)

NoneYet(t) ==
    /\ at[t] = "test"
    /\ num = 0
    /\ IF Busy THEN Yield(t, "lock") ELSE Sleep(t)

TakeNum(t) ==
    /\ at[t] = "test"
    /\ num \notin {0, -1}
    /\ got' = [got EXCEPT ![t] = num]
    /\ num' = 0
    /\ PoolGoto(t, IF Busy THEN "unlock" ELSE "tell")
    /\ UNCHANGED <<mut_num, it, testVars>>

\* Mutant of TellTaken: a signal instead of the broadcast may wake another
\* thread of the pool, and main sleeps on.
TellTakenOne(t) ==
    /\ at[t] = "tell"
    /\ IF \E u \in DOMAIN at : at[u] = "sleep"
       THEN \E u \in DOMAIN at :
               /\ at[u] = "sleep"
               /\ at' = [at EXCEPT ![u] = "woken", ![t] = "unlock"]
       ELSE PoolGoto(t, "unlock")
    /\ UNCHANGED <<num, mut_num, it, got, testVars>>
TellTaken(t) ==
    /\ at[t] = "tell"
    /\ TellAll(t, "unlock")

UnlockTaken(t) ==
    /\ at[t] = "unlock"
    /\ Yield(t, "compute")

SeeOver(t) ==
    /\ at[t] = "test"
    /\ num = -1
    /\ PoolGoto(t, "over")
    /\ UNCHANGED <<num, mut_num, it, got, testVars>>

UnlockOver(t) ==
    /\ at[t] = "over"
    /\ Yield(t, "exited")

Compute(t) ==
    /\ at[t] = "compute"
    /\ TestNumber(got[t])
    /\ PoolGoto(t, "lock")
    /\ UNCHANGED <<num, mut_num, it, got>>

-----------------------------------------------------------------------------

PoolMainStep ==
    \/ CreateThread \/ CreateThreadFails \/ LockNum(PoolMain) \/ MainYield \/ Put
    \/ Signal \/ MainUnlock \/ EndWait \/ EndPool \/ EndTell \/ EndUnlock
    \/ JoinThread \/ PoolExit

PoolThreadStep(t) ==
    \/ LockNum(t) \/ NoneYet(t) \/ TakeNum(t) \/ TellTaken(t) \/ UnlockTaken(t)
    \/ SeeOver(t) \/ UnlockOver(t) \/ Compute(t)

PoolNext ==
    /\ PoolRuns
    /\ \/ PoolMainStep
       \/ \E t \in PoolThreads : PoolThreadStep(t)
       \/ \E t \in PoolThreads \cup {PoolMain} : WakeNum(t)
=============================================================================
