-------------------------------- MODULE MySem --------------------------------
(***************************************************************************)
(* The semaphore of parallel/thread/posix/mysem/mysem.c: a value under a   *)
(* mutex, and a condition variable that mysem_add broadcasts.  Any thread  *)
(* may call mysem_add and mysem_sub at any time.                           *)
(*                                                                         *)
(* Taking the mutex, the work under it, the broadcast and the release are  *)
(* separate steps; pthread_cond_wait releases the mutex and starts to wait *)
(* in one, may wake without a broadcast, and takes the mutex again.        *)
(***************************************************************************)
EXTENDS Naturals

CONSTANTS
    Threads,
    NoThread,   \* the mutex is free
    Amounts,    \* the amounts callers pass
    InitVal,    \* mysem_init's argument
    MaxValue    \* bound of the model: no call adds to a larger value

ASSUME AmountsAssumption == Amounts \subseteq Nat /\ InitVal \in Nat
ASSUME ThreadsAssumption == NoThread \notin Threads

VARIABLES
    value,   \* me->value
    mut,     \* me->mut: the thread that holds it
    pc,      \* where each thread is
    call     \* the call each thread is in, or was in last

vars == <<value, mut, pc, call>>

Calls == [op : {"add", "sub"}, n : Amounts]

PCs == {"out", "lock", "add", "broadcast", "check", "wait", "relock", "unlock"}

TypeOK ==
    /\ value \in Nat
    /\ mut \in Threads \cup {NoThread}
    /\ pc \in [Threads -> PCs]
    /\ call \in [Threads -> Calls]

\* mysem_init
Init ==
    /\ value = InitVal
    /\ mut = NoThread
    /\ pc = [t \in Threads |-> "out"]
    /\ call \in [Threads -> Calls]

Goto(t, l) == pc' = [pc EXCEPT ![t] = l]

\* A thread enters mysem_add or mysem_sub.
Call(t, c) ==
    /\ pc[t] = "out"
    /\ c.op = "add" => value < MaxValue
    /\ call' = [call EXCEPT ![t] = c]
    /\ Goto(t, "lock")
    /\ UNCHANGED <<value, mut>>

\* pthread_mutex_lock, at the head of both functions.
Lock(t) ==
    /\ pc[t] = "lock"
    /\ mut = NoThread
    /\ mut' = t
    /\ Goto(t, IF call[t].op = "add" THEN "add" ELSE "check")
    /\ UNCHANGED <<value, call>>

Add(t) ==
    /\ pc[t] = "add"
    /\ value' = value + call[t].n
    /\ Goto(t, "broadcast")
    /\ UNCHANGED <<mut, call>>

\* Mutant of Broadcast: it is forgotten.
BroadcastNot(t) ==
    /\ pc[t] = "broadcast"
    /\ Goto(t, "unlock")
    /\ UNCHANGED <<value, mut, call>>
\* Every waiter goes on to take the mutex.
Broadcast(t) ==
    /\ pc[t] = "broadcast"
    /\ pc' = [u \in Threads |-> IF u = t THEN "unlock"
                                ELSE IF pc[u] = "wait" THEN "relock"
                                ELSE pc[u]]
    /\ UNCHANGED <<value, mut, call>>

\* Mutant of Take: `if' and not `while' would let a woken thread go on.
TakeUnchecked(t) ==
    /\ pc[t] = "check"
    /\ value' = value - call[t].n
    /\ Goto(t, "unlock")
    /\ UNCHANGED <<mut, call>>
Take(t) ==
    /\ pc[t] = "check"
    /\ value >= call[t].n
    /\ value' = value - call[t].n
    /\ Goto(t, "unlock")
    /\ UNCHANGED <<mut, call>>

\* pthread_cond_wait, up to its wait.
Wait(t) ==
    /\ pc[t] = "check"
    /\ value < call[t].n
    /\ mut' = NoThread
    /\ Goto(t, "wait")
    /\ UNCHANGED <<value, call>>

WakeSpuriously(t) ==
    /\ pc[t] = "wait"
    /\ Goto(t, "relock")
    /\ UNCHANGED <<value, mut, call>>

\* The end of pthread_cond_wait.
Relock(t) ==
    /\ pc[t] = "relock"
    /\ mut = NoThread
    /\ mut' = t
    /\ Goto(t, "check")
    /\ UNCHANGED <<value, call>>

Unlock(t) ==
    /\ pc[t] = "unlock"
    /\ mut' = NoThread
    /\ Goto(t, "out")
    /\ UNCHANGED <<value, call>>

Step(t) ==
    \/ Lock(t) \/ Add(t) \/ Broadcast(t) \/ Take(t) \/ Wait(t)
    \/ WakeSpuriously(t) \/ Relock(t) \/ Unlock(t)

Next == \E t \in Threads : Step(t) \/ \E c \in Calls : Call(t, c)

Spec == Init /\ [][Next]_vars

-----------------------------------------------------------------------------
(* Properties *)

Holding(t) == pc[t] \in {"add", "broadcast", "check", "unlock"}

\* The value is touched by the holder of the mutex only, on every path through
\* the wait (lines 34-37 and 47-53).
Exclusive == \A t \in Threads : Holding(t) => mut = t

\* No wakeup is lost: a thread sleeps in mysem_sub although its amount is
\* there only while a mysem_add that has raised the value has yet to broadcast.
NoLostWakeup ==
    \A t \in Threads :
        pc[t] = "wait" /\ value >= call[t].n =>
            \E u \in Threads : pc[u] = "broadcast"

\* The code implements the semaphore: a call takes effect in its Add or Take.
Phase(t) ==
    IF pc[t] = "out" THEN "out"
    ELSE IF pc[t] \in {"broadcast", "unlock"} THEN "done" ELSE "pending"

Abstract == INSTANCE Semaphore WITH phase <- [t \in Threads |-> Phase(t)]

ImplementsSemaphore == Abstract!Spec
=============================================================================
