------------------------------ MODULE MySemMain ------------------------------
(***************************************************************************)
(* The program of parallel/thread/posix/mysem/main.c: the main thread      *)
(* takes a unit of the semaphore before it creates each worker, the worker *)
(* gives it back at its end, and the semaphore is destroyed when all the   *)
(* workers have been joined.  N workers compute at a time.                 *)
(***************************************************************************)
EXTENDS MySem, FiniteSets

CONSTANTS
    Main,          \* the main thread; the other threads are the workers
    LAST,          \* workers are numbered 1 .. LAST (RIGHT - LEFT + 1 of them)
    CreateFails    \* may pthread_create return an error?

Workers == 1 .. LAST

ASSUME MainAssumption ==
    /\ LAST \in Nat
    /\ Main \notin Workers
    /\ Threads = Workers \cup {Main}

VARIABLES
    mpc,       \* where the main thread is
    i,         \* the worker to create next, or to join next
    worker,    \* what has become of each worker
    freed      \* mysem_destroy has run

progVars == <<mpc, i, worker, freed>>
allVars  == <<vars, progVars>>

InitMain ==
    /\ Init
    /\ mpc = IF LAST = 0 THEN "join" ELSE "take"
    /\ i = 1
    /\ worker = [w \in Workers |-> "none"]
    /\ freed = FALSE

\* mysem_sub(sem, 1) begins ...
MainTake ==
    /\ mpc = "take"
    /\ Call(Main, [op |-> "sub", n |-> 1])
    /\ mpc' = "create"
    /\ UNCHANGED <<i, worker, freed>>

\* ... and has returned: pthread_create.
MainCreate ==
    /\ mpc = "create"
    /\ pc[Main] = "out"
    /\ worker' = [worker EXCEPT ![i] = "computing"]
    /\ i' = IF i = LAST THEN 1 ELSE i + 1
    /\ mpc' = IF i = LAST THEN "join" ELSE "take"
    /\ UNCHANGED <<vars, freed>>

\* exit(1) ends every thread.
MainCreateFailed ==
    /\ CreateFails
    /\ mpc = "create"
    /\ pc[Main] = "out"
    /\ mpc' = "failed"
    /\ UNCHANGED <<vars, i, worker, freed>>

MainJoin ==
    /\ mpc = "join"
    /\ i <= LAST
    /\ worker[i] = "ended"
    /\ i' = i + 1
    /\ UNCHANGED <<vars, mpc, worker, freed>>

\* Mutant of MainDestroy: the last worker is not joined.
MainDestroyEarly ==
    /\ mpc = "join"
    /\ i >= LAST
    /\ freed' = TRUE
    /\ mpc' = "exited"
    /\ UNCHANGED <<vars, i, worker>>
\* mysem_destroy, and exit(0).
MainDestroy ==
    /\ mpc = "join"
    /\ i > LAST
    /\ freed' = TRUE
    /\ mpc' = "exited"
    /\ UNCHANGED <<vars, i, worker>>

\* thr_prime has its result and calls mysem_add(sem, 1) ...
WorkerGive(w) ==
    /\ worker[w] = "computing"
    /\ Call(w, [op |-> "add", n |-> 1])
    /\ worker' = [worker EXCEPT ![w] = "giving"]
    /\ UNCHANGED <<mpc, i, freed>>

\* Mutant of WorkerEnd: the worker leaves without giving the unit back.
WorkerEndEarly(w) ==
    /\ worker[w] = "computing"
    /\ worker' = [worker EXCEPT ![w] = "ended"]
    /\ UNCHANGED <<vars, mpc, i, freed>>
\* ... and, when it has returned, pthread_exit.
WorkerEnd(w) ==
    /\ worker[w] = "giving"
    /\ pc[w] = "out"
    /\ worker' = [worker EXCEPT ![w] = "ended"]
    /\ UNCHANGED <<vars, mpc, i, freed>>

InSem(t) == Step(t) /\ UNCHANGED progVars

Running == mpc \notin {"exited", "failed"}

MainStep ==
    \/ MainTake \/ MainCreate \/ MainCreateFailed \/ MainJoin \/ MainDestroy
WorkerStep(w) == WorkerGive(w) \/ WorkerEnd(w)

NextMain ==
    /\ Running
    /\ \/ MainStep
       \/ \E w \in Workers : WorkerStep(w)
       \/ \E t \in Threads : InSem(t)

-----------------------------------------------------------------------------
(* Properties *)

\* Units are neither lost nor made: those free, those of the workers that have
\* not given theirs back, and the one the main thread has taken but not yet
\* handed to a worker, are InitVal together: at most InitVal workers compute at
\* once (main.c:14, N).
UnitsConserved ==
    value + Cardinality({w \in Workers :
                            \/ worker[w] = "computing"
                            \/ worker[w] = "giving" /\ pc[w] \in {"lock", "add"}})
          + (IF mpc \in {"create", "failed"} /\ pc[Main] \in {"unlock", "out"}
             THEN 1 ELSE 0)
    = InitVal

\* The semaphore is destroyed when no thread is inside mysem_add or mysem_sub:
\* the broadcast and the unlock of the last worker have run too.
NotUsedAfterFree == freed => \A t \in Threads : pc[t] = "out"

\* The program's semaphore holds its units until nobody uses it, and is freed then.
SemaphoreIsKept == UnitsConserved /\ NotUsedAfterFree

\* The program ends (exit(1) if pthread_create fails): nobody waits for ever for a
\* unit or in a join.
Terminates == <>~Running
=============================================================================
