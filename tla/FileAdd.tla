------------------------------- MODULE FileAdd -------------------------------
(***************************************************************************)
(* Twenty threads or processes that each add 1 to the number in a file:    *)
(* parallel/thread/posix/add.c under a mutex, io/adv/lockf/add.c under a   *)
(* lock of the file, ipc/xsi/sem/add.c under a semaphore of value 1.  What *)
(* fprintf writes stays in the stream's buffer until fflush or fclose.     *)
(***************************************************************************)
EXTENDS Integers, FiniteSets, Program

CONSTANTS
    PROCNUM,     \* THRNUM in the threads' program
    FileFails    \* may fopen, pthread_create, fork, semop and lockf fail?

ASSUME FileAssumption == PROCNUM \in Nat \ {0} /\ FileFails \in BOOLEAN

VARIABLES
    fmain,     \* where main is
    made,      \* threads or processes created so far
    waited,    \* those joined or waited for
    fat,       \* where each of them is
    flock,     \* who holds the mutex or the lock, or has taken the semaphore
    unlocked,  \* history: those that went on although lockf failed
    number,    \* the number in the file
    linebuf,   \* what each has read
    buffered   \* what each has printed and not flushed, -1 if nothing

fileVars == <<fmain, made, waited, fat, flock, unlocked, number, linebuf, buffered>>

Adders  == 1 .. PROCNUM
NoAdder == 0

IsThreads == program = "add"

FileTypeOK ==
    /\ fmain \in {"create", "wait", "destroyed", "failed"}
    /\ made \in 0 .. PROCNUM
    /\ waited \subseteq Adders
    /\ fat \in [Adders -> {"none", "open", "lock", "read", "print", "flush", "unlock", "close",
                           "ended", "failed", "unposted"}]
    /\ flock \in Adders \cup {NoAdder}
    /\ unlocked \subseteq Adders
    /\ number \in Nat
    /\ linebuf \in [Adders -> Nat]
    /\ buffered \in [Adders -> Nat \cup {-1}]

FileInit ==
    /\ fmain = "create"
    /\ made = 0
    /\ waited = {}
    /\ fat = [a \in Adders |-> "none"]
    /\ flock = NoAdder
    /\ unlocked = {}
    /\ number = 0
    /\ linebuf = [a \in Adders |-> 0]
    /\ buffered = [a \in Adders |-> -1]

FileGoto(a, l) == fat' = [fat EXCEPT ![a] = l]

\* What a has printed reaches the file.
WriteOut(a) ==
    /\ number' = IF buffered[a] = -1 THEN number ELSE buffered[a]
    /\ buffered' = [buffered EXCEPT ![a] = -1]

\* exit(1) in main, or in any thread, ends all the threads.
FileRuns == IsThreads => fmain \notin {"failed", "destroyed"}

-----------------------------------------------------------------------------
(* main *)

FileCreate ==
    /\ fmain = "create"
    /\ FileGoto(made + 1, "open")
    /\ made' = made + 1
    /\ fmain' = IF made + 1 = PROCNUM THEN "wait" ELSE "create"
    /\ UNCHANGED <<waited, flock, unlocked, number, linebuf, buffered>>

\* exit(1) flushes the streams of the process: with processes, of main alone.
ExitFlushes ==
    IF IsThreads /\ \E a \in Adders : buffered[a] # -1
    THEN \E a \in Adders : buffered[a] # -1 /\ WriteOut(a)
    ELSE UNCHANGED <<number, buffered>>

FileCreateFails ==
    /\ FileFails
    /\ fmain = "create"
    /\ fmain' = "failed"
    /\ ExitFlushes
    /\ UNCHANGED <<made, waited, fat, flock, unlocked, linebuf>>

\* pthread_join in order, or wait for any child, failed ones too.
FileJoin ==
    /\ fmain = "wait"
    /\ \E a \in Adders \ waited :
          /\ IsThreads => \A b \in Adders \ waited : a <= b
          /\ fat[a] \in {"ended", "failed", "unposted"}
          /\ waited' = waited \cup {a}
    /\ UNCHANGED <<fmain, made, fat, flock, unlocked, number, linebuf, buffered>>

\* The mutex or the semaphore is destroyed.
FileDestroy ==
    /\ fmain = "wait"
    /\ waited = Adders
    /\ fmain' = "destroyed"
    /\ UNCHANGED <<made, waited, fat, flock, unlocked, number, linebuf, buffered>>

-----------------------------------------------------------------------------
(* thr_add, func_add *)

Open(a) ==
    /\ fat[a] = "open"
    /\ FileGoto(a, "lock")
    /\ UNCHANGED <<fmain, made, waited, flock, unlocked, number, linebuf, buffered>>

\* exit(1): of the process.
OpenFails(a) ==
    /\ FileFails
    /\ fat[a] = "open"
    /\ FileGoto(a, "failed")
    /\ IF IsThreads THEN fmain' = "failed" /\ ExitFlushes
                    ELSE UNCHANGED <<fmain, number, buffered>>
    /\ UNCHANGED <<made, waited, flock, unlocked, linebuf>>

\* pthread_mutex_lock, lockf(F_LOCK), P.
FileLock(a) ==
    /\ fat[a] = "lock"
    /\ flock = NoAdder
    /\ flock' = a
    /\ FileGoto(a, "read")
    /\ UNCHANGED <<fmain, made, waited, unlocked, number, linebuf, buffered>>

\* P: whatever errno says, the program ends.
LockFails(a) ==
    /\ FileFails
    /\ program = "sem"
    /\ fat[a] = "lock"
    /\ FileGoto(a, "failed")
    /\ UNCHANGED <<fmain, made, waited, flock, unlocked, number, linebuf, buffered>>

\* The result of lockf is not looked at: the process goes on without the lock.
LockIgnored(a) ==
    /\ FileFails
    /\ program = "lockf"
    /\ fat[a] = "lock"
    /\ unlocked' = unlocked \cup {a}
    /\ FileGoto(a, "read")
    /\ UNCHANGED <<fmain, made, waited, flock, number, linebuf, buffered>>

ReadLine(a) ==
    /\ fat[a] = "read"
    /\ linebuf' = [linebuf EXCEPT ![a] = number]
    /\ FileGoto(a, "print")
    /\ UNCHANGED <<fmain, made, waited, flock, unlocked, number, buffered>>

PrintLine(a) ==
    /\ fat[a] = "print"
    /\ buffered' = [buffered EXCEPT ![a] = linebuf[a] + 1]
    /\ FileGoto(a, "flush")
    /\ UNCHANGED <<fmain, made, waited, flock, unlocked, number, linebuf>>

\* Mutant of FlushLine: the line is left to fclose, after the unlock.
FlushLineNot(a) ==
    /\ fat[a] = "flush"
    /\ FileGoto(a, "unlock")
    /\ UNCHANGED <<fmain, made, waited, flock, unlocked, number, linebuf, buffered>>
\* fflush; fclose in the threads' program.
FlushLine(a) ==
    /\ fat[a] = "flush"
    /\ WriteOut(a)
    /\ FileGoto(a, "unlock")
    /\ UNCHANGED <<fmain, made, waited, flock, unlocked, linebuf>>

\* pthread_mutex_unlock, V.  lockf(F_ULOCK) frees the file from where it stands, which
\* is behind the line: its beginning stays locked until fclose.
FileUnlock(a) ==
    /\ fat[a] = "unlock"
    /\ flock' = IF program = "lockf" THEN flock ELSE NoAdder
    /\ FileGoto(a, IF IsThreads THEN "ended" ELSE "close")
    /\ UNCHANGED <<fmain, made, waited, unlocked, number, linebuf, buffered>>

\* V: exit(1), and the semaphore is not given back.
UnlockFails(a) ==
    /\ FileFails
    /\ program = "sem"
    /\ fat[a] = "unlock"
    /\ WriteOut(a)
    /\ FileGoto(a, "unposted")
    /\ UNCHANGED <<fmain, made, waited, flock, unlocked, linebuf>>

\* A process that closes a file gives up its lock on it.
CloseFile(a) ==
    /\ fat[a] = "close"
    /\ WriteOut(a)
    /\ flock' = IF flock = a THEN NoAdder ELSE flock
    /\ FileGoto(a, "ended")
    /\ UNCHANGED <<fmain, made, waited, unlocked, linebuf>>

-----------------------------------------------------------------------------

FileMain == FileCreate \/ FileCreateFails \/ FileJoin \/ FileDestroy

FileStep(a) ==
    \/ Open(a) \/ OpenFails(a) \/ FileLock(a) \/ LockFails(a) \/ LockIgnored(a)
    \/ ReadLine(a) \/ PrintLine(a) \/ FlushLine(a) \/ FileUnlock(a) \/ UnlockFails(a)
    \/ CloseFile(a)

FileNext ==
    /\ FileRuns
    /\ FileMain \/ \E a \in Adders : FileStep(a)

\* Those whose addition has reached the file.
Counted == {a \in Adders : \/ fat[a] \in {"unlock", "close", "ended", "unposted"}
                           \/ fat[a] = "flush" /\ buffered[a] = -1}

\* Who has printed and not flushed holds the lock, unless his lockf failed.  As long
\* as no lockf has, every addition counts: the file holds the number of those that
\* have made theirs, whoever fails to open it, to be created, or to lower or raise
\* the semaphore; and it never holds more (add.c:33-41, lockf/add.c:37-46,
\* sem/add.c:72-84).
EveryAdditionCounts ==
    /\ \A a \in Adders : buffered[a] # -1 => flock = a \/ a \in unlocked
    /\ unlocked = {} => number = Cardinality(Counted)
    /\ number <= Cardinality(Counted)
=============================================================================
