-------------------------------- MODULE Ring --------------------------------
(***************************************************************************)
(* parallel/thread/posix/abcd.c and abcd_e.c: threads that write their     *)
(* letters in turn until an alarm ends the process.  In abcd.c each thread *)
(* locks its own mutex, which the thread before it unlocks; in abcd_e.c    *)
(* they wait for num to be theirs.                                         *)
(***************************************************************************)
EXTENDS Integers, Program

CONSTANTS
    RingSize,         \* THRNUM
    RingCreateFails   \* may pthread_create return an error?

ASSUME RingAssumption == RingSize \in Nat \ {0} /\ RingCreateFails \in BOOLEAN

VARIABLES
    rmain,     \* where main is
    created,   \* threads created so far
    rat,       \* where each thread is
    locked,    \* abcd.c: the mutexes that are locked
    rnum,      \* abcd_e.c: whose turn it is, its mutex and its waiters
    rmut,
    last       \* who wrote last, -1 if no one has

ringVars == <<rmain, created, rat, locked, rnum, rmut, last>>

Letters == 0 .. RingSize - 1
NoOne   == -1

RingTypeOK ==
    /\ rmain \in {"create", "start", "join", "killed", "failed"}
    /\ created \in 0 .. RingSize
    /\ rat \in [Letters -> {"none", "lock", "write", "test", "sleep", "woken", "pass",
                            "tell", "unlock"}]
    /\ locked \subseteq Letters
    /\ rnum \in Letters
    /\ rmut \in Letters \cup {NoOne}
    /\ last \in Letters \cup {NoOne}

RingInit ==
    /\ rmain = "create"
    /\ created = 0
    /\ rat = [m \in Letters |-> "none"]
    /\ locked = {}
    /\ rnum = 0
    /\ rmut = NoOne
    /\ last = NoOne

\* next
NextOf(m) == IF m + 1 = RingSize THEN 0 ELSE m + 1

RingGoto(m, l) == rat' = [rat EXCEPT ![m] = l]

RingRuns == rmain \notin {"killed", "failed"}

-----------------------------------------------------------------------------
(* main *)

\* Mutant of RingCreate: main does not lock the mutexes first.
RingCreateOpen ==
    /\ rmain = "create"
    /\ RingGoto(created, "lock")
    /\ created' = created + 1
    /\ rmain' = IF created + 1 < RingSize THEN "create"
                ELSE IF program = "abcd" THEN "start" ELSE "join"
    /\ UNCHANGED <<locked, rnum, rmut, last>>
\* abcd.c initialises and locks the mutex, then both create the thread.
RingCreate ==
    /\ rmain = "create"
    /\ locked' = IF program = "abcd" THEN locked \cup {created} ELSE locked
    /\ RingGoto(created, "lock")
    /\ created' = created + 1
    /\ rmain' = IF created + 1 < RingSize THEN "create"
                ELSE IF program = "abcd" THEN "start" ELSE "join"
    /\ UNCHANGED <<rnum, rmut, last>>

RingCreateError ==
    /\ RingCreateFails
    /\ rmain = "create"
    /\ rmain' = "failed"
    /\ UNCHANGED <<created, rat, locked, rnum, rmut, last>>

\* abcd.c: the first mutex is unlocked.
RingStart ==
    /\ rmain = "start"
    /\ locked' = locked \ {0}
    /\ rmain' = "join"
    /\ UNCHANGED <<created, rat, rnum, rmut, last>>

\* SIGALRM, five seconds later: the joins never return.
Alarm ==
    /\ rmain = "join"
    /\ rmain' = "killed"
    /\ UNCHANGED <<created, rat, locked, rnum, rmut, last>>

-----------------------------------------------------------------------------
(* thr_func of abcd.c *)

ChainLock(m) ==
    /\ program = "abcd"
    /\ rat[m] = "lock"
    /\ m \notin locked
    /\ locked' = locked \cup {m}
    /\ RingGoto(m, "write")
    /\ UNCHANGED <<rmain, created, rnum, rmut, last>>

ChainWrite(m) ==
    /\ program = "abcd"
    /\ rat[m] = "write"
    /\ last' = m
    /\ RingGoto(m, "unlock")
    /\ UNCHANGED <<rmain, created, locked, rnum, rmut>>

\* Mutant of ChainUnlock: the thread unlocks its own mutex and may go on alone.
ChainUnlockOwn(m) ==
    /\ program = "abcd"
    /\ rat[m] = "unlock"
    /\ locked' = locked \ {m}
    /\ RingGoto(m, "lock")
    /\ UNCHANGED <<rmain, created, rnum, rmut, last>>
\* The next thread's mutex, which this thread did not lock, is unlocked.
ChainUnlock(m) ==
    /\ program = "abcd"
    /\ rat[m] = "unlock"
    /\ locked' = locked \ {NextOf(m)}
    /\ RingGoto(m, "lock")
    /\ UNCHANGED <<rmain, created, rnum, rmut, last>>

-----------------------------------------------------------------------------
(* thr_func of abcd_e.c *)

TurnLock(m) ==
    /\ program = "abcd_e"
    /\ rat[m] \in {"lock", "woken"}
    /\ rmut = NoOne
    /\ rmut' = m
    /\ RingGoto(m, "test")
    /\ UNCHANGED <<rmain, created, locked, rnum, last>>

TurnWait(m) ==
    /\ program = "abcd_e"
    /\ rat[m] = "test"
    /\ rnum # m
    /\ rmut' = NoOne
    /\ RingGoto(m, "sleep")
    /\ UNCHANGED <<rmain, created, locked, rnum, last>>

TurnWake(m) ==
    /\ program = "abcd_e"
    /\ rat[m] = "sleep"
    /\ RingGoto(m, "woken")
    /\ UNCHANGED <<rmain, created, locked, rnum, rmut, last>>

TurnWrite(m) ==
    /\ program = "abcd_e"
    /\ rat[m] = "test"
    /\ rnum = m
    /\ last' = m
    /\ RingGoto(m, "pass")
    /\ UNCHANGED <<rmain, created, locked, rnum, rmut>>

TurnPass(m) ==
    /\ rat[m] = "pass"
    /\ rnum' = NextOf(rnum)
    /\ RingGoto(m, "tell")
    /\ UNCHANGED <<rmain, created, locked, rmut, last>>

TurnTell(m) ==
    /\ rat[m] = "tell"
    /\ rat' = [k \in Letters |-> IF k = m THEN "unlock"
                                 ELSE IF rat[k] = "sleep" THEN "woken" ELSE rat[k]]
    /\ UNCHANGED <<rmain, created, locked, rnum, rmut, last>>

TurnUnlock(m) ==
    /\ program = "abcd_e"
    /\ rat[m] = "unlock"
    /\ rmut' = NoOne
    /\ RingGoto(m, "lock")
    /\ UNCHANGED <<rmain, created, locked, rnum, last>>

-----------------------------------------------------------------------------

RingMain == RingCreate \/ RingCreateError \/ RingStart

RingThread(m) ==
    \/ ChainLock(m) \/ ChainWrite(m) \/ ChainUnlock(m)
    \/ TurnLock(m) \/ TurnWait(m) \/ TurnWrite(m) \/ TurnPass(m) \/ TurnTell(m)
    \/ TurnUnlock(m)

RingNext ==
    /\ RingRuns
    /\ \/ RingMain \/ Alarm
       \/ \E m \in Letters : RingThread(m) \/ TurnWake(m)

\* Thread m writes its letter in this step.
Writes(m) == rat[m] \in {"write", "test"} /\ rat'[m] \in {"unlock", "pass"}

\* Whoever writes is the thread after the one that wrote last, the first thread at
\* first: no letter is left out and none comes twice, in a row or not, however the
\* threads are scheduled (abcd.c:29-32, abcd_e.c:30-36).
InTurn ==
    [][\A m \in Letters : Writes(m) => m = (IF last = NoOne THEN 0 ELSE NextOf(last))]_ringVars
=============================================================================
