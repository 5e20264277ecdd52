------------------------------- MODULE Relayer -------------------------------
(***************************************************************************)
(* The relay engine, io/adv/nonblock/relayer/relayer.c: one thread drives  *)
(* the two machines of every job in the table, round and round, holding    *)
(* mut_rel_job for a whole round; rel_addjob puts a job in the table from  *)
(* any thread.  A job is the pair of descriptors it relays between.        *)
(***************************************************************************)
EXTENDS RelayFsm, FiniteSets

CONSTANTS
    Threads,      \* the callers' threads
    Engine,       \* the thread thr_relayer
    Nobody,       \* the mutex is free
    NULL,
    REL_JOBMAX,   \* slots of the table
    Jobs          \* the jobs callers may add

fsm12(j) == j
fsm21(j) == <<j[2], j[1]>>

ASSUME RelayerAssumption ==
    /\ REL_JOBMAX \in Nat \ {0}
    /\ NULL \notin Jobs
    /\ Engine \notin Threads /\ Nobody \notin Threads \cup {Engine}
    /\ Jobs \subseteq Fds \X Fds
    /\ Machines = {fsm12(j) : j \in Jobs} \cup {fsm21(j) : j \in Jobs}
    \* callers give a descriptor to one job only, at one end of it
    /\ \A j \in Jobs : j[1] # j[2]
    /\ \A j, k \in Jobs : j # k => {j[1], j[2]} \cap {k[1], k[2]} = {}

VARIABLES
    rel_job,     \* the table
    job_state,   \* of each job
    nonblock,    \* the descriptors in non-blocking mode
    mut,         \* mut_rel_job: who holds it
    pc,          \* where each caller is
    me,          \* the job each caller is adding
    pos,         \* the slot it has found for it
    epc,         \* where thr_relayer is
    i,           \* the slot it looks at
    cancel       \* pthread_cancel has been called on it

engine == <<epc, i, cancel>>
vars   == <<fsmVars, rel_job, job_state, nonblock, mut, pc, me, pos, engine>>

Slots == 0 .. REL_JOBMAX - 1

TypeOK ==
    /\ TypeOKFsm
    /\ rel_job \in [Slots -> Jobs \cup {NULL}]
    /\ job_state \in [Jobs -> {"none", "RUNNING", "OVER", "freed"}]
    /\ nonblock \subseteq Fds
    /\ mut \in Threads \cup {Engine, Nobody}
    /\ pc \in [Threads -> {"out", "fcntl", "lock", "place", "placed", "full", "restore",
                           "join", "destroy", "gone"}]
    /\ me \in [Threads -> Jobs \cup {NULL}]
    /\ pos \in [Threads -> Slots]
    /\ epc \in {"none", "lock", "visit", "drive12", "drive21", "ended"}
    /\ i \in 0 .. REL_JOBMAX
    /\ cancel \in BOOLEAN

Init ==
    /\ InitFiles
    /\ fsm = [m \in Machines |-> StartFsm]
    /\ rel_job = [s \in Slots |-> NULL]
    /\ job_state = [j \in Jobs |-> "none"]
    /\ nonblock = {}
    /\ mut = Nobody
    /\ pc = [t \in Threads |-> "out"]
    /\ me = [t \in Threads |-> NULL]
    /\ pos = [t \in Threads |-> 0]
    /\ epc = "none" /\ i = 0 /\ cancel = FALSE

Goto(t, l) == pc' = [pc EXCEPT ![t] = l]
Leave(t) ==
    /\ Goto(t, "out")
    /\ me' = [me EXCEPT ![t] = NULL]
    /\ pos' = [pos EXCEPT ![t] = 0]

Exiting == \E t \in Threads : pc[t] \in {"join", "destroy", "gone"}

-----------------------------------------------------------------------------
(* rel_addjob *)

\* pthread_once(module_load), malloc and the fields.
AddBegin(t, j) ==
    /\ pc[t] = "out" /\ ~Exiting
    /\ job_state[j] = "none"
    /\ job_state' = [job_state EXCEPT ![j] = "RUNNING"]
    /\ me' = [me EXCEPT ![t] = j]
    /\ epc' = IF epc = "none" THEN "lock" ELSE epc
    /\ Goto(t, "fcntl")
    /\ UNCHANGED <<fsmVars, rel_job, nonblock, mut, pos, i, cancel>>

\* No memory: the engine runs all the same.
AddNoMemory(t) ==
    /\ pc[t] = "out" /\ ~Exiting
    /\ epc = "none"
    /\ epc' = "lock"
    /\ UNCHANGED <<fsmVars, rel_job, job_state, nonblock, mut, pc, me, pos, i, cancel>>

\* Mutant of AddFcntl: the second descriptor's mode is left alone.
AddFcntlOne(t) ==
    /\ pc[t] = "fcntl"
    /\ nonblock' = nonblock \cup {me[t][1]}
    /\ Goto(t, "lock")
    /\ UNCHANGED <<fsmVars, rel_job, job_state, mut, me, pos, engine>>
AddFcntl(t) ==
    /\ pc[t] = "fcntl"
    /\ nonblock' = nonblock \cup {me[t][1], me[t][2]}
    /\ Goto(t, "lock")
    /\ UNCHANGED <<fsmVars, rel_job, job_state, mut, me, pos, engine>>

\* get_free_pos_unlocked
IsFreePos(p) == rel_job[p] = NULL /\ \A q \in 0 .. p - 1 : rel_job[q] # NULL

\* Mutant of AddLock: the table is not locked.
AddLockNot(t) ==
    /\ pc[t] = "lock"
    /\ \E p \in Slots : IsFreePos(p) /\ pos' = [pos EXCEPT ![t] = p]
    /\ Goto(t, "place")
    /\ UNCHANGED <<fsmVars, rel_job, job_state, nonblock, mut, me, engine>>
AddLock(t) ==
    /\ pc[t] = "lock"
    /\ mut = Nobody
    /\ mut' = t
    /\ \E p \in Slots : IsFreePos(p) /\ pos' = [pos EXCEPT ![t] = p]
    /\ Goto(t, "place")
    /\ UNCHANGED <<fsmVars, rel_job, job_state, nonblock, me, engine>>

AddLockFull(t) ==
    /\ pc[t] = "lock"
    /\ mut = Nobody
    /\ mut' = t
    /\ \A p \in Slots : rel_job[p] # NULL
    /\ Goto(t, "full")
    /\ UNCHANGED <<fsmVars, rel_job, job_state, nonblock, me, pos, engine>>

Place(t) ==
    /\ pc[t] = "place"
    /\ rel_job' = [rel_job EXCEPT ![pos[t]] = me[t]]
    /\ Goto(t, "placed")
    /\ UNCHANGED <<fsmVars, job_state, nonblock, mut, me, pos, engine>>

AddUnlock(t) ==
    /\ pc[t] = "placed"
    /\ mut' = Nobody
    /\ Leave(t)
    /\ UNCHANGED <<fsmVars, rel_job, job_state, nonblock, engine>>

FullUnlock(t) ==
    /\ pc[t] = "full"
    /\ mut' = Nobody
    /\ Goto(t, "restore")
    /\ UNCHANGED <<fsmVars, rel_job, job_state, nonblock, me, pos, engine>>

\* The descriptors' modes, free, and -ENOSPC.
AddFailed(t) ==
    /\ pc[t] = "restore"
    /\ nonblock' = nonblock \ {me[t][1], me[t][2]}
    /\ job_state' = [job_state EXCEPT ![me[t]] = "freed"]
    /\ Leave(t)
    /\ UNCHANGED <<fsmVars, rel_job, mut, engine>>

-----------------------------------------------------------------------------
(* thr_relayer *)

EngineLock ==
    /\ epc = "lock"
    /\ mut = Nobody
    /\ mut' = Engine
    /\ epc' = "visit" /\ i' = 0
    /\ UNCHANGED <<fsmVars, rel_job, job_state, nonblock, pc, me, pos, cancel>>

Runs(s) == rel_job[s] # NULL /\ job_state[rel_job[s]] = "RUNNING"

\* Mutant of EngineVisit: the loop stops one slot short.
EngineVisitShort ==
    /\ epc = "visit"
    /\ i < REL_JOBMAX
    /\ IF Runs(i) /\ i + 1 < REL_JOBMAX THEN epc' = "drive12" /\ UNCHANGED i
                                       ELSE i' = i + 1 /\ UNCHANGED epc
    /\ UNCHANGED <<fsmVars, rel_job, job_state, nonblock, mut, pc, me, pos, cancel>>
EngineVisit ==
    /\ epc = "visit"
    /\ i < REL_JOBMAX
    /\ IF Runs(i) THEN epc' = "drive12" /\ UNCHANGED i
                  ELSE i' = i + 1 /\ UNCHANGED epc
    /\ UNCHANGED <<fsmVars, rel_job, job_state, nonblock, mut, pc, me, pos, cancel>>

\* read, write and perror are cancellation points, and the only ones.
Cancelled(m) == cancel /\ fsm[m].state # "T"

\* fsm_driver returns at once only on a descriptor in non-blocking mode.
Blocks(m) ==
    \/ fsm[m].state = "R" /\ sfd(m) \notin nonblock /\ ~Readable(sfd(m))
    \/ fsm[m].state = "W" /\ dfd(m) \notin nonblock /\ ~Writable(dfd(m))

EngineDrive12 ==
    /\ epc = "drive12"
    /\ ~Cancelled(fsm12(rel_job[i]))
    /\ ~Blocks(fsm12(rel_job[i]))
    /\ fsm_driver(fsm12(rel_job[i]))
    /\ epc' = "drive21"
    /\ UNCHANGED <<rel_job, job_state, nonblock, mut, pc, me, pos, i, cancel>>

\* Mutant of Over: one machine is enough.
OverEither(j) == fsm'[fsm12(j)].state = "T" \/ fsm'[fsm21(j)].state = "T"
Over(j) == fsm'[fsm12(j)].state = "T" /\ fsm'[fsm21(j)].state = "T"

EngineDrive21 ==
    /\ epc = "drive21"
    /\ ~Cancelled(fsm21(rel_job[i]))
    /\ ~Blocks(fsm21(rel_job[i]))
    /\ fsm_driver(fsm21(rel_job[i]))
    /\ job_state' = [job_state EXCEPT ![rel_job[i]] =
                        IF Over(rel_job[i]) THEN "OVER" ELSE @]
    /\ epc' = "visit" /\ i' = i + 1
    /\ UNCHANGED <<rel_job, nonblock, mut, pc, me, pos, cancel>>

\* Mutant of EngineUnlock: the round begins again with the mutex held.
EngineUnlockNot ==
    /\ epc = "visit"
    /\ i = REL_JOBMAX
    /\ epc' = "visit" /\ i' = 0
    /\ UNCHANGED <<fsmVars, rel_job, job_state, nonblock, mut, pc, me, pos, cancel>>
EngineUnlock ==
    /\ epc = "visit"
    /\ i = REL_JOBMAX
    /\ mut' = Nobody
    /\ epc' = "lock" /\ i' = 0
    /\ UNCHANGED <<fsmVars, rel_job, job_state, nonblock, pc, me, pos, cancel>>

\* The cancelled thread ends with the mutex locked.
EngineEnds ==
    /\ \/ epc = "drive12" /\ Cancelled(fsm12(rel_job[i]))
       \/ epc = "drive21" /\ Cancelled(fsm21(rel_job[i]))
    /\ epc' = "ended"
    /\ UNCHANGED <<fsmVars, rel_job, job_state, nonblock, mut, pc, me, pos, i, cancel>>

EngineStep ==
    \/ EngineLock \/ EngineVisit \/ EngineDrive12 \/ EngineDrive21
    \/ EngineUnlock \/ EngineEnds

-----------------------------------------------------------------------------
(* module_unload, in the thread that calls exit once the others are out.     *)

ExitBegin(t) ==
    /\ ~Exiting
    /\ \A u \in Threads : pc[u] = "out"
    /\ epc # "none"
    /\ cancel' = TRUE
    /\ Goto(t, "join")
    /\ UNCHANGED <<fsmVars, rel_job, job_state, nonblock, mut, me, pos, epc, i>>

ExitJoin(t) ==
    /\ pc[t] = "join"
    /\ epc = "ended"
    /\ Goto(t, "destroy")
    /\ UNCHANGED <<fsmVars, rel_job, job_state, nonblock, mut, me, pos, engine>>

\* pthread_mutex_destroy, which glibc refuses without effect while the mutex is
\* locked, and the process ends.
ExitDestroy(t) ==
    /\ pc[t] = "destroy"
    /\ Goto(t, "gone")
    /\ UNCHANGED <<fsmVars, rel_job, job_state, nonblock, mut, me, pos, engine>>

-----------------------------------------------------------------------------
CallerStep(t) ==
    \/ AddFcntl(t) \/ AddLock(t) \/ AddLockFull(t) \/ Place(t) \/ AddUnlock(t) \/ FullUnlock(t)
    \/ AddFailed(t) \/ ExitJoin(t) \/ ExitDestroy(t)

Alive == \A t \in Threads : pc[t] # "gone"

Next ==
    \/ Alive /\ EngineStep
    \/ \E t \in Threads : CallerStep(t) \/ AddNoMemory(t) \/ ExitBegin(t)
    \/ \E t \in Threads, j \in Jobs : AddBegin(t, j)
    \/ Alive /\ World /\ UNCHANGED <<rel_job, job_state, nonblock, mut, pc, me, pos, engine>>

Spec == Init /\ [][Next]_vars

\* Threads run, and one that wants the mutex gets it if it is free again and
\* again.
Fairness ==
    /\ WF_vars(EngineStep) /\ SF_vars(EngineLock)
    /\ \A t \in Threads : WF_vars(CallerStep(t)) /\ SF_vars(AddLock(t) \/ AddLockFull(t))

FairSpec == Spec /\ Fairness

-----------------------------------------------------------------------------
(* Properties *)

InTable(j) == \E s \in Slots : rel_job[s] = j

\* A job is over exactly when both its machines have stopped, and neither starts
\* before the job is in the table (lines 124-128).
OverIsOver ==
    \A j \in Jobs :
        LET stopped == {m \in {fsm12(j), fsm21(j)} : fsm[m].state = "T"} IN
            /\ job_state[j] = "OVER" => Cardinality(stopped) = 2
            /\ Cardinality(stopped) = 2 =>
                   job_state[j] = "OVER" \/ (epc = "drive21" /\ rel_job[i] = j)
            /\ ~InTable(j) => taken[j[1]] = 0 /\ taken[j[2]] = 0

\* No job is lost: one whose rel_addjob is past its critical section with a
\* slot is in the table, in one slot only, however many threads add at once.
JobsAreKept ==
    /\ \A j \in Jobs :
          job_state[j] \in {"RUNNING", "OVER"} =>
              InTable(j) \/ \E t \in Threads : me[t] = j /\ pc[t] # "placed"
    /\ \A p, q \in Slots : rel_job[p] = rel_job[q] /\ rel_job[p] # NULL => p = q

\* The engine never blocks while it holds the mutex (line 195-197 before 218):
\* a quiet job would stop all the others, and every caller of rel_addjob.
NeverBlocks ==
    /\ epc = "drive12" => ~Blocks(fsm12(rel_job[i]))
    /\ epc = "drive21" => ~Blocks(fsm21(rel_job[i]))

\* The table and its mutex are in safe hands: no job is lost between two threads
\* that add and the engine, and the engine never sleeps while it holds the mutex.
TableIsSafe == JobsAreKept /\ NeverBlocks

\* Between callers, exit and two machines for each job, the engine keeps its jobs:
\* none is over too early or goes on too long, lost, twice there or in the others' way.
EngineIsSafe == OverIsOver /\ TableIsSafe

\* Every job is served whatever the others do: a byte that arrives for a job in
\* the table is read in the end if the writes find room, unless the program exits.
EveryJobIsServed ==
    \A j \in Jobs :
        <>[](room[j[1]] /\ room[j[2]])
            => []( InTable(j) /\ Waiting(j[1]) > 0
                     => <>(Waiting(j[1]) = 0 \/ broken[j[1]] \/ broken[j[2]] \/ Exiting))

\* Every call returns: rel_addjob, although the engine takes the mutex again as
\* soon as it has released it, and exit as long as a job runs, whose read or write
\* the cancelled engine meets (lines 138-147); only with every job over may the
\* join wait for ever.
CallsReturn ==
    \A t \in Threads :
        []<>(pc[t] \in {"out", "gone"} \/ (pc[t] = "join" /\ \A s \in Slots : ~Runs(s)))

\* The engine, the jobs, the callers and, where it can, exit all get on.
EveryoneIsServed == EveryJobIsServed /\ CallsReturn
=============================================================================
