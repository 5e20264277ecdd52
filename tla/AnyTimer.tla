------------------------------ MODULE AnyTimer ------------------------------
(***************************************************************************)
(* The timer library of parallel/signal/anytimer/anytimer.c.               *)
(*                                                                         *)
(* One SIGALRM a second drives every job in the table.  The handler runs   *)
(* on the program's only thread: it interrupts the program between any two *)
(* of its steps and the program goes on when it has returned, so each      *)
(* access of the library's functions to the table or to a job is a step.   *)
(***************************************************************************)
EXTENDS Integers, FiniteSets

CONSTANTS
    JOB_MAX,        \* slots of the table
    Jobs,           \* the addresses malloc may return
    NULL,
    Secs            \* the delays passed to at_addjob and at_addjob_repeat

ASSUME TimerAssumption ==
    /\ JOB_MAX \in Nat \ {0}
    /\ Secs \subseteq Nat
    /\ \E s \in Secs : \A r \in Secs : r <= s    \* an int has a greatest value
    /\ NULL \notin Jobs

Ids == 0 .. JOB_MAX - 1
MaxSec == CHOOSE s \in Secs : \A r \in Secs : r <= s

VARIABLES
    job,       \* the table
    live,      \* the jobs malloc has given out and free has not taken back
    rec,       \* job_state, sec, time_remain and repeat of each job
    pc,        \* where the program is
    id,        \* the slot its call is about, or get_free_pos has returned
    me,        \* the job its call is building
    ret,       \* what its last call returned, until it makes the next
    hpc,       \* where the handler is
    i,         \* the slot the handler is looking at
    action,    \* SIGALRM's disposition
    armed,     \* the interval timer runs
    runs,      \* history: how often each job's function has run
    cancelled, \* history: at_canceljob has returned 0 for this job
    age,       \* history: ticks since the job was added, or last ran
    crossed    \* history: how the adding of a job by a callback has crossed what
               \* the program it interrupted was doing

program == <<pc, id, me, ret>>
handler == <<hpc, i>>
timer   == <<action, armed>>
history == <<runs, cancelled, age, crossed>>
vars    == <<job, live, rec, program, handler, timer, history>>

Record == [job_state : {"RUNNING", "CANCELED", "OVER", "garbage"}, sec : Secs,
           time_remain : -1 .. MaxSec, repeat : {0, 1}]

\* Memory that no job is in.  free links it into its list where job_state was,
\* so the handler sees a state that is none of the three and reads no further.
Freed == [job_state |-> "garbage", sec |-> MaxSec, time_remain |-> 0, repeat |-> 0]

\* errno.h
ENOMEM == 12
EBUSY == 16
EINVAL == 22
ENOSPC == 28
ECANCELED == 125

TypeOK ==
    /\ job \in [Ids -> Jobs \cup {NULL}]
    /\ live \subseteq Jobs
    /\ rec \in [Jobs -> Record]
    /\ pc \in {"out", "add", "cancelover", "cancelstore", "wait", "topause", "pause", "free",
               "clear", "unload", "ended", "killed"}
    /\ id \in Ids
    /\ me \in Jobs \cup {NULL}
    /\ ret \in Ids \cup {-ENOMEM, -EBUSY, -EINVAL, -ENOSPC, -ECANCELED}
    /\ hpc \in {"idle", "visit", "callback", "after"}
    /\ i \in 0 .. JOB_MAX
    /\ action \in {"default", "handler"}
    /\ armed \in BOOLEAN
    /\ runs \in [Jobs -> 0 .. 2]
    /\ cancelled \in [Jobs -> BOOLEAN]
    /\ age \in [Jobs -> 0 .. MaxSec + 1]
    /\ crossed \in [Jobs -> {"no", "lost", "doubled"}]

Init ==
    /\ job = [p \in Ids |-> NULL]
    /\ live = {}
    /\ rec = [j \in Jobs |-> Freed]
    /\ pc = "out" /\ id = 0 /\ me = NULL
    /\ ret = 0
    /\ hpc = "idle" /\ i = 0
    /\ action = "default" /\ armed = FALSE
    /\ runs = [j \in Jobs |-> 0]
    /\ cancelled = [j \in Jobs |-> FALSE]
    /\ age = [j \in Jobs |-> 0]
    /\ crossed = [j \in Jobs |-> "no"]

\* The program runs while no handler does.
At(l) == pc = l /\ hpc = "idle"

Return(v) == pc' = "out" /\ id' = 0 /\ me' = NULL /\ ret' = v

State(j) == rec[j].job_state
RunningJobs == {j \in Jobs : State(j) = "RUNNING"}
SetState(j, s) == rec' = [rec EXCEPT ![j].job_state = s]

-----------------------------------------------------------------------------
(* at_addjob and at_addjob_repeat *)

\* A negative delay is refused at once.
AddInvalid ==
    /\ At("out")
    /\ Return(-EINVAL)
    /\ UNCHANGED <<job, live, rec, handler, timer, history>>

\* get_free_pos
IsFreePos(p) == job[p] = NULL /\ \A q \in 0 .. p - 1 : job[q] # NULL

Forget(j) ==
    /\ runs' = [runs EXCEPT ![j] = 0]
    /\ cancelled' = [cancelled EXCEPT ![j] = FALSE]
    /\ age' = [age EXCEPT ![j] = 0]
    /\ crossed' = [crossed EXCEPT ![j] = "no"]

\* malloc, and the record the two functions fill in.
NewJob(j, sec, repeat) ==
    /\ j \notin live
    /\ live' = live \cup {j}
    /\ rec' = [rec EXCEPT ![j] = [job_state |-> "RUNNING", sec |-> sec,
                                  time_remain |-> sec, repeat |-> repeat]]
    /\ Forget(j)

\* Mutant of Add: module_load does not start the timer.
AddUnarmed(j, sec, repeat) ==
    /\ At("out")
    /\ \E p \in Ids : IsFreePos(p) /\ id' = p
    /\ NewJob(j, sec, repeat)
    /\ me' = j
    /\ action' = "handler"
    /\ pc' = "add" /\ ret' = 0
    /\ UNCHANGED <<job, handler, armed>>
\* module_load on the first call, get_free_pos, malloc and the assignments to
\* the job: it is not in the table yet.
Add(j, sec, repeat) ==
    /\ At("out")
    /\ \E p \in Ids : IsFreePos(p) /\ id' = p
    /\ NewJob(j, sec, repeat)
    /\ me' = j
    /\ action' = "handler" /\ armed' = TRUE
    /\ pc' = "add" /\ ret' = 0
    /\ UNCHANGED <<job, handler>>

AddNoMemory ==
    /\ At("out")
    /\ \E p \in Ids : job[p] = NULL
    /\ Return(-ENOMEM)
    /\ action' = "handler" /\ armed' = TRUE
    /\ UNCHANGED <<job, live, rec, handler, history>>

AddNoSpace ==
    /\ At("out")
    /\ \A p \in Ids : job[p] # NULL
    /\ Return(-ENOSPC)
    /\ UNCHANGED <<job, live, rec, handler, timer, history>>

\* Mutant of AddStore: the slot is not looked up but always the first.
AddStoreFirst ==
    /\ At("add")
    /\ job' = [job EXCEPT ![0] = me]
    /\ Return(id)
    /\ UNCHANGED <<live, rec, handler, timer, history>>
AddStore ==
    /\ At("add")
    /\ job' = [job EXCEPT ![id] = me]
    /\ Return(id)
    /\ UNCHANGED <<live, rec, handler, timer, history>>

-----------------------------------------------------------------------------
(* at_canceljob *)

CancelInvalid ==
    /\ At("out")
    /\ \E p \in Ids : job[p] = NULL
    /\ Return(-EINVAL)
    /\ UNCHANGED <<job, live, rec, handler, timer, history>>

\* The first test of the state.
Cancel(p) ==
    /\ At("out")
    /\ job[p] # NULL
    /\ IF State(job[p]) = "CANCELED"
       THEN Return(-ECANCELED)
       ELSE pc' = "cancelover" /\ id' = p /\ ret' = 0 /\ UNCHANGED me
    /\ UNCHANGED <<job, live, rec, handler, timer, history>>

\* The second.
CancelOver ==
    /\ At("cancelover")
    /\ IF State(job[id]) = "OVER"
       THEN Return(-EBUSY)
       ELSE pc' = "cancelstore" /\ UNCHANGED <<id, me, ret>>
    /\ UNCHANGED <<job, live, rec, handler, timer, history>>

\* Mutant of CancelStore: the state is left alone.
CancelStoreNot ==
    /\ At("cancelstore")
    /\ cancelled' = [cancelled EXCEPT ![job[id]] = TRUE]
    /\ Return(0)
    /\ UNCHANGED <<job, live, rec, handler, timer, runs, age, crossed>>
CancelStore ==
    /\ At("cancelstore")
    /\ SetState(job[id], "CANCELED")
    /\ cancelled' = [cancelled EXCEPT ![job[id]] = TRUE]
    /\ Return(0)
    /\ UNCHANGED <<job, live, handler, timer, runs, age, crossed>>

-----------------------------------------------------------------------------
(* at_waitjob *)

WaitInvalid ==
    /\ At("out")
    /\ \E p \in Ids : job[p] = NULL
    /\ Return(-EINVAL)
    /\ UNCHANGED <<job, live, rec, handler, timer, history>>

WaitRepeat ==
    /\ At("out")
    /\ \E p \in Ids : job[p] # NULL /\ rec[job[p]].repeat = 1
    /\ Return(-EBUSY)
    /\ UNCHANGED <<job, live, rec, handler, timer, history>>

Wait(p) ==
    /\ At("out")
    /\ job[p] # NULL
    /\ rec[job[p]].repeat = 0
    /\ pc' = "wait" /\ id' = p /\ ret' = 0
    /\ UNCHANGED <<job, live, rec, me, handler, timer, history>>

WaitTest ==
    /\ At("wait")
    /\ pc' = IF State(job[id]) = "RUNNING" THEN "topause" ELSE "free"
    /\ UNCHANGED <<job, live, rec, id, me, ret, handler, timer, history>>

\* pause is left only when the handler has run since it was called: a signal
\* between the test and the call wakes nobody.
WaitPause ==
    /\ At("topause")
    /\ pc' = "pause"
    /\ UNCHANGED <<job, live, rec, id, me, ret, handler, timer, history>>

WaitFree ==
    /\ At("free")
    /\ live' = live \ {job[id]}
    /\ rec' = [rec EXCEPT ![job[id]] = Freed]
    /\ Forget(job[id])
    /\ pc' = "clear"
    /\ UNCHANGED <<job, id, me, ret, handler, timer>>

WaitClear ==
    /\ At("clear")
    /\ job' = [job EXCEPT ![id] = NULL]
    /\ Return(0)
    /\ UNCHANGED <<live, rec, handler, timer, history>>

-----------------------------------------------------------------------------
(* exit runs module_unload: the timer first, then the disposition. *)

ExitTimer ==
    /\ At("out")
    /\ armed
    /\ armed' = FALSE
    /\ pc' = "unload"
    /\ UNCHANGED <<job, live, rec, id, me, ret, handler, action, history>>

ExitAction ==
    /\ At("unload")
    /\ action' = "default"
    /\ pc' = "ended"
    /\ UNCHANGED <<job, live, rec, id, me, ret, handler, armed, history>>

Program ==
    \/ \E j \in Jobs, sec \in Secs, repeat \in {0, 1} : Add(j, sec, repeat)
    \/ AddInvalid \/ AddNoMemory \/ AddNoSpace \/ AddStore
    \/ CancelInvalid \/ WaitInvalid \/ WaitRepeat
    \/ \E p \in Ids : Cancel(p) \/ Wait(p)
    \/ CancelOver \/ CancelStore
    \/ WaitTest \/ WaitPause \/ WaitFree \/ WaitClear
    \/ ExitTimer \/ ExitAction

-----------------------------------------------------------------------------
(* alrm_action *)

Running == pc \notin {"ended", "killed"}

\* SIGALRM: the handler begins, or the default action ends the process.
Tick ==
    /\ Running /\ hpc = "idle"
    /\ armed
    /\ IF action = "handler"
       THEN /\ hpc' = "visit" /\ i' = 0
            /\ age' = [j \in Jobs |-> IF \E p \in Ids : job[p] = j /\ age[j] <= MaxSec
                                      THEN age[j] + 1 ELSE age[j]]
            /\ UNCHANGED pc
       ELSE pc' = "killed" /\ UNCHANGED <<handler, age>>
    /\ UNCHANGED <<job, live, rec, id, me, ret, timer, runs, cancelled, crossed>>

VisitOther ==
    /\ hpc = "visit"
    /\ i < JOB_MAX
    /\ job[i] \notin RunningJobs
    /\ i' = i + 1
    /\ UNCHANGED <<job, live, rec, program, hpc, timer, history>>

\* The remaining time stays at -1 once it has passed zero: no value below is
\* told apart from it before the int wraps round.
Less(n) == IF n = -1 THEN -1 ELSE n - 1

\* Mutant of VisitRunning: the time is tested before it is decremented.
VisitRunningLate ==
    /\ hpc = "visit"
    /\ i < JOB_MAX
    /\ job[i] \in RunningJobs
    /\ rec' = [rec EXCEPT ![job[i]].time_remain = Less(@)]
    /\ IF rec[job[i]].time_remain = 0
       THEN hpc' = "callback" /\ UNCHANGED i
       ELSE i' = i + 1 /\ UNCHANGED hpc
    /\ UNCHANGED <<job, live, program, timer, history>>
VisitRunning ==
    /\ hpc = "visit"
    /\ i < JOB_MAX
    /\ job[i] \in RunningJobs
    /\ rec' = [rec EXCEPT ![job[i]].time_remain = Less(@)]
    /\ IF rec[job[i]].time_remain = 1
       THEN hpc' = "callback" /\ UNCHANGED i
       ELSE i' = i + 1 /\ UNCHANGED hpc
    /\ UNCHANGED <<job, live, program, timer, history>>

Ran(j) == runs' = [runs EXCEPT ![j] = IF @ = 2 THEN 2 ELSE @ + 1]

\* jobp(arg), which calls nothing of the library ...
Callback ==
    /\ hpc = "callback"
    /\ Ran(job[i])
    /\ hpc' = "after"
    /\ UNCHANGED <<job, live, rec, program, i, timer, cancelled, age, crossed>>

\* ... or adds a job, which the tick under way counts for if its slot is still
\* to be visited.  The slot may be the one the program has just found free and is
\* going to fill, and the memory that of the job it has just freed, whose slot
\* still names it ...
CallbackAdds(j, sec) ==
    /\ hpc = "callback"
    /\ j \notin live
    /\ live' = live \cup {j}
    /\ rec' = [rec EXCEPT ![j] = [job_state |-> "RUNNING", sec |-> sec,
                                  time_remain |-> sec, repeat |-> 0]]
    /\ \E p \in Ids :
          /\ IsFreePos(p)
          /\ job' = [job EXCEPT ![p] = j]
          /\ age' = [age EXCEPT ![j] = IF p > i THEN 1 ELSE 0]
          /\ crossed' = [crossed EXCEPT ![j] =
                             IF pc = "add" /\ p = id THEN "lost"
                             ELSE IF pc = "clear" /\ job[id] = j THEN "doubled" ELSE "no"]
    /\ runs' = [runs EXCEPT ![j] = 0, ![job[i]] = IF @ = 2 THEN 2 ELSE @ + 1]
    /\ cancelled' = [cancelled EXCEPT ![j] = FALSE]
    /\ hpc' = "after"
    /\ UNCHANGED <<program, i, timer>>

\* ... or cancels one.
CallbackCancels(p) ==
    /\ hpc = "callback"
    /\ job[p] # NULL
    /\ State(job[p]) = "RUNNING"
    /\ SetState(job[p], "CANCELED")
    /\ cancelled' = [cancelled EXCEPT ![job[p]] = TRUE]
    /\ Ran(job[i])
    /\ hpc' = "after"
    /\ UNCHANGED <<job, live, program, i, timer, age, crossed>>

\* A repeated job starts again, a single one is over.
After ==
    /\ hpc = "after"
    /\ rec' = [rec EXCEPT ![job[i]] =
                  IF @.repeat = 1 THEN [@ EXCEPT !.time_remain = rec[job[i]].sec]
                                  ELSE [@ EXCEPT !.job_state = "OVER"]]
    /\ age' = [age EXCEPT ![job[i]] = 0]
    /\ hpc' = "visit" /\ i' = i + 1
    /\ UNCHANGED <<job, live, program, timer, runs, cancelled, crossed>>

\* The handler returns, and so does pause.
HandlerEnds ==
    /\ hpc = "visit"
    /\ i = JOB_MAX
    /\ hpc' = "idle" /\ i' = 0
    /\ pc' = IF pc = "pause" THEN "wait" ELSE pc
    /\ UNCHANGED <<job, live, rec, id, me, ret, timer, history>>

InHandler ==
    \/ VisitOther \/ VisitRunning \/ Callback \/ After \/ HandlerEnds
    \/ \E j \in Jobs, sec \in Secs : CallbackAdds(j, sec)
    \/ \E p \in Ids : CallbackCancels(p)

Next == Program \/ Tick \/ InHandler

Spec == Init /\ [][Next]_vars

\* The timer goes off again and again, the handler runs to its end, and a call
\* that has begun goes on; nothing makes the program call or exit.
Fairness ==
    /\ WF_vars(Tick) /\ WF_vars(InHandler)
    /\ SF_vars(Program /\ pc \notin {"out", "unload"})

FairSpec == Spec /\ Fairness

-----------------------------------------------------------------------------
(* Properties *)

\* A job's function runs when its delay has passed, not a tick earlier or later,
\* whatever the program was doing at the ticks between; that of a single job runs
\* once, and with delay 0, which at_addjob accepts, not at all (lines 51-58, 114).
\* The one exception is a job in the memory of one just freed: two slots name it
\* until the first is cleared, and it is counted down twice a tick.
RunsOnTime ==
    hpc = "callback" =>
        /\ rec[job[i]].sec > 0
        /\ rec[job[i]].repeat = 0 => runs[job[i]] = 0
        /\ crossed[job[i]] # "doubled" => age[job[i]] = rec[job[i]].sec

\* Once at_canceljob has returned 0 the job's function does not run again: the
\* handler never undoes the cancellation (lines 51 and 55-58 against 181).
CancelledStops ==
    [][\A j \in Jobs : cancelled[j] /\ cancelled'[j] => runs'[j] = runs[j]]_vars

\* What becomes of a job once it is allocated (lines 122-138, 199-200), whatever
\* the handler and its callbacks do in between: it is in the table until
\* at_waitjob frees it, unless a callback put it in the very slot the program had
\* just found free; and it has one id, unless a callback was given the memory of
\* the job just freed, whose slot will be cleared.
Kept ==
    /\ \A j \in live : crossed[j] # "lost" => j = me \/ \E p \in Ids : job[p] = j
    /\ \A p, q \in Ids : job[p] = job[q] /\ job[p] # NULL =>
          \/ p = q
          \/ pc = "clear" /\ id \in {p, q} /\ crossed[job[p]] = "doubled"

\* at_waitjob returns if the job it waits for has a delay or has ended.
WaitReturns ==
    (pc = "wait" /\ (rec[job[id]].sec > 0 \/ State(job[id]) # "RUNNING")) ~> (pc = "out")

\* Refuted by a run: anytimer.h:28, at_canceljob fails with -EBUSY if the job has already
\* been completed.  The handler completes it between the test and the store.
CancelledIsNotOver ==
    [][\A j \in Jobs : ~cancelled[j] /\ cancelled'[j] => State(j) # "OVER"]_vars
=============================================================================
