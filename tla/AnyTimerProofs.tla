--------------------------- MODULE AnyTimerProofs ---------------------------
(***************************************************************************)
(* What anytimer.c promises for any number of slots, addresses and delays, *)
(* whatever the handler interrupts and whatever its callbacks add.         *)
(***************************************************************************)
EXTENDS AnyTimer, TLAPS

\* Where the handler is, there is a job; while it is called, it is running.
HandlerInv ==
    /\ hpc \in {"callback", "after"} => i \in Ids /\ job[i] \in live
    /\ hpc = "callback" => State(job[i]) = "RUNNING" /\ rec[job[i]].time_remain = 0

\* The slot to be cleared names a job that another slot names, too.
Elsewhere == \E q \in Ids \ {id} : job[q] = job[id]

\* The table, the jobs allocated, and the one job that is in only one of the two:
\* about to enter the table, or freed and about to leave it.
TableInv ==
    /\ Kept
    /\ \A p \in Ids : job[p] # NULL => job[p] \in live \/ (pc = "clear" /\ p = id)
    /\ \A j \in Jobs \ live : rec[j] = Freed /\ ~cancelled[j] /\ crossed[j] = "no"
    /\ pc = "add" <=> me # NULL
    /\ pc = "add" => /\ me \in live /\ \A p \in Ids : job[p] # me
                     /\ job[id] = NULL \/ crossed[job[id]] = "lost"
                     /\ rec[me].time_remain = rec[me].sec /\ age[me] = 0
    /\ pc \in {"cancelover", "cancelstore", "wait", "topause", "pause", "free"} =>
          job[id] \in live
    /\ pc = "clear" =>
          /\ job[id] # NULL
          /\ job[id] \notin live \/ (crossed[job[id]] = "doubled" /\ Elsewhere)

\* Ticks that have been counted for the job of slot p and not yet taken off its
\* remaining time: the handler has still to come to the slot.
Late(p) == IF (hpc = "visit" /\ i <= p) \/ (hpc \in {"callback", "after"} /\ i < p)
           THEN 1 ELSE 0

\* The handler is at the job of slot p.
AtJob(p) == hpc \in {"callback", "after"} /\ i = p

\* The remaining time of a running job that only one slot has named and the ticks
\* since it began are its delay.
TimeInv ==
    \A p \in Ids :
        job[p] # NULL /\ State(job[p]) = "RUNNING" /\ ~AtJob(p) /\ crossed[job[p]] # "doubled" =>
            \/ rec[job[p]].time_remain = -1
            \/ age[job[p]] + rec[job[p]].time_remain = rec[job[p]].sec + Late(p)

\* A single job that is running has not run, nor has a cancelled one to run, nor
\* ever one without a delay.
RunInv ==
    /\ \A j \in Jobs : /\ cancelled[j] => State(j) # "RUNNING"
                       /\ State(j) = "RUNNING" /\ rec[j].repeat = 0 =>
                             runs[j] = 0 \/ (hpc = "after" /\ job[i] = j)
                       /\ State(j) = "RUNNING" /\ rec[j].sec = 0 => rec[j].time_remain <= 0
    /\ hpc = "callback" => /\ rec[job[i]].sec > 0
                           /\ crossed[job[i]] # "doubled" => age[job[i]] = rec[job[i]].sec

TimerInv == TypeOK /\ HandlerInv /\ TableInv /\ TimeInv /\ RunInv

-----------------------------------------------------------------------------
(* The greatest delay, and how the steps leave the data alone *)

LEMMA MaxSecIs ==
    /\ MaxSec \in Secs
    /\ MaxSec \in Nat
    /\ \A s \in Secs : s \in Nat /\ s <= MaxSec
BY TimerAssumption DEF MaxSec

LEMMA FreedIsRecord == Freed \in Record
BY MaxSecIs DEF Freed, Record

LEMMA InitTimer == Init => TimerInv
<1> SUFFICES ASSUME Init PROVE TimerInv
  OBVIOUS
<1>1. TypeOK
  <2>1. job \in [Ids -> Jobs \cup {NULL}] /\ rec \in [Jobs -> Record]
    BY FreedIsRecord DEF Init
  <2>2. runs \in [Jobs -> 0 .. 2] /\ cancelled \in [Jobs -> BOOLEAN]
    BY DEF Init
  <2>3. age \in [Jobs -> 0 .. MaxSec + 1]
    BY MaxSecIs DEF Init
  <2>6. crossed \in [Jobs -> {"no", "lost", "doubled"}]
    BY DEF Init
  <2>4. 0 \in Ids /\ 0 \in 0 .. JOB_MAX
    BY TimerAssumption DEF Ids
  <2>5. QED
    BY <2>1, <2>2, <2>3, <2>4, <2>6 DEF Init, TypeOK
<1>2. HandlerInv /\ TableInv /\ TimeInv /\ RunInv
  BY TimerAssumption DEF Init, HandlerInv, TableInv, Kept, TimeInv, RunInv, State, Freed, Ids
<1>3. QED
  BY <1>1, <1>2 DEF TimerInv

\* A step that moves the program and nothing the handler reads.
Quiet == UNCHANGED <<job, live, rec, handler, history>>

LEMMA QuietKeeps ==
    ASSUME TimerInv, Quiet, TypeOK', TableInv'
    PROVE  TimerInv'
<1>1. HandlerInv'
  BY DEF TimerInv, HandlerInv, Quiet, handler, State
<1>2. TimeInv'
  <2>1. \A p : Late(p)' = Late(p)
    BY DEF Late, Quiet, handler
  <2>2. \A p : AtJob(p)' = AtJob(p)
    BY DEF AtJob, Quiet, handler
  <2>3. QED
    BY <2>1, <2>2 DEF TimerInv, TimeInv, Quiet, handler, history, State
<1>3. RunInv'
  BY DEF TimerInv, RunInv, Quiet, handler, history, State
<1>4. QED
  BY <1>1, <1>2, <1>3 DEF TimerInv

\* A call that changes nothing returns.
LEMMA ReturnKeeps ==
    ASSUME TimerInv, Quiet, pc # "add", pc # "clear",
           action' \in {"default", "handler"}, armed' \in BOOLEAN,
           NEW v \in Ids \cup {-ENOMEM, -EBUSY, -EINVAL, -ENOSPC, -ECANCELED}, Return(v)
    PROVE  TimerInv'
<1>1. TypeOK'
  BY TimerAssumption DEF TimerInv, TypeOK, Quiet, handler, history, Return, Ids
<1>2. TableInv'
  BY DEF TimerInv, TypeOK, TableInv, Kept, Quiet, handler, history, Return
<1>3. QED
  BY <1>1, <1>2, QuietKeeps

LEMMA AnswersKeep ==
    ASSUME TimerInv, AddInvalid \/ AddNoMemory \/ AddNoSpace \/ CancelInvalid \/ WaitInvalid
                     \/ WaitRepeat
    PROVE  TimerInv'
<1>1. PICK v \in {-ENOMEM, -EBUSY, -EINVAL, -ENOSPC, -ECANCELED} : Return(v)
  BY DEF AddInvalid, AddNoMemory, AddNoSpace, CancelInvalid, WaitInvalid, WaitRepeat
<1>2. Quiet /\ pc = "out"
  BY DEF AddInvalid, AddNoMemory, AddNoSpace, CancelInvalid, WaitInvalid, WaitRepeat, At,
         Quiet, handler, history
<1>3. action' \in {"default", "handler"} /\ armed' \in BOOLEAN
  BY DEF AddInvalid, AddNoMemory, AddNoSpace, CancelInvalid, WaitInvalid, WaitRepeat, timer,
         TimerInv, TypeOK
<1>4. QED
  BY <1>1, <1>2, <1>3, ReturnKeeps

\* The program goes from one access to the next.
LEMMA CancelKeeps ==
    ASSUME TimerInv, (\E p \in Ids : Cancel(p)) \/ CancelOver
    PROVE  TimerInv'
<1>1. Quiet /\ UNCHANGED timer
  BY DEF Cancel, CancelOver, Quiet
<1>2. CASE Return(-ECANCELED) \/ Return(-EBUSY)
  <2>1. pc # "add" /\ pc # "clear"
    BY DEF Cancel, CancelOver, At
  <2>2. action' \in {"default", "handler"} /\ armed' \in BOOLEAN
    BY <1>1 DEF timer, TimerInv, TypeOK
  <2>3. QED
    BY <1>1, <1>2, <2>1, <2>2, ReturnKeeps
<1>3. CASE ~ (Return(-ECANCELED) \/ Return(-EBUSY))
  <2>1. pc \in {"out", "cancelover"} /\ pc' \in {"cancelover", "cancelstore"} /\ UNCHANGED me
        /\ id' \in Ids /\ (ret' = 0 \/ ret' = ret) /\ job[id'] # NULL
        /\ (pc = "cancelover" => id' = id)
    BY <1>3, TimerAssumption DEF Cancel, CancelOver, At, TimerInv, TypeOK, TableInv
  <2>2. TypeOK'
    BY <1>1, <2>1, TimerAssumption DEF TimerInv, TypeOK, Quiet, handler, history, timer, Ids
  <2>3. TableInv'
    BY <1>1, <2>1 DEF TimerInv, TypeOK, TableInv, Kept, Quiet, handler, history
  <2>4. QED
    BY <1>1, <2>2, <2>3, QuietKeeps
<1>4. QED
  BY <1>2, <1>3

LEMMA WaitKeeps ==
    ASSUME TimerInv, (\E p \in Ids : Wait(p)) \/ WaitTest \/ WaitPause
    PROVE  TimerInv'
<1>1. Quiet /\ UNCHANGED timer /\ UNCHANGED me
  BY DEF Wait, WaitTest, WaitPause, Quiet
<1>2. /\ pc \in {"out", "wait", "topause"} /\ pc' \in {"wait", "topause", "pause", "free"}
      /\ id' \in Ids /\ (ret' = 0 \/ ret' = ret) /\ job[id'] # NULL
      /\ pc # "out" => id' = id
  BY TimerAssumption DEF Wait, WaitTest, WaitPause, At, TimerInv, TypeOK, TableInv
<1>3. TypeOK'
  BY <1>1, <1>2, TimerAssumption DEF TimerInv, TypeOK, Quiet, handler, history, timer, Ids
<1>4. TableInv'
  BY <1>1, <1>2 DEF TimerInv, TypeOK, TableInv, Kept, Quiet, handler, history
<1>5. QED
  BY <1>1, <1>3, <1>4, QuietKeeps

LEMMA ExitKeeps ==
    ASSUME TimerInv, ExitTimer \/ ExitAction
    PROVE  TimerInv'
<1>1. Quiet /\ UNCHANGED <<id, me, ret>> /\ action' \in {"default", "handler"}
      /\ armed' \in BOOLEAN /\ pc \in {"out", "unload"} /\ pc' \in {"unload", "ended"}
  BY DEF ExitTimer, ExitAction, At, Quiet, TimerInv, TypeOK
<1>2. TypeOK'
  BY <1>1 DEF TimerInv, TypeOK, Quiet, handler, history
<1>3. TableInv'
  BY <1>1 DEF TimerInv, TypeOK, TableInv, Kept, Quiet, handler, history
<1>4. QED
  BY <1>1, <1>2, <1>3, QuietKeeps

-----------------------------------------------------------------------------
(* The steps of the program that change the table or a job *)

LEMMA AddKeeps ==
    ASSUME TimerInv, NEW j \in Jobs, NEW sec \in Secs, NEW repeat \in {0, 1}, Add(j, sec, repeat)
    PROVE  TimerInv'
<1> DEFINE new == [job_state |-> "RUNNING", sec |-> sec, time_remain |-> sec, repeat |-> repeat]
<1>1. /\ pc = "out" /\ hpc = "idle" /\ pc' = "add" /\ me' = j /\ ret' = 0
      /\ j \notin live /\ live' = live \cup {j}
      /\ action' = "handler" /\ armed' = TRUE
      /\ UNCHANGED <<job, hpc, i>>
  BY DEF Add, At, NewJob, handler
<1>2. id' \in Ids /\ job[id'] = NULL
  BY DEF Add, IsFreePos
<1>3. /\ rec' = [rec EXCEPT ![j] = new]
      /\ runs' = [runs EXCEPT ![j] = 0]
      /\ cancelled' = [cancelled EXCEPT ![j] = FALSE]
      /\ age' = [age EXCEPT ![j] = 0]
      /\ crossed' = [crossed EXCEPT ![j] = "no"]
  BY DEF Add, NewJob, Forget
<1>4. new \in Record
  BY MaxSecIs DEF Record
<1>5. TypeOK'
  <2>1. rec' \in [Jobs -> Record] /\ cancelled' \in [Jobs -> BOOLEAN]
    BY <1>3, <1>4 DEF TimerInv, TypeOK
  <2>2. runs' \in [Jobs -> 0 .. 2] /\ age' \in [Jobs -> 0 .. MaxSec + 1]
        /\ crossed' \in [Jobs -> {"no", "lost", "doubled"}]
    BY <1>3, MaxSecIs DEF TimerInv, TypeOK
  <2>3. 0 \in Ids
    BY TimerAssumption DEF Ids
  <2>4. QED
    BY <1>1, <1>2, <2>1, <2>2, <2>3 DEF TimerInv, TypeOK
<1>6. \A p \in Ids : job[p] # j
  BY <1>1, TimerAssumption DEF TimerInv, TypeOK, TableInv
<1>7. \A k \in Jobs \ {j} : rec'[k] = rec[k] /\ runs'[k] = runs[k] /\ age'[k] = age[k]
                           /\ cancelled'[k] = cancelled[k] /\ crossed'[k] = crossed[k]
  BY <1>3 DEF TimerInv, TypeOK
<1>8. rec'[j] = new /\ runs'[j] = 0 /\ age'[j] = 0 /\ cancelled'[j] = FALSE /\ crossed'[j] = "no"
  BY <1>3 DEF TimerInv, TypeOK
<1>9. HandlerInv'
  BY <1>1 DEF HandlerInv
<1>10. TableInv'
  BY <1>1, <1>2, <1>6, <1>7, <1>8, TimerAssumption DEF TimerInv, TypeOK, TableInv, Kept, Elsewhere
<1>11. TimeInv'
  BY <1>1, <1>6, <1>7 DEF TimerInv, TypeOK, TimeInv, State, AtJob, Late
<1>12. RunInv'
  BY <1>1, <1>7, <1>8 DEF TimerInv, RunInv, State
<1>13. QED
  BY <1>5, <1>9, <1>10, <1>11, <1>12 DEF TimerInv

LEMMA AddStoreKeeps ==
    ASSUME TimerInv, AddStore
    PROVE  TimerInv'
<1>1. /\ pc = "add" /\ hpc = "idle" /\ pc' = "out" /\ id' = 0 /\ me' = NULL /\ ret' = id
      /\ job' = [job EXCEPT ![id] = me]
      /\ UNCHANGED <<live, rec, hpc, i, action, armed, runs, cancelled, age, crossed>>
  BY DEF AddStore, At, Return, handler, timer, history
<1>2. /\ me \in live /\ me \in Jobs /\ id \in Ids /\ \A p \in Ids : job[p] # me
      /\ job[id] = NULL \/ crossed[job[id]] = "lost"
      /\ rec[me].time_remain = rec[me].sec /\ age[me] = 0
  BY <1>1 DEF TimerInv, TypeOK, TableInv
<1>3. TypeOK'
  BY <1>1, <1>2, TimerAssumption DEF TimerInv, TypeOK, Ids
<1>4. job'[id] = me /\ \A p \in Ids \ {id} : job'[p] = job[p]
  BY <1>1, <1>2 DEF TimerInv, TypeOK
<1>5. TableInv'
  <2>1. \A j \in live : crossed[j] # "lost" => \E p \in Ids : job'[p] = j
    BY <1>1, <1>2, <1>4, TimerAssumption DEF TimerInv, TypeOK, TableInv, Kept, Elsewhere
  <2>2. \A p, q \in Ids : job'[p] = job'[q] /\ job'[p] # NULL => p = q
    BY <1>1, <1>2, <1>4 DEF TimerInv, TableInv, Kept
  <2>3. QED
    BY <1>1, <1>2, <1>4, <2>1, <2>2, TimerAssumption DEF TimerInv, TypeOK, TableInv, Kept, Elsewhere
<1>6. HandlerInv'
  BY <1>1 DEF HandlerInv
<1>7. TimeInv'
  <2> SUFFICES ASSUME NEW p \in Ids, job'[p] # NULL, rec[job'[p]].job_state = "RUNNING",
                      crossed[job'[p]] # "doubled"
               PROVE  \/ rec[job'[p]].time_remain = -1
                      \/ age[job'[p]] + rec[job'[p]].time_remain = rec[job'[p]].sec + 0
    BY <1>1 DEF TimeInv, State, AtJob, Late
  <2>1. CASE p = id
    <3>1. rec[me].sec \in Nat
      BY <1>2, MaxSecIs DEF TimerInv, TypeOK, Record
    <3>2. QED
      BY <1>2, <1>4, <2>1, <3>1
  <2>2. CASE p # id
    BY <1>1, <1>4, <2>2 DEF TimerInv, TimeInv, State, AtJob, Late
  <2>3. QED
    BY <2>1, <2>2
<1>8. RunInv'
  BY <1>1 DEF TimerInv, RunInv, State
<1>9. QED
  BY <1>3, <1>5, <1>6, <1>7, <1>8 DEF TimerInv

\* A step that changes the state of one running job to another than RUNNING.
LEMMA CancelStoreKeeps ==
    ASSUME TimerInv, CancelStore
    PROVE  TimerInv'
<1> DEFINE j == job[id]
<1>1. /\ pc = "cancelstore" /\ hpc = "idle" /\ pc' = "out" /\ id' = 0 /\ me' = NULL /\ ret' = 0
      /\ rec' = [rec EXCEPT ![j].job_state = "CANCELED"]
      /\ cancelled' = [cancelled EXCEPT ![j] = TRUE]
      /\ UNCHANGED <<job, live, hpc, i, action, armed, runs, age, crossed>>
  BY DEF CancelStore, At, Return, SetState, handler, timer
<1>2. j \in live /\ j \in Jobs
  BY <1>1 DEF TimerInv, TypeOK, TableInv
<1> HIDE DEF j
<1>3. rec'[j] = [rec[j] EXCEPT !.job_state = "CANCELED"] /\ cancelled'[j] = TRUE
      /\ \A k \in Jobs \ {j} : rec'[k] = rec[k] /\ cancelled'[k] = cancelled[k]
  BY <1>1, <1>2 DEF TimerInv, TypeOK
<1>4. rec[j] \in Record
  BY <1>2 DEF TimerInv, TypeOK
<1>5. rec'[j] \in Record /\ rec'[j].job_state = "CANCELED"
  BY <1>3, <1>4 DEF Record
<1>6. TypeOK'
  <2>1. rec' \in [Jobs -> Record]
    BY <1>1, <1>2, <1>3, <1>5 DEF TimerInv, TypeOK
  <2>2. cancelled' \in [Jobs -> BOOLEAN]
    BY <1>1 DEF TimerInv, TypeOK
  <2>3. QED
    BY <1>1, <2>1, <2>2, TimerAssumption DEF TimerInv, TypeOK, Ids
<1>7. TableInv'
  BY <1>1, <1>2, <1>3 DEF TimerInv, TypeOK, TableInv, Kept, Elsewhere
<1>8. HandlerInv'
  BY <1>1 DEF HandlerInv
<1>9. TimeInv'
  BY <1>1, <1>3, <1>5, TimerAssumption DEF TimerInv, TypeOK, TimeInv, State, AtJob, Late
<1>10. RunInv'
  BY <1>1, <1>3, <1>5 DEF TimerInv, RunInv, State
<1>11. QED
  BY <1>6, <1>7, <1>8, <1>9, <1>10 DEF TimerInv

LEMMA WaitFreeKeeps ==
    ASSUME TimerInv, WaitFree
    PROVE  TimerInv'
<1> DEFINE j == job[id]
<1>1. /\ pc = "free" /\ hpc = "idle" /\ pc' = "clear"
      /\ live' = live \ {j}
      /\ rec' = [rec EXCEPT ![j] = Freed]
      /\ runs' = [runs EXCEPT ![j] = 0]
      /\ cancelled' = [cancelled EXCEPT ![j] = FALSE]
      /\ age' = [age EXCEPT ![j] = 0]
      /\ crossed' = [crossed EXCEPT ![j] = "no"]
      /\ UNCHANGED <<job, id, me, ret, hpc, i, action, armed>>
  BY DEF WaitFree, At, Forget, handler, timer
<1>2. j \in live /\ j \in Jobs /\ j # NULL /\ me = NULL /\ id \in Ids /\ j = job[id]
  BY <1>1, TimerAssumption DEF TimerInv, TypeOK, TableInv
<1> HIDE DEF j
<1>3. rec'[j] = Freed /\ cancelled'[j] = FALSE /\ runs'[j] = 0 /\ age'[j] = 0 /\ crossed'[j] = "no"
      /\ \A k \in Jobs \ {j} : rec'[k] = rec[k] /\ cancelled'[k] = cancelled[k]
                              /\ runs'[k] = runs[k] /\ age'[k] = age[k] /\ crossed'[k] = crossed[k]
  BY <1>1, <1>2 DEF TimerInv, TypeOK
<1>4. TypeOK'
  BY <1>1, <1>2, FreedIsRecord, MaxSecIs DEF TimerInv, TypeOK
<1>5. TableInv'
  BY <1>1, <1>2, <1>3 DEF TimerInv, TypeOK, TableInv, Kept, Elsewhere
<1>6. HandlerInv'
  BY <1>1 DEF HandlerInv
<1>7. \A k \in Jobs : State(k)' = "RUNNING" => k # j
  BY <1>2, <1>3 DEF State, Freed
<1>8. TimeInv'
  BY <1>1, <1>3, <1>7, TimerAssumption DEF TimerInv, TypeOK, TimeInv, State, AtJob, Late
<1>9. RunInv'
  BY <1>1, <1>3, <1>7 DEF TimerInv, RunInv, State
<1>10. QED
  BY <1>4, <1>5, <1>6, <1>8, <1>9 DEF TimerInv

LEMMA WaitClearKeeps ==
    ASSUME TimerInv, WaitClear
    PROVE  TimerInv'
<1>1. /\ pc = "clear" /\ hpc = "idle" /\ pc' = "out" /\ id' = 0 /\ me' = NULL /\ ret' = 0
      /\ job' = [job EXCEPT ![id] = NULL]
      /\ UNCHANGED <<live, rec, hpc, i, action, armed, runs, cancelled, age, crossed>>
  BY DEF WaitClear, At, Return, handler, timer, history
<1>2. /\ me = NULL /\ id \in Ids
      /\ job[id] \notin live \/ \E q \in Ids \ {id} : job[q] = job[id]
  BY <1>1 DEF TimerInv, TypeOK, TableInv, Elsewhere
<1>3. TypeOK'
  BY <1>1, <1>2, TimerAssumption DEF TimerInv, TypeOK, Ids
<1>4. job'[id] = NULL /\ \A p \in Ids \ {id} : job'[p] = job[p]
  BY <1>1, <1>2 DEF TimerInv, TypeOK
<1>5. TableInv'
  <2>1. ASSUME NEW j \in live, crossed[j] # "lost" PROVE \E p \in Ids : job'[p] = j
    <3>1. PICK p \in Ids : job[p] = j
      BY <1>2, <2>1, TimerAssumption DEF TimerInv, TypeOK, TableInv, Kept
    <3> QED BY <1>2, <1>4, <2>1, <3>1
  <2>2. \A p, q \in Ids : job'[p] = job'[q] /\ job'[p] # NULL => p = q
    BY <1>2, <1>4 DEF TimerInv, TableInv, Kept
  <2>3. QED
    BY <1>1, <1>2, <1>4, <2>1, <2>2, TimerAssumption DEF TimerInv, TypeOK, TableInv, Kept, Elsewhere
<1>6. HandlerInv'
  BY <1>1 DEF HandlerInv
<1>7. TimeInv'
  BY <1>1, <1>4 DEF TimerInv, TimeInv, State, AtJob, Late
<1>8. RunInv'
  BY <1>1 DEF TimerInv, RunInv, State
<1>9. QED
  BY <1>3, <1>5, <1>6, <1>7, <1>8 DEF TimerInv

-----------------------------------------------------------------------------
(* The handler *)

\* The interval timer runs only while the handler is installed: module_unload
\* stops the one before it takes the other away.
ArmedInv ==
    /\ armed => action = "handler"
    /\ pc = "unload" => ~armed

LEMMA InitArmed == Init => ArmedInv
BY DEF Init, ArmedInv

LEMMA ArmedKept == ArmedInv /\ [Next]_vars => ArmedInv'
<1> SUFFICES ASSUME ArmedInv, [Next]_vars PROVE ArmedInv'
  OBVIOUS
<1>1. CASE Program
  <2>1. CASE ExitTimer
    BY <2>1 DEF ExitTimer, ArmedInv
  <2>2. CASE ExitAction
    BY <2>2 DEF ExitAction, At, ArmedInv
  <2>3. ASSUME NEW j \in Jobs, NEW sec \in Secs, NEW repeat \in {0, 1}, Add(j, sec, repeat)
        PROVE  ArmedInv'
    BY <2>3 DEF Add, ArmedInv
  <2>4. CASE AddNoMemory
    BY <2>4 DEF AddNoMemory, Return, ArmedInv
  <2>5. CASE UNCHANGED timer /\ pc' # "unload"
    BY <2>5 DEF timer, ArmedInv
  <2>6. ASSUME AddInvalid \/ AddNoSpace \/ AddStore \/ CancelInvalid \/ WaitInvalid \/ WaitRepeat
        PROVE  ArmedInv'
    BY <2>5, <2>6 DEF AddInvalid, AddNoSpace, AddStore, CancelInvalid, WaitInvalid, WaitRepeat, Return
  <2>7. ASSUME NEW p \in Ids, Cancel(p) \/ Wait(p)
        PROVE  ArmedInv'
    BY <2>5, <2>7 DEF Cancel, Wait, Return
  <2>8. ASSUME CancelOver \/ CancelStore \/ WaitTest \/ WaitPause \/ WaitFree \/ WaitClear
        PROVE  ArmedInv'
    BY <2>5, <2>8 DEF CancelOver, CancelStore, WaitTest, WaitPause, WaitFree, WaitClear, Return
  <2>9. QED
    BY <1>1, <2>1, <2>2, <2>3, <2>4, <2>6, <2>7, <2>8 DEF Program
<1>2. CASE Tick
  BY <1>2 DEF Tick, timer, ArmedInv
<1>3. CASE InHandler
  BY <1>3 DEF InHandler, VisitOther, VisitRunning, Callback, After, HandlerEnds, CallbackAdds,
              CallbackCancels, program, timer, ArmedInv
<1>4. CASE UNCHANGED vars
  BY <1>4 DEF vars, program, timer, ArmedInv
<1>5. QED
  BY <1>1, <1>2, <1>3, <1>4 DEF Next

\* The tick is counted for every job of the table, and none has lost it yet.
LEMMA TickKeeps ==
    ASSUME TimerInv, ArmedInv, Tick
    PROVE  TimerInv'
<1>1. /\ hpc = "idle" /\ hpc' = "visit" /\ i' = 0
      /\ age' = [j \in Jobs |-> IF \E p \in Ids : job[p] = j /\ age[j] <= MaxSec
                                THEN age[j] + 1 ELSE age[j]]
      /\ UNCHANGED <<job, live, rec, pc, id, me, ret, action, armed, runs, cancelled, crossed>>
  BY DEF Tick, timer, Running, ArmedInv
<1>2. \A j \in Jobs : age[j] \in 0 .. MaxSec + 1
  BY DEF TimerInv, TypeOK
<1>3. TypeOK'
  <2>1. age' \in [Jobs -> 0 .. MaxSec + 1]
    BY <1>1, <1>2, MaxSecIs
  <2>2. 0 \in 0 .. JOB_MAX
    BY TimerAssumption
  <2>3. QED
    BY <1>1, <2>1, <2>2 DEF TimerInv, TypeOK
<1>4. TableInv'
  <2>1. me # NULL => age'[me] = age[me]
    BY <1>1 DEF TimerInv, TypeOK, TableInv
  <2>2. QED
    BY <1>1, <2>1 DEF TimerInv, TypeOK, TableInv, Kept, Elsewhere
<1>5. HandlerInv'
  BY <1>1 DEF HandlerInv
<1>6. TimeInv'
  <2> SUFFICES ASSUME NEW p \in Ids, job[p] # NULL, rec[job[p]].job_state = "RUNNING",
                      rec[job[p]].time_remain # -1, crossed[job[p]] # "doubled"
               PROVE  age'[job[p]] + rec[job[p]].time_remain = rec[job[p]].sec + 1
    BY <1>1 DEF TimeInv, State, AtJob, Late, Ids
  <2> DEFINE j == job[p]
  <2>1. j \in Jobs /\ rec[j] \in Record
    BY TimerAssumption DEF TimerInv, TypeOK
  <2>2. rec[j].time_remain \in 0 .. MaxSec /\ rec[j].sec \in Nat /\ rec[j].sec <= MaxSec
    <3>1. rec[j].time_remain \in -1 .. MaxSec /\ rec[j].sec \in Secs
      BY <2>1 DEF Record
    <3>2. rec[j].time_remain # -1
      OBVIOUS
    <3>3. rec[j].sec \in Nat /\ rec[j].sec <= MaxSec /\ MaxSec \in Nat
      BY <3>1, MaxSecIs
    <3>4. \A n \in -1 .. MaxSec : n # -1 => n \in 0 .. MaxSec
      BY <3>3
    <3> HIDE DEF j
    <3>5. QED
      BY <3>1, <3>2, <3>3, <3>4
  <2>3. age[j] + rec[j].time_remain = rec[j].sec + 0
    BY <1>1 DEF TimerInv, TimeInv, State, AtJob, Late
  <2>4. age[j] <= MaxSec
    BY <1>2, <2>1, <2>2, <2>3, MaxSecIs
  <2>5. age'[j] = age[j] + 1
    BY <1>1, <2>1, <2>4
  <2>6. QED
    BY <1>2, <2>1, <2>2, <2>3, <2>5
<1>7. RunInv'
  BY <1>1 DEF TimerInv, RunInv, State
<1>8. QED
  BY <1>3, <1>4, <1>5, <1>6, <1>7 DEF TimerInv

LEMMA VisitOtherKeeps ==
    ASSUME TimerInv, VisitOther
    PROVE  TimerInv'
<1>1. /\ hpc = "visit" /\ i < JOB_MAX /\ job[i] \notin RunningJobs /\ i' = i + 1
      /\ UNCHANGED <<job, live, rec, pc, id, me, ret, hpc, action, armed, runs, cancelled, age, crossed>>
  BY DEF VisitOther, program, timer, history
<1>2. i \in Nat /\ i' \in 0 .. JOB_MAX /\ JOB_MAX \in Nat
  BY <1>1, TimerAssumption DEF TimerInv, TypeOK
<1>3. TypeOK'
  BY <1>1, <1>2 DEF TimerInv, TypeOK
<1>4. TableInv'
  BY <1>1 DEF TimerInv, TypeOK, TableInv, Kept, Elsewhere
<1>5. HandlerInv'
  BY <1>1 DEF HandlerInv
<1>6. TimeInv'
  <2> SUFFICES ASSUME NEW p \in Ids, job[p] # NULL, State(job[p]) = "RUNNING",
                      crossed[job[p]] # "doubled"
               PROVE  \/ rec[job[p]].time_remain = -1
                      \/ age[job[p]] + rec[job[p]].time_remain = rec[job[p]].sec + Late(p)'
    BY <1>1 DEF TimeInv, State, AtJob
  <2>1. p # i
    BY <1>1, TimerAssumption DEF RunningJobs, TimerInv, TypeOK
  <2>2. Late(p)' = Late(p)
    BY <1>1, <1>2, <2>1 DEF Late, Ids
  <2>3. QED
    BY <1>1, <2>2 DEF TimerInv, TimeInv, AtJob
<1>7. RunInv'
  BY <1>1 DEF TimerInv, RunInv, State
<1>8. QED
  BY <1>3, <1>4, <1>5, <1>6, <1>7 DEF TimerInv

\* The job of the slot loses the tick; the callback begins when that was its last.
LEMMA VisitRunningKeeps ==
    ASSUME TimerInv, VisitRunning
    PROVE  TimerInv'
<1> DEFINE j == job[i]
           r == rec[j].time_remain
<1>1. /\ hpc = "visit" /\ i < JOB_MAX /\ j \in Jobs /\ rec[j].job_state = "RUNNING"
      /\ rec' = [rec EXCEPT ![j].time_remain = Less(@)]
      /\ IF r = 1 THEN hpc' = "callback" /\ i' = i ELSE i' = i + 1 /\ hpc' = hpc
      /\ UNCHANGED <<job, live, pc, id, me, ret, action, armed, runs, cancelled, age, crossed>>
  BY DEF VisitRunning, RunningJobs, State, program, timer, history
<1>2. i \in Nat /\ i \in Ids /\ i' \in 0 .. JOB_MAX /\ JOB_MAX \in Nat /\ j # NULL
  BY <1>1, TimerAssumption DEF TimerInv, TypeOK, Ids
<1>3. rec[j] \in Record /\ r \in -1 .. MaxSec /\ rec[j].sec \in Nat /\ MaxSec \in Nat
  BY <1>1, MaxSecIs DEF TimerInv, TypeOK, Record
<1>4. rec'[j] = [rec[j] EXCEPT !.time_remain = Less(r)]
      /\ \A k \in Jobs \ {j} : rec'[k] = rec[k]
  BY <1>1 DEF TimerInv, TypeOK
<1>5. Less(r) \in -1 .. MaxSec
  BY <1>3 DEF Less
<1>6. /\ rec'[j] \in Record /\ rec'[j].time_remain = Less(r)
      /\ rec'[j].job_state = "RUNNING" /\ rec'[j].sec = rec[j].sec
      /\ rec'[j].repeat = rec[j].repeat
  BY <1>1, <1>3, <1>4, <1>5 DEF Record
<1>7. j \in live
  BY <1>1, <1>2 DEF TimerInv, TableInv, Freed
<1>8. \A p \in Ids : job[p] = j => p = i \/ crossed[j] = "doubled"
  BY <1>2 DEF TimerInv, TableInv, Kept
<1>9. age[j] \in Nat
  BY <1>1 DEF TimerInv, TypeOK
<1>10. r = -1 \/ age[j] + r = rec[j].sec + 1 \/ crossed[j] = "doubled"
  BY <1>1, <1>2 DEF TimerInv, TimeInv, State, AtJob, Late
<1> HIDE DEF j, r
<1>11. TypeOK'
  <2>1. rec' \in [Jobs -> Record]
    BY <1>1, <1>4, <1>6 DEF TimerInv, TypeOK
  <2>2. hpc' \in {"visit", "callback"}
    BY <1>1
  <2>3. QED
    BY <1>1, <1>2, <2>1, <2>2 DEF TimerInv, TypeOK
<1>12. TableInv'
  <2>1. pc = "add" => me # j
    BY <1>2 DEF TimerInv, TableInv, j
  <2>2. QED
    BY <1>1, <1>4, <1>7, <2>1 DEF TimerInv, TypeOK, TableInv, Kept, Elsewhere
<1>13. HandlerInv'
  <2>1. r = 1 => Less(r) = 0
    BY DEF Less
  <2>2. QED
    BY <1>1, <1>2, <1>6, <1>7, <2>1 DEF HandlerInv, State, j
<1>14. TimeInv'
  <2> SUFFICES ASSUME NEW p \in Ids, job[p] # NULL, rec'[job[p]].job_state = "RUNNING", ~AtJob(p)',
                      crossed[job[p]] # "doubled"
               PROVE  \/ rec'[job[p]].time_remain = -1
                      \/ age[job[p]] + rec'[job[p]].time_remain = rec'[job[p]].sec + Late(p)'
    BY <1>1 DEF TimeInv, State
  <2>1. CASE p = i
    <3>1. job[p] = j /\ r # 1 /\ Late(p)' = 0
      BY <1>1, <1>2, <2>1 DEF AtJob, Late, j
    <3>2. QED
      BY <1>3, <1>6, <1>9, <1>10, <3>1 DEF Less
  <2>2. CASE p # i
    <3>1. job[p] # j /\ job[p] \in Jobs
      BY <1>8, <2>2 DEF TimerInv, TypeOK
    <3>2. rec'[job[p]] = rec[job[p]] /\ Late(p)' = Late(p) /\ ~AtJob(p)
      BY <1>1, <1>2, <1>4, <2>2, <3>1 DEF Late, AtJob, Ids
    <3>3. QED
      BY <3>2 DEF TimerInv, TimeInv, State
  <2>3. QED
    BY <2>1, <2>2
<1>15. RunInv'
  <2>1. rec[j].sec = 0 => r <= 0
    BY <1>1 DEF TimerInv, RunInv, State, r
  <2>2. hpc' = "callback" => /\ rec'[job[i']].sec > 0
                             /\ crossed[job[i']] # "doubled" => age[job[i']] = rec'[job[i']].sec
    BY <1>1, <1>3, <1>6, <1>9, <1>10, <2>1 DEF j
  <2>3. rec'[j].sec = 0 => rec'[j].time_remain <= 0
    BY <1>3, <1>6, <2>1 DEF Less
  <2>4. QED
    BY <1>1, <1>4, <1>6, <2>2, <2>3 DEF TimerInv, RunInv, State
<1>16. QED
  BY <1>11, <1>12, <1>13, <1>14, <1>15 DEF TimerInv

\* The function runs and calls nothing of the library.
LEMMA CallbackKeeps ==
    ASSUME TimerInv, Callback
    PROVE  TimerInv'
<1>1. /\ hpc = "callback" /\ hpc' = "after"
      /\ runs' = [runs EXCEPT ![job[i]] = IF @ = 2 THEN 2 ELSE @ + 1]
      /\ UNCHANGED <<job, live, rec, pc, id, me, ret, i, action, armed, cancelled, age, crossed>>
  BY DEF Callback, Ran, program, timer
<1>2. job[i] \in Jobs
  BY <1>1 DEF TimerInv, TypeOK, HandlerInv
<1>3. TypeOK'
  <2>1. runs' \in [Jobs -> 0 .. 2]
    BY <1>1, <1>2 DEF TimerInv, TypeOK
  <2>2. QED
    BY <1>1, <2>1 DEF TimerInv, TypeOK
<1>4. TableInv'
  BY <1>1 DEF TimerInv, TypeOK, TableInv, Kept, Elsewhere
<1>5. HandlerInv'
  BY <1>1 DEF TimerInv, HandlerInv
<1>6. TimeInv'
  BY <1>1 DEF TimerInv, TimeInv, State, AtJob, Late
<1>7. RunInv'
  BY <1>1, <1>2 DEF TimerInv, TypeOK, RunInv, State
<1>8. QED
  BY <1>3, <1>4, <1>5, <1>6, <1>7 DEF TimerInv

\* The function adds a job: it enters an empty slot, and the tick under way reaches
\* it if the slot is behind the handler's.  It is lost if the slot is the one the
\* program is about to fill, and has two if it is the one the program has freed.
LEMMA CallbackAddsKeeps ==
    ASSUME TimerInv, NEW j \in Jobs, NEW sec \in Secs, CallbackAdds(j, sec)
    PROVE  TimerInv'
<1> DEFINE new == [job_state |-> "RUNNING", sec |-> sec, time_remain |-> sec, repeat |-> 0]
           k == job[i]
<1>1. /\ hpc = "callback" /\ hpc' = "after"
      /\ j \notin live /\ live' = live \cup {j}
      /\ rec' = [rec EXCEPT ![j] = new]
      /\ runs' = [runs EXCEPT ![j] = 0, ![k] = IF @ = 2 THEN 2 ELSE @ + 1]
      /\ cancelled' = [cancelled EXCEPT ![j] = FALSE]
      /\ UNCHANGED <<pc, id, me, ret, i, action, armed>>
  BY DEF CallbackAdds, program, timer
<1>2. PICK p \in Ids : /\ job[p] = NULL
                       /\ job' = [job EXCEPT ![p] = j]
                       /\ age' = [age EXCEPT ![j] = IF p > i THEN 1 ELSE 0]
                       /\ crossed' = [crossed EXCEPT ![j] =
                             IF pc = "add" /\ p = id THEN "lost"
                             ELSE IF pc = "clear" /\ job[id] = j THEN "doubled" ELSE "no"]
  BY DEF CallbackAdds, IsFreePos
<1>3. k \in live /\ k \in Jobs /\ i \in Ids /\ i \in Nat /\ k # j /\ k # NULL /\ p # i /\ j # NULL
      /\ p \in Nat /\ JOB_MAX \in Nat /\ k = job[i]
  BY <1>1, <1>2, TimerAssumption DEF TimerInv, TypeOK, HandlerInv, Ids
<1>4. me # j /\ \A q \in Ids : job[q] = j => pc = "clear" /\ q = id
  BY <1>1, <1>3 DEF TimerInv, TableInv
<1> HIDE DEF k
<1>5. job'[p] = j /\ \A q \in Ids \ {p} : job'[q] = job[q]
  BY <1>2 DEF TimerInv, TypeOK
<1>6. /\ rec'[j] = new /\ cancelled'[j] = FALSE /\ runs'[j] = 0
      /\ age'[j] = IF p > i THEN 1 ELSE 0
      /\ crossed'[j] = IF pc = "add" /\ p = id THEN "lost"
                       ELSE IF pc = "clear" /\ job[id] = j THEN "doubled" ELSE "no"
      /\ \A l \in Jobs \ {j} : /\ rec'[l] = rec[l] /\ cancelled'[l] = cancelled[l]
                              /\ age'[l] = age[l] /\ crossed'[l] = crossed[l]
      /\ \A l \in Jobs \ {j, k} : runs'[l] = runs[l]
  BY <1>1, <1>2, <1>3 DEF TimerInv, TypeOK
<1>7. new \in Record
  BY MaxSecIs DEF Record
<1>8. TypeOK'
  <2>1. job' \in [Ids -> Jobs \cup {NULL}] /\ rec' \in [Jobs -> Record]
        /\ cancelled' \in [Jobs -> BOOLEAN] /\ live' \subseteq Jobs
    BY <1>1, <1>2, <1>7 DEF TimerInv, TypeOK
  <2>2. runs' \in [Jobs -> 0 .. 2]
    BY <1>1, <1>3 DEF TimerInv, TypeOK
  <2>3. age' \in [Jobs -> 0 .. MaxSec + 1] /\ crossed' \in [Jobs -> {"no", "lost", "doubled"}]
    BY <1>2, MaxSecIs DEF TimerInv, TypeOK
  <2>4. QED
    BY <1>1, <2>1, <2>2, <2>3 DEF TimerInv, TypeOK
<1>9. TableInv'
  <2>1. \A l \in live' : crossed'[l] # "lost" => l = me \/ \E q \in Ids : job'[q] = l
    <3> SUFFICES ASSUME NEW l \in live, l # j, crossed[l] # "lost", l # me
                 PROVE  \E q \in Ids : job'[q] = l
      BY <1>1, <1>5, <1>6 DEF TimerInv, TypeOK
    <3>1. PICK q \in Ids : job[q] = l
      BY DEF TimerInv, TableInv, Kept
    <3>2. l # NULL
      BY TimerAssumption DEF TimerInv, TypeOK
    <3>3. QED
      BY <1>2, <1>5, <3>1, <3>2
  <2>2. ASSUME NEW q \in Ids, NEW s \in Ids, job'[q] = job'[s], job'[q] # NULL, q # s
        PROVE  pc = "clear" /\ id \in {q, s} /\ crossed'[job'[q]] = "doubled"
    <3>1. CASE job'[q] = j
      <4>1. PICK o \in {q, s} : o # p
        BY <2>2
      <4>2. o \in Ids /\ job[o] = j
        BY <1>5, <2>2, <3>1, <4>1
      <4>3. pc = "clear" /\ o = id /\ job[id] = j
        BY <1>4, <4>2
      <4>4. crossed'[j] = "doubled"
        BY <1>6, <4>3
      <4> QED BY <3>1, <4>1, <4>3, <4>4
    <3>2. CASE job'[q] # j
      <4>1. job[q] = job'[q] /\ job[s] = job'[q] /\ job[q] \in Jobs
        BY <1>5, <2>2, <3>2 DEF TimerInv, TypeOK
      <4>2. pc = "clear" /\ id \in {q, s} /\ crossed[job[q]] = "doubled"
        BY <2>2, <4>1 DEF TimerInv, TableInv, Kept
      <4> QED BY <1>6, <3>2, <4>1, <4>2
    <3> QED BY <3>1, <3>2
  <2>3. \A q \in Ids : job'[q] # NULL => job'[q] \in live' \/ (pc = "clear" /\ q = id)
    BY <1>1, <1>5 DEF TimerInv, TableInv
  <2>4. \A l \in Jobs \ live' : rec'[l] = Freed /\ ~cancelled'[l] /\ crossed'[l] = "no"
    BY <1>1, <1>6 DEF TimerInv, TableInv
  <2>5. pc \in {"cancelover", "cancelstore", "wait", "topause", "pause", "free"} =>
            job'[id] \in live'
    BY <1>1, <1>2, <1>5, TimerAssumption DEF TimerInv, TypeOK, TableInv
  <2>6. ASSUME pc = "add"
        PROVE  /\ me \in live' /\ \A q \in Ids : job'[q] # me
               /\ job'[id] = NULL \/ crossed'[job'[id]] = "lost"
               /\ rec'[me].time_remain = rec'[me].sec /\ age'[me] = 0
    <3>1. /\ me \in live /\ me \in Jobs /\ \A q \in Ids : job[q] # me
          /\ job[id] = NULL \/ crossed[job[id]] = "lost"
          /\ rec[me].time_remain = rec[me].sec /\ age[me] = 0 /\ id \in Ids
      BY <2>6 DEF TimerInv, TypeOK, TableInv
    <3>2. job'[id] = NULL \/ crossed'[job'[id]] = "lost"
      <4>1. CASE id = p
        BY <1>5, <1>6, <2>6, <4>1
      <4>2. CASE id # p
        <5>1. job'[id] = job[id] /\ job[id] # j
          BY <1>4, <1>5, <2>6, <3>1, <4>2
        <5> QED BY <1>6, <3>1, <5>1 DEF TimerInv, TypeOK
      <4> QED BY <4>1, <4>2
    <3> QED BY <1>1, <1>4, <1>5, <1>6, <3>1, <3>2
  <2>7. ASSUME pc = "clear"
        PROVE  /\ job'[id] # NULL
               /\ \/ job'[id] \notin live'
                  \/ crossed'[job'[id]] = "doubled" /\ \E q \in Ids \ {id} : job'[q] = job'[id]
    <3>1. /\ job[id] # NULL /\ id \in Ids
          /\ \/ job[id] \notin live
             \/ crossed[job[id]] = "doubled" /\ \E q \in Ids \ {id} : job[q] = job[id]
      BY <2>7 DEF TimerInv, TypeOK, TableInv, Elsewhere
    <3>2. id # p /\ job'[id] = job[id] /\ job[id] \in Jobs
      BY <1>2, <1>5, <3>1 DEF TimerInv, TypeOK
    <3>3. CASE job[id] = j
      BY <1>5, <1>6, <2>7, <3>2, <3>3, <3>1
    <3>4. CASE job[id] # j
      BY <1>1, <1>2, <1>5, <1>6, <3>1, <3>2, <3>4
    <3> QED BY <3>3, <3>4
  <2>8. pc = "add" <=> me # NULL
    BY DEF TimerInv, TableInv
  <2>9. Kept'
    BY <1>1, <2>1, <2>2 DEF Kept
  <2> QED
    BY <1>1, <2>3, <2>4, <2>5, <2>6, <2>7, <2>8, <2>9 DEF TableInv, Elsewhere
<1>10. HandlerInv'
  BY <1>1, <1>3, <1>5 DEF HandlerInv
<1>11. TimeInv'
  <2> SUFFICES ASSUME NEW q \in Ids, job'[q] # NULL, rec'[job'[q]].job_state = "RUNNING", q # i,
                      crossed'[job'[q]] # "doubled"
               PROVE  \/ rec'[job'[q]].time_remain = -1
                      \/ age'[job'[q]] + rec'[job'[q]].time_remain = rec'[job'[q]].sec + Late(q)'
    BY <1>1 DEF TimeInv, State, AtJob
  <2>1. CASE q = p
    <3>1. job'[q] = j /\ Late(q)' = IF p > i THEN 1 ELSE 0
      BY <1>1, <1>3, <1>5, <2>1 DEF Late
    <3>2. rec'[j].time_remain = sec /\ rec'[j].sec = sec
      BY <1>6
    <3>3. sec \in Nat
      BY MaxSecIs
    <3>4. QED
      BY <1>6, <3>1, <3>2, <3>3
  <2>2. CASE q # p
    <3>1. job'[q] = job[q] /\ job[q] # j /\ job[q] \in Jobs
      BY <1>4, <1>5, <1>6, <2>2 DEF TimerInv, TypeOK
    <3>2. rec'[job[q]] = rec[job[q]] /\ age'[job[q]] = age[job[q]] /\ Late(q)' = Late(q)
          /\ crossed'[job[q]] = crossed[job[q]] /\ ~AtJob(q)
      BY <1>1, <1>6, <3>1 DEF Late, AtJob
    <3>3. QED
      BY <3>1, <3>2 DEF TimerInv, TimeInv, State
  <2>3. QED
    BY <2>1, <2>2
<1>12. RunInv'
  <2>1. job'[i] = k
    BY <1>3, <1>5
  <2>2. ASSUME NEW l \in Jobs, cancelled'[l] PROVE State(l)' # "RUNNING"
    BY <1>6, <2>2 DEF TimerInv, RunInv, State
  <2>3. ASSUME NEW l \in Jobs, State(l)' = "RUNNING", rec'[l].repeat = 0
        PROVE  runs'[l] = 0 \/ (hpc' = "after" /\ job'[i'] = l)
    <3>1. CASE l = j
      BY <1>6, <3>1
    <3>2. CASE l = k
      BY <1>1, <2>1, <3>2
    <3>3. CASE l # j /\ l # k
      <4>1. runs[l] = 0 \/ (hpc = "after" /\ job[i] = l)
        BY <1>6, <2>3, <3>3 DEF TimerInv, RunInv, State
      <4>2. hpc # "after" /\ runs'[l] = runs[l]
        BY <1>1, <1>6, <3>3
      <4>3. QED
        BY <4>1, <4>2
    <3>4. QED
      BY <3>1, <3>2, <3>3
  <2>5. ASSUME NEW l \in Jobs, State(l)' = "RUNNING", rec'[l].sec = 0
        PROVE  rec'[l].time_remain <= 0
    BY <1>6, <2>5 DEF TimerInv, RunInv, State
  <2>4. QED
    BY <1>1, <2>2, <2>3, <2>5 DEF RunInv
<1>13. QED
  BY <1>8, <1>9, <1>10, <1>11, <1>12 DEF TimerInv

\* The function cancels a job, perhaps its own.
LEMMA CallbackCancelsKeeps ==
    ASSUME TimerInv, NEW p \in Ids, CallbackCancels(p)
    PROVE  TimerInv'
<1> DEFINE j == job[p]
           k == job[i]
<1>1. /\ hpc = "callback" /\ hpc' = "after"
      /\ j # NULL /\ rec[j].job_state = "RUNNING"
      /\ rec' = [rec EXCEPT ![j].job_state = "CANCELED"]
      /\ cancelled' = [cancelled EXCEPT ![j] = TRUE]
      /\ runs' = [runs EXCEPT ![k] = IF @ = 2 THEN 2 ELSE @ + 1]
      /\ UNCHANGED <<job, live, pc, id, me, ret, i, action, armed, age, crossed>>
  BY DEF CallbackCancels, SetState, State, Ran, program, timer
<1>2. j \in Jobs /\ k \in Jobs /\ k \in live /\ i \in Ids /\ k = job[i]
  BY <1>1 DEF TimerInv, TypeOK, HandlerInv
<1>3. j \in live
  BY <1>1, <1>2 DEF TimerInv, TableInv, Freed
<1>4. rec[j] \in Record
  BY <1>2 DEF TimerInv, TypeOK
<1>5. me # j
  BY <1>1 DEF TimerInv, TableInv
<1> HIDE DEF j, k
<1>6. rec'[j] = [rec[j] EXCEPT !.job_state = "CANCELED"] /\ cancelled'[j] = TRUE
      /\ \A l \in Jobs \ {j} : rec'[l] = rec[l] /\ cancelled'[l] = cancelled[l]
  BY <1>1, <1>2 DEF TimerInv, TypeOK
<1>7. rec'[j] \in Record /\ rec'[j].job_state = "CANCELED"
  BY <1>4, <1>6 DEF Record
<1>8. \A l \in Jobs \ {k} : runs'[l] = runs[l]
  BY <1>1, <1>2 DEF TimerInv, TypeOK
<1>9. TypeOK'
  <2>1. rec' \in [Jobs -> Record]
    BY <1>1, <1>2, <1>6, <1>7 DEF TimerInv, TypeOK
  <2>2. cancelled' \in [Jobs -> BOOLEAN] /\ runs' \in [Jobs -> 0 .. 2]
    BY <1>1, <1>2 DEF TimerInv, TypeOK
  <2>3. QED
    BY <1>1, <2>1, <2>2 DEF TimerInv, TypeOK
<1>10. TableInv'
  BY <1>1, <1>2, <1>3, <1>5, <1>6 DEF TimerInv, TypeOK, TableInv, Kept, Elsewhere
<1>11. HandlerInv'
  BY <1>1, <1>2 DEF HandlerInv
<1>12. TimeInv'
  BY <1>1, <1>6, <1>7, TimerAssumption DEF TimerInv, TypeOK, TimeInv, State, AtJob, Late
<1>13. RunInv'
  BY <1>1, <1>2, <1>6, <1>7, <1>8 DEF TimerInv, RunInv, State
<1>14. QED
  BY <1>9, <1>10, <1>11, <1>12, <1>13 DEF TimerInv

\* A repeated job begins again; a single one is over, cancelled or not.
LEMMA AfterKeeps ==
    ASSUME TimerInv, After
    PROVE  TimerInv'
<1> DEFINE j == job[i]
<1>1. /\ hpc = "after" /\ hpc' = "visit" /\ i' = i + 1
      /\ rec' = [rec EXCEPT ![j] =
                    IF @.repeat = 1 THEN [@ EXCEPT !.time_remain = rec[j].sec]
                                    ELSE [@ EXCEPT !.job_state = "OVER"]]
      /\ age' = [age EXCEPT ![j] = 0]
      /\ UNCHANGED <<job, live, pc, id, me, ret, action, armed, runs, cancelled, crossed>>
  BY DEF After, program, timer
<1>2. i \in Ids /\ j \in live /\ j \in Jobs /\ i \in Nat /\ i' \in 0 .. JOB_MAX /\ JOB_MAX \in Nat
      /\ j # NULL /\ j = job[i]
  BY <1>1, TimerAssumption DEF TimerInv, TypeOK, HandlerInv, Ids
<1>3. \A p \in Ids : job[p] = j => p = i \/ crossed[j] = "doubled"
  BY <1>2 DEF TimerInv, TableInv, Kept
<1>4. me # j
  BY <1>2 DEF TimerInv, TableInv
<1>5. rec[j] \in Record
  BY <1>2 DEF TimerInv, TypeOK
<1> HIDE DEF j
<1>6. /\ rec'[j] = IF rec[j].repeat = 1 THEN [rec[j] EXCEPT !.time_remain = rec[j].sec]
                                        ELSE [rec[j] EXCEPT !.job_state = "OVER"]
      /\ age'[j] = 0
      /\ \A l \in Jobs \ {j} : rec'[l] = rec[l] /\ age'[l] = age[l]
  BY <1>1, <1>2 DEF TimerInv, TypeOK
<1>7. /\ rec'[j] \in Record /\ rec'[j].repeat = rec[j].repeat /\ rec'[j].sec = rec[j].sec
      /\ rec'[j].sec \in Nat
      /\ rec'[j].job_state = "RUNNING" =>
            /\ rec'[j].repeat = 1 /\ rec[j].job_state = "RUNNING"
            /\ rec'[j].time_remain = rec'[j].sec
  <2>1. rec[j].sec \in Secs
    BY <1>5 DEF Record
  <2>2. \A s \in Secs : s \in Nat /\ s \in -1 .. MaxSec
    BY MaxSecIs
  <2>3. rec[j].sec \in -1 .. MaxSec /\ rec[j].sec \in Nat
    BY <2>1, <2>2
  <2>4. QED
    BY <1>5, <1>6, <2>1, <2>3 DEF Record
<1>8. TypeOK'
  <2>1. rec' \in [Jobs -> Record]
    BY <1>1, <1>2, <1>6, <1>7 DEF TimerInv, TypeOK
  <2>2. 0 \in 0 .. MaxSec + 1
    BY MaxSecIs
  <2>3. age' \in [Jobs -> 0 .. MaxSec + 1]
    BY <1>1, <2>2 DEF TimerInv, TypeOK
  <2>4. QED
    BY <1>1, <1>2, <2>1, <2>3 DEF TimerInv, TypeOK
<1>9. TableInv'
  BY <1>1, <1>2, <1>4, <1>6 DEF TimerInv, TypeOK, TableInv, Kept, Elsewhere
<1>10. HandlerInv'
  BY <1>1 DEF HandlerInv
<1>11. TimeInv'
  <2> SUFFICES ASSUME NEW p \in Ids, job[p] # NULL, rec'[job[p]].job_state = "RUNNING",
                      crossed[job[p]] # "doubled"
               PROVE  \/ rec'[job[p]].time_remain = -1
                      \/ age'[job[p]] + rec'[job[p]].time_remain = rec'[job[p]].sec + Late(p)'
    BY <1>1 DEF TimeInv, State
  <2>1. CASE p = i
    <3>1. job[p] = j /\ Late(p)' = 0
      BY <1>1, <1>2, <2>1 DEF Late
    <3>2. rec'[j].time_remain = rec'[j].sec /\ rec'[j].sec \in Nat
      BY <1>7, <3>1
    <3>3. age'[j] = 0
      BY <1>6
    <3>4. QED
      BY <3>1, <3>2, <3>3
  <2>2. CASE p # i
    <3>1. job[p] # j /\ job[p] \in Jobs
      BY <1>3, <2>2 DEF TimerInv, TypeOK
    <3>2. Late(p)' = Late(p) /\ ~AtJob(p)
      BY <1>1, <1>2, <2>2 DEF Late, AtJob, Ids
    <3>3. QED
      BY <1>6, <3>1, <3>2 DEF TimerInv, TimeInv, State
  <2>3. QED
    BY <2>1, <2>2
<1>12. RunInv'
  BY <1>1, <1>2, <1>6, <1>7 DEF TimerInv, RunInv, State
<1>13. QED
  BY <1>8, <1>9, <1>10, <1>11, <1>12 DEF TimerInv

LEMMA HandlerEndsKeeps ==
    ASSUME TimerInv, HandlerEnds
    PROVE  TimerInv'
<1>1. /\ hpc = "visit" /\ i = JOB_MAX /\ hpc' = "idle" /\ i' = 0
      /\ pc' = IF pc = "pause" THEN "wait" ELSE pc
      /\ UNCHANGED <<job, live, rec, id, me, ret, action, armed, runs, cancelled, age, crossed>>
  BY DEF HandlerEnds, timer, history
<1>2. TypeOK'
  BY <1>1, TimerAssumption DEF TimerInv, TypeOK
<1>3. TableInv'
  BY <1>1 DEF TimerInv, TypeOK, TableInv, Kept, Elsewhere
<1>4. HandlerInv'
  BY <1>1 DEF HandlerInv
<1>5. TimeInv'
  <2>1. \A p \in Ids : Late(p) = 0 /\ Late(p)' = 0
    BY <1>1, TimerAssumption DEF Late, Ids
  <2>2. QED
    BY <1>1, <2>1 DEF TimerInv, TimeInv, State, AtJob
<1>6. RunInv'
  BY <1>1 DEF TimerInv, RunInv, State
<1>7. QED
  BY <1>2, <1>3, <1>4, <1>5, <1>6 DEF TimerInv

-----------------------------------------------------------------------------
(* The invariant, and what follows from it *)

LEMMA TimerKept == ArmedInv /\ TimerInv /\ [Next]_vars => TimerInv'
<1> SUFFICES ASSUME ArmedInv, TimerInv, [Next]_vars PROVE TimerInv'
  OBVIOUS
<1>1. CASE Program
  BY <1>1, AddKeeps, AnswersKeep, AddStoreKeeps, CancelKeeps, WaitKeeps, CancelStoreKeeps,
     WaitFreeKeeps, WaitClearKeeps, ExitKeeps DEF Program
<1>2. CASE Tick
  BY <1>2, TickKeeps
<1>3. CASE InHandler
  BY <1>3, VisitOtherKeeps, VisitRunningKeeps, CallbackKeeps, CallbackAddsKeeps,
     CallbackCancelsKeeps, AfterKeeps, HandlerEndsKeeps DEF InHandler
<1>4. CASE UNCHANGED vars
  BY <1>4 DEF vars, program, handler, timer, history, TimerInv, TypeOK, HandlerInv, TableInv, Kept,
              TimeInv, RunInv, State, AtJob, Late, Elsewhere
<1>5. QED
  BY <1>1, <1>2, <1>3, <1>4 DEF Next

THEOREM TimerInvariant == Spec => [](TimerInv /\ ArmedInv)
<1>1. TimerInv /\ ArmedInv /\ [Next]_vars => (TimerInv /\ ArmedInv)'
  BY ArmedKept, TimerKept
<1>2. QED
  BY <1>1, InitTimer, InitArmed, PTL DEF Spec

\* No job is lost but one that a callback put in the slot the program was about to
\* fill, and no job has two ids but one in the memory that the program had just
\* freed, until the old id's slot is cleared (lines 122-138, 199-200).
THEOREM JobsKept == Spec => []Kept
<1>1. TimerInv => Kept
  BY DEF TimerInv, TableInv
<1>2. QED
  BY <1>1, TimerInvariant, PTL

\* A job's function runs at the tick its delay ends, a single job's once, and one's
\* without a delay never.
THEOREM OnTime == Spec => []RunsOnTime
<1>1. TimerInv => RunsOnTime
  <2> SUFFICES ASSUME TimerInv, hpc = "callback"
               PROVE  /\ rec[job[i]].sec > 0
                      /\ rec[job[i]].repeat = 0 => runs[job[i]] = 0
                      /\ crossed[job[i]] # "doubled" => age[job[i]] = rec[job[i]].sec
    BY DEF RunsOnTime
  <2>1. job[i] \in Jobs /\ State(job[i]) = "RUNNING"
    BY DEF TimerInv, TypeOK, HandlerInv
  <2>2. QED
    BY <2>1 DEF TimerInv, RunInv
<1>2. QED
  BY <1>1, TimerInvariant, PTL

\* What at_canceljob has cancelled does not run again.
THEOREM CancelledStay == Spec => CancelledStops
<1> DEFINE Stops == \A j \in Jobs : cancelled[j] /\ cancelled'[j] => runs'[j] = runs[j]
<1>1. TimerInv /\ [Next]_vars => [Stops]_vars
  <2> SUFFICES ASSUME TimerInv, [Next]_vars, NEW j \in Jobs, cancelled[j], cancelled'[j]
               PROVE  runs'[j] = runs[j]
    OBVIOUS
  <2>1. State(j) # "RUNNING" /\ j \in live
    BY DEF TimerInv, RunInv, TableInv
  <2>2. hpc = "callback" => job[i] # j /\ job[i] \in Jobs
    BY <2>1 DEF TimerInv, TypeOK, HandlerInv
  <2>3. CASE UNCHANGED runs
    BY <2>3
  <2>4. ASSUME NEW k \in Jobs, k # j, runs' = [runs EXCEPT ![k] = 0]
        PROVE  runs'[j] = runs[j]
    BY <2>4 DEF TimerInv, TypeOK
  <2>5. CASE Program
    <3>1. ASSUME NEW k \in Jobs, NEW sec \in Secs, NEW repeat \in {0, 1}, Add(k, sec, repeat)
          PROVE  runs'[j] = runs[j]
      BY <2>1, <2>4, <3>1 DEF Add, NewJob, Forget
    <3>2. CASE WaitFree
      <4>1. job[id] \in Jobs /\ cancelled' = [cancelled EXCEPT ![job[id]] = FALSE]
            /\ runs' = [runs EXCEPT ![job[id]] = 0]
        BY <3>2 DEF WaitFree, At, Forget, TimerInv, TypeOK, TableInv
      <4>2. job[id] # j
        BY <4>1 DEF TimerInv, TypeOK
      <4>3. QED
        BY <2>4, <4>1, <4>2
    <3>3. QED
      BY <2>3, <2>5, <3>1, <3>2
         DEF Program, AddInvalid, AddNoMemory, AddNoSpace, AddStore, CancelInvalid, WaitInvalid,
             WaitRepeat, Cancel, Wait, CancelOver, CancelStore, WaitTest, WaitPause, WaitClear,
             ExitTimer, ExitAction, history
  <2>6. CASE Tick
    BY <2>6 DEF Tick
  <2>7. CASE InHandler
    <3>1. CASE Callback
      BY <2>2, <3>1 DEF Callback, Ran, TimerInv, TypeOK
    <3>2. ASSUME NEW k \in Jobs, NEW sec \in Secs, CallbackAdds(k, sec)
          PROVE  runs'[j] = runs[j]
      BY <2>1, <2>2, <3>2 DEF CallbackAdds, TimerInv, TypeOK
    <3>3. ASSUME NEW p \in Ids, CallbackCancels(p)
          PROVE  runs'[j] = runs[j]
      BY <2>2, <3>3 DEF CallbackCancels, Ran, TimerInv, TypeOK
    <3>4. QED
      BY <2>7, <3>1, <3>2, <3>3 DEF InHandler, VisitOther, VisitRunning, After, HandlerEnds, history
  <2>8. CASE UNCHANGED vars
    BY <2>8 DEF vars, history
  <2>9. QED
    BY <2>5, <2>6, <2>7, <2>8 DEF Next
<1>2. QED
  BY <1>1, TimerInvariant, PTL DEF Spec, CancelledStops

=============================================================================
