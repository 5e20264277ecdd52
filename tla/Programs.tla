------------------------------ MODULE Programs ------------------------------
(***************************************************************************)
(* The small programs of threads and processes, one of which is run:       *)
(* program chooses it, and the state of the others stays as it began.      *)
(***************************************************************************)
EXTENDS MySemMain, PrimePool, PrimeSpread, Ring, FileAdd, Myftp, StreamServers, Copies,
        Blocked, Forks, Daemon

PoolPrograms   == {"primer0_pool", "primer0_pool_busy"}
SpreadPrograms == {"primer0", "primer0_e", "primer1", "primer2", "primerN"}
RingPrograms   == {"abcd", "abcd_e"}
FilePrograms   == {"add", "lockf", "sem"}
StreamPrograms == {"basic", "par", "pool_static"}
CopyPrograms   == {"slowcat", "slowcat1", "mycopy", "sysio_mycopy", "mycop", "webdl"}
SignalPrograms == {"star", "block", "susp", "susp_rt"}
ForkPrograms   == {"few", "fork1", "system1", "mysu", "sh", "shm", "shmem"}
DaemonPrograms == {"daemon", "mydaemon"}

AllPrograms == {"mysem", "myftp_msg"} \cup PoolPrograms \cup SpreadPrograms
               \cup RingPrograms \cup FilePrograms \cup StreamPrograms \cup CopyPrograms
               \cup SignalPrograms \cup ForkPrograms \cup DaemonPrograms

\* The state of the processes, copies and signals, and all there is.
plainVars  == <<streamVars, copyVars, blockedVars, forkVars, daemonVars>>
everything == <<program, allVars, testVars, poolVars, spreadVars, ringVars, fileVars, ftpVars,
                plainVars>>

InitPrograms ==
    /\ program \in AllPrograms
    /\ InitMain
    /\ program # "mysem" => call = [t \in Threads |-> [op |-> "add", n |-> 1]]
    /\ InitTest /\ PoolInit /\ SpreadInit /\ RingInit /\ FileInit /\ FtpInit
    /\ StreamInit /\ CopyInit /\ BlockedInit /\ ForksInit /\ DaemonInit
    /\ program \notin SignalPrograms => saveset = {}
    /\ program \notin ForkPrograms => terminal

\* One step of one of the programs; the others' state stays as it is.
Sem(step) ==
    /\ program = "mysem" /\ step
    /\ UNCHANGED <<program, testVars, poolVars, spreadVars, ringVars, fileVars, ftpVars, plainVars>>
Pool(step) ==
    /\ program \in PoolPrograms /\ step
    /\ UNCHANGED <<program, allVars, spreadVars, ringVars, fileVars, ftpVars, plainVars>>
Spread(step) ==
    /\ program \in SpreadPrograms /\ step
    /\ UNCHANGED <<program, allVars, poolVars, ringVars, fileVars, ftpVars, plainVars>>
Letter(step) ==
    /\ program \in RingPrograms /\ step
    /\ UNCHANGED <<program, allVars, testVars, poolVars, spreadVars, fileVars, ftpVars, plainVars>>
Adding(step) ==
    /\ program \in FilePrograms /\ step
    /\ UNCHANGED <<program, allVars, testVars, poolVars, spreadVars, ringVars, ftpVars, plainVars>>
Transfer(step) ==
    /\ program = "myftp_msg" /\ step
    /\ UNCHANGED <<program, allVars, testVars, poolVars, spreadVars, ringVars, fileVars, plainVars>>

Plain == UNCHANGED <<program, allVars, testVars, poolVars, spreadVars, ringVars, fileVars, ftpVars>>
Serving(step) ==
    /\ program \in StreamPrograms /\ step /\ Plain
    /\ UNCHANGED <<copyVars, blockedVars, forkVars, daemonVars>>
Copying(step) ==
    /\ program \in CopyPrograms /\ step /\ Plain
    /\ UNCHANGED <<streamVars, blockedVars, forkVars, daemonVars>>
Signalled(step) ==
    /\ program \in SignalPrograms /\ step /\ Plain
    /\ UNCHANGED <<streamVars, copyVars, forkVars, daemonVars>>
Forking(step) ==
    /\ program \in ForkPrograms /\ step /\ Plain
    /\ UNCHANGED <<streamVars, copyVars, blockedVars, daemonVars>>
Daemonic(step) ==
    /\ program \in DaemonPrograms /\ step /\ Plain
    /\ UNCHANGED <<streamVars, copyVars, blockedVars, forkVars>>

NextPrograms ==
    \/ Sem(NextMain) \/ Pool(PoolNext) \/ Spread(SpreadNext) \/ Letter(RingNext)
    \/ Adding(FileNext) \/ Transfer(Server \/ Client)
    \/ Serving(StreamNext) \/ Copying(CopyNext) \/ Signalled(BlockedNext)
    \/ Forking(ForksNext) \/ Daemonic(DaemonNext)

-----------------------------------------------------------------------------
(* Every thread and process is scheduled; none fails for ever to get a mutex *)
(* or a lock that is free again and again, and the alarm of the slow copies  *)
(* goes off again and again.  Wakeups without a signal, the alarm of abcd,   *)
(* clients, senders of signals and calls that fail are not counted on.       *)

\* What the one thread or process does that the program began as.
MainGoesOn ==
    \/ Sem(Running /\ (MainStep \/ (InSem(Main) /\ pc[Main] # "wait")))
    \/ Pool(PoolRuns /\ PoolMainStep)
    \/ Spread(SpreadMain)
    \/ Letter(RingRuns /\ RingMain)
    \/ Adding(FileRuns /\ FileMain)
    \/ Serving(StreamMain) \/ Copying(CopyStep) \/ Signalled(BlockedStep)
    \/ Forking(ForkParent)

MainLocks ==
    \/ Sem(Running /\ (Lock(Main) \/ Relock(Main)) /\ UNCHANGED progVars)
    \/ Pool(PoolRuns /\ LockNum(PoolMain))

\* The other threads and processes of each program, numbered from 1.
Others == Workers \cup PoolThreads \cup Adders \cup (StreamProcs \ {0})
          \cup {c + 1 : c \in Children \cup Letters}

OtherGoesOn(k) ==
    \/ k \in Workers /\ Sem(Running /\ (WorkerStep(k) \/ (InSem(k) /\ pc[k] # "wait")))
    \/ k \in PoolThreads /\ Pool(PoolRuns /\ PoolThreadStep(k))
    \/ k - 1 \in Children /\ Spread(SpreadChild(k - 1))
    \/ k - 1 \in Letters /\ Letter(RingRuns /\ RingThread(k - 1))
    \/ k \in Adders /\ Adding(FileRuns /\ FileStep(k))
    \/ k \in StreamProcs /\ Serving(StreamStep(k))
    \/ k = 1 /\ Forking(ForkKidStep)

OtherLocks(k) ==
    \/ k \in Workers /\ Sem(Running /\ (Lock(k) \/ Relock(k)) /\ UNCHANGED progVars)
    \/ k \in PoolThreads /\ Pool(PoolRuns /\ LockNum(k))
    \/ k - 1 \in Letters /\ Letter(RingRuns /\ TurnLock(k - 1))

FairPrograms ==
    /\ WF_everything(MainGoesOn) /\ SF_everything(MainLocks)
    /\ \A k \in Others : WF_everything(OtherGoesOn(k)) /\ SF_everything(OtherLocks(k))
    /\ WF_everything(Copying(OnAlarm))

SpecPrograms == InitPrograms /\ [][NextPrograms]_everything /\ FairPrograms

-----------------------------------------------------------------------------
(* Properties *)

\* The main thread has joined, or the main process waited for, all the others.
WorkIsOver ==
    \/ at[PoolMain] = "exited"
    \/ spc = "exited" /\ program # "primer1"

Work == INSTANCE PrimeWork WITH over <- WorkIsOver

\* However the numbers are shared out, each is tested exactly once, the primes
\* and only they are reported, and main does not end before: no number is
\* overwritten in num, taken twice, or left over at the end
\* (primer0_pool.c:50-62), and no child goes on with main's loop
\* (primer2.c:35, "exit(0)").
ImplementsWork == Work!Spec

\* Copies, transfers and their pace are right.
CopiesAreRight == FileIsReceived /\ CopyIsRight

\* Outputs of processes come once and in order.
ProcessesPrintRight == PrintedInOrder /\ NumbersInOrder

\* The program has ended, and nobody waits for what has already come.  The processes
\* of sem/add.c wait for ever for one whose V failed (sem/add.c:51-54).  A letter
\* and a daemon go on for ever, webdl does (its loop tests the wrong variable,
\* webdl.c:55), servers do unless they fail, and susp waits for signals.
Settled ==
    /\ program = "mysem" => ~Running
    /\ program \in PoolPrograms => ~PoolRuns
    /\ program \in SpreadPrograms => spc \in {"exited", "failed"}
    /\ program \in FilePrograms =>
          \/ fmain \in {"destroyed", "failed"}
          \/ \E a \in Adders : fat[a] = "unposted"
    /\ program \in StreamPrograms => \A g \in arrived : ~Connected(g)
    /\ program = "webdl" => cat = "failed" \/ writeError \/ Len(output) = FileLength
    /\ program \in CopyPrograms \ {"webdl"} => cat \in {"done", "failed"}
    /\ program \in {"star", "block"} => main = "exited"
    /\ main = "suspend" => \A s \in Signals : pending[s] = 0
    /\ program \in ForkPrograms => parent \in {"gone", "failed"}

\* Each program ends, or fails and says so, or settles again and again, and the
\* letters go on while the alarm has not come: no thread or process waits for ever
\* for a signal, a lock, a join, or a client's connection for someone to take it.
EveryoneGetsOn ==
    /\ []<>Settled
    /\ program \in RingPrograms =>
          ([]RingRuns => \A m \in Letters : []<>(last = m))
=============================================================================
