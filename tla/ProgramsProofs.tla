--------------------------- MODULE ProgramsProofs ---------------------------
(***************************************************************************)
(* What is proved of the threads, processes and connections that Programs  *)
(* runs, for any numbers of threads, processes, clients, bytes, lines,     *)
(* signals and messages: the semaphore of mysem.c, the letters in turn,    *)
(* the prime searches, the number in the file, and the programs of         *)
(* signals, forks, copies, messages and sockets.                           *)
(***************************************************************************)
EXTENDS Programs, FiniteSetTheorems, SequenceTheorems, TLAPS

-----------------------------------------------------------------------------
(* The semaphore                                                           *)

\* The variables keep their types: the value never becomes negative.
THEOREM TypeCorrect == Spec => []TypeOK
<1>1. Init => TypeOK
  BY AmountsAssumption DEF Init, TypeOK, PCs
<1>2. TypeOK /\ [Next]_vars => TypeOK'
  <2> SUFFICES ASSUME TypeOK, [Next]_vars PROVE TypeOK'
    OBVIOUS
  <2> USE AmountsAssumption DEF TypeOK, PCs, Calls, Goto
  <2>1. ASSUME NEW t \in Threads, NEW c \in Calls, Call(t, c) PROVE TypeOK'
    BY <2>1 DEF Call
  <2>2. ASSUME NEW t \in Threads, Lock(t) \/ Relock(t) PROVE TypeOK'
    BY <2>2 DEF Lock, Relock
  <2>3. ASSUME NEW t \in Threads, Add(t) PROVE TypeOK'
    <3>1. value \in Nat /\ call[t].n \in Nat
      OBVIOUS
    <3>2. value' \in Nat
      BY <2>3, <3>1 DEF Add
    <3> QED BY <2>3, <3>2 DEF Add
  <2>4. ASSUME NEW t \in Threads, Broadcast(t) PROVE TypeOK'
    BY <2>4 DEF Broadcast
  <2>5. ASSUME NEW t \in Threads, Take(t) PROVE TypeOK'
    <3>1. value \in Nat /\ call[t].n \in Nat /\ value >= call[t].n
      BY <2>5 DEF Take
    <3>2. value' \in Nat
      BY <2>5, <3>1 DEF Take
    <3> QED BY <2>5, <3>2 DEF Take
  <2>6. ASSUME NEW t \in Threads, Wait(t) \/ WakeSpuriously(t) \/ Unlock(t)
        PROVE  TypeOK'
    BY <2>6 DEF Wait, WakeSpuriously, Unlock
  <2>7. CASE UNCHANGED vars
    BY <2>7 DEF vars
  <2> QED BY <2>1, <2>2, <2>3, <2>4, <2>5, <2>6, <2>7 DEF Next, Step
<1> QED BY <1>1, <1>2, PTL DEF Spec

\* Only the mutex's holder is between taking and releasing it.
THEOREM MutualExclusion == Spec => []Exclusive
<1>1. Init => Exclusive
  BY DEF Init, Exclusive, Holding
<1>2. TypeOK /\ Exclusive /\ [Next]_vars => Exclusive'
  <2> SUFFICES ASSUME TypeOK, Exclusive, [Next]_vars PROVE Exclusive'
    OBVIOUS
  <2> USE ThreadsAssumption DEF TypeOK, Exclusive, Holding, Goto
  <2>1. ASSUME NEW t \in Threads, NEW c \in Calls, Call(t, c) PROVE Exclusive'
    BY <2>1 DEF Call
  <2>2. ASSUME NEW t \in Threads, Lock(t) \/ Relock(t) PROVE Exclusive'
    BY <2>2 DEF Lock, Relock
  <2>3. ASSUME NEW t \in Threads, Add(t) \/ Broadcast(t) \/ Take(t)
        PROVE  Exclusive'
    BY <2>3 DEF Add, Broadcast, Take
  <2>4. ASSUME NEW t \in Threads, Wait(t) \/ WakeSpuriously(t) \/ Unlock(t)
        PROVE  Exclusive'
    BY <2>4 DEF Wait, WakeSpuriously, Unlock
  <2>5. CASE UNCHANGED vars
    BY <2>5 DEF vars
  <2> QED BY <2>1, <2>2, <2>3, <2>4, <2>5 DEF Next, Step
<1> QED BY <1>1, <1>2, TypeCorrect, PTL DEF Spec

\* A thread that sleeps while its amount is there is about to be woken.
THEOREM WakeupsKept == Spec => []NoLostWakeup
<1>1. Init => NoLostWakeup
  BY DEF Init, NoLostWakeup
<1>2. TypeOK /\ NoLostWakeup /\ [Next]_vars => NoLostWakeup'
  <2> SUFFICES ASSUME TypeOK, NoLostWakeup, [Next]_vars,
                      NEW s \in Threads, pc'[s] = "wait", value' >= call'[s].n
               PROVE  \E u \in Threads : pc'[u] = "broadcast"
    BY DEF NoLostWakeup
  <2> USE DEF TypeOK, Goto
  <2>1. ASSUME NEW t \in Threads, NEW c \in Calls, Call(t, c)
        PROVE  \E u \in Threads : pc'[u] = "broadcast"
    BY <2>1 DEF Call, NoLostWakeup
  <2>2. ASSUME NEW t \in Threads, Lock(t) \/ Relock(t) \/ WakeSpuriously(t) \/ Unlock(t)
        PROVE  \E u \in Threads : pc'[u] = "broadcast"
    BY <2>2 DEF Lock, Relock, WakeSpuriously, Unlock, NoLostWakeup
  <2>3. ASSUME NEW t \in Threads, Add(t)
        PROVE  \E u \in Threads : pc'[u] = "broadcast"
    BY <2>3 DEF Add
  <2>4. ASSUME NEW t \in Threads, Broadcast(t)
        PROVE  \E u \in Threads : pc'[u] = "broadcast"
    BY <2>4 DEF Broadcast
  <2>5. ASSUME NEW t \in Threads, Take(t)
        PROVE  \E u \in Threads : pc'[u] = "broadcast"
    <3>1. pc[s] = "wait" /\ s # t /\ call' = call
      BY <2>5 DEF Take
    <3>2. /\ value \in Nat /\ call[t].n \in Nat /\ call[s].n \in Nat
          /\ value >= call[t].n
          /\ value' = value - call[t].n /\ value' >= call[s].n
      BY <2>5, <3>1, AmountsAssumption DEF Take, Calls
    <3>3. value >= call[s].n
      BY <3>2
    <3>4. PICK u \in Threads : pc[u] = "broadcast"
      BY <3>1, <3>3 DEF NoLostWakeup
    <3> QED BY <2>5, <3>4 DEF Take
  <2>6. ASSUME NEW t \in Threads, Wait(t)
        PROVE  \E u \in Threads : pc'[u] = "broadcast"
    <3>1. value' = value /\ call' = call /\ s # t => pc[s] = "wait"
      BY <2>6 DEF Wait
    <3>2. CASE s = t
      <4>1. value < call[t].n /\ value \in Nat /\ call[t].n \in Nat
        BY <2>6, AmountsAssumption DEF Wait, Calls
      <4> QED BY <2>6, <3>2, <4>1 DEF Wait
    <3>3. CASE s # t
      BY <2>6, <3>1, <3>3 DEF Wait, NoLostWakeup
    <3> QED BY <3>2, <3>3
  <2>7. CASE UNCHANGED vars
    BY <2>7 DEF vars, NoLostWakeup
  <2> QED BY <2>1, <2>2, <2>3, <2>4, <2>5, <2>6, <2>7 DEF Next, Step
<1> QED BY <1>1, <1>2, TypeCorrect, PTL DEF Spec

-----------------------------------------------------------------------------
(* The semaphore implements its specification *)

\* The program counter tells which of the two functions a thread is in.
RightCode ==
    \A t \in Threads :
        /\ pc[t] \in {"add", "broadcast"} => call[t].op = "add"
        /\ pc[t] \in {"check", "wait", "relock"} => call[t].op = "sub"

\* Threads stay in the function they called.
LEMMA CodeRight ==
  ASSUME TypeOK, RightCode, [Next]_vars
  PROVE  RightCode'
<1> USE DEF TypeOK, RightCode, Goto
<1>1. ASSUME NEW t \in Threads, NEW c \in Calls, Call(t, c) PROVE RightCode'
  BY <1>1 DEF Call
<1>2. ASSUME NEW t \in Threads, Lock(t) PROVE RightCode'
  BY <1>2 DEF Lock, Calls
<1>3. ASSUME NEW t \in Threads, Step(t), ~Lock(t) PROVE RightCode'
  BY <1>3 DEF Step, Add, Broadcast, Take, Wait, WakeSpuriously, Relock, Unlock
<1>4. CASE UNCHANGED vars
  BY <1>4 DEF vars
<1> QED BY <1>1, <1>2, <1>3, <1>4 DEF Next

PhaseMap == [t \in Threads |-> Phase(t)]

\* Each step of the code is a step of the semaphore or leaves it unchanged.
LEMMA StepRefines ==
  ASSUME TypeOK, RightCode, [Next]_vars
  PROVE  [Abstract!Next]_(Abstract!vars)
<1> USE DEF TypeOK, PCs, Goto
<1>1. ASSUME NEW t \in Threads, NEW c \in Calls, Call(t, c)
      PROVE  Abstract!Begin(t)
  <2>1. pc[t] = "out" /\ pc' = [pc EXCEPT ![t] = "lock"]
    BY <1>1 DEF Call
  <2>2. PhaseMap[t] = "out"
    BY <2>1 DEF PhaseMap, Phase
  <2>3. PhaseMap' = [PhaseMap EXCEPT ![t] = "pending"]
    BY <2>1 DEF PhaseMap, Phase
  <2> QED
    BY <1>1, <2>2, <2>3 DEF Abstract!Begin, Abstract!Calls, Calls, Call, PhaseMap
<1>2. ASSUME NEW t \in Threads,
             Lock(t) \/ Relock(t) \/ Wait(t) \/ WakeSpuriously(t) \/ Broadcast(t)
      PROVE  UNCHANGED Abstract!vars
  <2>1. \A u \in Threads : Phase(u)' = Phase(u)
    BY <1>2 DEF Lock, Relock, Wait, WakeSpuriously, Broadcast, Phase
  <2>2. PhaseMap' = PhaseMap
    BY <2>1 DEF PhaseMap
  <2> QED
    BY <1>2, <2>2
    DEF Lock, Relock, Wait, WakeSpuriously, Broadcast, Abstract!vars, PhaseMap
<1>3. ASSUME NEW t \in Threads, Add(t) \/ Take(t)
      PROVE  Abstract!TakesEffect(t)
  <2>1. /\ pc[t] \in {"add", "check"}
        /\ \/ pc' = [pc EXCEPT ![t] = "broadcast"]
           \/ pc' = [pc EXCEPT ![t] = "unlock"]
    BY <1>3 DEF Add, Take
  <2>2. PhaseMap[t] = "pending" /\ PhaseMap' = [PhaseMap EXCEPT ![t] = "done"]
    BY <2>1 DEF PhaseMap, Phase
  <2>3. /\ Add(t) => call[t].op = "add"
        /\ Take(t) => call[t].op = "sub"
    BY DEF Add, Take, RightCode
  <2> QED BY <1>3, <2>2, <2>3 DEF Abstract!TakesEffect, Add, Take, PhaseMap
<1>4. ASSUME NEW t \in Threads, Unlock(t)
      PROVE  Abstract!Return(t)
  <2>1. pc[t] = "unlock" /\ pc' = [pc EXCEPT ![t] = "out"]
    BY <1>4 DEF Unlock
  <2>2. PhaseMap[t] = "done" /\ PhaseMap' = [PhaseMap EXCEPT ![t] = "out"]
    BY <2>1 DEF PhaseMap, Phase
  <2> QED BY <1>4, <2>2 DEF Abstract!Return, Unlock, PhaseMap
<1>5. CASE UNCHANGED vars
  BY <1>5 DEF vars, Abstract!vars, Phase
<1> QED BY <1>1, <1>2, <1>3, <1>4, <1>5 DEF Next, Step, Abstract!Next

\* mysem_add and mysem_sub implement the semaphore for any threads and amounts.
THEOREM Refinement == Spec => ImplementsSemaphore
<1>1. Init => Abstract!Init /\ RightCode
  BY DEF Init, Abstract!Init, Phase, Calls, Abstract!Calls, RightCode
<1>2. TypeOK /\ RightCode /\ [Next]_vars => RightCode'
  BY CodeRight
<1>3. TypeOK /\ RightCode /\ [Next]_vars => [Abstract!Next]_(Abstract!vars)
  BY StepRefines
<1> QED
  BY <1>1, <1>2, <1>3, TypeCorrect, PTL DEF Spec, ImplementsSemaphore, Abstract!Spec

-----------------------------------------------------------------------------
(* The steps of Programs *)

\* A step is one of the program that runs, and leaves the state of all others
\* alone.
LEMMA PlainSteps ==
    ASSUME [NextPrograms]_everything
    PROVE  /\ program' = program
           /\ (program = "mysem" /\ NextMain) \/ UNCHANGED allVars
           /\ (program \in StreamPrograms /\ StreamNext) \/ UNCHANGED streamVars
           /\ (program \in CopyPrograms /\ CopyNext) \/ UNCHANGED copyVars
           /\ (program \in SignalPrograms /\ BlockedNext) \/ UNCHANGED blockedVars
           /\ (program \in DaemonPrograms /\ DaemonNext) \/ UNCHANGED daemonVars
           /\ (program \in ForkPrograms /\ ForksNext) \/ UNCHANGED forkVars
           /\ (program = "myftp_msg" /\ (Server \/ Client)) \/ UNCHANGED ftpVars
<1> USE DEF plainVars
<1>1. CASE Sem(NextMain)
  BY <1>1 DEF Sem
<1>2. CASE Pool(PoolNext)
  BY <1>2 DEF Pool
<1>3. CASE Spread(SpreadNext)
  BY <1>3 DEF Spread
<1>4. CASE Letter(RingNext)
  BY <1>4 DEF Letter
<1>5. CASE Adding(FileNext)
  BY <1>5 DEF Adding
<1>6. CASE Transfer(Server \/ Client)
  BY <1>6 DEF Transfer
<1>7. CASE Serving(StreamNext) \/ Copying(CopyNext) \/ Signalled(BlockedNext)
  BY <1>7 DEF Serving, Copying, Signalled, Plain
<1>8. CASE Forking(ForksNext) \/ Daemonic(DaemonNext)
  BY <1>8 DEF Forking, Daemonic, Plain
<1>9. CASE UNCHANGED everything
  BY <1>9 DEF everything
<1> QED BY <1>1, <1>2, <1>3, <1>4, <1>5, <1>6, <1>7, <1>8, <1>9 DEF NextPrograms

-----------------------------------------------------------------------------
(* The units of the semaphore in main.c of mysem *)

SemTypes ==
    /\ value \in Nat
    /\ pc \in [Threads -> PCs]
    /\ call = [t \in Threads |-> call[t]]
    /\ worker \in [Workers -> {"none", "computing", "giving", "ended"}]
    /\ i \in Nat

\* Only a worker that gives its unit back adds, and only the main thread, which
\* is about to create a worker, subtracts: one unit each.
CallersInv ==
    /\ \A w \in Workers :
          /\ pc[w] \in {"out", "lock", "add", "broadcast", "unlock"}
          /\ pc[w] # "out" => worker[w] = "giving" /\ call[w].op = "add" /\ call[w].n = 1
    /\ pc[Main] \in {"out", "lock", "check", "wait", "relock", "unlock"}
    /\ pc[Main] # "out" => mpc = "create" /\ call[Main].op = "sub" /\ call[Main].n = 1

\* The workers are created and joined in the order of their numbers.
WorkersInv ==
    /\ mpc \in {"take", "create"} =>
          i \in Workers /\ \A w \in Workers : worker[w] = "none" <=> w >= i
    /\ mpc = "join" => \A w \in Workers : w < i => worker[w] = "ended"
    /\ mpc = "exited" => \A w \in Workers : worker[w] = "ended"
    /\ freed => mpc = "exited"

SemInv == SemTypes /\ CallersInv /\ WorkersInv /\ UnitsConserved

\* The workers that have a unit, and the unit the main thread holds for the next.
Holders == {w \in Workers : \/ worker[w] = "computing"
                            \/ worker[w] = "giving" /\ pc[w] \in {"lock", "add"}}
InHand  == IF mpc \in {"create", "failed"} /\ pc[Main] \in {"unlock", "out"} THEN 1 ELSE 0

LEMMA HoldersFinite == IsFiniteSet(Holders) /\ Cardinality(Holders) \in Nat
<1>1. IsFiniteSet(Workers)
  BY MainAssumption, FS_Interval DEF Workers
<1>2. Holders \subseteq Workers
  BY DEF Holders
<1> QED BY <1>1, <1>2, FS_Subset, FS_CardinalityType

\* The main thread's steps.
LEMMA MainKeeps ==
    ASSUME SemInv, MainStep
    PROVE  SemInv'
<1> USE MainAssumption DEF SemInv
<1>1. Main \in Threads /\ Main \notin Workers /\ LAST \in Nat
  OBVIOUS
<1>2. CASE MainTake
  <2>1. /\ mpc = "take" /\ mpc' = "create" /\ UNCHANGED <<i, worker, freed, value>>
        /\ pc[Main] = "out" /\ pc' = [pc EXCEPT ![Main] = "lock"]
        /\ call' = [call EXCEPT ![Main] = [op |-> "sub", n |-> 1]]
    BY <1>2 DEF MainTake, Call, Goto
  <2>2. /\ pc'[Main] = "lock" /\ \A w \in Workers : pc'[w] = pc[w]
        /\ call'[Main] = [op |-> "sub", n |-> 1] /\ \A w \in Workers : call'[w] = call[w]
        /\ call' = [t \in Threads |-> call'[t]] /\ pc' \in [Threads -> PCs]
    BY <2>1 DEF SemTypes, PCs
  <2>3. SemTypes' /\ CallersInv' /\ WorkersInv'
    BY <2>1, <2>2 DEF SemTypes, CallersInv, WorkersInv
  <2>4. Holders' = Holders /\ InHand = 0 /\ InHand' = 0
    BY <2>1, <2>2 DEF Holders, InHand
  <2>5. UnitsConserved'
    BY <2>1, <2>4 DEF UnitsConserved, Holders, InHand
  <2> QED BY <2>3, <2>5
<1>3. CASE MainCreate
  <2>1. /\ mpc = "create" /\ pc[Main] = "out" /\ UNCHANGED <<value, pc, call, freed>>
        /\ worker' = [worker EXCEPT ![i] = "computing"]
        /\ i' = IF i = LAST THEN 1 ELSE i + 1
        /\ mpc' = IF i = LAST THEN "join" ELSE "take"
    BY <1>3 DEF MainCreate, vars
  <2>2. i \in Workers /\ worker[i] = "none" /\ i \in 1 .. LAST
    BY <2>1 DEF WorkersInv, SemTypes, Workers
  <2>3. worker'[i] = "computing" /\ \A w \in Workers : w # i => worker'[w] = worker[w]
    BY <2>1, <2>2 DEF SemTypes
  <2>4. SemTypes'
    BY <2>1, <2>2 DEF SemTypes
  <2>5. CallersInv'
    BY <2>1, <2>2, <2>3 DEF CallersInv
  <2>6. WorkersInv'
    <3>1. CASE i = LAST
      BY <2>1, <3>1 DEF WorkersInv, Workers
    <3>2. CASE i # LAST
      <4>1. i' = i + 1 /\ mpc' = "take" /\ i' \in Workers
        BY <2>1, <2>2, <3>2 DEF Workers
      <4>2. \A w \in Workers : worker[w] = "none" <=> w >= i
        BY <2>1 DEF WorkersInv
      <4>3. \A w \in Workers : worker'[w] = "none" <=> w >= i + 1
        BY <2>2, <2>3, <4>2 DEF Workers
      <4> QED BY <2>1, <4>1, <4>3 DEF WorkersInv
    <3> QED BY <3>1, <3>2
  <2>7. pc[i] = "out"
    BY <2>2 DEF CallersInv
  <2>8. Holders' = Holders \cup {i} /\ i \notin Holders
    BY <2>1, <2>2, <2>3 DEF Holders
  <2>9. Cardinality(Holders') = Cardinality(Holders) + 1
    BY <2>8, HoldersFinite, FS_AddElement
  <2>10. InHand = 1 /\ InHand' = 0
    BY <2>1 DEF InHand
  <2>11. value \in Nat /\ Cardinality(Holders) \in Nat
    BY HoldersFinite DEF SemTypes
  <2>12. UnitsConserved'
    BY <2>1, <2>9, <2>10, <2>11 DEF UnitsConserved, Holders, InHand
  <2> QED BY <2>4, <2>5, <2>6, <2>12
<1>4. CASE MainCreateFailed \/ MainJoin \/ MainDestroy
  <2>1. /\ UNCHANGED <<value, pc, call, worker>> /\ i' \in {i, i + 1}
        /\ \/ mpc = "create" /\ pc[Main] = "out" /\ mpc' = "failed" /\ freed' = freed
           \/ mpc = "join" /\ mpc' = "join" /\ freed' = freed
           \/ mpc = "join" /\ mpc' = "exited"
    BY <1>4 DEF MainCreateFailed, MainJoin, MainDestroy, vars
  <2>2. SemTypes'
    BY <2>1 DEF SemTypes
  <2>3. CallersInv'
    BY <2>1 DEF CallersInv
  <2>4. WorkersInv'
    <3>1. CASE MainCreateFailed
      BY <3>1 DEF MainCreateFailed, WorkersInv
    <3>2. CASE MainJoin
      BY <3>2 DEF MainJoin, WorkersInv, SemTypes, Workers
    <3>3. CASE MainDestroy
      BY <3>3 DEF MainDestroy, WorkersInv, SemTypes, Workers
    <3> QED BY <1>4, <3>1, <3>2, <3>3
  <2>5. Holders' = Holders /\ InHand' = InHand
    BY <2>1 DEF Holders, InHand
  <2>6. UnitsConserved'
    BY <2>1, <2>5 DEF UnitsConserved, Holders, InHand
  <2> QED BY <2>2, <2>3, <2>4, <2>6
<1> QED BY <1>2, <1>3, <1>4 DEF MainStep

\* A worker's own steps.
LEMMA WorkerKeeps ==
    ASSUME SemInv, NEW w \in Workers, WorkerStep(w)
    PROVE  SemInv'
<1> USE MainAssumption DEF SemInv
<1>1. CASE WorkerGive(w)
  <2>1. /\ worker[w] = "computing" /\ worker' = [worker EXCEPT ![w] = "giving"]
        /\ UNCHANGED <<mpc, i, freed, value>>
        /\ pc[w] = "out" /\ pc' = [pc EXCEPT ![w] = "lock"]
        /\ call' = [call EXCEPT ![w] = [op |-> "add", n |-> 1]]
    BY <1>1 DEF WorkerGive, Call, Goto
  <2>2. /\ pc'[w] = "lock" /\ \A t \in Threads : t # w => pc'[t] = pc[t]
        /\ call'[w] = [op |-> "add", n |-> 1]
        /\ \A t \in Threads : t # w => call'[t] = call[t]
        /\ call' = [t \in Threads |-> call'[t]] /\ pc' \in [Threads -> PCs]
    BY <2>1 DEF SemTypes, PCs
  <2>3. worker'[w] = "giving" /\ \A v \in Workers : v # w => worker'[v] = worker[v]
    BY <2>1 DEF SemTypes
  <2>4. SemTypes'
    BY <2>1, <2>2 DEF SemTypes
  <2>5. CallersInv'
    BY <2>1, <2>2, <2>3 DEF CallersInv
  <2>6. WorkersInv'
    BY <2>1, <2>3 DEF WorkersInv
  <2>7. Holders' = Holders /\ InHand' = InHand
    BY <2>1, <2>2, <2>3 DEF Holders, InHand
  <2>8. UnitsConserved'
    BY <2>1, <2>7 DEF UnitsConserved, Holders, InHand
  <2> QED BY <2>4, <2>5, <2>6, <2>8
<1>2. CASE WorkerEnd(w)
  <2>1. /\ worker[w] = "giving" /\ worker' = [worker EXCEPT ![w] = "ended"] /\ pc[w] = "out"
        /\ UNCHANGED <<mpc, i, freed, value, pc, call>>
    BY <1>2 DEF WorkerEnd, vars
  <2>2. worker'[w] = "ended" /\ \A v \in Workers : v # w => worker'[v] = worker[v]
    BY <2>1 DEF SemTypes
  <2>3. SemTypes'
    BY <2>1 DEF SemTypes
  <2>4. CallersInv'
    BY <2>1, <2>2 DEF CallersInv
  <2>5. WorkersInv'
    BY <2>1, <2>2 DEF WorkersInv
  <2>6. Holders' = Holders /\ InHand' = InHand
    BY <2>1, <2>2 DEF Holders, InHand
  <2>7. UnitsConserved'
    BY <2>1, <2>6 DEF UnitsConserved, Holders, InHand
  <2> QED BY <2>3, <2>4, <2>5, <2>7
<1> QED BY <1>1, <1>2 DEF WorkerStep

\* A step inside mysem_add or mysem_sub: the unit changes hands with the value.
LEMMA CallKeeps ==
    ASSUME SemInv, NEW t \in Threads, InSem(t)
    PROVE  SemInv'
<1> USE MainAssumption DEF SemInv
<1>1. UNCHANGED <<mpc, i, worker, freed>>
  BY DEF InSem, progVars
<1>2. call' = call
  BY DEF InSem, Step, Lock, Add, Broadcast, Take, Wait, WakeSpuriously, Relock, Unlock
<1>3. WorkersInv'
  BY <1>1 DEF WorkersInv
<1>4. CASE Add(t)
  <2>1. pc[t] = "add" /\ value' = value + call[t].n /\ pc' = [pc EXCEPT ![t] = "broadcast"]
    BY <1>4 DEF Add, Goto
  <2>2. t \in Workers /\ worker[t] = "giving" /\ call[t].n = 1
    BY <2>1 DEF CallersInv
  <2>3. pc'[t] = "broadcast" /\ \A u \in Threads : u # t => pc'[u] = pc[u]
    BY <2>1 DEF SemTypes
  <2>4. SemTypes'
    BY <1>1, <1>2, <2>1, <2>2 DEF SemTypes, PCs
  <2>5. CallersInv'
    BY <1>1, <1>2, <2>1, <2>2, <2>3 DEF CallersInv
  <2>6. Holders' = Holders \ {t} /\ t \in Holders
    BY <1>1, <2>1, <2>2, <2>3 DEF Holders
  <2>7. Cardinality(Holders') = Cardinality(Holders) - 1
    BY <2>6, HoldersFinite, FS_RemoveElement
  <2>8. InHand' = InHand
    BY <1>1, <2>2, <2>3 DEF InHand
  <2>9. value \in Nat /\ Cardinality(Holders) \in Nat /\ InHand \in Nat
    BY HoldersFinite DEF SemTypes, InHand
  <2>10. value' = value + 1
    BY <2>1, <2>2
  <2>11. UnitsConserved'
    BY <2>7, <2>8, <2>9, <2>10 DEF UnitsConserved, Holders, InHand
  <2> QED BY <1>3, <2>4, <2>5, <2>11
<1>5. CASE Take(t)
  <2>1. /\ pc[t] = "check" /\ value >= call[t].n /\ value' = value - call[t].n
        /\ pc' = [pc EXCEPT ![t] = "unlock"]
    BY <1>5 DEF Take, Goto
  <2>2. t = Main /\ mpc = "create" /\ call[t].n = 1
    BY <2>1 DEF CallersInv
  <2>3. pc'[t] = "unlock" /\ \A u \in Threads : u # t => pc'[u] = pc[u]
    BY <2>1 DEF SemTypes
  <2>4. value \in Nat /\ value' = value - 1 /\ value' \in Nat
    BY <2>1, <2>2 DEF SemTypes
  <2>5. SemTypes'
    BY <1>1, <1>2, <2>1, <2>4 DEF SemTypes, PCs
  <2>6. CallersInv'
    BY <1>1, <1>2, <2>1, <2>2, <2>3 DEF CallersInv
  <2>7. Holders' = Holders
    BY <1>1, <2>2, <2>3 DEF Holders
  <2>8. InHand = 0 /\ InHand' = 1
    BY <1>1, <2>1, <2>2, <2>3 DEF InHand
  <2>9. value + Cardinality(Holders) + InHand = InitVal
    BY DEF UnitsConserved, Holders, InHand
  <2>10. value' + Cardinality(Holders') + InHand' = InitVal
    BY <2>4, <2>7, <2>8, <2>9, HoldersFinite
  <2>11. UnitsConserved'
    BY <2>10 DEF UnitsConserved, Holders, InHand
  <2> QED BY <1>3, <2>5, <2>6, <2>11
<1>6. CASE \/ Lock(t) \/ Broadcast(t) \/ Wait(t) \/ WakeSpuriously(t) \/ Relock(t)
           \/ Unlock(t)
  <2>1. value' = value
    BY <1>6 DEF Lock, Broadcast, Wait, WakeSpuriously, Relock, Unlock
  <2>2. pc' \in [Threads -> PCs]
    BY <1>6 DEF Lock, Broadcast, Wait, WakeSpuriously, Relock, Unlock, Goto, SemTypes, PCs
  \* A worker that is broadcasting or done has given its unit back, and a main
  \* thread that is waiting has none yet.
  <2>3. \A w \in Workers :
          /\ pc'[w] # pc[w] =>
                \/ pc[w] = "lock" /\ pc'[w] = "add"
                \/ pc[w] = "broadcast" /\ pc'[w] = "unlock"
                \/ pc[w] = "unlock" /\ pc'[w] = "out"
    BY <1>6 DEF Lock, Broadcast, Wait, WakeSpuriously, Relock, Unlock, Goto, SemTypes,
                CallersInv
  <2>4. pc'[Main] # pc[Main] =>
          \/ pc[Main] = "lock" /\ pc'[Main] = "check"
          \/ pc[Main] = "check" /\ pc'[Main] = "wait"
          \/ pc[Main] = "wait" /\ pc'[Main] = "relock"
          \/ pc[Main] = "relock" /\ pc'[Main] = "check"
          \/ pc[Main] = "unlock" /\ pc'[Main] = "out"
    BY <1>6 DEF Lock, Broadcast, Wait, WakeSpuriously, Relock, Unlock, Goto, SemTypes,
                CallersInv
  <2>5. SemTypes'
    BY <1>1, <1>2, <2>1, <2>2 DEF SemTypes
  <2>6. CallersInv'
    BY <1>1, <1>2, <2>3, <2>4 DEF CallersInv
  <2>7. Holders' = Holders
    BY <1>1, <2>3 DEF Holders
  <2>8. InHand' = InHand
    BY <1>1, <2>4 DEF InHand
  <2>9. UnitsConserved'
    BY <2>1, <2>7, <2>8 DEF UnitsConserved, Holders, InHand
  <2> QED BY <1>3, <2>5, <2>6, <2>9
<1> QED BY <1>4, <1>5, <1>6 DEF InSem, Step

\* Units of the semaphore are neither lost nor made, and it is freed when nobody
\* uses it any more: for any number of workers and of units, whether or not
\* pthread_create fails.
THEOREM SemaphoreKept == SpecPrograms => []SemaphoreIsKept
<1>1. InitPrograms => SemInv
  <2> SUFFICES ASSUME InitPrograms PROVE SemInv
    OBVIOUS
  <2>1. /\ Init /\ mpc = (IF LAST = 0 THEN "join" ELSE "take") /\ i = 1
        /\ worker = [w \in Workers |-> "none"] /\ ~freed
    BY DEF InitPrograms, InitMain
  <2>2. value = InitVal /\ pc = [t \in Threads |-> "out"] /\ call \in [Threads -> Calls]
    BY <2>1 DEF Init
  <2>3. \A t \in Threads : pc[t] = "out"
    BY <2>2
  <2>4. \A w \in Workers : worker[w] = "none" /\ w >= 1
    BY <2>1 DEF Workers
  <2>5. SemTypes
    BY <2>1, <2>2, AmountsAssumption DEF SemTypes, PCs
  <2>6. CallersInv
    BY <2>3, MainAssumption DEF CallersInv
  <2>7. WorkersInv
    BY <2>1, <2>4, MainAssumption DEF WorkersInv, Workers
  <2>8. Holders = {} /\ InHand = 0
    BY <2>1, <2>4 DEF Holders, InHand
  <2>9. UnitsConserved
    BY <2>2, <2>8, FS_EmptySet, AmountsAssumption DEF UnitsConserved, Holders, InHand
  <2> QED BY <2>5, <2>6, <2>7, <2>9 DEF SemInv
<1>2. SemInv /\ [NextPrograms]_everything => SemInv'
  <2> SUFFICES ASSUME SemInv, [NextPrograms]_everything PROVE SemInv'
    OBVIOUS
  <2>1. CASE NextMain
    BY <2>1, MainKeeps, WorkerKeeps, CallKeeps DEF NextMain
  <2>2. CASE UNCHANGED allVars
    BY <2>2, SMTT(60) DEF allVars, vars, progVars, SemInv, SemTypes, CallersInv, WorkersInv,
                UnitsConserved
  <2> QED BY <2>1, <2>2, PlainSteps
<1>3. SemInv => SemaphoreIsKept
  BY MainAssumption DEF SemInv, CallersInv, WorkersInv, NotUsedAfterFree, SemaphoreIsKept
<1> QED BY <1>1, <1>2, <1>3, PTL DEF SpecPrograms

-----------------------------------------------------------------------------
(* The letters in turn *)

\* Whose letter comes next, by what has been written.
TurnOf == IF last = NoOne THEN 0 ELSE NextOf(last)

\* abcd.c: the thread has its mutex, or may lock it.
HasTurn(m) == rat[m] \in {"write", "unlock"} \/ (rat[m] = "lock" /\ m \notin locked)


\* abcd.c: no thread can begin before all exist, and then one of them at most
\* has the turn, which is its own.
ChainInv ==
    /\ \A m \in Letters : rat[m] \in {"none", "lock", "write", "unlock"}
    /\ \A m \in Letters : rat[m] = "none" <=> m >= created
    /\ rmain = "create" => created < RingSize
    /\ rmain \in {"start", "join"} => created = RingSize
    /\ rmain \in {"create", "start"} => last = NoOne /\ \A m \in Letters : ~HasTurn(m)
    /\ \A m \in Letters : rat[m] \in {"write", "unlock"} => m \in locked
    /\ \A m, k \in Letters : HasTurn(m) /\ HasTurn(k) => m = k
    /\ \A m \in Letters : HasTurn(m) => m = IF rat[m] = "unlock" THEN last ELSE TurnOf

\* abcd_e.c: the mutex excludes, and num names the next to write, unless
\* its writer has yet to pass it on.
TurnInv ==
    /\ \A m \in Letters : rat[m] # "write"
    /\ \A m \in Letters : rat[m] = "none" <=> m >= created
    /\ \A m \in Letters : rat[m] \in {"test", "pass", "tell", "unlock"} => rmut = m
    /\ \A m \in Letters : rat[m] = "pass" => last = m /\ rnum = m
    /\ (\A m \in Letters : rat[m] # "pass") => rnum = TurnOf
    /\ rmain = "create" => created < RingSize

RingInv ==
    /\ RingTypeOK
    /\ program = "abcd" => ChainInv
    /\ program = "abcd_e" => TurnInv

\* The thread after a thread is a thread, and no other comes before it.
LEMMA NextIsLetter ==
    ASSUME NEW m \in Letters
    PROVE  NextOf(m) \in Letters
BY RingAssumption DEF Letters, NextOf

\* A step of any program is a step of the letters' programs, or leaves their
\* state alone.
LEMMA RingSteps ==
    ASSUME [NextPrograms]_everything
    PROVE  /\ program' = program
           /\ \/ program \in RingPrograms /\ RingNext
              \/ UNCHANGED ringVars
<1>1. CASE Sem(NextMain)
  BY <1>1 DEF Sem
<1>2. CASE Pool(PoolNext)
  BY <1>2 DEF Pool
<1>3. CASE Spread(SpreadNext)
  BY <1>3 DEF Spread
<1>4. CASE Letter(RingNext)
  BY <1>4 DEF Letter
<1>5. CASE Adding(FileNext)
  BY <1>5 DEF Adding
<1>6. CASE Transfer(Server \/ Client)
  BY <1>6 DEF Transfer
<1>7. CASE Serving(StreamNext) \/ Copying(CopyNext) \/ Signalled(BlockedNext)
  BY <1>7 DEF Serving, Copying, Signalled, Plain
<1>8. CASE Forking(ForksNext) \/ Daemonic(DaemonNext)
  BY <1>8 DEF Forking, Daemonic, Plain
<1>9. CASE UNCHANGED everything
  BY <1>9 DEF everything
<1> QED BY <1>1, <1>2, <1>3, <1>4, <1>5, <1>6, <1>7, <1>8, <1>9 DEF NextPrograms

\* A step of the letters' programs keeps the types.
LEMMA RingTypes ==
    ASSUME RingInv, RingNext, program \in RingPrograms, program' = program
    PROVE  RingTypeOK'
<1> USE RingAssumption DEF RingTypeOK, RingGoto, NoOne
<1>1. RingTypeOK /\ (program = "abcd" => ChainInv) /\ (program = "abcd_e" => TurnInv)
  BY DEF RingInv
<1>2. CASE RingCreate
  <2>1. created < RingSize
    BY <1>1, <1>2 DEF RingCreate, ChainInv, TurnInv, RingPrograms
  <2>2. created \in Letters /\ created + 1 \in 0 .. RingSize
    BY <1>1, <2>1 DEF Letters
  <2> QED BY <1>1, <1>2, <2>2 DEF RingCreate
<1>3. CASE RingCreateError \/ RingStart \/ Alarm
  BY <1>1, <1>3 DEF RingCreateError, RingStart, Alarm
<1>4. ASSUME NEW m \in Letters, ChainLock(m) \/ ChainWrite(m) \/ ChainUnlock(m)
      PROVE  RingTypeOK'
  BY <1>1, <1>4 DEF ChainLock, ChainWrite, ChainUnlock
<1>5. ASSUME NEW m \in Letters, TurnLock(m) \/ TurnWait(m) \/ TurnWrite(m) \/ TurnWake(m)
      PROVE  RingTypeOK'
  BY <1>1, <1>5 DEF TurnLock, TurnWait, TurnWrite, TurnWake
<1>6. ASSUME NEW m \in Letters, TurnPass(m) \/ TurnTell(m) \/ TurnUnlock(m)
      PROVE  RingTypeOK'
  BY <1>1, <1>6, NextIsLetter DEF TurnPass, TurnTell, TurnUnlock
<1> QED BY <1>2, <1>3, <1>4, <1>5, <1>6 DEF RingNext, RingMain, RingThread

\* abcd.c: the turn is passed on and never doubled.
LEMMA ChainKept ==
    ASSUME RingInv, RingTypeOK', RingNext, program = "abcd"
    PROVE  ChainInv'
<1> USE RingAssumption DEF RingTypeOK, RingGoto, Letters, NoOne
<1>1. RingTypeOK /\ ChainInv /\ RingRuns
  BY DEF RingInv, RingNext
<1>2. CASE RingCreate
  BY <1>1, <1>2 DEF RingCreate, ChainInv, HasTurn, TurnOf
<1>3. CASE RingCreateError \/ Alarm
  BY <1>1, <1>3 DEF RingCreateError, Alarm, ChainInv, HasTurn, TurnOf
<1>4. CASE RingStart
  BY <1>1, <1>4 DEF RingStart, ChainInv, HasTurn, TurnOf
<1>5. ASSUME NEW m \in Letters, ChainLock(m) PROVE ChainInv'
  BY <1>1, <1>5 DEF ChainLock, ChainInv, HasTurn, TurnOf
<1>6. ASSUME NEW m \in Letters, ChainWrite(m) PROVE ChainInv'
  BY <1>1, <1>6 DEF ChainWrite, ChainInv, HasTurn, TurnOf, NextOf
<1>7. ASSUME NEW m \in Letters, ChainUnlock(m) PROVE ChainInv'
  <2>1. HasTurn(m) /\ m = last /\ rmain = "join" /\ created = RingSize
    BY <1>1, <1>7 DEF ChainUnlock, ChainInv, HasTurn, RingRuns
  <2>2. NextOf(m) \in Letters
    BY NextIsLetter
  <2>3. \A k \in Letters : k # m => rat[k] = "lock" /\ k \in locked
    BY <1>1, <2>1 DEF ChainInv, HasTurn
  <2>4. /\ rat' = [rat EXCEPT ![m] = "lock"] /\ locked' = locked \ {NextOf(m)}
        /\ UNCHANGED <<rmain, created, last>>
    BY <1>7 DEF ChainUnlock
  <2>5. \A k \in Letters : rat'[k] = "lock"
    BY <1>1, <2>3, <2>4
  <2>6. m \in locked
    BY <1>1, <1>7 DEF ChainUnlock, ChainInv
  <2>7. \A k \in Letters : HasTurn(k)' <=> k = NextOf(m)
    BY <2>3, <2>4, <2>5, <2>6 DEF HasTurn
  <2>8. TurnOf' = NextOf(m)
    BY <2>1, <2>4 DEF TurnOf, NextOf
  <2> QED BY <2>1, <2>2, <2>4, <2>5, <2>7, <2>8 DEF ChainInv
<1>8. ASSUME NEW m \in Letters,
             \/ TurnLock(m) \/ TurnWait(m) \/ TurnWrite(m) \/ TurnPass(m)
             \/ TurnTell(m) \/ TurnUnlock(m) \/ TurnWake(m)
      PROVE  ChainInv'
  BY <1>1, <1>8 DEF TurnLock, TurnWait, TurnWrite, TurnPass, TurnTell, TurnUnlock,
                    TurnWake, ChainInv
<1> QED BY <1>2, <1>3, <1>4, <1>5, <1>6, <1>7, <1>8 DEF RingNext, RingMain, RingThread

\* abcd_e.c: only the holder of the mutex tests, writes and passes num on.
LEMMA TurnKept ==
    ASSUME RingInv, RingTypeOK', RingNext, program = "abcd_e"
    PROVE  TurnInv'
<1> USE RingAssumption DEF RingTypeOK, RingGoto, Letters, NoOne
<1>1. RingTypeOK /\ TurnInv /\ RingRuns
  BY DEF RingInv, RingNext
<1>2. CASE RingCreate
  BY <1>1, <1>2 DEF RingCreate, TurnInv, TurnOf
<1>3. CASE RingCreateError \/ Alarm \/ RingStart
  BY <1>1, <1>3 DEF RingCreateError, Alarm, RingStart, TurnInv, TurnOf
<1>4. ASSUME NEW m \in Letters, TurnLock(m) \/ TurnWait(m) \/ TurnUnlock(m) \/ TurnWake(m)
      PROVE  TurnInv'
  BY <1>1, <1>4 DEF TurnLock, TurnWait, TurnUnlock, TurnWake, TurnInv, TurnOf
<1>5. ASSUME NEW m \in Letters, TurnWrite(m) PROVE TurnInv'
  BY <1>1, <1>5 DEF TurnWrite, TurnInv, TurnOf
<1>6. ASSUME NEW m \in Letters, TurnPass(m) PROVE TurnInv'
  BY <1>1, <1>6 DEF TurnPass, TurnInv, TurnOf, NextOf
<1>7. ASSUME NEW m \in Letters, TurnTell(m) PROVE TurnInv'
  BY <1>1, <1>7 DEF TurnTell, TurnInv, TurnOf
<1>8. ASSUME NEW m \in Letters, ChainLock(m) \/ ChainWrite(m) \/ ChainUnlock(m)
      PROVE  TurnInv'
  BY <1>8 DEF ChainLock, ChainWrite, ChainUnlock
<1> QED BY <1>2, <1>3, <1>4, <1>5, <1>6, <1>7, <1>8 DEF RingNext, RingMain, RingThread

\* A letter is written by the thread whose turn it is.
LEMMA RingWrites ==
    ASSUME RingInv, RingNext, program \in RingPrograms, NEW m \in Letters, Writes(m)
    PROVE  m = TurnOf
<1> USE DEF RingTypeOK, RingGoto, Writes
<1>1. RingTypeOK
  BY DEF RingInv
<1>2. CASE RingMain \/ Alarm
  BY <1>1, <1>2 DEF RingMain, RingCreate, RingCreateError, RingStart, Alarm, Letters
<1>3. ASSUME NEW k \in Letters, ChainWrite(k)
      PROVE  m = TurnOf
  <2>1. m = k
    BY <1>1, <1>3 DEF ChainWrite
  <2> QED BY <1>3, <2>1 DEF ChainWrite, RingInv, ChainInv, HasTurn
<1>4. ASSUME NEW k \in Letters, TurnWrite(k)
      PROVE  m = TurnOf
  <2>1. m = k
    BY <1>1, <1>4 DEF TurnWrite
  <2> QED BY <1>4, <2>1 DEF TurnWrite, RingInv, TurnInv
<1>5. ASSUME NEW k \in Letters, ChainLock(k) \/ ChainUnlock(k) \/ TurnLock(k) \/ TurnWait(k)
      PROVE  m = TurnOf
  BY <1>1, <1>5 DEF ChainLock, ChainUnlock, TurnLock, TurnWait
<1>6. ASSUME NEW k \in Letters, TurnPass(k) \/ TurnUnlock(k) \/ TurnWake(k)
      PROVE  m = TurnOf
  BY <1>1, <1>6 DEF TurnPass, TurnUnlock, TurnWake
<1>7. ASSUME NEW k \in Letters, TurnTell(k)
      PROVE  m = TurnOf
  <2>1. rat[k] = "tell" /\ rat' = [j \in Letters |-> IF j = k THEN "unlock"
                                 ELSE IF rat[j] = "sleep" THEN "woken" ELSE rat[j]]
    BY <1>7 DEF TurnTell
  <2>2. m # k /\ rat'[m] = IF rat[m] = "sleep" THEN "woken" ELSE rat[m]
    BY <2>1
  <2> QED BY <2>2
<1> QED BY <1>2, <1>3, <1>4, <1>5, <1>6, <1>7 DEF RingNext, RingThread

\* The letters of both programs come in turn, none twice and none left out, for
\* any number of threads (abcd.c:29-32, abcd_e.c:30-36).
THEOREM LettersInTurn == SpecPrograms => InTurn
<1>1. InitPrograms => RingInv
  BY RingAssumption DEF InitPrograms, RingInit, RingInv, RingTypeOK, ChainInv, TurnInv,
                        HasTurn, TurnOf, NoOne, Letters
<1>2. RingInv /\ [NextPrograms]_everything => RingInv'
  <2> SUFFICES ASSUME RingInv, [NextPrograms]_everything PROVE RingInv'
    OBVIOUS
  <2>1. CASE program \in RingPrograms /\ RingNext
    <3>1. program' = program
      BY RingSteps
    <3>2. RingTypeOK'
      BY <2>1, <3>1, RingTypes
    <3> QED BY <2>1, <3>1, <3>2, ChainKept, TurnKept DEF RingInv
  <2>2. CASE UNCHANGED ringVars
    <3>1. program' = program
      BY RingSteps
    <3> QED BY <2>2, <3>1 DEF ringVars, RingInv, RingTypeOK, ChainInv, TurnInv, HasTurn, TurnOf
  <2> QED BY <2>1, <2>2, RingSteps
<1>3. RingInv /\ [NextPrograms]_everything
      => [\A m \in Letters : Writes(m) => m = (IF last = NoOne THEN 0 ELSE NextOf(last))]_ringVars
  <2> SUFFICES ASSUME RingInv, [NextPrograms]_everything, ringVars' # ringVars,
                      NEW m \in Letters, Writes(m)
               PROVE  m = TurnOf
    BY DEF TurnOf
  <2> QED BY RingSteps, RingWrites
<1> QED BY <1>1, <1>2, <1>3, PTL DEF SpecPrograms, InTurn

-----------------------------------------------------------------------------
(* The prime test *)

\* A divisor of k that the loop does not try, since it is k \div 2 or more, is
\* half of k.
LEMMA LargeDivisor ==
    ASSUME NEW k \in Nat, NEW d \in Nat, k > 4, d >= k \div 2, d < k, k % d = 0
    PROVE  k = 2 * d
<1>1. k \div 2 \in Nat /\ k \div 2 >= 2 /\ k <= 2 * (k \div 2) + 1
  OBVIOUS
<1>2. d > 0
  BY <1>1
<1>3. PICK e \in Nat : k = d * e
  BY <1>2
<1>4. e # 0 /\ e # 1
  BY <1>3
<1>5. ASSUME e >= 3 PROVE FALSE
  <2>1. d * e >= d * 3
    BY <1>5
  <2> QED BY <1>1, <1>3, <2>1
<1>6. e = 2
  BY <1>3, <1>4, <1>5
<1> QED BY <1>3, <1>6

\* The loop of the programs, which stops before half of the number, finds the
\* primes and only them in every range they accept (primer0.c:42-49): the
\* numbers it would be wrong about, 1 and 4, lie below LEFT.
THEOREM MarkIsPrime == \A k \in Numbers : Mark(k) <=> Work!Prime(k)
<1> SUFFICES ASSUME NEW k \in Numbers PROVE Mark(k) <=> Work!Prime(k)
  OBVIOUS
<1>1. k \in Nat /\ k > 4 /\ k \div 2 \in Nat /\ k \div 2 < k
  BY RangeAssumption DEF Numbers
<1>2. ASSUME Work!Prime(k) PROVE Mark(k)
  <2> SUFFICES ASSUME NEW j \in 2 .. (k \div 2) - 1 PROVE k % j # 0
    BY DEF Mark
  <2>1. j \in 2 .. k - 1
    BY <1>1
  <2> QED BY <1>2, <2>1 DEF Work!Prime
<1>3. ASSUME Mark(k) PROVE Work!Prime(k)
  <2> SUFFICES ASSUME NEW d \in 2 .. k - 1, k % d = 0 PROVE FALSE
    BY <1>1, SMTT(60) DEF Work!Prime
  <2>1. d \in Nat /\ d < k
    BY <1>1
  <2>2. d >= k \div 2
    BY <1>1, <1>3, <2>1 DEF Mark
  <2>3. k = 2 * d
    BY <1>1, <2>1, <2>2, LargeDivisor
  <2>4. k % 2 = 0 /\ 2 \in 2 .. (k \div 2) - 1
    BY <1>1, <2>1, <2>3
  <2> QED BY <1>3, <2>4 DEF Mark
<1> QED BY <1>2, <1>3

-----------------------------------------------------------------------------
(* The prime searches *)

\* The numbers main has put into num.
HandedOut ==
    {k \in Numbers :
       \/ at[PoolMain] \in {"lock", "test"} /\ k < it
       \/ at[PoolMain] \in {"tell", "unlock"} /\ k <= it
       \/ at[PoolMain] \in {"end_lock", "end_test", "end_tell", "end_unlock", "sleep", "woken",
                            "join", "exited"}}

\* Thread t has taken a number that it has not tested yet.
HasNumber(t) == at[t] \in {"tell", "unlock", "compute"}

\* Who is between lock and unlock has the mutex.
MutexInv ==
    /\ \A t \in PoolThreads : at[t] \in {"test", "tell", "unlock", "over"} => mut_num = t
    /\ at[PoolMain] \in {"test", "tell", "unlock", "end_test", "end_tell", "end_unlock"} =>
          mut_num = PoolMain

\* Where main is, and what that says of the threads and of num.
PoolMainInv ==
    /\ at[PoolMain] \notin {"none", "compute", "over"}
    /\ at[PoolMain] = "create" => it < THRNUM /\ \A t \in PoolThreads : at[t] = "none" <=> t > it
    /\ at[PoolMain] \in {"lock", "test", "tell", "unlock"} => it \in Numbers
    /\ at[PoolMain] \notin {"create", "failed"} => \A t \in PoolThreads : at[t] # "none"
    /\ at[PoolMain] \in {"end_tell", "end_unlock", "join", "exited"} <=> num = -1
    /\ at[PoolMain] = "join" => it <= THRNUM /\ \A t \in PoolThreads : t <= it => at[t] = "exited"
    /\ at[PoolMain] = "exited" => \A t \in PoolThreads : at[t] = "exited"

PoolThreadInv ==
    \A t \in PoolThreads :
       /\ at[t] \in {"none", "lock", "test", "tell", "unlock", "sleep", "woken", "compute",
                     "over", "exited"}
       /\ at[t] \in {"over", "exited"} => num = -1
       /\ HasNumber(t) => got[t] \in Numbers

\* A number that has been put is in num, with one thread, or tested, and
\* nowhere twice; one that has not is nowhere.
NumbersInv ==
    /\ \A k \in Numbers : tested[k] \in {0, 1}
    /\ \A k \in Numbers : tested[k] = 1 => k \in HandedOut
    /\ num \in Numbers => num \in HandedOut /\ tested[num] = 0
    /\ \A t \in PoolThreads : HasNumber(t) =>
          got[t] \in HandedOut /\ tested[got[t]] = 0 /\ got[t] # num
    /\ \A t, u \in PoolThreads : t # u /\ HasNumber(t) /\ HasNumber(u) => got[t] # got[u]
    /\ \A k \in Numbers : k \in HandedOut =>
          \/ tested[k] = 1
          \/ num = k
          \/ \E t \in PoolThreads : HasNumber(t) /\ got[t] = k

TestedOK == tested \in [Numbers -> Nat]

PoolControl == PoolTypeOK /\ TestedOK /\ MutexInv /\ PoolMainInv /\ PoolThreadInv

PoolInv == PoolControl /\ NumbersInv

\* The thread or child that tests the number k.
TesterOf(k) == (k - LEFT) % Stride

\* Each child has tested those of its numbers that come before the one it is at.
SharesInv ==
    /\ \A c \in Created : child[c] # "none" =>
          ci[c] >= LEFT /\ TesterOf(ci[c]) = c
    /\ \A k \in Numbers :
          tested[k] = IF child[TesterOf(k)] # "none" /\ k < ci[TesterOf(k)] THEN 1 ELSE 0
    /\ \A c \in Created : child[c] \in {"ended", "gone"} => ci[c] > RIGHT

\* Main makes the children one by one, and waits for all of them.
ChildrenInv ==
    /\ \A c \in Children \ Created : child[c] = "none"
    /\ spc \in {"create", "fork"} =>
          /\ n \in Created
          /\ \A c \in Created : child[c] # "gone" /\ (child[c] = "none" <=> c >= n)
    /\ spc = "wait" =>
          /\ \A c \in Created : child[c] # "none"
          /\ program # "primerN" => n <= Stride
    /\ spc = "wait" /\ UsesThreads => \A c \in Created : c < n => child[c] = "gone"
    /\ spc = "wait" /\ ~UsesThreads /\ n <= Stride =>
          Cardinality({c \in Created : child[c] = "gone"}) = n
    /\ spc = "wait" /\ n >= Stride => \A c \in Created : child[c] = "gone"
    /\ spc = "exited" /\ program # "primer1" => \A c \in Created : child[c] = "gone"

SpreadInv == SpreadTypeOK /\ TestedOK /\ SharesInv /\ ChildrenInv

WorkInv ==
    /\ program \in PoolPrograms => PoolInv
    /\ program \in SpreadPrograms => SpreadInv
    /\ program \notin PoolPrograms => at[PoolMain] = "create"
    /\ program \notin SpreadPrograms => spc # "exited"

LEMMA PoolControlKept ==
    ASSUME PoolInv, PoolNext, program' = program
    PROVE  PoolControl'
<1> USE PoolAssumption DEF PoolGoto, PoolMain, PoolThreads, NoHolder, HasNumber
<1> USE DEF PoolControl, PoolTypeOK, TestedOK, MutexInv, PoolMainInv, PoolThreadInv
<1>a. LEFT \in Nat /\ RIGHT \in Nat /\ LEFT > 4 /\ LEFT <= RIGHT /\ Numbers = LEFT .. RIGHT
  BY RangeAssumption DEF Numbers
<1>b. PoolTypeOK /\ TestedOK /\ MutexInv /\ PoolMainInv /\ PoolThreadInv /\ PoolRuns
  BY DEF PoolInv, PoolNext
<1>1. CASE CreateThread
  <2>1. it < THRNUM /\ it \in Nat /\ it + 1 \in PoolThreads /\ at[0] = "create"
    BY <1>b, <1>1 DEF CreateThread
  <2>2. at'[it + 1] = "lock" /\ at'[0] = (IF it + 1 = THRNUM THEN "lock" ELSE "create")
    BY <1>b, <1>1, <2>1 DEF CreateThread
  <2>3. \A t \in PoolThreads : t # it + 1 => at'[t] = at[t]
    BY <1>b, <1>1, <2>1 DEF CreateThread
  <2>4. PoolTypeOK'
    <3>1. it' \in Nat
      BY <1>a, <1>1, <2>1 DEF CreateThread
    <3>2. at' = [at EXCEPT ![it + 1] = "lock",
                           ![0] = IF it + 1 = THRNUM THEN "lock" ELSE "create"]
      BY <1>1 DEF CreateThread
    <3> QED BY <1>b, <1>1, <2>1, <3>1, <3>2 DEF CreateThread
  <2>5. TestedOK' /\ MutexInv' /\ PoolThreadInv'
    BY <1>a, <1>b, <1>1, <2>1, <2>2, <2>3 DEF CreateThread, testVars
  <2>6. PoolMainInv'
    <3>1. CASE it + 1 = THRNUM
      <4>1. at'[0] = "lock" /\ it' = LEFT /\ LEFT \in Numbers
        BY <1>a, <1>1, <2>2, <3>1 DEF CreateThread
      <4>2. \A t \in PoolThreads : t > it => t = it + 1
        BY <2>1, <3>1
      <4>3. \A t \in PoolThreads : at'[t] # "none"
        BY <1>b, <2>1, <2>2, <2>3, <4>2
      <4> QED BY <1>b, <1>1, <2>1, <4>1, <4>3 DEF CreateThread
    <3>2. CASE it + 1 # THRNUM
      <4>1. at'[0] = "create" /\ it' = it + 1 /\ num' = num
        BY <1>1, <2>2, <3>2 DEF CreateThread
      <4>2. \A t \in PoolThreads : t > it + 1 <=> t > it /\ t # it + 1
        BY <2>1
      <4> QED BY <1>b, <2>1, <2>2, <2>3, <3>2, <4>1, <4>2
    <3> QED BY <3>1, <3>2
  <2> QED BY <2>4, <2>5, <2>6
<1>2. CASE CreateThreadFails
  BY <1>a, <1>b, <1>2 DEF CreateThreadFails, testVars
<1>3. CASE LockNum(PoolMain)
  BY <1>a, <1>b, <1>3 DEF LockNum, testVars
<1>4. CASE MainYield
  BY <1>a, <1>b, <1>4 DEF MainYield, Yield, testVars
<1>5. CASE Put
  BY <1>a, <1>b, <1>5 DEF Put, testVars
<1>6. CASE Signal
  <2>s. \/ \E u \in PoolThreads : at[u] = "sleep" /\ at' = [at EXCEPT ![u] = "woken", ![0] = "unlock"]
        \/ at' = [at EXCEPT ![0] = "unlock"]
    BY <1>6 DEF Signal
  <2>t. at[0] = "tell" /\ UNCHANGED <<num, mut_num, it, got, tested>>
    BY <1>6 DEF Signal, testVars
  <2>1. /\ at[0] = "tell" /\ at'[0] = "unlock"
        /\ \A t \in PoolThreads : at'[t] = at[t] \/ (at[t] = "sleep" /\ at'[t] = "woken")
    BY <1>b, <2>s, <2>t, SMTT(60)
  <2>2. /\ UNCHANGED <<num, mut_num, it, got, tested>> /\ DOMAIN at' = DOMAIN at
        /\ at' = [t \in DOMAIN at |-> at'[t]]
    BY <1>b, <2>s, <2>t
  <2>3. PoolTypeOK' /\ TestedOK'
    BY <1>b, <2>1, <2>2
  <2>4. MutexInv' /\ PoolThreadInv'
    BY <1>b, <2>1, <2>2
  <2>5. PoolMainInv'
    BY <1>b, <2>1, <2>2
  <2> QED BY <2>3, <2>4, <2>5
<1>7. CASE MainUnlock
  BY <1>a, <1>b, <1>7 DEF MainUnlock, testVars
<1>8. CASE EndWait
  <2>1. at[0] = "end_test" /\ num # -1 /\ at'[0] \in {"end_lock", "sleep"} /\ mut_num' = NoHolder
    BY <1>a, <1>b, <1>8 DEF EndWait, Yield, Sleep
  <2>2. UNCHANGED <<num, it, got, tested>> /\ DOMAIN at' = DOMAIN at
        /\ at' = [t \in DOMAIN at |-> at'[t]] /\ \A t \in PoolThreads : at'[t] = at[t]
    BY <1>a, <1>b, <1>8 DEF EndWait, Yield, Sleep, testVars
  <2>3. PoolTypeOK' /\ TestedOK'
    BY <1>b, <2>1, <2>2
  <2>4. MutexInv' /\ PoolThreadInv'
    BY <1>b, <2>1, <2>2
  <2>5. PoolMainInv'
    BY <1>b, <2>1, <2>2
  <2> QED BY <2>3, <2>4, <2>5
<1>9. CASE EndPool
  BY <1>a, <1>b, <1>9 DEF EndPool, testVars
<1>10. CASE EndTell
  BY <1>a, <1>b, <1>10 DEF EndTell, TellAll, testVars
<1>11. CASE EndUnlock
  BY <1>a, <1>b, <1>11 DEF EndUnlock, testVars
<1>12. CASE JoinThread
  BY <1>a, <1>b, <1>12, SMTT(60) DEF JoinThread, testVars
<1>13. CASE PoolExit
  BY <1>a, <1>b, <1>13 DEF PoolExit, testVars
<1>14. ASSUME NEW t \in PoolThreads, LockNum(t)
      PROVE  PoolControl'
  <2>1. t # PoolMain /\ at[t] \in {"lock", "woken"} /\ mut_num = NoHolder /\ mut_num' = t
    BY <1>a, <1>b, <1>14 DEF LockNum
  <2>2. at' = [at EXCEPT ![t] = "test"]
    BY <1>14, <2>1 DEF LockNum
  <2>3. PoolTypeOK' /\ TestedOK'
    BY <1>b, <1>14, <2>1, <2>2 DEF LockNum, testVars
  <2>4. MutexInv' /\ PoolMainInv' /\ PoolThreadInv'
    BY <1>b, <1>14, <2>1, <2>2 DEF LockNum
  <2> QED BY <2>3, <2>4
<1>15. ASSUME NEW t \in PoolThreads, NoneYet(t)
      PROVE  PoolControl'
  <2>1. t # PoolMain /\ at[t] = "test" /\ mut_num' = NoHolder
    BY <1>a, <1>15 DEF NoneYet, Yield, Sleep
  <2>2. at' = [at EXCEPT ![t] = "lock"] \/ at' = [at EXCEPT ![t] = "sleep"]
    BY <1>15 DEF NoneYet, Yield, Sleep
  <2>3. UNCHANGED <<num, it, got, tested>>
    BY <1>15 DEF NoneYet, Yield, Sleep, testVars
  <2>4. PoolTypeOK' /\ TestedOK'
    BY <1>b, <2>1, <2>2, <2>3
  <2>5. at'[t] \in {"lock", "sleep"} /\ \A u \in Nat : u # t /\ u \in DOMAIN at => at'[u] = at[u]
    BY <1>b, <2>1, <2>2
  <2>6. MutexInv'
    BY <1>b, <2>1, <2>5
  <2>7. PoolMainInv'
    BY <1>b, <2>1, <2>3, <2>5
  <2>8. PoolThreadInv'
    BY <1>b, <2>1, <2>3, <2>5, SMTT(60)
  <2> QED BY <2>4, <2>6, <2>7, <2>8
<1>16. ASSUME NEW t \in PoolThreads, TakeNum(t)
      PROVE  PoolControl'
  BY <1>a, <1>b, <1>16 DEF TakeNum, testVars
<1>17. ASSUME NEW t \in PoolThreads, TellTaken(t)
      PROVE  PoolControl'
  BY <1>a, <1>b, <1>17 DEF TellTaken, TellAll, testVars
<1>18. ASSUME NEW t \in PoolThreads, UnlockTaken(t)
      PROVE  PoolControl'
  BY <1>a, <1>b, <1>18, SMTT(60) DEF UnlockTaken, Yield, testVars
<1>19. ASSUME NEW t \in PoolThreads, SeeOver(t)
      PROVE  PoolControl'
  BY <1>a, <1>b, <1>19 DEF SeeOver, testVars
<1>20. ASSUME NEW t \in PoolThreads, UnlockOver(t)
      PROVE  PoolControl'
  BY <1>a, <1>b, <1>20 DEF UnlockOver, Yield, testVars
<1>21. ASSUME NEW t \in PoolThreads, Compute(t)
      PROVE  PoolControl'
  BY <1>a, <1>b, <1>21, SMTT(60) DEF Compute, TestNumber, testVars
<1>22. ASSUME NEW t \in PoolThreads \cup {PoolMain}, WakeNum(t)
      PROVE  PoolControl'
  BY <1>a, <1>b, <1>22 DEF WakeNum, testVars
<1> QED
  BY <1>1, <1>2, <1>3, <1>4, <1>5, <1>6, <1>7, <1>8, <1>9, <1>10, <1>11, <1>12, <1>13, <1>14, <1>15, <1>16, <1>17, <1>18, <1>19, <1>20, <1>21, <1>22
     DEF PoolNext, PoolMainStep, PoolThreadStep

\* Most steps leave every number where it is.
NumbersStay ==
    /\ UNCHANGED <<tested, got>>
    /\ num' = num \/ (num \notin Numbers /\ num' \notin Numbers)
    /\ HandedOut' = HandedOut
    /\ \A t \in PoolThreads : HasNumber(t)' <=> HasNumber(t)

LEMMA StayKept ==
    ASSUME NumbersInv, PoolThreadInv, NumbersStay
    PROVE  NumbersInv'
<1> USE DEF NumbersInv, NumbersStay, PoolThreadInv
<1>1. (\A k \in Numbers : tested[k] \in {0, 1} /\ (tested[k] = 1 => k \in HandedOut))'
  OBVIOUS
<1>2. (num \in Numbers => num \in HandedOut /\ tested[num] = 0)'
  OBVIOUS
<1>3. (\A t \in PoolThreads : HasNumber(t) =>
          got[t] \in HandedOut /\ tested[got[t]] = 0 /\ got[t] # num)'
  OBVIOUS
<1>4. (\A t, u \in PoolThreads : t # u /\ HasNumber(t) /\ HasNumber(u) => got[t] # got[u])'
  OBVIOUS
<1>5. (\A k \in Numbers : k \in HandedOut =>
          tested[k] = 1 \/ num = k \/ \E t \in PoolThreads : HasNumber(t) /\ got[t] = k)'
  OBVIOUS
<1> QED BY <1>1, <1>2, <1>3, <1>4, <1>5

LEMMA StepsStay ==
    ASSUME PoolInv, PoolNext, PoolControl', program' = program
    PROVE  \/ NumbersStay
           \/ Put
           \/ \E t \in PoolThreads : TakeNum(t) \/ Compute(t)
<1> USE DEF PoolGoto, PoolMain, PoolThreads, NoHolder, HasNumber, HandedOut, NumbersStay
<1>a. LEFT \in Nat /\ RIGHT \in Nat /\ LEFT > 4 /\ LEFT <= RIGHT /\ Numbers = LEFT .. RIGHT
  BY RangeAssumption DEF Numbers
<1>b. PoolTypeOK /\ PoolMainInv /\ PoolThreadInv /\ 0 \notin PoolThreads /\ THRNUM \in Nat
  BY PoolAssumption DEF PoolInv, PoolControl
<1> USE DEF PoolTypeOK, PoolMainInv, PoolThreadInv
<1>1. CASE CreateThread
  BY <1>a, <1>b, <1>1, SMTT(60) DEF CreateThread, testVars
<1>2. CASE CreateThreadFails
  BY <1>a, <1>b, <1>2 DEF CreateThreadFails, testVars
<1>3. CASE LockNum(PoolMain)
  BY <1>a, <1>b, <1>3 DEF LockNum, testVars
<1>4. CASE MainYield
  BY <1>a, <1>b, <1>4 DEF MainYield, Yield, testVars
<1>5. CASE Signal
  BY <1>a, <1>b, <1>5 DEF Signal, testVars
<1>6. CASE MainUnlock
  BY <1>a, <1>b, <1>6 DEF MainUnlock, testVars
<1>7. CASE EndWait
  BY <1>a, <1>b, <1>7 DEF EndWait, Yield, Sleep, testVars
<1>8. CASE EndPool
  BY <1>a, <1>b, <1>8 DEF EndPool, testVars
<1>9. CASE EndTell
  BY <1>a, <1>b, <1>9 DEF EndTell, TellAll, testVars
<1>10. CASE EndUnlock
  BY <1>a, <1>b, <1>10 DEF EndUnlock, testVars
<1>11. CASE JoinThread
  BY <1>a, <1>b, <1>11 DEF JoinThread, testVars
<1>12. CASE PoolExit
  BY <1>a, <1>b, <1>12 DEF PoolExit, testVars
<1>13. ASSUME NEW t \in PoolThreads, LockNum(t)
      PROVE  NumbersStay
  BY <1>a, <1>b, <1>13 DEF LockNum, testVars
<1>14. ASSUME NEW t \in PoolThreads, NoneYet(t)
      PROVE  NumbersStay
  BY <1>a, <1>b, <1>14, SMTT(60) DEF NoneYet, Yield, Sleep, testVars
<1>15. ASSUME NEW t \in PoolThreads, TellTaken(t)
      PROVE  NumbersStay
  BY <1>a, <1>b, <1>15 DEF TellTaken, TellAll, testVars
<1>16. ASSUME NEW t \in PoolThreads, UnlockTaken(t)
      PROVE  NumbersStay
  BY <1>a, <1>b, <1>16 DEF UnlockTaken, Yield, testVars
<1>17. ASSUME NEW t \in PoolThreads, SeeOver(t)
      PROVE  NumbersStay
  BY <1>a, <1>b, <1>17 DEF SeeOver, testVars
<1>18. ASSUME NEW t \in PoolThreads, UnlockOver(t)
      PROVE  NumbersStay
  BY <1>a, <1>b, <1>18 DEF UnlockOver, Yield, testVars
<1>19. ASSUME NEW t \in PoolThreads \cup {PoolMain}, WakeNum(t)
      PROVE  NumbersStay
  BY <1>a, <1>b, <1>19 DEF WakeNum, testVars
<1> QED
  BY <1>1, <1>2, <1>3, <1>4, <1>5, <1>6, <1>7, <1>8, <1>9, <1>10, <1>11, <1>12, <1>13, <1>14, <1>15, <1>16, <1>17, <1>18, <1>19
     DEF PoolNext, PoolMainStep, PoolThreadStep

\* Main puts the next number into num, which is empty.
LEMMA PutKept ==
    ASSUME PoolInv, PoolControl', Put
    PROVE  NumbersInv'
<1> USE DEF PoolMain, HasNumber, PoolGoto
<1>1. /\ at[0] = "test" /\ num = 0 /\ num' = it /\ it \in Numbers
      /\ UNCHANGED <<it, got, tested>>
      /\ at' = [at EXCEPT ![0] = "tell"] \/ at' = [at EXCEPT ![0] = "unlock"]
      /\ at'[0] \in {"tell", "unlock"}
  BY DEF Put, testVars, PoolInv, PoolControl, PoolMainInv, PoolTypeOK
<1>2. Numbers \subseteq Int /\ 0 \notin Numbers
  BY RangeAssumption DEF Numbers
<1>3. \A k \in Numbers : k \in HandedOut <=> k < it
  BY <1>1 DEF HandedOut
<1>4. \A k \in Numbers : k \in HandedOut' <=> k <= it
  BY <1>1 DEF HandedOut
<1>5. 0 \notin PoolThreads /\ \A t \in PoolThreads : at'[t] = at[t]
  BY <1>1 DEF PoolThreads, PoolInv, PoolControl, PoolTypeOK
<1>6. (\A t \in PoolThreads : HasNumber(t) => got[t] \in Numbers) /\ NumbersInv
  BY DEF PoolInv, PoolControl, PoolThreadInv
<1> HIDE DEF PoolMain
<1>7. \A k \in Numbers : tested[k] = 1 => k < it
  BY <1>3, <1>6 DEF NumbersInv
<1>8. \A t \in PoolThreads : HasNumber(t) => got[t] < it /\ tested[got[t]] = 0
  BY <1>3, <1>6 DEF NumbersInv
<1>9. (\A k \in Numbers : tested[k] \in {0, 1} /\ (tested[k] = 1 => k \in HandedOut))'
  BY <1>1, <1>2, <1>4, <1>6, <1>7 DEF NumbersInv
<1>10. tested[it] = 0
  BY <1>1, <1>2, <1>6, <1>7 DEF NumbersInv
<1>11. (num \in Numbers => num \in HandedOut /\ tested[num] = 0)'
  BY <1>1, <1>2, <1>4, <1>10
<1>12. (\A t \in PoolThreads : HasNumber(t) =>
          got[t] \in HandedOut /\ tested[got[t]] = 0 /\ got[t] # num)'
  <2> SUFFICES ASSUME NEW t \in PoolThreads, HasNumber(t)
               PROVE  got[t] \in HandedOut' /\ tested[got[t]] = 0 /\ got[t] # it
    BY <1>1, <1>5
  <2>1. got[t] \in Numbers /\ got[t] < it /\ tested[got[t]] = 0
    BY <1>6, <1>8
  <2>2. got[t] \in Int /\ it \in Int
    BY <1>1, <1>2, <2>1
  <2> QED BY <1>4, <2>1, <2>2
<1>13. (\A t, u \in PoolThreads : t # u /\ HasNumber(t) /\ HasNumber(u) => got[t] # got[u])'
  BY <1>1, <1>5, <1>6 DEF NumbersInv
<1>14. (\A k \in Numbers : k \in HandedOut =>
          tested[k] = 1 \/ num = k \/ \E t \in PoolThreads : HasNumber(t) /\ got[t] = k)'
  <2> SUFFICES ASSUME NEW k \in Numbers, k <= it, k # it
               PROVE  \/ tested[k] = 1
                      \/ \E t \in PoolThreads : at'[t] \in {"tell", "unlock", "compute"} /\ got[t] = k
    BY <1>1, <1>4
  <2> QED BY <1>1, <1>2, <1>3, <1>5, <1>6 DEF NumbersInv
<1> QED BY <1>9, <1>11, <1>12, <1>13, <1>14 DEF NumbersInv

\* A thread takes the number from num.
LEMMA TakeKept ==
    ASSUME PoolInv, PoolControl', NEW t \in PoolThreads, TakeNum(t)
    PROVE  NumbersInv'
<1> USE DEF HasNumber, PoolGoto
<1>1. /\ at[t] = "test" /\ num \in Numbers /\ num' = 0
      /\ UNCHANGED <<it, tested>>
      /\ got' = [got EXCEPT ![t] = num] /\ at'[t] \in {"tell", "unlock"} /\ at'[0] = at[0]
      /\ \A u \in PoolThreads \ {t} : at'[u] = at[u]
  BY DEF TakeNum, testVars, PoolInv, PoolControl, PoolTypeOK, PoolThreads, PoolMain
<1>2. HandedOut' = HandedOut
  BY <1>1 DEF HandedOut, PoolMain
<1>3. 0 \notin Numbers
  BY RangeAssumption DEF Numbers
<1>4. got'[t] = num /\ \A u \in PoolThreads \ {t} : got'[u] = got[u]
  BY <1>1 DEF PoolInv, PoolControl, PoolTypeOK
<1>5. (\A u \in PoolThreads : HasNumber(u) => got[u] \in Numbers) /\ NumbersInv
  BY DEF PoolInv, PoolControl, PoolThreadInv
<1>6. num \in HandedOut /\ tested[num] = 0
  BY <1>1, <1>5 DEF NumbersInv
<1>7. (\A k \in Numbers : tested[k] \in {0, 1} /\ (tested[k] = 1 => k \in HandedOut))'
  BY <1>1, <1>2, <1>5 DEF NumbersInv
<1>8. (num \in Numbers => num \in HandedOut /\ tested[num] = 0)'
  BY <1>1, <1>3
<1>9. \A u \in PoolThreads : HasNumber(u)' =>
          got'[u] \in HandedOut' /\ tested'[got'[u]] = 0 /\ got'[u] # num'
  <2> SUFFICES ASSUME NEW u \in PoolThreads, HasNumber(u)'
               PROVE  got'[u] \in HandedOut /\ tested[got'[u]] = 0 /\ got'[u] # 0
    BY <1>1, <1>2
  <2>1. CASE u = t
    BY <1>1, <1>3, <1>4, <1>6, <2>1
  <2>2. CASE u # t
    BY <1>1, <1>3, <1>4, <1>5, <2>2 DEF NumbersInv
  <2> QED BY <2>1, <2>2
<1>10. (\A u, v \in PoolThreads : u # v /\ HasNumber(u) /\ HasNumber(v) => got[u] # got[v])'
  BY <1>1, <1>4, <1>5 DEF NumbersInv
<1>11. (\A k \in Numbers : k \in HandedOut =>
          tested[k] = 1 \/ num = k \/ \E u \in PoolThreads : HasNumber(u) /\ got[u] = k)'
  <2> SUFFICES ASSUME NEW k \in Numbers, k \in HandedOut, tested[k] # 1
               PROVE  \E u \in PoolThreads : at'[u] \in {"tell", "unlock", "compute"} /\ got'[u] = k
    BY <1>1, <1>2
  <2>1. CASE num = k
    BY <1>1, <1>4, <2>1
  <2>2. ASSUME NEW u \in PoolThreads, HasNumber(u), got[u] = k
        PROVE  \E v \in PoolThreads : at'[v] \in {"tell", "unlock", "compute"} /\ got'[v] = k
    BY <1>1, <1>4, <2>2
  <2> QED BY <1>5, <2>1, <2>2 DEF NumbersInv
<1> QED BY <1>7, <1>8, <1>9, <1>10, <1>11 DEF NumbersInv

\* A thread tests the number it has, which nobody else has.
LEMMA ComputeKept ==
    ASSUME PoolInv, PoolControl', NEW t \in PoolThreads, Compute(t)
    PROVE  /\ NumbersInv'
           /\ got[t] \in Numbers /\ tested[got[t]] = 0
<1> USE DEF HasNumber, PoolGoto
<1>1. /\ at[t] = "compute" /\ UNCHANGED <<num, it, got>>
      /\ tested' = [tested EXCEPT ![got[t]] = @ + 1]
      /\ at'[t] = "lock" /\ at'[0] = at[0]
      /\ \A u \in PoolThreads \ {t} : at'[u] = at[u]
  BY DEF Compute, TestNumber, PoolInv, PoolControl, PoolTypeOK, PoolThreads, PoolMain
<1>2. HandedOut' = HandedOut
  BY <1>1 DEF HandedOut, PoolMain
<1>3. /\ \A u \in PoolThreads : HasNumber(u) => got[u] \in Numbers
      /\ NumbersInv /\ TestedOK
  BY DEF PoolInv, PoolControl, PoolThreadInv
<1>4. got[t] \in Numbers /\ tested[got[t]] = 0 /\ got[t] \in HandedOut /\ got[t] # num
  BY <1>1, <1>3 DEF NumbersInv
<1>5. tested'[got[t]] = 1 /\ \A k \in Numbers \ {got[t]} : tested'[k] = tested[k]
  BY <1>1, <1>3, <1>4 DEF TestedOK
<1>6. \A u \in PoolThreads \ {t} : HasNumber(u) => got[u] # got[t]
  BY <1>1, <1>3 DEF NumbersInv
<1>7. (\A k \in Numbers : tested[k] \in {0, 1} /\ (tested[k] = 1 => k \in HandedOut))'
  BY <1>2, <1>3, <1>4, <1>5 DEF NumbersInv
<1>8. (num \in Numbers => num \in HandedOut /\ tested[num] = 0)'
  BY <1>1, <1>2, <1>3, <1>4, <1>5 DEF NumbersInv
<1>9. (\A u \in PoolThreads : HasNumber(u) =>
          got[u] \in HandedOut /\ tested[got[u]] = 0 /\ got[u] # num)'
  BY <1>1, <1>2, <1>3, <1>5, <1>6 DEF NumbersInv
<1>10. (\A u, v \in PoolThreads : u # v /\ HasNumber(u) /\ HasNumber(v) => got[u] # got[v])'
  BY <1>1, <1>3 DEF NumbersInv
<1>11. (\A k \in Numbers : k \in HandedOut =>
          tested[k] = 1 \/ num = k \/ \E u \in PoolThreads : HasNumber(u) /\ got[u] = k)'
  <2> SUFFICES ASSUME NEW k \in Numbers, k \in HandedOut, tested'[k] # 1, num # k
               PROVE  \E u \in PoolThreads : at'[u] \in {"tell", "unlock", "compute"} /\ got[u] = k
    BY <1>1, <1>2
  <2>1. k # got[t] /\ tested[k] # 1
    BY <1>5
  <2>2. PICK u \in PoolThreads : HasNumber(u) /\ got[u] = k
    BY <1>3, <2>1 DEF NumbersInv
  <2> QED BY <1>1, <2>1, <2>2
<1> QED BY <1>4, <1>7, <1>8, <1>9, <1>10, <1>11 DEF NumbersInv

\* What a step of the pool keeps, and what it is in the eyes of PrimeWork.
LEMMA PoolKept ==
    ASSUME PoolInv, PoolNext, program' = program
    PROVE  /\ PoolInv'
           /\ \/ UNCHANGED <<tested, printed>> /\ (at'[PoolMain] = "exited" => PoolExit)
              \/ \E t \in PoolThreads : Compute(t) /\ got[t] \in Numbers /\ tested[got[t]] = 0
<1>1. PoolControl'
  BY PoolControlKept
<1>2. NumbersInv'
  <2>1. NumbersStay \/ Put \/ \E t \in PoolThreads : TakeNum(t) \/ Compute(t)
    BY <1>1, StepsStay
  <2> QED BY <1>1, <2>1, StayKept, PutKept, TakeKept, ComputeKept DEF PoolInv, PoolControl
<1>3. \A t \in PoolThreads : Compute(t) => got[t] \in Numbers /\ tested[got[t]] = 0
  BY <1>1, ComputeKept
<1>4. ASSUME \A t \in PoolThreads : ~Compute(t)
      PROVE  UNCHANGED <<tested, printed>> /\ (at'[PoolMain] = "exited" => PoolExit)
  <2>1. at = [t \in PoolThreads \cup {PoolMain} |-> at[t]] /\ at[PoolMain] # "exited"
        /\ PoolMain \notin PoolThreads
    BY DEF PoolInv, PoolControl, PoolTypeOK, PoolNext, PoolRuns, PoolMain, PoolThreads
  <2> USE DEF PoolGoto, testVars
  <2>2. CASE PoolMainStep /\ ~LockNum(PoolMain)
    BY <2>1, <2>2 DEF PoolMainStep, CreateThread, CreateThreadFails, MainYield, Yield, Put, Signal,
          MainUnlock, EndWait, Sleep, EndPool, EndTell, TellAll, EndUnlock, JoinThread, PoolExit
  <2>3. ASSUME NEW t \in PoolThreads, PoolThreadStep(t) PROVE UNCHANGED <<tested, printed>> /\ at'[PoolMain] # "exited"
    BY <1>4, <2>1, <2>3 DEF PoolThreadStep, LockNum, NoneYet, Yield, Sleep, TakeNum, TellTaken, TellAll,
          UnlockTaken, SeeOver, UnlockOver
  <2>4. ASSUME NEW t \in PoolThreads \cup {PoolMain}, WakeNum(t) \/ LockNum(t)
        PROVE  UNCHANGED <<tested, printed>> /\ at'[PoolMain] # "exited"
    BY <2>1, <2>4 DEF WakeNum, LockNum
  <2> QED BY <2>2, <2>3, <2>4 DEF PoolNext
<1> QED BY <1>1, <1>2, <1>3, <1>4 DEF PoolInv

\* Remainders, by which the numbers are shared out.
LEMMA Remainders ==
    ASSUME NEW s \in Nat \ {0}, NEW a \in Nat
    PROVE  /\ a % s \in 0 .. s - 1
           /\ a < s => a % s = a
           /\ (a + s) % s = a % s
           /\ \A b \in Nat : b % s = a % s /\ a <= b /\ b < a + s => b = a
<1>1. a % s \in 0 .. s - 1 /\ a \div s \in Nat /\ a = s * (a \div s) + (a % s)
  OBVIOUS
<1>2. ASSUME a < s PROVE a % s = a
  <2>1. CASE a \div s >= 1
    <3>1. s * (a \div s) >= s
      BY <2>1, <1>1
    <3> QED BY <1>1, <1>2, <3>1
  <2>2. CASE a \div s = 0
    BY <1>1, <2>2
  <2> QED BY <1>1, <2>1, <2>2
<1>3. ASSUME NEW b \in Nat, b % s = a % s, a <= b, b < a + s PROVE b = a
  <2>1. b \div s \in Nat /\ b = s * (b \div s) + (b % s)
    OBVIOUS
  <2> DEFINE q == (b \div s) - (a \div s)
  <2>2. q \in Int /\ s * q = b - a
    BY <1>1, <1>3, <2>1
  <2>3. CASE q >= 1
    <3>1. s * q >= s
      BY <2>2, <2>3
    <3> QED BY <1>3, <2>2, <3>1
  <2>4. CASE q <= -1
    <3>1. s * q <= -s
      BY <2>2, <2>4
    <3> QED BY <1>3, <2>2, <3>1
  <2>5. CASE q = 0
    BY <2>2, <2>5
  <2> HIDE DEF q
  <2> QED BY <2>2, <2>3, <2>4, <2>5
<1>4. (a + s) % s = a % s
  <2> DEFINE e == (a + s) \div s
             r == (a + s) % s
             d == a \div s
             q == a % s
  <2>1. r \in 0 .. s - 1 /\ e \in Nat /\ a + s = s * e + r
    OBVIOUS
  <2>2. q \in 0 .. s - 1 /\ d \in Nat /\ a = s * d + q
    BY <1>1
  <2> HIDE DEF e, r, d, q
  <2>3. s * (e - d - 1) = q - r
    BY <2>1, <2>2
  <2>4. CASE e - d - 1 >= 1
    <3>1. s * (e - d - 1) >= s
      BY <2>1, <2>2, <2>4
    <3> QED BY <2>1, <2>2, <2>3, <3>1
  <2>5. CASE e - d - 1 <= -1
    <3>1. s * (e - d - 1) <= -s
      BY <2>1, <2>2, <2>5
    <3> QED BY <2>1, <2>2, <2>3, <3>1
  <2>6. CASE e - d - 1 = 0
    BY <2>1, <2>2, <2>3, <2>6
  <2>7. r = q
    BY <2>1, <2>2, <2>4, <2>5, <2>6
  <2> QED BY <2>7 DEF r, q
<1> QED BY <1>1, <1>2, <1>3, <1>4

\* The numbers, who tests them, and how far apart two of one tester are.
LEMMA SharesFacts ==
    /\ Stride \in Nat \ {0} /\ Stride <= RIGHT - LEFT + 1
    /\ Created \subseteq Children
    /\ \A k \in Nat : k >= LEFT =>
          /\ TesterOf(k) \in Created
          /\ TesterOf(k + Stride) = TesterOf(k)
          /\ \A j \in Nat : TesterOf(j) = TesterOf(k) /\ k <= j /\ j < k + Stride => j = k
    /\ \A c \in Created : TesterOf(LEFT + c) = c
<1>1. LEFT \in Nat /\ RIGHT \in Nat /\ LEFT <= RIGHT /\ N \in 1 .. RIGHT - LEFT + 1
  BY RangeAssumption, SpreadAssumption
<1>2. Stride \in Nat \ {0} /\ Stride <= RIGHT - LEFT + 1
  BY <1>1 DEF Stride
<1>3. Created \subseteq Children
  BY <1>1, <1>2 DEF Created, Children
<1>4. ASSUME NEW k \in Nat, k >= LEFT
      PROVE  /\ TesterOf(k) \in Created
             /\ TesterOf(k + Stride) = TesterOf(k)
             /\ \A j \in Nat : TesterOf(j) = TesterOf(k) /\ k <= j /\ j < k + Stride => j = k
  <2> DEFINE a == k - LEFT
  <2>1. a \in Nat /\ (k + Stride) - LEFT = a + Stride
    BY <1>1, <1>2, <1>4
  <2>2. a % Stride \in Created /\ (a + Stride) % Stride = a % Stride
    BY <1>2, <2>1, Remainders DEF Created
  <2>3. ASSUME NEW j \in Nat, TesterOf(j) = TesterOf(k), k <= j, j < k + Stride PROVE j = k
    <3>1. j - LEFT \in Nat /\ a <= j - LEFT /\ j - LEFT < a + Stride
      BY <1>1, <1>2, <1>4, <2>3
    <3>2. (j - LEFT) % Stride = a % Stride
      BY <2>3 DEF TesterOf
    <3>3. j - LEFT = a
      BY <1>2, <2>1, <3>1, <3>2, Remainders
    <3> QED BY <1>1, <3>3
  <2>4. TesterOf(k) = a % Stride
    BY DEF TesterOf
  <2>5. TesterOf(k + Stride) = (a + Stride) % Stride
    <3>1. TesterOf(k + Stride) = ((k + Stride) - LEFT) % Stride
      BY DEF TesterOf
    <3> QED BY <2>1, <3>1, Zenon
  <2> QED BY <2>2, <2>3, <2>4, <2>5
<1>5. ASSUME NEW c \in Created PROVE TesterOf(LEFT + c) = c
  <2>1. c \in Nat /\ c < Stride /\ (LEFT + c) - LEFT = c
    BY <1>1, <1>2 DEF Created
  <2>2. c % Stride = c
    BY <1>2, <2>1, Remainders
  <2>3. TesterOf(LEFT + c) = ((LEFT + c) - LEFT) % Stride
    BY DEF TesterOf
  <2> QED BY <2>1, <2>2, <2>3, Zenon
<1> QED BY <1>2, <1>3, <1>4, <1>5

\* The children are as many as there are numbers for, and can be counted.
LEMMA CreatedFinite ==
    /\ IsFiniteSet(Created) /\ Cardinality(Created) = Stride
    /\ \A S \in SUBSET Created :
          /\ IsFiniteSet(S) /\ Cardinality(S) \in Nat
          /\ Cardinality(S) = Stride => S = Created
<1>1. Stride \in Nat \ {0}
  BY SharesFacts
<1>2. IsFiniteSet(Created) /\ Cardinality(Created) = Stride
  BY <1>1, FS_Interval DEF Created
<1>3. ASSUME NEW S \in SUBSET Created
      PROVE  /\ IsFiniteSet(S) /\ Cardinality(S) \in Nat
             /\ Cardinality(S) = Stride => S = Created
  BY <1>2, <1>3, FS_Subset, FS_CardinalityType
<1> QED BY <1>2, <1>3

\* The steps of main leave what has been tested, and what each child is at.
LEMMA SpreadMainKept ==
    ASSUME SpreadInv, SpreadMain, program' = program
    PROVE  SpreadInv' /\ UNCHANGED <<tested, printed>>
<1> USE DEF SpreadTypeOK, testVars
<1>1. /\ SpreadTypeOK /\ TestedOK /\ SharesInv /\ ChildrenInv
      /\ LEFT \in Nat /\ RIGHT \in Nat /\ LEFT <= RIGHT
  BY RangeAssumption DEF SpreadInv
<1>2. Stride' = Stride /\ Created' = Created /\ (UsesThreads' <=> UsesThreads)
      /\ \A k : TesterOf(k)' = TesterOf(k)
  BY DEF Stride, Created, UsesThreads, TesterOf
<1>3. Stride \in Nat \ {0} /\ Created = 0 .. Stride - 1 /\ Created \subseteq Children
  BY SharesFacts DEF Created
<1>4. UNCHANGED <<tested, printed>> /\ TestedOK'
  BY <1>1 DEF SpreadMain, Allocate, Fork, ForkFails, Join, Reap, ReapNone, SpreadExit, TestedOK
<1>5. ASSUME ci' = ci,
             \A c \in Created : (child'[c] = "none" <=> child[c] = "none")
                  /\ (child'[c] \in {"ended", "gone"} => child[c] \in {"ended", "gone"})
      PROVE  SharesInv'
  <2>1. \A k \in Numbers : TesterOf(k) \in Created
    BY RangeAssumption, SharesFacts DEF Numbers
  <2> QED BY <1>1, <1>2, <1>4, <1>5, <2>1 DEF SharesInv
<1>6. CASE Allocate \/ ForkFails
  <2>1. UNCHANGED <<n, child, ci>>
    BY <1>6 DEF Allocate, ForkFails
  <2>2. SpreadTypeOK'
    BY <1>1, <1>6 DEF Allocate, ForkFails
  <2>3. ChildrenInv'
    BY <1>1, <1>2, <1>6, <2>1 DEF Allocate, ForkFails, ChildrenInv
  <2> QED BY <1>4, <1>5, <2>1, <2>2, <2>3 DEF SpreadInv
<1>7. CASE Fork
  <2>1. /\ spc = "fork" /\ n \in Created /\ n \in Children
        /\ child' = [child EXCEPT ![n] = "testing"] /\ ci' = [ci EXCEPT ![n] = LEFT + n]
        /\ \A c \in Created : child[c] # "gone" /\ (child[c] = "none" <=> c >= n)
    BY <1>1, <1>3, <1>7 DEF Fork, ChildrenInv
  <2>2. /\ child'[n] = "testing" /\ ci'[n] = LEFT + n
        /\ \A c \in Children \ {n} : child'[c] = child[c] /\ ci'[c] = ci[c]
    BY <1>1, <2>1
  <2>3. SpreadTypeOK'
    <3>1. LEFT + n \in Nat
      BY <1>1, <1>3, <2>1
    <3>2. spc' \in {"create", "fork", "wait", "exited"} /\ n' \in Nat
      BY <1>1, <1>7 DEF Fork
    <3> QED BY <1>1, <1>7, <2>1, <3>1, <3>2 DEF Fork
  <2>4. SharesInv'
    <3>1. \A c \in Created : child'[c] # "none" => ci'[c] >= LEFT /\ TesterOf(ci'[c]) = c
      <4>1. TesterOf(LEFT + n) = n /\ LEFT + n >= LEFT
        BY <1>1, <1>3, <2>1, SharesFacts
      <4> QED BY <1>1, <1>3, <2>2, <4>1 DEF SharesInv
    <3>2. ASSUME NEW k \in Numbers
          PROVE  tested[k] = IF child'[TesterOf(k)] # "none" /\ k < ci'[TesterOf(k)] THEN 1 ELSE 0
      <4>1. TesterOf(k) \in Created /\ k \in Nat /\ k >= LEFT
        BY RangeAssumption, SharesFacts DEF Numbers
      <4>2. CASE TesterOf(k) = n
        <5>1. tested[k] = 0
          BY <1>1, <1>3, <2>1, <4>2 DEF SharesInv
        <5>2. ASSUME k < LEFT + n PROVE FALSE
          <6>1. k - LEFT \in Nat /\ k = LEFT + (k - LEFT) /\ k - LEFT < n
            BY <1>1, <1>3, <2>1, <4>1, <5>2
          <6>2. k - LEFT \in Created
            BY <1>3, <2>1, <6>1
          <6>3. TesterOf(LEFT + (k - LEFT)) = k - LEFT
            BY <6>2, SharesFacts
          <6>4. TesterOf(k) = k - LEFT
            BY <6>1, <6>3
          <6> QED BY <1>3, <2>1, <4>2, <6>1, <6>4
        <5> QED BY <2>2, <4>2, <5>1, <5>2
      <4>3. CASE TesterOf(k) # n
        BY <1>1, <1>3, <2>2, <4>1, <4>3 DEF SharesInv
      <4> QED BY <4>2, <4>3
    <3>3. \A c \in Created : child'[c] \in {"ended", "gone"} => ci'[c] > RIGHT
      BY <1>1, <1>3, <2>2 DEF SharesInv
    <3> QED BY <1>2, <1>4, <3>1, <3>2, <3>3 DEF SharesInv
  <2>5. ChildrenInv'
    <3>1. \A c \in Children \ Created : child'[c] = "none"
      BY <1>1, <2>1, <2>2 DEF ChildrenInv
    <3>2. \A c \in Created : child'[c] # "gone" /\ (child'[c] = "none" <=> c >= n + 1)
      <4> SUFFICES ASSUME NEW c \in Created
                   PROVE  child'[c] # "gone" /\ (child'[c] = "none" <=> c >= n + 1)
        OBVIOUS
      <4>1. c \in Nat /\ n \in Nat
        BY <1>3, <2>1
      <4>2. CASE c = n
        BY <2>2, <4>1, <4>2
      <4>3. CASE c # n
        BY <1>3, <2>1, <2>2, <4>1, <4>3
      <4> QED BY <4>2, <4>3
    <3>3. CASE n + 1 < Stride
      <4>1. n' = n + 1 /\ spc' \in {"create", "fork"} /\ n + 1 \in Created
        BY <1>3, <1>7, <2>1, <3>3 DEF Fork
      <4> QED BY <1>2, <3>1, <3>2, <4>1 DEF ChildrenInv
    <3>4. CASE ~(n + 1 < Stride)
      <4>1. n' = 0 /\ spc' = (IF program = "primer1" THEN "exited" ELSE "wait")
        BY <1>7, <3>4 DEF Fork
      <4>2. \A c \in Created : child'[c] # "none" /\ ~(c < 0)
        BY <1>3, <2>1, <3>2, <3>4
      <4>3. {c \in Created : child'[c] = "gone"} = {}
        BY <3>2
      <4>4. Cardinality({c \in Created : child'[c] = "gone"}) = 0
        BY <4>3, FS_EmptySet
      <4>5. 0 <= Stride /\ ~(0 >= Stride)
        BY <1>3
      <4> QED BY <1>2, <3>1, <4>1, <4>2, <4>4, <4>5 DEF ChildrenInv
    <3> QED BY <3>3, <3>4
  <2> QED BY <1>4, <2>3, <2>4, <2>5 DEF SpreadInv
<1>8. CASE Join
  <2>1. /\ spc = "wait" /\ UsesThreads /\ n < Stride /\ n \in Nat /\ child[n] = "ended"
        /\ child' = [child EXCEPT ![n] = "gone"] /\ n' = n + 1 /\ UNCHANGED <<spc, ci>>
    BY <1>1, <1>8 DEF Join
  <2>2. n \in Created /\ n \in Children
    BY <1>3, <2>1
  <2>3. child'[n] = "gone" /\ \A c \in Children \ {n} : child'[c] = child[c]
    BY <1>1, <2>1, <2>2
  <2>4. SpreadTypeOK'
    BY <1>1, <1>8, <2>1, <2>2 DEF Join
  <2>5. SharesInv'
    BY <1>3, <1>5, <2>1, <2>2, <2>3
  <2>6. ChildrenInv'
    <3>1. \A c \in Created : c < n => child[c] = "gone"
      BY <1>1, <2>1 DEF ChildrenInv
    <3>2. \A c \in Created : c < n + 1 => child'[c] = "gone"
      BY <1>3, <2>1, <2>3, <3>1
    <3>3. n + 1 >= Stride => \A c \in Created : child'[c] = "gone"
      BY <1>3, <2>1, <3>2
    <3>4. (program # "primerN" => n + 1 <= Stride) /\ \A c \in Created : child'[c] # "none"
      BY <1>1, <1>3, <2>1, <2>3 DEF ChildrenInv
    <3>5. \A c \in Children \ Created : child'[c] = "none"
      BY <1>1, <2>2, <2>3 DEF ChildrenInv
    <3> QED BY <1>2, <2>1, <3>2, <3>3, <3>4, <3>5 DEF ChildrenInv
  <2> QED BY <1>4, <2>4, <2>5, <2>6 DEF SpreadInv
<1>9. CASE Reap
  <2>1. /\ spc = "wait" /\ ~UsesThreads /\ n < Stride /\ n \in Nat
        /\ n' = n + 1 /\ UNCHANGED <<spc, ci, arg>>
    BY <1>1, <1>9 DEF Reap
  <2>2. PICK c \in Created : child[c] = "ended" /\ child' = [child EXCEPT ![c] = "gone"]
    BY <1>9 DEF Reap
  <2>3. c \in Children /\ child'[c] = "gone" /\ \A d \in Children \ {c} : child'[d] = child[d]
    BY <1>1, <1>3, <2>2
  <2>4. SpreadTypeOK'
    BY <1>1, <2>1, <2>2, <2>3
  <2>5. SharesInv'
    BY <1>3, <1>5, <2>1, <2>2, <2>3
  <2>6. ChildrenInv'
    <3> DEFINE Gone == {d \in Created : child[d] = "gone"}
               After == {d \in Created : child'[d] = "gone"}
    <3>1. Cardinality(Gone) = n
      <4>1. n <= Stride
        BY <1>3, <2>1
      <4> QED BY <1>1, <2>1, <4>1 DEF ChildrenInv
    <3>2. After = Gone \cup {c} /\ c \notin Gone /\ Gone \subseteq Created /\ After \subseteq Created
      BY <1>3, <2>2, <2>3
    <3>3. IsFiniteSet(Gone)
      BY <3>2, CreatedFinite
    <3> HIDE DEF Gone, After
    <3>4. Cardinality(After) = n + 1
      BY <3>1, <3>2, <3>3, FS_AddElement
    <3>5. ASSUME n + 1 >= Stride PROVE After = Created
      <4>1. n + 1 = Stride
        BY <1>3, <2>1, <3>5
      <4>2. Cardinality(After) = Stride
        BY <3>4, <4>1
      <4> QED BY <3>2, <4>2, CreatedFinite
    <3>6. n + 1 >= Stride => \A d \in Created : child'[d] = "gone"
      BY <3>5 DEF After
    <3>7. (program # "primerN" => n + 1 <= Stride) /\ \A d \in Created : child'[d] # "none"
      BY <1>1, <1>3, <2>1, <2>3 DEF ChildrenInv
    <3>8. \A d \in Children \ Created : child'[d] = "none"
      BY <1>1, <2>2, <2>3 DEF ChildrenInv
    <3>9. Cardinality({d \in Created : child'[d] = "gone"}) = n + 1
      BY <3>4 DEF After
    <3> QED BY <1>2, <2>1, <3>6, <3>7, <3>8, <3>9 DEF ChildrenInv
  <2> QED BY <1>4, <2>4, <2>5, <2>6 DEF SpreadInv
<1>10. CASE ReapNone
  <2>1. /\ spc = "wait" /\ program = "primerN" /\ n = Stride /\ n' = n + 1 /\ UNCHANGED <<spc, child, ci, arg>>
        /\ ~UsesThreads /\ ~(n + 1 <= Stride)
    BY <1>3, <1>10 DEF ReapNone, UsesThreads
  <2>2. SpreadTypeOK'
    BY <1>1, <2>1
  <2>3. ChildrenInv'
    <3>1. \A c \in Created : child[c] = "gone"
      BY <1>1, <1>3, <2>1 DEF ChildrenInv
    <3> QED BY <1>1, <1>2, <2>1, <3>1 DEF ChildrenInv
  <2> QED BY <1>4, <1>5, <2>1, <2>2, <2>3 DEF SpreadInv
<1>11. CASE SpreadExit
  <2>1. spc = "wait" /\ n >= Stride /\ spc' = "exited" /\ UNCHANGED <<n, child, ci, arg>>
    BY <1>3, <1>11 DEF SpreadExit
  <2>2. SpreadTypeOK'
    BY <1>1, <2>1
  <2>3. ChildrenInv'
    BY <1>1, <1>2, <2>1 DEF ChildrenInv
  <2> QED BY <1>4, <1>5, <2>1, <2>2, <2>3 DEF SpreadInv
<1> QED BY <1>6, <1>7, <1>8, <1>9, <1>10, <1>11 DEF SpreadMain

\* A child tests the number it is at, which nobody has tested, or ends.
LEMMA SpreadChildKept ==
    ASSUME SpreadInv, NEW c \in Children, SpreadChild(c), program' = program
    PROVE  /\ SpreadInv'
           /\ spc' = spc
           /\ spc = "exited" => program = "primer1"
           /\ \/ UNCHANGED <<tested, printed>>
              \/ ci[c] \in Numbers /\ tested[ci[c]] = 0 /\ TestNumber(ci[c])
<1>1. /\ SpreadTypeOK /\ TestedOK /\ SharesInv /\ ChildrenInv
      /\ LEFT \in Nat /\ RIGHT \in Nat /\ LEFT <= RIGHT /\ Numbers = LEFT .. RIGHT
  BY RangeAssumption DEF SpreadInv, Numbers
<1>2. Stride' = Stride /\ Created' = Created /\ (UsesThreads' <=> UsesThreads)
      /\ \A k : TesterOf(k)' = TesterOf(k)
  BY DEF Stride, Created, UsesThreads, TesterOf
<1>3. Stride \in Nat \ {0} /\ Created \subseteq Children
      /\ \A k \in Numbers : TesterOf(k) \in Created
  BY <1>1, SharesFacts
<1>4. child[c] = "testing" /\ spc' = spc /\ n' = n /\ arg' = arg
  BY DEF SpreadChild, ChildTests, ChildEnds, ChildRuns
<1>5. c \in Created
  BY <1>1, <1>4 DEF ChildrenInv
<1>6. spc = "exited" => program = "primer1"
  BY <1>1, <1>4, <1>5 DEF ChildrenInv
<1>7. ci[c] \in Nat /\ ci[c] >= LEFT /\ TesterOf(ci[c]) = c
  BY <1>1, <1>4, <1>5 DEF SpreadTypeOK, SharesInv
<1>8. CASE ChildTests(c)
  <2> DEFINE k == ci[c]
  <2>1. /\ k \in Numbers /\ child' = child /\ ci' = [ci EXCEPT ![c] = k + Stride]
        /\ tested' = [tested EXCEPT ![k] = @ + 1] /\ TestNumber(k)
    BY <1>1, <1>7, <1>8 DEF ChildTests, TestNumber
  <2>2. tested[k] = 0
    BY <1>1, <1>4, <1>7, <2>1 DEF SharesInv
  <2>3. ci'[c] = k + Stride /\ \A d \in Children \ {c} : ci'[d] = ci[d]
    BY <1>1, <2>1 DEF SpreadTypeOK
  <2>4. tested'[k] = 1 /\ \A j \in Numbers \ {k} : tested'[j] = tested[j]
    BY <1>1, <2>1, <2>2 DEF TestedOK
  <2>5. SpreadTypeOK'
    <3>1. k + Stride \in Nat
      BY <1>3, <1>7
    <3> QED BY <1>1, <1>4, <2>1, <3>1 DEF SpreadTypeOK
  <2>6. TestedOK'
    BY <1>1, <2>1, <2>2, <2>4 DEF TestedOK
  <2>7. \A d \in Created : child[d] # "none" => ci'[d] >= LEFT /\ TesterOf(ci'[d]) = d
    <3>1. k + Stride >= LEFT /\ TesterOf(k + Stride) = c
      BY <1>1, <1>3, <1>7, SharesFacts
    <3> QED BY <1>1, <1>3, <2>3, <3>1 DEF SharesInv
  <2>8. ASSUME NEW j \in Numbers
        PROVE  tested'[j] = IF child[TesterOf(j)] # "none" /\ j < ci'[TesterOf(j)] THEN 1 ELSE 0
    <3>1. tested[j] = IF child[TesterOf(j)] # "none" /\ j < ci[TesterOf(j)] THEN 1 ELSE 0
      BY <1>1 DEF SharesInv
    <3>2. j \in Nat /\ TesterOf(j) \in Created
      BY <1>1, <1>3
    <3>3. CASE j = k
      <4>1. k < k + Stride
        BY <1>3, <1>7
      <4> QED BY <1>4, <1>7, <2>3, <2>4, <3>3, <4>1
    <3>4. CASE j # k /\ TesterOf(j) = c
      <4>1. ~(k <= j /\ j < k + Stride)
        BY <1>7, <3>2, <3>4, SharesFacts
      <4>2. j < k + Stride <=> j < k
        BY <1>3, <1>7, <3>2, <3>4, <4>1
      <4> QED BY <2>3, <2>4, <3>1, <3>4, <4>2
    <3>5. CASE j # k /\ TesterOf(j) # c
      BY <1>3, <2>3, <2>4, <3>1, <3>2, <3>5
    <3> QED BY <3>3, <3>4, <3>5
  <2>9. \A d \in Created : child[d] \in {"ended", "gone"} => ci'[d] > RIGHT
    BY <1>1, <1>3, <1>4, <2>3 DEF SharesInv
  <2>10. SharesInv'
    BY <1>2, <2>1, <2>7, <2>8, <2>9 DEF SharesInv
  <2>11. ChildrenInv'
    BY <1>1, <1>2, <1>4, <2>1 DEF ChildrenInv
  <2> QED BY <1>4, <1>6, <2>1, <2>2, <2>5, <2>6, <2>10, <2>11 DEF SpreadInv
<1>9. CASE ChildEnds(c)
  <2>1. /\ ci[c] > RIGHT /\ child' = [child EXCEPT ![c] = "ended"] /\ UNCHANGED <<ci, tested, printed>>
    BY <1>9 DEF ChildEnds, testVars
  <2>2. child'[c] = "ended" /\ \A d \in Children \ {c} : child'[d] = child[d]
    BY <1>1, <2>1 DEF SpreadTypeOK
  <2>3. SpreadTypeOK' /\ TestedOK'
    BY <1>1, <1>4, <2>1 DEF SpreadTypeOK, TestedOK
  <2>4. SharesInv'
    BY <1>1, <1>2, <1>3, <1>4, <1>5, <2>1, <2>2 DEF SharesInv
  <2>5. \A d \in Created : (child'[d] = "gone" <=> child[d] = "gone")
                        /\ (child'[d] = "none" <=> child[d] = "none")
    BY <1>3, <1>4, <2>2
  <2>6. {d \in Created : child'[d] = "gone"} = {d \in Created : child[d] = "gone"}
    BY <2>5
  <2>7. \A d \in Children \ Created : child'[d] = "none"
    BY <1>1, <1>5, <2>2 DEF ChildrenInv
  <2>8. ChildrenInv'
    BY <1>1, <1>2, <1>4, <2>5, <2>6, <2>7 DEF ChildrenInv
  <2> QED BY <1>4, <1>6, <2>1, <2>3, <2>4, <2>8 DEF SpreadInv
<1> QED BY <1>8, <1>9 DEF SpreadChild

\* A step of any program is a step of a prime search, or leaves their state
\* alone.
LEMMA WorkSteps ==
    ASSUME [NextPrograms]_everything
    PROVE  /\ program' = program
           /\ \/ program \in PoolPrograms /\ PoolNext /\ UNCHANGED spreadVars
              \/ program \in SpreadPrograms /\ SpreadNext /\ UNCHANGED poolVars
              \/ UNCHANGED <<testVars, poolVars, spreadVars>>
<1>1. CASE Sem(NextMain)
  BY <1>1 DEF Sem
<1>2. CASE Pool(PoolNext)
  BY <1>2 DEF Pool
<1>3. CASE Spread(SpreadNext)
  BY <1>3 DEF Spread
<1>4. CASE Letter(RingNext)
  BY <1>4 DEF Letter
<1>5. CASE Adding(FileNext)
  BY <1>5 DEF Adding
<1>6. CASE Transfer(Server \/ Client)
  BY <1>6 DEF Transfer
<1>7. CASE Serving(StreamNext) \/ Copying(CopyNext) \/ Signalled(BlockedNext)
  BY <1>7 DEF Serving, Copying, Signalled, Plain
<1>8. CASE Forking(ForksNext) \/ Daemonic(DaemonNext)
  BY <1>8 DEF Forking, Daemonic, Plain
<1>9. CASE UNCHANGED everything
  BY <1>9 DEF everything
<1> QED BY <1>1, <1>2, <1>3, <1>4, <1>5, <1>6, <1>7, <1>8, <1>9 DEF NextPrograms

\* At the start nothing has been put, shared out or tested.
LEMMA WorkStarts == InitPrograms => WorkInv /\ Work!Init
<1> SUFFICES ASSUME InitPrograms PROVE WorkInv /\ Work!Init
  OBVIOUS
<1>1. program \in AllPrograms /\ InitTest /\ PoolInit /\ SpreadInit
  BY DEF InitPrograms
<1>2. LEFT \in Nat /\ RIGHT \in Nat /\ LEFT <= RIGHT /\ 4 < LEFT /\ THRNUM \in Nat \ {0}
  BY RangeAssumption, PoolAssumption
<1>3. \A k \in Numbers : tested[k] = 0
  BY <1>1 DEF InitTest
<1>4. TestedOK
  BY <1>1 DEF InitTest, TestedOK
<1>5. PoolInv
  <2>1. /\ num = 0 /\ mut_num = -1 /\ it = 0 /\ at[0] = "create"
        /\ \A t \in PoolThreads : at[t] = "none" /\ t \in Nat /\ t > 0
    BY <1>1, <1>2 DEF PoolInit, PoolThreads, PoolMain, NoHolder
  <2>2. PoolTypeOK
    BY <1>1 DEF PoolInit, PoolTypeOK, PoolThreads, PoolMain, NoHolder
  <2>3. MutexInv /\ PoolThreadInv
    BY <2>1 DEF MutexInv, PoolThreadInv, PoolMain, HasNumber
  <2>4. PoolMainInv
    BY <1>2, <2>1 DEF PoolMainInv, PoolMain
  <2>5. HandedOut = {} /\ 0 \notin Numbers
    BY <1>2, <2>1 DEF HandedOut, PoolMain, Numbers
  <2>6. \A t \in PoolThreads : ~HasNumber(t)
    BY <2>1 DEF HasNumber
  <2>7. NumbersInv
    BY <1>3, <2>1, <2>5, <2>6 DEF NumbersInv
  <2> QED BY <1>4, <2>2, <2>3, <2>4, <2>7 DEF PoolInv, PoolControl
<1>6. SpreadInv
  <2>1. /\ spc \in {"create", "fork"} /\ n = 0
        /\ \A c \in Children : child[c] = "none"
    BY <1>1 DEF SpreadInit
  <2>2. SpreadTypeOK
    BY <1>1 DEF SpreadInit, SpreadTypeOK
  <2>3. Created \subseteq Children /\ 0 \in Created /\ (\A c \in Created : c >= 0)
        /\ \A k \in Numbers : TesterOf(k) \in Created
    BY <1>2, SharesFacts DEF Created, Numbers
  <2>4. SharesInv
    BY <1>3, <2>1, <2>3 DEF SharesInv
  <2>5. ChildrenInv
    BY <2>1, <2>3 DEF ChildrenInv
  <2> QED BY <1>4, <2>2, <2>4, <2>5 DEF SpreadInv
<1>7. at[PoolMain] = "create" /\ spc # "exited"
  BY <1>1 DEF PoolInit, SpreadInit
<1> QED BY <1>1, <1>5, <1>6, <1>7 DEF WorkInv, WorkIsOver, InitTest, Work!Init

\* Every step of a program is one of PrimeWork: a number tested that had not
\* been, the end after the last of them, or nothing.
LEMMA WorkKept ==
    ASSUME WorkInv, [NextPrograms]_everything
    PROVE  WorkInv' /\ [Work!Next]_(Work!vars)
<1>1. program' = program
  BY WorkSteps
<1>2. CASE UNCHANGED <<testVars, poolVars, spreadVars>>
  <2>1. WorkInv'
    BY <1>1, <1>2 DEF testVars, poolVars, spreadVars, WorkInv, PoolInv, PoolControl, PoolTypeOK, TestedOK,
          MutexInv, PoolMainInv, PoolThreadInv, NumbersInv, HandedOut, HasNumber, SpreadInv, SpreadTypeOK,
          SharesInv, ChildrenInv, TesterOf, Stride, Created, UsesThreads
  <2>2. [Work!Next]_(Work!vars)
    BY <1>1, <1>2 DEF testVars, poolVars, spreadVars, Work!vars, WorkIsOver
  <2> QED BY <2>1, <2>2
<1>3. ASSUME NEW k \in Numbers, tested[k] = 0, TestNumber(k), WorkIsOver' = WorkIsOver, TestedOK
      PROVE  Work!Next
  <2>1. tested' = [tested EXCEPT ![k] = 1]
    BY <1>3 DEF TestNumber, TestedOK
  <2>2. printed' = IF Work!Prime(k) THEN printed \cup {k} ELSE printed
    BY <1>3, MarkIsPrime DEF TestNumber
  <2> QED BY <1>3, <2>1, <2>2 DEF Work!Next, Work!Test
<1>4. ASSUME \A k \in Numbers : tested[k] = 1, UNCHANGED <<tested, printed>>, WorkIsOver'
      PROVE  Work!Next
  BY <1>4 DEF Work!Next, Work!Finish
<1>5. CASE program \in PoolPrograms /\ PoolNext /\ UNCHANGED spreadVars
  <2>1. PoolInv /\ spc # "exited" /\ spc' = spc /\ program \notin SpreadPrograms
    BY <1>5 DEF WorkInv, PoolPrograms, SpreadPrograms, spreadVars
  <2>2. PoolInv' /\ WorkInv'
    BY <1>1, <1>5, <2>1, PoolKept DEF WorkInv
  <2>3. at[PoolMain] # "exited" /\ ~WorkIsOver
    BY <1>5, <2>1 DEF PoolNext, PoolRuns, WorkIsOver
  <2>4. ASSUME NEW t \in PoolThreads, Compute(t), got[t] \in Numbers, tested[got[t]] = 0
        PROVE  Work!Next
    <3>1. at'[PoolMain] = at[PoolMain] /\ TestNumber(got[t])
      BY <2>1, <2>4 DEF Compute, PoolGoto, PoolInv, PoolControl, PoolTypeOK, PoolThreads, PoolMain
    <3>2. WorkIsOver' = WorkIsOver
      BY <1>1, <2>1, <3>1 DEF WorkIsOver
    <3> QED BY <1>3, <2>1, <2>4, <3>1, <3>2 DEF PoolInv, PoolControl
  <2>5. CASE UNCHANGED <<tested, printed>> /\ at'[PoolMain] # "exited"
    <3>1. WorkIsOver' = WorkIsOver
      BY <2>1, <2>3, <2>5 DEF WorkIsOver
    <3> QED BY <2>2, <2>5, <3>1 DEF Work!vars
  <2>6. CASE UNCHANGED <<tested, printed>> /\ at'[PoolMain] = "exited" /\ PoolExit
    <3>1. at[PoolMain] = "join" /\ it = THRNUM
      BY <2>6 DEF PoolExit
    <3>2. num = -1 /\ \A t \in PoolThreads : at[t] = "exited"
      BY <2>1, <3>1 DEF PoolInv, PoolControl, PoolMainInv, PoolThreads
    <3>3. -1 \notin Numbers /\ \A k \in Numbers : k \in HandedOut
      BY <3>1, RangeAssumption DEF HandedOut, Numbers
    <3>4. \A k \in Numbers : tested[k] = 1
      BY <2>1, <3>2, <3>3 DEF PoolInv, NumbersInv, HasNumber
    <3>5. WorkIsOver'
      BY <2>6 DEF WorkIsOver
    <3> QED BY <1>4, <2>2, <2>6, <3>4, <3>5
  <2>7. \/ UNCHANGED <<tested, printed>> /\ (at'[PoolMain] = "exited" => PoolExit)
        \/ \E t \in PoolThreads : Compute(t) /\ got[t] \in Numbers /\ tested[got[t]] = 0
    BY <1>1, <1>5, <2>1, PoolKept
  <2>8. [Work!Next]_(Work!vars)
    BY <2>4, <2>5, <2>6, <2>7
  <2> QED BY <2>2, <2>8
<1>6. CASE program \in SpreadPrograms /\ SpreadNext /\ UNCHANGED poolVars
  <2>1. SpreadInv /\ at[PoolMain] = "create" /\ at' = at /\ program \notin PoolPrograms
    BY <1>6 DEF WorkInv, PoolPrograms, SpreadPrograms, poolVars
  <2>2. SpreadInv' /\ WorkInv'
    <3>1. SpreadInv'
      BY <1>1, <1>6, <2>1, SpreadMainKept, SpreadChildKept DEF SpreadNext
    <3> QED BY <1>1, <1>6, <2>1, <3>1 DEF WorkInv
  <2>3. WorkIsOver <=> spc = "exited" /\ program # "primer1"
    BY <2>1 DEF WorkIsOver
  <2>4. WorkIsOver' <=> spc' = "exited" /\ program # "primer1"
    BY <1>1, <2>1 DEF WorkIsOver
  <2>5. ASSUME NEW c \in Children, SpreadChild(c) PROVE [Work!Next]_(Work!vars)
    <3>1. WorkIsOver' = WorkIsOver
      BY <1>1, <2>1, <2>5, SpreadChildKept DEF WorkIsOver
    <3>2. CASE UNCHANGED <<tested, printed>>
      BY <3>1, <3>2 DEF Work!vars
    <3>3. CASE ci[c] \in Numbers /\ tested[ci[c]] = 0 /\ TestNumber(ci[c])
      BY <1>3, <2>1, <3>1, <3>3 DEF SpreadInv
    <3> QED BY <1>1, <2>1, <2>5, <3>2, <3>3, SpreadChildKept
  <2>6. ASSUME SpreadMain PROVE [Work!Next]_(Work!vars)
    <3>1. UNCHANGED <<tested, printed>>
      BY <1>1, <2>1, <2>6, SpreadMainKept
    <3>2. CASE spc' = "exited" /\ program # "primer1"
      <4>1. \A c \in Created : child'[c] = "gone"
        BY <1>1, <2>2, <3>2 DEF SpreadInv, ChildrenInv, Created, Stride
      <4>2. \A c \in Created : ci'[c] > RIGHT
        BY <1>1, <2>2, <4>1 DEF SpreadInv, SharesInv, Created, Stride
      <4>3. \A k \in Numbers : tested'[k] = IF child'[TesterOf(k)] # "none" /\ k < ci'[TesterOf(k)] THEN 1 ELSE 0
        BY <1>1, <2>2 DEF SpreadInv, SharesInv, TesterOf, Stride
      <4>4. Created \subseteq Children /\ \A k \in Numbers : k \in Nat /\ k <= RIGHT /\ TesterOf(k) \in Created
        BY RangeAssumption, SharesFacts DEF Numbers
      <4>5. \A c \in Created : ci'[c] \in Nat
        BY <2>2, <4>4 DEF SpreadInv, SpreadTypeOK
      <4>6. \A k \in Numbers : tested'[k] = 1
        BY RangeAssumption, <4>1, <4>2, <4>3, <4>4, <4>5
      <4> QED BY <1>4, <2>4, <3>1, <3>2, <4>6
    <3>3. CASE ~(spc' = "exited" /\ program # "primer1")
      <4>1. spc # "exited"
        BY <2>6 DEF SpreadMain, Allocate, Fork, ForkFails, Join, Reap, ReapNone, SpreadExit
      <4>2. WorkIsOver' = WorkIsOver
        BY <2>3, <2>4, <3>3, <4>1 DEF WorkIsOver
      <4> QED BY <3>1, <4>2 DEF Work!vars
    <3> QED BY <3>2, <3>3
  <2>7. SpreadMain \/ \E c \in Children : SpreadChild(c)
    BY <1>6 DEF SpreadNext
  <2>8. [Work!Next]_(Work!vars)
    BY <2>5, <2>6, <2>7
  <2> QED BY <2>2, <2>8
<1>7. \/ program \in PoolPrograms /\ PoolNext /\ UNCHANGED spreadVars
      \/ program \in SpreadPrograms /\ SpreadNext /\ UNCHANGED poolVars
      \/ UNCHANGED <<testVars, poolVars, spreadVars>>
  BY WorkSteps
<1> QED BY <1>2, <1>5, <1>6, <1>7

\* However the numbers are shared out, by a pool of any number of threads or to
\* any number of threads and processes (primer0_pool.c:50-62, primerN.c:28-49),
\* each is tested once, exactly the primes are reported, and main ends after
\* the last of them.
THEOREM WorkImplemented == SpecPrograms => ImplementsWork
<1>1. InitPrograms => WorkInv /\ Work!Init
  BY WorkStarts
<1>2. WorkInv /\ [NextPrograms]_everything => WorkInv' /\ [Work!Next]_(Work!vars)
  BY WorkKept
<1> QED BY <1>1, <1>2, PTL DEF SpecPrograms, ImplementsWork, Work!Spec

-----------------------------------------------------------------------------
(* The number in the file *)

\* Those whose addition counts can be counted, and more each time.
CountedSoFar == Cardinality(Counted)

\* The lock is held from the reading of the number to the writing of its
\* successor, but by those whose lockf failed.  While no lockf has, what is read,
\* printed and not yet written follows from the number itself; afterwards it is at
\* least not ahead of the additions made.
FileInv ==
    /\ FileTypeOK
    /\ program # "lockf" => unlocked = {}
    /\ \A a \in Adders : fat[a] = "none" <=> a > made
    /\ fmain = "create" => made < PROCNUM
    /\ \A a \in Adders : fat[a] \in {"read", "print", "flush", "unlock"} =>
                          flock = a \/ a \in unlocked
    /\ \A a \in Adders : buffered[a] # -1 => fat[a] = "flush"
    /\ FileRuns => \A a \in Adders : fat[a] = "flush" => buffered[a] # -1
    /\ unlocked = {} =>
          /\ \A a \in Adders : fat[a] = "print" => linebuf[a] = number
          /\ \A a \in Adders : buffered[a] # -1 => buffered[a] = number + 1
          /\ number = CountedSoFar
    /\ CountedSoFar \in Nat
    /\ \A a \in Adders : fat[a] = "print" => linebuf[a] <= CountedSoFar
    /\ \A a \in Adders : buffered[a] # -1 => buffered[a] <= CountedSoFar + 1
    /\ number <= CountedSoFar

\* A step of any program is a step of the adding programs, or leaves their
\* state alone.
LEMMA FileSteps ==
    ASSUME [NextPrograms]_everything
    PROVE  /\ program' = program
           /\ FileNext \/ UNCHANGED fileVars
<1>1. CASE Sem(NextMain)
  BY <1>1 DEF Sem
<1>2. CASE Pool(PoolNext)
  BY <1>2 DEF Pool
<1>3. CASE Spread(SpreadNext)
  BY <1>3 DEF Spread
<1>4. CASE Letter(RingNext)
  BY <1>4 DEF Letter
<1>5. CASE Adding(FileNext)
  BY <1>5 DEF Adding
<1>6. CASE Transfer(Server \/ Client)
  BY <1>6 DEF Transfer
<1>7. CASE Serving(StreamNext) \/ Copying(CopyNext) \/ Signalled(BlockedNext)
  BY <1>7 DEF Serving, Copying, Signalled, Plain
<1>8. CASE Forking(ForksNext) \/ Daemonic(DaemonNext)
  BY <1>8 DEF Forking, Daemonic, Plain
<1>9. CASE UNCHANGED everything
  BY <1>9 DEF everything
<1> QED BY <1>1, <1>2, <1>3, <1>4, <1>5, <1>6, <1>7, <1>8, <1>9 DEF NextPrograms

\* One more adder has its addition in the file.
LEMMA OneMore ==
    ASSUME NEW a \in Adders, a \notin Counted, Counted' = Counted \cup {a}
    PROVE  Cardinality(Counted') = Cardinality(Counted) + 1
<1>1. IsFiniteSet(Adders)
  BY FileAssumption, FS_Interval DEF Adders
<1>2. IsFiniteSet(Counted)
  BY <1>1, FS_Subset DEF Counted
<1> QED BY <1>2, FS_AddElement

\* A step that writes nothing, by main or by the adder a, whose place changes
\* among those that do not matter to the number.
LEMMA NothingWritten ==
    ASSUME FileInv, FileTypeOK', UNCHANGED <<number, flock, unlocked, linebuf, buffered>>,
           FileRuns,
           \A a \in Adders : fat'[a] = fat[a] \/
              /\ fat[a] \in {"none", "open", "lock"}
              /\ fat'[a] \in {"open", "lock", "failed"},
           \A a \in Adders : fat'[a] = "none" <=> a > made',
           fmain' = "create" => made' < PROCNUM,
           program' = program
    PROVE  FileInv'
<1>1. Counted' = Counted
  BY DEF Counted
<1>2. CountedSoFar' = CountedSoFar
  BY <1>1 DEF CountedSoFar
<1> QED BY <1>2 DEF FileInv

\* The line of an adder that has printed it, and of no other, is written out.
LEMMA LineWritten ==
    ASSUME FileInv, NEW a \in Adders, buffered[a] # -1, WriteOut(a),
           UNCHANGED <<flock, unlocked, linebuf, made>>,
           \/ fat'[a] = "flush" /\ ~FileRuns'
           \/ fat'[a] = "unlock",
           \A b \in Adders \ {a} : fat'[b] = fat[b] \/
              (fat[b] = "open" /\ fat'[b] = "failed"),
           FileTypeOK', fmain' \in {fmain, "failed"}, program' = program
    PROVE  FileInv'
<1> USE DEF FileTypeOK
<1>1. /\ fat[a] = "flush" /\ (flock = a \/ a \in unlocked) /\ a \notin Counted
      /\ number' = buffered[a] /\ buffered' = [buffered EXCEPT ![a] = -1]
  BY DEF FileInv, WriteOut, Counted
<1>2. Counted' = Counted \cup {a}
  BY <1>1 DEF Counted, FileInv
<1>3. CountedSoFar' = CountedSoFar + 1
  BY <1>1, <1>2, OneMore DEF CountedSoFar
<1>4. number' <= CountedSoFar'
  BY <1>1, <1>3 DEF FileInv
<1>5. ASSUME unlocked' = {}
      PROVE  /\ \A b \in Adders : fat'[b] = "print" => linebuf'[b] = number'
             /\ \A b \in Adders : buffered'[b] # -1 => buffered'[b] = number' + 1
             /\ number' = CountedSoFar'
  <2>1. \A b \in Adders \ {a} : fat[b] \notin {"read", "print", "flush", "unlock"}
    BY <1>1, <1>5 DEF FileInv
  <2>2. number' = CountedSoFar'
    BY <1>1, <1>3, <1>5 DEF FileInv
  <2>3. \A b \in Adders : fat'[b] # "print" /\ buffered'[b] = -1
    BY <1>1, <2>1 DEF FileInv
  <2> QED BY <2>2, <2>3
<1>6. \A b \in Adders : fat'[b] = "print" => linebuf'[b] <= CountedSoFar'
  BY <1>3 DEF FileInv
<1>7. \A b \in Adders : buffered'[b] # -1 => fat'[b] = "flush" /\ buffered'[b] <= CountedSoFar' + 1
  BY <1>1, <1>3 DEF FileInv
<1>8. CountedSoFar' \in Nat
  BY <1>3 DEF FileInv
<1>9. \A b \in Adders : fat'[b] = "none" <=> b > made'
  BY <1>1 DEF FileInv
<1>10. \A b \in Adders : fat'[b] \in {"read", "print", "flush", "unlock"} =>
                          flock' = b \/ b \in unlocked'
  BY <1>1 DEF FileInv
<1>11. FileRuns' => \A b \in Adders : fat'[b] = "flush" => buffered'[b] # -1
  <2>1. FileRuns' => FileRuns
    BY DEF FileRuns, IsThreads
  <2> QED BY <1>1, <2>1 DEF FileInv
<1>12. fmain' = "create" => made' < PROCNUM
  BY DEF FileInv
<1> QED BY <1>4, <1>5, <1>6, <1>7, <1>8, <1>9, <1>10, <1>11, <1>12 DEF FileInv

\* A step of the adding programs keeps the types.
LEMMA FileTypes ==
    ASSUME FileInv, FileNext
    PROVE  FileTypeOK'
<1> USE FileAssumption DEF FileTypeOK, FileGoto, WriteOut, NoAdder
<1>1. FileTypeOK /\ (fmain = "create" => made < PROCNUM)
  BY DEF FileInv
<1>2. CASE FileCreate
  <2>1. made + 1 \in Adders /\ made + 1 \in 0 .. PROCNUM
    BY <1>1, <1>2 DEF FileCreate, Adders
  <2> QED BY <1>1, <1>2, <2>1 DEF FileCreate
<1>3. CASE FileCreateFails
  BY <1>1, <1>3 DEF FileCreateFails, ExitFlushes
<1>4. CASE FileJoin \/ FileDestroy
  BY <1>1, <1>4 DEF FileJoin, FileDestroy
<1>5. ASSUME NEW a \in Adders, \/ Open(a) \/ FileLock(a) \/ LockFails(a) \/ LockIgnored(a)
                               \/ ReadLine(a) \/ PrintLine(a)
      PROVE  FileTypeOK'
  BY <1>1, <1>5 DEF Open, FileLock, LockFails, LockIgnored, ReadLine, PrintLine
<1>6. ASSUME NEW a \in Adders, OpenFails(a) PROVE FileTypeOK'
  BY <1>1, <1>6 DEF OpenFails, ExitFlushes
<1>7. ASSUME NEW a \in Adders,
             FlushLine(a) \/ FileUnlock(a) \/ UnlockFails(a) \/ CloseFile(a)
      PROVE  FileTypeOK'
  BY <1>1, <1>7 DEF FlushLine, FileUnlock, UnlockFails, CloseFile
<1> QED BY <1>2, <1>3, <1>4, <1>5, <1>6, <1>7 DEF FileNext, FileMain, FileStep

\* A step of the adding programs keeps the rest of the invariant.
LEMMA FileKept ==
    ASSUME FileInv, FileNext, program' = program
    PROVE  FileInv'
<1> USE FileAssumption DEF FileTypeOK, FileGoto
<1>1. FileTypeOK /\ FileTypeOK' /\ FileRuns
  BY FileTypes DEF FileInv, FileNext
<1>2. CASE FileCreate
  <2>1. made + 1 \in Adders /\ fat[made + 1] = "none"
    BY <1>1, <1>2 DEF FileCreate, FileInv, Adders
  <2> QED BY <1>1, <1>2, <2>1, NothingWritten, SMTT(60) DEF FileCreate, FileInv, Adders
<1>3. ASSUME ExitFlushes, UNCHANGED <<made, flock, unlocked, linebuf>>, fmain' = "failed",
             \A a \in Adders : fat'[a] = fat[a] \/ (fat[a] = "open" /\ fat'[a] = "failed")
      PROVE  FileInv'
  <2>1. CASE IsThreads /\ \E a \in Adders : buffered[a] # -1
    <3>1. PICK a \in Adders : buffered[a] # -1 /\ WriteOut(a)
      BY <1>3, <2>1 DEF ExitFlushes
    <3>2. fat'[a] = "flush" /\ ~FileRuns'
      BY <1>3, <2>1, <3>1 DEF FileInv, FileRuns, IsThreads
    <3> QED BY <1>1, <1>3, <3>1, <3>2, LineWritten
  <2>2. CASE ~(IsThreads /\ \E a \in Adders : buffered[a] # -1)
    BY <1>1, <1>3, <2>2, NothingWritten DEF ExitFlushes, FileInv
  <2> QED BY <2>1, <2>2
<1>4. CASE FileCreateFails
  BY <1>3, <1>4 DEF FileCreateFails
<1>5. CASE FileJoin \/ FileDestroy
  BY <1>1, <1>5, NothingWritten DEF FileJoin, FileDestroy, FileInv
<1>6. ASSUME NEW a \in Adders, Open(a) PROVE FileInv'
  BY <1>1, <1>6, NothingWritten DEF Open, FileInv
<1>7. ASSUME NEW a \in Adders, OpenFails(a) PROVE FileInv'
  <2>1. CASE IsThreads
    BY <1>3, <1>7, <2>1 DEF OpenFails
  <2>2. CASE ~IsThreads
    BY <1>1, <1>7, <2>2, NothingWritten DEF OpenFails, FileInv
  <2> QED BY <2>1, <2>2
<1>8. ASSUME NEW a \in Adders, FileLock(a) \/ LockIgnored(a) PROVE FileInv'
  <2>1. FileLock(a) => \A b \in Adders : fat[b] \in {"read", "print", "flush", "unlock"} =>
                                          b \in unlocked
    BY DEF FileLock, FileInv, Adders, NoAdder
  <2>2. CountedSoFar' = CountedSoFar
    <3>1. Counted' = Counted
      BY <1>1, <1>8 DEF FileLock, LockIgnored, Counted
    <3> QED BY <3>1 DEF CountedSoFar
  <2>3. unlocked' = {} => unlocked = {}
    BY <1>8 DEF FileLock, LockIgnored
  <2>4. /\ UNCHANGED <<fmain, made, number, linebuf, buffered>>
        /\ fat[a] = "lock" /\ fat' = [fat EXCEPT ![a] = "read"]
    BY <1>8 DEF FileLock, LockIgnored
  <2>5. \A b \in Adders : fat'[b] \in {"read", "print", "flush", "unlock"} =>
                          flock' = b \/ b \in unlocked'
    BY <1>1, <1>8, <2>1, <2>4 DEF FileLock, LockIgnored, FileInv
  <2>6. \A b \in Adders : fat'[b] = "none" <=> b > made'
    BY <1>1, <2>4 DEF FileInv
  <2>7. \A b \in Adders : /\ fat'[b] = "print" => fat[b] = "print"
                         /\ buffered'[b] # -1 => fat'[b] = "flush"
                         /\ fat'[b] = "flush" <=> fat[b] = "flush"
    BY <1>1, <2>4 DEF FileInv
  <2>8. program' # "lockf" => unlocked' = {}
    BY <1>8 DEF FileLock, LockIgnored, FileInv
  <2> QED BY <1>1, <2>2, <2>3, <2>4, <2>5, <2>6, <2>7, <2>8 DEF FileInv, FileRuns
<1>9. ASSUME NEW a \in Adders, LockFails(a) PROVE FileInv'
  BY <1>1, <1>9, NothingWritten DEF LockFails, FileInv
<1>10. ASSUME NEW a \in Adders, ReadLine(a) \/ PrintLine(a) PROVE FileInv'
  <2>1. CountedSoFar' = CountedSoFar
    <3>1. Counted' = Counted
      BY <1>1, <1>10 DEF ReadLine, PrintLine, Counted, FileInv
    <3> QED BY <3>1 DEF CountedSoFar
  <2> QED BY <1>1, <1>10, <2>1 DEF ReadLine, PrintLine, FileInv, FileRuns
<1>11. ASSUME NEW a \in Adders, FlushLine(a) PROVE FileInv'
  <2>1. buffered[a] # -1
    BY <1>1, <1>11 DEF FlushLine, FileInv
  <2> QED BY <1>1, <1>11, <2>1, LineWritten DEF FlushLine
<1>12. ASSUME NEW a \in Adders, FileUnlock(a) PROVE FileInv'
  <2>1. CountedSoFar' = CountedSoFar
    <3>1. Counted' = Counted
      BY <1>1, <1>12 DEF FileUnlock, Counted
    <3> QED BY <3>1 DEF CountedSoFar
  <2>2. /\ UNCHANGED <<fmain, made, unlocked, number, linebuf, buffered>>
        /\ fat[a] = "unlock" /\ fat'[a] \in {"ended", "close"}
        /\ \A b \in Adders \ {a} : fat'[b] = fat[b]
    BY <1>1, <1>12 DEF FileUnlock
  <2>3. \A b \in Adders : fat'[b] \in {"read", "print", "flush", "unlock"} =>
                          flock' = b \/ b \in unlocked'
    BY <1>1, <1>12, <2>2 DEF FileUnlock, FileInv
  <2>4. \A b \in Adders : /\ fat'[b] = "print" => fat[b] = "print"
                         /\ fat'[b] = "none" <=> fat[b] = "none"
                         /\ buffered[b] # -1 => fat'[b] = "flush"
                         /\ fat'[b] = "flush" <=> fat[b] = "flush"
    BY <1>1, <2>2 DEF FileInv
  <2> QED BY <1>1, <2>1, <2>2, <2>3, <2>4 DEF FileInv, FileRuns
<1>13. ASSUME NEW a \in Adders, UnlockFails(a) \/ CloseFile(a) PROVE FileInv'
  <2>1. buffered[a] = -1
    BY <1>13 DEF UnlockFails, CloseFile, FileInv
  <2>2. number' = number /\ buffered' = buffered
    BY <1>1, <1>13, <2>1 DEF UnlockFails, CloseFile, WriteOut
  <2>3. CountedSoFar' = CountedSoFar
    <3>1. Counted' = Counted
      BY <1>1, <1>13, <2>2 DEF UnlockFails, CloseFile, Counted
    <3> QED BY <3>1 DEF CountedSoFar
  <2>4. CloseFile(a) => fat[a] = "close" /\ fat' = [fat EXCEPT ![a] = "ended"]
    BY DEF CloseFile
  <2> QED BY <1>1, <1>13, <2>2, <2>3, <2>4 DEF UnlockFails, CloseFile, FileInv, FileRuns
<1> QED BY <1>2, <1>4, <1>5, <1>6, <1>7, <1>8, <1>9, <1>10, <1>11, <1>12, <1>13
        DEF FileNext, FileMain, FileStep

\* However many threads or processes there are: as long as no lockf has failed the
\* file holds the number of those that have made their addition, it never holds more,
\* and who has printed and not flushed holds the lock unless his lockf failed
\* (add.c:33-41, lockf/add.c:37-46, sem/add.c:72-84).
THEOREM AdditionsCount == SpecPrograms => []EveryAdditionCounts
<1>1. InitPrograms => FileInv
  <2> SUFFICES ASSUME FileInit PROVE FileInv
    BY DEF InitPrograms
  <2>1. Counted = {}
    BY DEF FileInit, Counted
  <2>2. Cardinality(Counted) = 0
    BY <2>1, FS_EmptySet
  <2> QED BY <2>2, FileAssumption DEF FileInit, FileInv, FileTypeOK, Adders, NoAdder, CountedSoFar
<1>2. FileInv /\ [NextPrograms]_everything => FileInv'
  <2> SUFFICES ASSUME FileInv, [NextPrograms]_everything PROVE FileInv'
    OBVIOUS
  <2>1. CASE UNCHANGED fileVars
    BY <2>1, FileSteps DEF fileVars, FileInv, FileTypeOK, FileRuns, IsThreads, Counted,
                          CountedSoFar
  <2> QED BY <2>1, FileSteps, FileKept
<1>3. FileInv => EveryAdditionCounts
  BY DEF FileInv, EveryAdditionCounts, CountedSoFar
<1> QED BY <1>1, <1>2, <1>3, PTL DEF SpecPrograms

-----------------------------------------------------------------------------
(* Blocked signals *)

\* Where the program is says what is blocked, and that a line is still to come.
MaskInv ==
    /\ program = "star" => mask = saveset /\ line = 0
    /\ program # "star" /\ main \in {"stars", "unblock", "suspend"} => Signals \subseteq mask
    /\ program # "star" /\ main \in {"block", "stars", "unblock", "suspend"} => line < Lines
    /\ Suspends /\ main \notin {"start", "block"} => oset \cap Signals = {}
    /\ main \in {"block", "unblock", "suspend", "restore"} => program # "star"
    /\ main = "unblock" => ~Suspends
    /\ main = "suspend" => Suspends
    /\ main = "start" => line = 0
    /\ main = "block" => mask \cap Signals = {}
    /\ main \in {"exit", "exited"} => mask = saveset

\* What has been sent is answered or pending, and each line of susp an answer.
CountInv ==
    /\ Suspends => line <= answered["INT"] + answered["RT"]
    /\ sent["RT"] = answered["RT"] + pending["RT"]
    /\ sent["INT"] > 0 => answered["INT"] + pending["INT"] > 0
    /\ answered["INT"] + pending["INT"] <= sent["INT"]
    /\ main = "exited" => \A s \in Signals \ saveset : pending[s] = 0

BlockedInv == BlockedTypeOK /\ MaskInv /\ CountInv

LEMMA BlockedKept ==
    ASSUME BlockedInv, [NextPrograms]_everything
    PROVE  BlockedInv'
<1> USE BlockedAssumption DEF BlockedTypeOK, Standard
<1>0. /\ program' = program /\ Lines \in Nat \ {0}
      /\ Signals' = Signals /\ Suspends' = Suspends
      /\ Signals = {"INT", "RT"} \/ (Signals = {"INT"} /\ program # "susp_rt")
  BY PlainSteps DEF Signals, Suspends
<1>1. CASE UNCHANGED blockedVars
  BY <1>0, <1>1 DEF blockedVars, BlockedInv, MaskInv, CountInv
<1>2. ASSUME NEW s \in Signals, SendSignal(s) PROVE BlockedInv'
  <2>1. /\ pending' = [pending EXCEPT ![s] = IF s \in Standard THEN 1 ELSE @ + 1]
        /\ sent' = [sent EXCEPT ![s] = @ + 1]
        /\ sent[s] < MaxSignals
        /\ UNCHANGED <<main, line, star, mask, saveset, oset, answered>>
        /\ main # "exited"
    BY <1>2 DEF SendSignal
  <2>2. CASE s = "INT"
    BY <1>0, <2>1, <2>2 DEF BlockedInv, MaskInv, CountInv
  <2>3. CASE s = "RT"
    BY <1>0, <2>1, <2>3 DEF BlockedInv, MaskInv, CountInv
  <2> QED BY <1>0, <2>2, <2>3
<1>3. CASE Deliver
  <2>1. PICK s \in Signals : pending[s] > 0 /\ Handlers({s})
    BY <1>3 DEF Deliver, Deliverable
  <2>2. /\ UNCHANGED <<main, line, star, mask, saveset, oset, sent>>
        /\ main # "exited"
    BY <1>3 DEF Deliver
  <2>3. CASE s = "INT"
    BY <1>0, <2>1, <2>2, <2>3 DEF Handlers, BlockedInv, MaskInv, CountInv
  <2>4. CASE s = "RT"
    <3>1. /\ pending' = [pending EXCEPT !["RT"] = @ - 1]
          /\ answered' = [answered EXCEPT !["RT"] = @ + 1]
      BY <2>1, <2>4 DEF Handlers, BlockedInv
    <3> QED BY <1>0, <2>1, <2>2, <2>4, <3>1 DEF BlockedInv, MaskInv, CountInv
  <2> QED BY <1>0, <2>3, <2>4
<1>4. CASE Start
  <2>1. /\ main = "start" /\ line = 0 /\ main' \in {"stars", "block"}
        /\ mask' \subseteq mask /\ (main' = "block" => mask' \cap Signals = {})
        /\ program = "star" <=> main' = "stars"
        /\ mask' = mask \/ program # "star"
        /\ UNCHANGED <<line, star, saveset, oset, pending, sent, answered>>
    BY <1>4 DEF Start, At, BlockedInv, MaskInv
  <2>2. BlockedTypeOK'
    BY <2>1 DEF BlockedInv
  <2>3. MaskInv'
    BY <1>0, <2>1 DEF BlockedInv, MaskInv, Suspends
  <2>4. CountInv'
    BY <1>0, <2>1 DEF BlockedInv, CountInv
  <2> QED BY <2>2, <2>3, <2>4 DEF BlockedInv
<1>5. CASE Block
  BY <1>0, <1>5 DEF Block, At, BlockedInv, MaskInv, CountInv, Suspends
<1>6. CASE PrintStar
  BY <1>0, <1>6 DEF PrintStar, At, BlockedInv, MaskInv, CountInv, Suspends
<1>7. CASE Unblock
  <2>1. /\ main = "unblock" /\ line' = line + 1
        /\ main' = IF line + 1 = Lines THEN "restore" ELSE "block"
        /\ mask' = mask \ Signals
        /\ ~Suspends /\ program # "star" /\ line < Lines
        /\ UNCHANGED <<star, saveset, oset, pending, sent, answered>>
    BY <1>7 DEF Unblock, NextLine, At, BlockedInv, MaskInv
  <2>2. BlockedTypeOK'
    <3>1. mask' \subseteq mask
      <4>1. mask \ Signals \subseteq mask
        OBVIOUS
      <4> QED BY <2>1, <4>1
    <3>2. line' \in 0 .. Lines /\ main' \in {"restore", "block"}
      BY <1>0, <2>1 DEF BlockedInv
    <3> QED BY <2>1, <3>1, <3>2 DEF BlockedInv
  <2>3. MaskInv'
    <3>1. mask' \cap Signals' = {}
      <4>1. (mask \ Signals) \cap Signals = {}
        OBVIOUS
      <4> QED BY <1>0, <2>1, <4>1
    <3>2. /\ main' \in {"restore", "block"} /\ program' # "star" /\ ~Suspends'
          /\ main' = "block" => line' < Lines
      BY <1>0, <2>1, BlockedInv DEF BlockedInv
    <3> QED BY <3>1, <3>2 DEF MaskInv
  <2>4. CountInv'
    BY <1>0, <2>1 DEF BlockedInv, CountInv
  <2> QED BY <2>2, <2>3, <2>4 DEF BlockedInv
<1>8. CASE Suspend
  BY <1>0, <1>8 DEF Suspend, NextLine, Handlers, BlockedInv, MaskInv, CountInv
<1>9. CASE Restore
  BY <1>0, <1>9 DEF Restore, At, BlockedInv, MaskInv, CountInv
<1>10. CASE Exit
  BY <1>0, <1>10 DEF Exit, At, Deliverable, BlockedInv, MaskInv, CountInv
<1> QED BY <1>1, <1>2, <1>3, <1>4, <1>5, <1>6, <1>7, <1>8, <1>9, <1>10, PlainSteps
        DEF BlockedNext, BlockedStep

\* No signal is answered within a line or before its time, and none that the
\* program was given unblocked is left pending: for any number of lines, stars and
\* signals, and whatever mask the program inherits.
THEOREM SignalsAnswered == SpecPrograms => []SignalsAreAnswered
<1>1. InitPrograms => BlockedInv
  <2> SUFFICES ASSUME InitPrograms PROVE BlockedInv
    OBVIOUS
  <2>1. /\ BlockedInit
        /\ program \notin SignalPrograms => saveset = {}
        /\ Lines \in Nat \ {0} /\ Stars \in Nat /\ MaxSignals \in Nat
        /\ Signals \subseteq {"INT", "RT"}
    BY BlockedAssumption DEF InitPrograms, Signals
  <2>2. BlockedTypeOK
    BY <2>1 DEF BlockedInit, BlockedTypeOK, Standard
  <2>3. MaskInv
    BY <2>1 DEF BlockedInit, MaskInv, SignalPrograms
  <2>4. CountInv
    BY <2>1 DEF BlockedInit, CountInv
  <2> QED BY <2>2, <2>3, <2>4 DEF BlockedInv
<1>2. BlockedInv => SignalsAreAnswered
  BY DEF BlockedInv, MaskInv, CountInv, SignalsAreAnswered
<1> QED BY <1>1, <1>2, BlockedKept, PTL DEF SpecPrograms

-----------------------------------------------------------------------------
(* The daemon *)

\* The file is open from fopen on, the stream's buffer holds the number that is
\* about to be flushed, and the file all before it.
WrittenInv ==
    /\ forker \in {"begin", "handles"} => daemon = "none"
    /\ daemon \in {"none", "begin", "fopen"} =>
          fp = "NULL" /\ infile = <<>> /\ unflushed = <<>> /\ number_ = 0
    /\ daemon \in {"print", "printing", "flush", "flushing", "sleep"} => fp = "open"
    /\ daemon \in {"print", "printing"} => unflushed = <<>> /\ Len(infile) = number_
    /\ daemon = "flush" => unflushed = <<number_>> /\ Len(infile) = number_
    /\ daemon = "flushing" => unflushed = <<number_>> /\ Len(infile) = number_ + 1
    /\ daemon = "sleep" => unflushed = <<>> /\ Len(infile) = number_ + 1
    /\ daemon \in {"printing", "flush", "flushing", "sleep"} => number_ < MaxNumbers
    /\ daemon = "closed" => Len(infile) \in {number_, number_ + 1}

FromZero ==
    /\ daemon # "closed_in_flush" => infile = [k \in 1 .. Len(infile) |-> k - 1]
    /\ daemon = "closed_in_flush" =>
          infile = [k \in 1 .. number_ + 2 |-> IF k = number_ + 2 THEN number_ ELSE k - 1]

DaemonInv == DaemonTypeOK /\ FromZero /\ WrittenInv

\* The next number after those from 0 on.
LEMMA NextNumber ==
    ASSUME NEW s, NEW len, s \in Seq(Nat), s = [k \in 1 .. Len(s) |-> k - 1], len = Len(s)
    PROVE  /\ s \o <<len>> \in Seq(Nat) /\ Len(s \o <<len>>) = len + 1
           /\ s \o <<len>> = [k \in 1 .. Len(s \o <<len>>) |-> k - 1]
<1> DEFINE t == s \o <<len>>
<1>1. len \in Nat /\ t \in Seq(Nat) /\ Len(t) = len + 1
  OBVIOUS
<1>2. DOMAIN t = 1 .. len + 1 /\ t = [k \in DOMAIN t |-> t[k]]
  BY <1>1
<1>3. ASSUME NEW k \in 1 .. len + 1 PROVE t[k] = k - 1
  <2>1. CASE k \in 1 .. len
    <3>1. s[k] = k - 1
      BY <2>1
    <3>2. t[k] = s[k]
      BY <1>1, <2>1
    <3> QED BY <3>1, <3>2
  <2>2. CASE k = len + 1
    BY <1>1, <2>2
  <2> QED BY <1>1, <2>1, <2>2
<1> QED BY <1>1, <1>2, <1>3

\* The last of the numbers from 0 on once more.
LEMMA LastTwice ==
    ASSUME NEW s, NEW n_1, n_1 \in Nat, s \in Seq(Nat), Len(s) = n_1 + 1,
           s = [k \in 1 .. Len(s) |-> k - 1]
    PROVE  /\ s \o <<n_1>> \in Seq(Nat)
           /\ s \o <<n_1>> = [k \in 1 .. n_1 + 2 |-> IF k = n_1 + 2 THEN n_1 ELSE k - 1]
<1> DEFINE t == s \o <<n_1>>
<1>1. t \in Seq(Nat) /\ Len(t) = n_1 + 2
  OBVIOUS
<1>2. DOMAIN t = 1 .. n_1 + 2 /\ t = [k \in DOMAIN t |-> t[k]]
  BY <1>1
<1>3. ASSUME NEW k \in 1 .. n_1 + 2 PROVE t[k] = IF k = n_1 + 2 THEN n_1 ELSE k - 1
  <2>1. CASE k \in 1 .. n_1 + 1
    <3>1. s[k] = k - 1
      BY <2>1
    <3>2. t[k] = s[k]
      BY <1>1, <2>1
    <3> QED BY <2>1, <3>1, <3>2
  <2>2. CASE k = n_1 + 2
    <3>1. t[Len(s) + 1] = n_1
      OBVIOUS
    <3>2. k = Len(s) + 1
      BY <2>2
    <3>3. t[k] = n_1
      BY <3>1, <3>2, Zenon
    <3> QED BY <2>2, <3>3
  <2> QED BY <1>1, <2>1, <2>2
<1> QED BY <1>1, <1>2, <1>3

LEMMA DaemonKept ==
    ASSUME DaemonInv, [NextPrograms]_everything
    PROVE  DaemonInv'
<1> USE DaemonAssumption DEF DaemonInv, DaemonTypeOK
<1>0. infile' = infile /\ (daemon' = "closed_in_flush" <=> daemon = "closed_in_flush")
         /\ (daemon = "closed_in_flush" => number_' = number_)
      => FromZero'
  BY DEF FromZero
<1>1. CASE UNCHANGED daemonVars
  BY <1>0, <1>1 DEF daemonVars, WrittenInv
<1>2. CASE SetHandlers \/ ForkerExits \/ SignalForker
  BY <1>0, <1>2 DEF SetHandlers, ForkerExits, SignalForker, WrittenInv
<1>3. CASE Daemonize
  <2>1. /\ forker' \in {"forked", "failed"} /\ daemon' \in {daemon, "begin"}
        /\ UNCHANGED <<fp, number_, infile, unflushed>>
        /\ daemon = "none"
    BY <1>3 DEF Daemonize, WrittenInv
  <2> QED BY <1>0, <2>1 DEF WrittenInv
<1>4. CASE Detach
  BY <1>0, <1>4 DEF Detach, DaemonIs, WrittenInv
<1>5. CASE OpenLog
  <2>1. /\ daemon = "fopen" /\ UNCHANGED <<forker, number_, infile, unflushed>>
        /\ (daemon' = "print" /\ fp' = "open") \/ (daemon' = "failed" /\ fp' = fp)
    BY <1>5 DEF OpenLog, DaemonIs
  <2> QED BY <1>0, <2>1 DEF WrittenInv
<1>6. CASE PrintNumber
  BY <1>0, <1>6 DEF PrintNumber, DaemonIs, WrittenInv
<1>7. CASE NumberPrinted
  <2>1. unflushed' = <<number_>> /\ unflushed' \in Seq(Nat)
    BY <1>7 DEF NumberPrinted, WrittenInv
  <2> QED BY <1>0, <1>7, <2>1 DEF NumberPrinted, WrittenInv
<1>8. CASE FlushNumber
  <2>1. infile' = infile \o <<number_>> /\ Len(infile) = number_ /\ daemon' = "flushing"
    BY <1>8 DEF FlushNumber, WrittenInv
  <2>2. /\ infile' \in Seq(Nat) /\ Len(infile') = number_ + 1
        /\ FromZero'
    BY <1>8, <2>1, NextNumber DEF FromZero, FlushNumber
  <2> QED BY <1>8, <2>1, <2>2 DEF FlushNumber, WrittenInv
<1>9. CASE SleepASecond
  <2>1. number_ < MaxNumbers /\ number_ \in Nat /\ unflushed = <<>> /\ Len(infile) = number_ + 1
    BY <1>9 DEF SleepASecond, WrittenInv
  <2>2. number_' \in 0 .. MaxNumbers
    BY <1>9, <2>1 DEF SleepASecond
  <2> QED BY <1>0, <1>9, <2>1, <2>2 DEF SleepASecond, WrittenInv
<1>12. CASE NumberFlushed
  <2>1. infile' = infile /\ Len(infile') = number_ + 1 /\ number_' = number_ /\ number_ < MaxNumbers
    BY <1>12 DEF NumberFlushed, WrittenInv
  <2> QED BY <1>0, <1>12, <2>1 DEF NumberFlushed, WrittenInv
<1>10. CASE SignalKills
  BY <1>0, <1>10 DEF SignalKills, DaemonIs, Living, WrittenInv
<1>11. CASE DaemonExit
  <2>1. /\ daemon \in Living /\ daemon' \in {"crashed", "undefined", "closed", "closed_in_flush"}
        /\ daemon' = "closed_in_flush" <=> daemon = "flushing"
        /\ UNCHANGED <<forker, number_>> /\ fp' \in {"NULL", "closed", "open"} /\ unflushed' = <<>>
    BY <1>11 DEF DaemonExit, WrittenInv, Living
  <2>2. CASE daemon = "flush"
    <3>1. /\ infile' = infile \o <<number_>> /\ Len(infile) = number_
      BY <1>11, <2>2 DEF DaemonExit, WrittenInv
    <3>2. /\ infile' \in Seq(Nat) /\ Len(infile') = number_ + 1
          /\ FromZero'
      BY <2>1, <2>2, <3>1, NextNumber DEF FromZero
    <3> QED BY <1>11, <2>1, <2>2, <3>1, <3>2 DEF DaemonExit, WrittenInv
  <2>3. CASE daemon = "flushing"
    <3>1. /\ infile' = infile \o <<number_>> /\ Len(infile) = number_ + 1
          /\ daemon' = "closed_in_flush"
      BY <1>11, <2>1, <2>3 DEF DaemonExit, WrittenInv
    <3>2. infile = [k \in 1 .. Len(infile) |-> k - 1]
      BY <2>3 DEF FromZero
    <3>3. number_ \in Nat
      OBVIOUS
    <3>4. /\ infile' \in Seq(Nat)
          /\ infile' = [k \in 1 .. number_ + 2 |-> IF k = number_ + 2 THEN number_ ELSE k - 1]
      BY <3>1, <3>2, <3>3, LastTwice
    <3>5. FromZero'
      BY <2>1, <3>1, <3>4 DEF FromZero
    <3> QED BY <1>11, <2>1, <2>3, <3>1, <3>4, <3>5 DEF DaemonExit, WrittenInv
  <2>4. CASE daemon \notin {"flush", "flushing"}
    <3>1. infile' = infile
      BY <1>11, <2>1, <2>4, SMTT(60) DEF DaemonExit, WrittenInv, Living
    <3> QED BY <1>0, <1>11, <2>1, <2>4, <3>1 DEF DaemonExit, WrittenInv, Living
  <2> QED BY <2>2, <2>3, <2>4
<1> QED BY <1>1, <1>2, <1>3, <1>4, <1>5, <1>6, <1>7, <1>8, <1>9, <1>10, <1>11, <1>12,
          PlainSteps
        DEF DaemonNext, DaemonStep

\* The daemon's file holds the numbers from 0 on, none missing and none twice but
\* the last, which a signal within fflush may double.
THEOREM NumbersWritten == SpecPrograms => []NumbersInOrder
<1>1. InitPrograms => DaemonInv
  BY DaemonAssumption DEF InitPrograms, DaemonInit, DaemonInv, DaemonTypeOK, FromZero, WrittenInv
<1>2. DaemonInv => NumbersInOrder
  BY DEF DaemonInv, FromZero, WrittenInv, NumbersInOrder
<1> QED BY <1>1, <1>2, DaemonKept, PTL DEF SpecPrograms

-----------------------------------------------------------------------------
(* The processes that fork *)

\* What has been written so far, whatever the round.
Texts == {written[k][1] : k \in DOMAIN written}

Distinct == \A j, k \in DOMAIN written : written[j] = written[k] => j = k

\* What the parent prints after the child.
Farewells == {"end", "old", "hello"}

\* The lines of every program but sh.
PlainLines ==
    /\ Distinct
    /\ \A k \in DOMAIN written :
          /\ written[k][1] \in {"begin", "output", "kid_end"} \cup Farewells
          /\ written[k][2] = 0
          /\ written[k][1] = "begin" => k = 1
    /\ Before("output", "end")

\* How far the parent and the child are, what each still has in its buffer,
\* and what can have been written by then.
PlainStages ==
    /\ round = 0
    /\ parent = "begin" => written = <<>>
    /\ parent \in {"begin", "flush", "fork"} => kid = "none"
    /\ parent \in {"print", "exit", "gone"} /\ program # "fork1" => kid \in {"ended", "failed"}
    /\ kid \in {"exec", "printing", "wait"} => Executes
    /\ kid = "exit" => program = "fork1"
    /\ \/ unwritten[Parent] = <<>>
       \/ parent = "flush" /\ unwritten[Parent] = <<<<"begin", 0>>>> /\ written = <<>>
       \/ /\ parent = "exit" /\ Texts \cap Farewells = {}
          /\ \E t \in Farewells : unwritten[Parent] = <<<<t, 0>>>> /\ (t = "old" => kid = "failed")
    /\ \/ unwritten[Kid] = <<>>
       \/ kid = "exit" /\ unwritten[Kid] = <<<<"kid_end", 0>>>> /\ "kid_end" \notin Texts
    /\ terminal => unwritten[Parent] = <<>> /\ unwritten[Kid] = <<>>
    /\ "output" \in Texts => kid = "ended" /\ Executes
    /\ "kid_end" \in Texts => kid \in {"exit", "ended"} /\ program = "fork1"
    /\ kid = "exit" /\ terminal => unwritten[Kid] = <<>>
    /\ Texts \cap Farewells # {} => parent \in {"exit", "gone"}
    /\ "old" \in Texts => kid = "failed"
    /\ Shares /\ kid = "ended" => memory = "hello"

\* sh prints its prompts and its children their output, in any case; on a
\* terminal nothing waits in a buffer, and prompt and output come once a round.
ShellInv ==
    /\ Texts \subseteq {"prompt", "output"}
    /\ \A w \in {Parent, Kid} : \A k \in DOMAIN unwritten[w] : unwritten[w][k][1] = "prompt"
    /\ parent \notin {"flush", "print"}
    /\ kid # "none" => parent = "wait"
    /\ kid \in {"none", "exec", "printing", "ended", "failed"}
    /\ terminal => unwritten[Parent] = <<>> /\ unwritten[Kid] = <<>>

ShellLines ==
    /\ Distinct
    /\ \A j, k \in DOMAIN written : j < k => written[j][2] <= written[k][2]
    /\ \A k \in DOMAIN written :
          /\ written[k][2] <= round
          /\ written[k][1] = "prompt" => written[k][2] < round \/ parent \in {"exit", "gone"}
          /\ written[k][1] = "output" /\ (parent = "fork" \/ kid \in {"exec", "printing"}) =>
                written[k][2] < round

ForksInv ==
    /\ ForksTypeOK
    /\ program # "sh" => PlainLines /\ PlainStages
    /\ program = "sh" => ShellInv /\ (terminal => ShellLines)

\* A line more.
LEMMA LineAdded ==
    ASSUME NEW L, NEW s \in Seq(L), NEW x \in L, NEW e, e = s \o <<x>>
    PROVE  /\ e \in Seq(L)
           /\ Len(s) + 1 \in Nat /\ Len(s) + 1 \in DOMAIN e /\ Len(s) + 1 \notin DOMAIN s
           /\ DOMAIN s \subseteq Nat \ {0} /\ (s = <<>> => Len(s) + 1 = 1)
           /\ \A k \in DOMAIN s : k \in DOMAIN e /\ e[k] = s[k] /\ k < Len(s) + 1
           /\ \A k \in DOMAIN e : k \in DOMAIN s \/ k = Len(s) + 1
           /\ e[Len(s) + 1] = x
<1>1. e \in Seq(L) /\ Len(s) \in Nat /\ Len(e) = Len(s) + 1
  OBVIOUS
<1>2. DOMAIN s = 1 .. Len(s) /\ DOMAIN e = 1 .. Len(s) + 1
  BY <1>1
<1>3. \A k \in DOMAIN s : e[k] = s[k]
  BY <1>1, <1>2
<1>4. e[Len(s) + 1] = x
  BY <1>1, <1>2
<1>5. \A k \in DOMAIN s : k \in DOMAIN e /\ k < Len(s) + 1
  BY <1>1, <1>2
<1>6. \A k \in DOMAIN e : k \in DOMAIN s \/ k = Len(s) + 1
  BY <1>1, <1>2
<1>7. Len(s) + 1 \in Nat /\ Len(s) + 1 \in DOMAIN e /\ Len(s) + 1 \notin DOMAIN s
      /\ DOMAIN s \subseteq Nat \ {0}
  BY <1>1, <1>2
<1>8. s = <<>> => Len(s) + 1 = 1
  BY <1>1
<1> QED BY <1>1, <1>3, <1>4, <1>5, <1>6, <1>7, <1>8

\* A program other than sh writes a line that it has not written before.
LEMMA PlainAdded ==
    ASSUME ForksTypeOK, PlainLines,
           NEW t \in {"begin", "output", "kid_end"} \cup Farewells, t \notin Texts,
           t = "begin" => written = <<>>, t = "output" => "end" \notin Texts,
           written' = written \o <<<<t, 0>>>>
    PROVE  PlainLines' /\ Texts' = Texts \cup {t}
<1> DEFINE x == <<t, 0>>
           m == Len(written) + 1
           e == written'
<1>0. t \in Printable
  BY DEF Farewells, Printable
<1>1. x \in PrintedLine /\ written \in Seq(PrintedLine) /\ written' = written \o <<x>>
  BY <1>0 DEF ForksTypeOK, PrintedLine
<1>e. e = written \o <<x>> /\ m = Len(written) + 1
  BY <1>1
<1> HIDE DEF x, e, m
<1>2. m \in Nat /\ m \in DOMAIN e /\ m \notin DOMAIN written
      /\ DOMAIN written \subseteq Nat \ {0}
  BY <1>1, <1>e, LineAdded
<1>3. written = <<>> => m = 1
  BY <1>1, <1>e, LineAdded
<1>4. \A k \in DOMAIN written : k \in DOMAIN e /\ e[k] = written[k] /\ k < m
  BY <1>1, <1>e, LineAdded
<1>5. \A k \in DOMAIN e : k \in DOMAIN written \/ k = m
  BY <1>1, <1>e, LineAdded
<1>6. e[m] = x
  BY <1>1, <1>e, LineAdded
<1>w. e = written'
  BY DEF e
<1>x. x[1] = t /\ x[2] = 0
  BY DEF x
<1>7. Texts' = Texts \cup {t}
  <2>1. \A y : y \in Texts' <=> \E k \in DOMAIN written' : written'[k][1] = y
    BY DEF Texts
  <2>2. \A y : y \in Texts <=> \E k \in DOMAIN written : written[k][1] = y
    BY DEF Texts
  <2>3. ASSUME NEW y \in Texts' PROVE y \in Texts \cup {t}
    BY <1>2, <1>4, <1>5, <1>6, <1>w, <1>x, <2>1, <2>2, <2>3, SMTT(60)
  <2>4. ASSUME NEW y \in Texts PROVE y \in Texts'
    BY <1>2, <1>3, <1>4, <1>5, <1>6, <1>w, <2>1, <2>2, <2>4
  <2>5. t \in Texts'
    BY <1>2, <1>4, <1>5, <1>6, <1>w, <1>x, <2>1
  <2> QED BY <2>3, <2>4, <2>5
<1>8. \A k \in DOMAIN written : written[k] # x /\ written[k][1] # t
  BY <1>x DEF Texts
<1>9. Distinct'
  BY <1>2, <1>4, <1>5, <1>6, <1>w, <1>8 DEF Distinct, PlainLines
<1>10. (\A k \in DOMAIN written :
          /\ written[k][1] \in {"begin", "output", "kid_end"} \cup Farewells
          /\ written[k][2] = 0
          /\ written[k][1] = "begin" => k = 1)'
  <2> SUFFICES ASSUME NEW k \in DOMAIN written'
               PROVE  /\ written'[k][1] \in {"begin", "output", "kid_end"} \cup Farewells
                      /\ written'[k][2] = 0
                      /\ written'[k][1] = "begin" => k = 1
    OBVIOUS
  <2>1. CASE k \in DOMAIN written
    BY <1>2, <1>3, <1>4, <1>5, <1>6, <1>w, <2>1 DEF PlainLines
  <2>2. CASE k = m 
    BY <1>2, <1>4, <1>5, <1>6, <1>w, <1>x, <2>2
  <2> QED BY <1>2, <1>3, <1>4, <1>5, <1>6, <1>w, <2>1, <2>2
<1>11. Before("output", "end")'
  <2> SUFFICES ASSUME NEW j \in DOMAIN written', NEW k \in DOMAIN written',
                      written'[j][1] = "output", written'[k][1] = "end"
               PROVE  j < k
    BY DEF Before
  <2>1. ASSUME k \in DOMAIN written, j \in DOMAIN written PROVE j < k
    BY <1>2, <1>3, <1>4, <1>5, <1>6, <1>w, <2>1 DEF PlainLines, Before
  <2>2. ASSUME k \in DOMAIN written, j \notin DOMAIN written PROVE FALSE
    <3>1. t = "output" /\ written[k][1] = "end"
      BY <1>2, <1>4, <1>5, <1>6, <1>w, <1>x, <2>2
    <3> QED BY <2>2, <3>1 DEF Texts
  <2>3. ASSUME k \notin DOMAIN written, j \in DOMAIN written PROVE j < k
    BY <1>2, <1>3, <1>4, <1>5, <1>6, <1>w, <2>3
  <2>4. ASSUME k \notin DOMAIN written, j \notin DOMAIN written PROVE FALSE
    BY <1>2, <1>4, <1>5, <1>6, <1>w, <1>x, <2>4
  <2> QED BY <2>1, <2>2, <2>3, <2>4
<1> QED BY <1>7, <1>9, <1>10, <1>11 DEF PlainLines

LEMMA PlainStays ==
    ASSUME written' = written
    PROVE  (PlainLines => PlainLines') /\ Texts' = Texts
BY DEF PlainLines, Texts, Distinct, Before

\* Writing an empty buffer, or a buffer of one line.
LEMMA Written ==
    ASSUME ForksTypeOK, NEW w \in {Parent, Kid}
    PROVE  /\ unwritten[w] = <<>> => written \o unwritten[w] = written
           /\ \A x : written \o <<>> \o <<x>> = written \o <<x>>
           /\ \A x : Append(<<>>, x) = <<x>>
<1>1. written \in Seq(PrintedLine)
  BY DEF ForksTypeOK
<1>2. written \o <<>> = written
  BY <1>1
<1>3. \A x : Append(<<>>, x) = <<x>>
  OBVIOUS
<1> QED BY <1>2, <1>3

\* The types.
LEMMA ForksTypes ==
    ASSUME ForksTypeOK, ForksNext, program' = program
    PROVE  ForksTypeOK'
<1>1. /\ terminal \in BOOLEAN /\ round \in 0 .. Commands /\ Commands \in Nat
      /\ memory \in {"old", "hello"}
      /\ unwritten \in [{Parent, Kid} -> Seq(PrintedLine)] /\ written \in Seq(PrintedLine)
  BY ForksAssumption DEF ForksTypeOK
<1>2. \A s \in Printable : <<s, round>> \in PrintedLine
  BY <1>1 DEF PrintedLine
<1>3. /\ "begin" \in Printable /\ "prompt" \in Printable /\ "output" \in Printable
      /\ "kid_end" \in Printable /\ "end" \in Printable /\ memory \in Printable
  BY <1>1 DEF Printable
<1>4. \A w \in {Parent, Kid} : unwritten[w] \in Seq(PrintedLine)
  BY <1>1
<1>5. <<>> \in Seq(PrintedLine)
  OBVIOUS
<1>6. ASSUME NEW w \in {Parent, Kid}, NEW t \in Printable, Puts(w, t)
      PROVE  unwritten' \in [{Parent, Kid} -> Seq(PrintedLine)] /\ written' \in Seq(PrintedLine)
  <2>1. <<<<t, round>>>> \in Seq(PrintedLine) /\ Append(unwritten[w], <<t, round>>) \in Seq(PrintedLine)
    BY <1>2, <1>4
  <2>2. written \o unwritten[w] \o <<<<t, round>>>> \in Seq(PrintedLine)
    BY <1>1, <1>4, <2>1
  <2> QED BY <1>1, <1>5, <1>6, <2>1, <2>2 DEF Puts
<1>7. ASSUME NEW w \in {Parent, Kid}, Flush(w)
      PROVE  unwritten' \in [{Parent, Kid} -> Seq(PrintedLine)] /\ written' \in Seq(PrintedLine)
  BY <1>1, <1>4, <1>5, <1>7 DEF Flush
<1>8. Parent \in {Parent, Kid} /\ Kid \in {Parent, Kid}
  OBVIOUS
<1> USE DEF ForksTypeOK
<1>9. CASE Begin
  BY <1>1, <1>3, <1>6, <1>8, <1>9 DEF Begin
<1>10. CASE Prompt
  <2> DEFINE prompts == Append(unwritten[Parent], <<"prompt", round>>)
  <2>1. prompts \in Seq(PrintedLine)
    BY <1>2, <1>3, <1>4, <1>8
  <2>2. written \o prompts \in Seq(PrintedLine)
    BY <1>1, <2>1
  <2>3. /\ written' = IF terminal THEN written \o prompts ELSE written
        /\ unwritten' = [unwritten EXCEPT ![Parent] = IF terminal THEN <<>> ELSE prompts]
    BY <1>10 DEF Prompt
  <2> HIDE DEF prompts
  <2>4. unwritten' \in [{Parent, Kid} -> Seq(PrintedLine)] /\ written' \in Seq(PrintedLine)
    BY <1>1, <1>5, <2>1, <2>2, <2>3
  <2>5. round' \in 0 .. Commands /\ parent' \in {"fork", "exit"} /\ UNCHANGED <<terminal, kid, memory>>
    BY <1>1, <1>10 DEF Prompt
  <2> QED BY <2>4, <2>5
<1>11. CASE FlushFirst \/ ForkKidFails \/ ParentExits
  BY <1>7, <1>8, <1>11 DEF FlushFirst, ForkKidFails, ParentExits
<1>12. CASE ForkKid
  BY <1>1, <1>4, <1>8, <1>12 DEF ForkKid
<1>13. CASE WaitKid
  BY <1>13 DEF WaitKid
<1>14. CASE ParentPrints
  BY <1>3, <1>6, <1>8, <1>14 DEF ParentPrints
<1>15. CASE ParentNoMemory \/ KidWrites \/ KidNoMemory
  BY <1>15 DEF ParentNoMemory, KidWrites, KidNoMemory, KidIs
<1>16. CASE Exec
  BY <1>1, <1>5, <1>16 DEF Exec, KidIs
<1>17. CASE ExecFails \/ KidWaits \/ KidExits
  BY <1>7, <1>8, <1>17 DEF ExecFails, KidWaits, KidExits, KidIs
<1>18. CASE KidPrints
  BY <1>1, <1>2, <1>3, <1>18 DEF KidPrints, KidIs
<1>19. CASE KidWorks
  BY <1>3, <1>6, <1>8, <1>19 DEF KidWorks, KidIs
<1> QED BY <1>9, <1>10, <1>11, <1>12, <1>13, <1>14, <1>15, <1>16, <1>17, <1>18, <1>19
        DEF ForksNext, ForkParent, ForkKidStep

\* What becomes of a line that a program other than sh prints from an empty buffer.
LEMMA PlainPuts ==
    ASSUME ForksTypeOK, PlainStages, NEW w \in {Parent, Kid}, unwritten[w] = <<>>, NEW t, Puts(w, t)
    PROVE  \/ terminal /\ written' = written \o <<<<t, 0>>>> /\ unwritten' = unwritten
           \/ /\ ~terminal /\ written' = written /\ unwritten'[w] = <<<<t, 0>>>>
              /\ \A v \in {Parent, Kid} \ {w} : unwritten'[v] = unwritten[v]
<1>1. round = 0 /\ written \in Seq(PrintedLine) /\ terminal \in BOOLEAN
      /\ unwritten \in [{Parent, Kid} -> Seq(PrintedLine)]
  BY DEF PlainStages, ForksTypeOK
<1>2. CASE terminal
  <2>0. written \o unwritten[w] = written
    BY <1>1
  <2>1. written' = written \o <<<<t, 0>>>>
    BY <1>1, <1>2, <2>0 DEF Puts
  <2>2. unwritten' = unwritten
    BY <1>1, <1>2 DEF Puts
  <2> QED BY <1>2, <2>1, <2>2
<1>3. CASE ~terminal
  BY <1>1, <1>3 DEF Puts
<1> QED BY <1>2, <1>3

LEMMA PlainFlush ==
    ASSUME ForksTypeOK, NEW w \in {Parent, Kid}, Flush(w)
    PROVE  /\ unwritten[w] = <<>> => written' = written /\ unwritten' = unwritten
           /\ \A x : unwritten[w] = <<x>> => written' = written \o <<x>>
           /\ unwritten'[w] = <<>>
           /\ \A v \in {Parent, Kid} \ {w} : unwritten'[v] = unwritten[v]
<1>1. written \in Seq(PrintedLine) /\ unwritten \in [{Parent, Kid} -> Seq(PrintedLine)]
  BY DEF ForksTypeOK
<1>2. written \o <<>> = written
  BY <1>1
<1>3. written' = written \o unwritten[w] /\ unwritten' = [unwritten EXCEPT ![w] = <<>>]
  BY DEF Flush
<1>4. unwritten[w] = <<>> => unwritten' = unwritten
  BY <1>1, <1>3
<1> QED BY <1>1, <1>2, <1>3, <1>4

\* A program other than sh keeps to its lines and its stages.
LEMMA PlainKept ==
    ASSUME ForksTypeOK, PlainLines, PlainStages, ForksNext, program # "sh", program' = program
    PROVE  PlainLines' /\ PlainStages'
<1>1. /\ terminal \in BOOLEAN /\ memory \in {"old", "hello"}
      /\ unwritten \in [{Parent, Kid} -> Seq(PrintedLine)] /\ written \in Seq(PrintedLine)
      /\ kid \in {"none", "running", "exec", "printing", "exit", "wait", "ended", "failed"}
  BY DEF ForksTypeOK
<1>2. Parent \in {Parent, Kid} /\ Kid \in {Parent, Kid} /\ Parent # Kid
  BY DEF Parent, Kid
<1>3. written = <<>> => Texts = {}
  BY DEF Texts
<1>p. (Executes <=> Executes') /\ (Shares <=> Shares') /\ (Executes => ~Shares /\ program # "fork1")
      /\ (Shares => program # "fork1")
  BY DEF Executes, Shares
<1>4. ASSUME written' = written, PlainStages' PROVE PlainLines' /\ PlainStages'
  BY <1>4, PlainStays
<1>s. written' = written => Texts' = Texts
  BY PlainStays
<1>5. CASE Begin
  <2>1. unwritten[Parent] = <<>> /\ written = <<>> /\ Puts(Parent, "begin") /\ parent' = "flush"
        /\ UNCHANGED <<terminal, kid, round, memory>> /\ kid = "none" /\ Texts = {} /\ unwritten[Kid] = <<>>
    BY <1>3, <1>5 DEF Begin, PlainStages
  <2>2. CASE terminal /\ written' = written \o <<<<"begin", 0>>>> /\ unwritten' = unwritten
    <3>1. PlainLines' /\ Texts' = {"begin"}
      BY <2>1, <2>2, PlainAdded
    <3> QED BY <1>1, <1>2, <1>p, <2>1, <2>2, <3>1 DEF PlainStages, Farewells
  <2>3. CASE /\ ~terminal /\ written' = written /\ unwritten'[Parent] = <<<<"begin", 0>>>>
             /\ \A v \in {Parent, Kid} \ {Parent} : unwritten'[v] = unwritten[v]
    <3>1. unwritten'[Kid] = <<>>
      BY <1>2, <2>1, <2>3
    <3>2. PlainStages'
      BY <1>1, <1>p, <1>s, <2>1, <2>3, <3>1 DEF PlainStages
    <3> QED BY <1>4, <2>3, <3>2
  <2> QED BY <1>2, <2>1, <2>2, <2>3, PlainPuts
<1>6. CASE Prompt
  BY <1>6 DEF Prompt
<1>7. CASE FlushFirst
  <2>1. parent = "flush" /\ Flush(Parent) /\ parent' = "fork" /\ UNCHANGED <<terminal, kid, round, memory>>
        /\ kid = "none"
    BY <1>7 DEF FlushFirst, PlainStages
  <2>2. unwritten'[Parent] = <<>> /\ unwritten'[Kid] = unwritten[Kid] /\ unwritten[Kid] = <<>>
    BY <1>2, <2>1, PlainFlush DEF PlainStages
  <2>3. CASE unwritten[Parent] = <<>>
    <3>1. written' = written
      BY <1>2, <2>1, <2>3, PlainFlush
    <3>2. PlainStages'
      BY <1>1, <1>p, <1>s, <2>1, <2>2, <3>1 DEF PlainStages
    <3> QED BY <1>4, <3>1, <3>2
  <2>4. CASE unwritten[Parent] = <<<<"begin", 0>>>> /\ written = <<>>
    <3>1. written' = written \o <<<<"begin", 0>>>>
      BY <1>2, <2>1, <2>4, PlainFlush
    <3>2. PlainLines' /\ Texts' = {"begin"}
      BY <1>3, <2>4, <3>1, PlainAdded
    <3> QED BY <1>1, <1>p, <2>1, <2>2, <3>2 DEF PlainStages, Farewells
  <2> QED BY <2>1, <2>3, <2>4 DEF PlainStages
<1>8. CASE ForkKid
  <2>1. /\ parent = "fork" /\ kid' = IF Executes THEN "exec" ELSE "running"
        /\ parent' = IF program = "fork1" THEN "print" ELSE "wait"
        /\ UNCHANGED <<terminal, written, round, memory>> /\ unwritten[Parent] = <<>>
    BY <1>8 DEF ForkKid, PlainStages
  <2>2. unwritten'[Parent] = <<>> /\ unwritten'[Kid] = <<>>
    BY <1>1, <1>2, <1>8, <2>1 DEF ForkKid
  <2>3. kid = "none"
    BY <2>1 DEF PlainStages
  <2>4. PlainStages'
    BY <1>1, <1>p, <1>s, <2>1, <2>2, <2>3 DEF PlainStages
  <2> QED BY <1>4, <2>1, <2>4
<1>9. CASE ForkKidFails
  <2>1. parent = "fork" /\ Flush(Parent) /\ parent' = "failed" /\ UNCHANGED <<terminal, kid, round, memory>>
        /\ unwritten[Parent] = <<>>
    BY <1>9 DEF ForkKidFails, PlainStages
  <2>2. written' = written /\ unwritten' = unwritten
    BY <1>2, <2>1, PlainFlush
  <2>3. PlainStages'
    BY <1>1, <1>p, <1>s, <2>1, <2>2 DEF PlainStages
  <2> QED BY <1>4, <2>2, <2>3
<1>10. CASE WaitKid
  <2>1. PlainStages'
    BY <1>1, <1>p, <1>s, <1>10 DEF WaitKid, PlainStages
  <2> QED BY <1>4, <1>10, <2>1 DEF WaitKid
<1>11. CASE ParentPrints
  <2> DEFINE t == IF Shares THEN memory ELSE "end"
  <2>1. parent = "print" /\ Puts(Parent, t) /\ parent' = "exit" /\ UNCHANGED <<terminal, kid, round, memory>>
    BY <1>11 DEF ParentPrints
  <2>2. t \in Farewells /\ (t = "old" => Shares /\ memory = "old") /\ t # "begin" /\ t # "output" /\ t # "kid_end"
    BY <1>1 DEF Farewells
  <2>3. Texts \cap Farewells = {} /\ unwritten[Parent] = <<>>
    BY <2>1 DEF PlainStages
  <2>4. t = "old" => kid = "failed"
    BY <1>1, <1>p, <2>1, <2>2 DEF PlainStages
  <2> HIDE DEF t
  <2>5. t \notin Texts
    BY <2>2, <2>3
  <2>6. CASE terminal /\ written' = written \o <<<<t, 0>>>> /\ unwritten' = unwritten
    <3>1. PlainLines' /\ Texts' = Texts \cup {t}
      BY <2>2, <2>5, <2>6, PlainAdded
    <3>2. unwritten'[Parent] = <<>> /\ unwritten'[Kid] = unwritten[Kid]
      BY <2>3, <2>6
    <3>3. \/ unwritten[Kid] = <<>>
          \/ kid = "exit" /\ unwritten[Kid] = <<<<"kid_end", 0>>>> /\ "kid_end" \notin Texts'
      BY <2>2, <3>1 DEF PlainStages
    <3> QED BY <1>1, <1>p, <2>1, <2>2, <2>4, <2>6, <3>1, <3>2, <3>3 DEF PlainStages
  <2>7. CASE /\ ~terminal /\ written' = written /\ unwritten'[Parent] = <<<<t, 0>>>>
             /\ \A v \in {Parent, Kid} \ {Parent} : unwritten'[v] = unwritten[v]
    <3>1. unwritten'[Kid] = unwritten[Kid]
      BY <1>2, <2>7
    <3>2. PlainStages'
      BY <1>1, <1>p, <1>s, <2>1, <2>2, <2>3, <2>4, <2>7, <3>1 DEF PlainStages
    <3> QED BY <1>4, <2>7, <3>2
  <2> QED BY <1>2, <2>1, <2>3, <2>6, <2>7, PlainPuts
<1>12. CASE ParentNoMemory
  <2>1. PlainStages'
    BY <1>1, <1>p, <1>s, <1>12 DEF ParentNoMemory, PlainStages
  <2> QED BY <1>4, <1>12, <2>1 DEF ParentNoMemory
<1>13. CASE ParentExits
  <2>1. parent = "exit" /\ Flush(Parent) /\ parent' = "gone" /\ UNCHANGED <<terminal, kid, round, memory>>
    BY <1>13 DEF ParentExits
  <2>2. unwritten'[Parent] = <<>> /\ unwritten'[Kid] = unwritten[Kid]
    BY <1>2, <2>1, PlainFlush
  <2>3. CASE unwritten[Parent] = <<>>
    <3>1. written' = written
      BY <1>2, <2>1, <2>3, PlainFlush
    <3>2. PlainStages'
      BY <1>1, <1>p, <1>s, <2>1, <2>2, <3>1 DEF PlainStages
    <3> QED BY <1>4, <3>1, <3>2
  <2>4. ASSUME NEW t \in Farewells, unwritten[Parent] = <<<<t, 0>>>>, t = "old" => kid = "failed",
               Texts \cap Farewells = {}
        PROVE  PlainLines' /\ PlainStages'
    <3>1. written' = written \o <<<<t, 0>>>>
      BY <1>2, <2>1, <2>4, PlainFlush
    <3>2. t \notin Texts /\ t # "begin" /\ t # "output" /\ t # "kid_end"
      BY <2>4 DEF Farewells
    <3>3. PlainLines' /\ Texts' = Texts \cup {t}
      BY <3>1, <3>2, PlainAdded
    <3>4. \/ unwritten[Kid] = <<>>
          \/ kid = "exit" /\ unwritten[Kid] = <<<<"kid_end", 0>>>> /\ "kid_end" \notin Texts'
      BY <3>2, <3>3 DEF PlainStages
    <3> QED BY <1>1, <1>p, <2>1, <2>2, <2>4, <3>2, <3>3, <3>4 DEF PlainStages
  <2> QED BY <2>1, <2>3, <2>4 DEF PlainStages
<1>14. CASE Exec
  <2>1. kid = "exec" /\ kid' = "printing" /\ UNCHANGED <<terminal, parent, round, memory, written>>
        /\ unwritten'[Kid] = <<>> /\ unwritten'[Parent] = unwritten[Parent]
    BY <1>1, <1>2, <1>14 DEF Exec, KidIs
  <2>2. PlainStages'
    BY <1>1, <1>p, <1>s, <2>1 DEF PlainStages
  <2> QED BY <1>4, <2>1, <2>2
<1>15. CASE ExecFails \/ KidWaits
  <2>1. /\ kid \in {"exec", "wait"} /\ UNCHANGED <<terminal, parent, round, memory>>
        /\ kid' \in {"wait", "failed", "ended"} /\ (kid' = "wait" => kid = "exec")
        /\ (UNCHANGED <<unwritten, written>> \/ Flush(Kid))
    BY <1>15 DEF ExecFails, KidWaits, KidIs
  <2>2. unwritten[Kid] = <<>>
    BY <2>1 DEF PlainStages
  <2>3. UNCHANGED <<unwritten, written>>
    BY <1>2, <2>1, <2>2, PlainFlush
  <2>4. PlainStages'
    BY <1>1, <1>p, <1>s, <2>1, <2>3 DEF PlainStages
  <2> QED BY <1>4, <2>3, <2>4
<1>16. CASE KidPrints
  <2>0. Append(written, <<"output", 0>>) = written \o <<<<"output", 0>>>>
    BY <1>1
  <2>1. /\ kid = "printing" /\ written' = written \o <<<<"output", 0>>>> /\ kid' = "ended"
        /\ UNCHANGED <<terminal, parent, round, memory, unwritten>>
    BY <1>16, <2>0 DEF KidPrints, KidIs, PlainStages
  <2>2. "output" \notin Texts /\ Executes /\ Texts \cap Farewells = {}
    BY <1>p, <2>1 DEF PlainStages
  <2>3. "end" \notin Texts
    BY <2>2 DEF Farewells
  <2>4. PlainLines' /\ Texts' = Texts \cup {"output"}
    BY <2>1, <2>2, <2>3, PlainAdded
  <2> QED BY <1>1, <1>p, <2>1, <2>2, <2>4 DEF PlainStages, Farewells
<1>17. CASE KidWorks
  <2>1. kid = "running" /\ program = "fork1" /\ Puts(Kid, "kid_end") /\ kid' = "exit"
        /\ UNCHANGED <<terminal, parent, round, memory>>
    BY <1>17 DEF KidWorks, KidIs
  <2>2. unwritten[Kid] = <<>> /\ "kid_end" \notin Texts
    BY <2>1 DEF PlainStages
  <2>3. CASE terminal /\ written' = written \o <<<<"kid_end", 0>>>> /\ unwritten' = unwritten
    <3>1. PlainLines' /\ Texts' = Texts \cup {"kid_end"}
      BY <2>2, <2>3, PlainAdded
    <3>2. Texts' \cap Farewells = Texts \cap Farewells
      BY <3>1 DEF Farewells
    <3> QED BY <1>1, <1>p, <2>1, <2>2, <2>3, <3>1, <3>2 DEF PlainStages
  <2>4. CASE /\ ~terminal /\ written' = written /\ unwritten'[Kid] = <<<<"kid_end", 0>>>>
             /\ \A v \in {Parent, Kid} \ {Kid} : unwritten'[v] = unwritten[v]
    <3>1. unwritten'[Parent] = unwritten[Parent]
      BY <1>2, <2>4
    <3>2. PlainStages'
      BY <1>1, <1>p, <1>s, <2>1, <2>2, <2>4, <3>1 DEF PlainStages
    <3> QED BY <1>4, <2>4, <3>2
  <2> QED BY <1>2, <2>1, <2>2, <2>3, <2>4, PlainPuts
<1>18. CASE KidExits
  <2>1. kid = "exit" /\ Flush(Kid) /\ kid' = "ended" /\ UNCHANGED <<terminal, parent, round, memory>>
        /\ program = "fork1"
    BY <1>18 DEF KidExits, KidIs, PlainStages
  <2>2. unwritten'[Kid] = <<>> /\ unwritten'[Parent] = unwritten[Parent]
    BY <1>2, <2>1, PlainFlush
  <2>3. CASE unwritten[Kid] = <<>>
    <3>1. written' = written
      BY <1>2, <2>1, <2>3, PlainFlush
    <3>2. PlainStages'
      BY <1>1, <1>p, <1>s, <2>1, <2>2, <3>1 DEF PlainStages
    <3> QED BY <1>4, <3>1, <3>2
  <2>4. CASE unwritten[Kid] = <<<<"kid_end", 0>>>> /\ "kid_end" \notin Texts
    <3>1. written' = written \o <<<<"kid_end", 0>>>>
      BY <1>2, <2>1, <2>4, PlainFlush
    <3>2. PlainLines' /\ Texts' = Texts \cup {"kid_end"}
      BY <2>4, <3>1, PlainAdded
    <3>3. Texts' \cap Farewells = Texts \cap Farewells
      BY <3>2 DEF Farewells
    <3> QED BY <1>1, <1>p, <2>1, <2>2, <3>2, <3>3 DEF PlainStages
  <2> QED BY <2>3, <2>4 DEF PlainStages
<1>19. CASE KidWrites
  <2>1. PlainStages'
    BY <1>1, <1>p, <1>s, <1>19 DEF KidWrites, PlainStages
  <2> QED BY <1>4, <1>19, <2>1 DEF KidWrites
<1>20. CASE KidNoMemory
  <2>1. PlainStages'
    BY <1>1, <1>p, <1>s, <1>20 DEF KidNoMemory, KidIs, PlainStages
  <2> QED BY <1>4, <1>20, <2>1 DEF KidNoMemory, KidIs
<1> QED BY <1>5, <1>6, <1>7, <1>8, <1>9, <1>10, <1>11, <1>12, <1>13, <1>14, <1>15, <1>16, <1>17,
           <1>18, <1>19, <1>20 DEF ForksNext, ForkParent, ForkKidStep

\* Nothing but what was in two sequences is in the one after the other.
LEMMA JoinedTexts ==
    ASSUME NEW L, NEW s \in Seq(L), NEW u \in Seq(L)
    PROVE  \A k \in DOMAIN (s \o u) : \/ \E j \in DOMAIN s : (s \o u)[k] = s[j]
                                      \/ \E j \in DOMAIN u : (s \o u)[k] = u[j]
<1>1. Len(s) \in Nat /\ Len(u) \in Nat /\ Len(s \o u) = Len(s) + Len(u) /\ s \o u \in Seq(L)
  OBVIOUS
<1>2. DOMAIN s = 1 .. Len(s) /\ DOMAIN u = 1 .. Len(u) /\ DOMAIN (s \o u) = 1 .. Len(s) + Len(u)
  BY <1>1
<1> SUFFICES ASSUME NEW k \in DOMAIN (s \o u)
             PROVE  \/ \E j \in DOMAIN s : (s \o u)[k] = s[j]
                    \/ \E j \in DOMAIN u : (s \o u)[k] = u[j]
  OBVIOUS
<1>3. CASE k \in DOMAIN s
  <2>1. (s \o u)[k] = s[k]
    BY <1>1, <1>2, <1>3
  <2> QED BY <1>3, <2>1
<1>4. CASE k \notin DOMAIN s
  <2>1. k - Len(s) \in DOMAIN u
    BY <1>1, <1>2, <1>4
  <2>2. (s \o u)[k] = u[k - Len(s)]
    BY <1>1, <1>2, <1>4, <2>1
  <2> QED BY <2>1, <2>2
<1> QED BY <1>3, <1>4

\* sh writes a line of this round that it has not written before.
LEMMA ShellAdded ==
    ASSUME ForksTypeOK, ShellLines, NEW t \in Printable, <<t, round>> \notin {written[k] : k \in DOMAIN written},
           written' = written \o <<<<t, round>>>>
    PROVE  /\ Distinct'
           /\ \A j, k \in DOMAIN written' : j < k => written'[j][2] <= written'[k][2]
           /\ \A k \in DOMAIN written' : \/ written'[k] = <<t, round>>
                                         \/ \E j \in DOMAIN written : written'[k] = written[j]
<1> DEFINE x == <<t, round>>
           m == Len(written) + 1
           e == written'
<1>0. round \in Nat
  BY ForksAssumption DEF ForksTypeOK
<1>1. x \in PrintedLine /\ written \in Seq(PrintedLine) /\ e = written \o <<x>> /\ m = Len(written) + 1 /\ e = written'
  BY <1>0 DEF ForksTypeOK, PrintedLine
<1>x. x[2] = round /\ x = <<t, round>>
  OBVIOUS
<1>n. \A k \in DOMAIN written : written[k] # x /\ written[k][2] <= round
  BY DEF ShellLines
<1> HIDE DEF x, e, m
<1>2. m \in Nat /\ m \in DOMAIN e /\ m \notin DOMAIN written
      /\ DOMAIN written \subseteq Nat \ {0}
  BY <1>1, LineAdded
<1>4. \A k \in DOMAIN written : k \in DOMAIN e /\ e[k] = written[k] /\ k < m
  BY <1>1, LineAdded
<1>5. \A k \in DOMAIN e : k \in DOMAIN written \/ k = m
  BY <1>1, LineAdded
<1>6. e[m] = x
  BY <1>1, LineAdded
<1>7. Distinct'
  BY <1>1, <1>n, <1>2, <1>4, <1>5, <1>6 DEF Distinct, ShellLines
<1>8. \A j, k \in DOMAIN e : j < k => e[j][2] <= e[k][2]
  <2> SUFFICES ASSUME NEW j \in DOMAIN e, NEW k \in DOMAIN e, j < k
               PROVE  e[j][2] <= e[k][2]
    OBVIOUS
  <2>1. CASE k \in DOMAIN written
    <3>1. j \in DOMAIN written
      BY <1>2, <1>4, <1>5, <2>1
    <3>2. written[j][2] <= written[k][2]
      BY <2>1, <3>1 DEF ShellLines
    <3> QED BY <1>4, <2>1, <3>1, <3>2
  <2>2. CASE k = m
    <3>1. j \in DOMAIN written
      BY <1>2, <1>4, <1>5, <2>2
    <3> QED BY <1>x, <1>n, <1>4, <1>6, <2>2, <3>1
  <2> QED BY <1>5, <2>1, <2>2
<1>9. \A k \in DOMAIN e : e[k] = x \/ \E j \in DOMAIN written : e[k] = written[j]
  BY <1>4, <1>5, <1>6
<1> QED BY <1>1, <1>x, <1>7, <1>8, <1>9

\* What is in the two buffers of sh, and what it writes of them.
LEMMA ShellWrites ==
    ASSUME ForksTypeOK, ShellInv, NEW u \in Seq(PrintedLine), \A k \in DOMAIN u : u[k][1] \in {"prompt", "output"},
           written' = written \o u
    PROVE  Texts' \subseteq {"prompt", "output"}
<1>1. written \in Seq(PrintedLine) /\ \A k \in DOMAIN written : written[k][1] \in {"prompt", "output"}
  BY DEF ForksTypeOK, ShellInv, Texts
<1>2. \A k \in DOMAIN (written \o u) : \/ \E j \in DOMAIN written : (written \o u)[k] = written[j]
                                       \/ \E j \in DOMAIN u : (written \o u)[k] = u[j]
  BY <1>1, JoinedTexts, SMTT(60)
<1>3. \A k \in DOMAIN written' : written'[k][1] \in {"prompt", "output"}
  BY <1>1, <1>2
<1> QED BY <1>3 DEF Texts

\* Appending joins a sequence of one line.
LEMMA LineAppended ==
    ASSUME NEW S, NEW u \in Seq(S), NEW x \in S
    PROVE  Append(u, x) = u \o <<x>> /\ <<x>> \in Seq(S)
OBVIOUS

\* sh keeps to its prompts and its children's output.
LEMMA ShellKept ==
    ASSUME ForksTypeOK, ShellInv, terminal => ShellLines, ForksNext, program = "sh", program' = program
    PROVE  ShellInv' /\ (terminal => ShellLines)'
<1>1. /\ terminal \in BOOLEAN /\ terminal' = terminal /\ round \in Nat
      /\ unwritten \in [{Parent, Kid} -> Seq(PrintedLine)] /\ written \in Seq(PrintedLine)
  BY ForksAssumption DEF ForksTypeOK, ForksNext, ForkParent, ForkKidStep, Begin, Prompt, FlushFirst,
        ForkKid, ForkKidFails, WaitKid, ParentPrints, ParentNoMemory, ParentExits, Exec, ExecFails, KidWaits,
        KidPrints, KidWorks, KidExits, KidWrites, KidNoMemory, KidIs
<1>2. Parent \in {Parent, Kid} /\ Kid \in {Parent, Kid} /\ Parent # Kid
  BY DEF Parent, Kid
<1>p. Executes /\ ~Shares
  BY DEF Executes, Shares
<1>s. written' = written => (Distinct => Distinct') /\ Texts' = Texts
  BY DEF Texts, Distinct
<1>t. <<>> \in Seq(PrintedLine) /\ DOMAIN <<>> = {} /\ written \o <<>> = written
  BY <1>1
<1>3. ASSUME NEW w \in {Parent, Kid}, Flush(w)
      PROVE  /\ Texts' \subseteq {"prompt", "output"}
             /\ unwritten'[w] = <<>> /\ \A v \in {Parent, Kid} \ {w} : unwritten'[v] = unwritten[v]
             /\ terminal => UNCHANGED <<unwritten, written>>
             /\ (\A v \in {Parent, Kid} : \A k \in DOMAIN unwritten[v] : unwritten[v][k][1] = "prompt")'
             /\ terminal => unwritten'[Parent] = <<>> /\ unwritten'[Kid] = <<>>
  <2>1. unwritten[w] \in Seq(PrintedLine) /\ \A k \in DOMAIN unwritten[w] : unwritten[w][k][1] \in {"prompt", "output"}
    BY <1>1 DEF ShellInv
  <2>2. written' = written \o unwritten[w]
    BY <1>3 DEF Flush
  <2>3. terminal => unwritten[w] = <<>>
    BY DEF ShellInv
  <2>4. /\ unwritten'[w] = <<>> /\ \A v \in {Parent, Kid} \ {w} : unwritten'[v] = unwritten[v]
        /\ terminal => UNCHANGED <<unwritten, written>>
    BY <1>3, <2>3, PlainFlush
  <2>5. (\A v \in {Parent, Kid} : \A k \in DOMAIN unwritten[v] : unwritten[v][k][1] = "prompt")'
    BY <1>t, <2>4 DEF ShellInv
  <2>6. terminal => unwritten'[Parent] = <<>> /\ unwritten'[Kid] = <<>>
    BY <1>1, <2>4 DEF ShellInv
  <2> QED BY <2>1, <2>2, <2>4, <2>5, <2>6, ShellWrites
<1>4. CASE Prompt
  <2> DEFINE x == <<"prompt", round>>
             u == unwritten[Parent]
  <2>1. /\ parent = "begin"
        /\ written' = IF terminal THEN written \o Append(u, x) ELSE written
        /\ unwritten' = [unwritten EXCEPT ![Parent] = IF terminal THEN <<>> ELSE Append(u, x)]
        /\ IF round < Commands THEN round' = round + 1 /\ parent' = "fork"
                               ELSE parent' = "exit" /\ round' = round
        /\ kid' = kid /\ kid = "none"
    BY <1>4 DEF Prompt, ShellInv
  <2>2. x \in PrintedLine /\ "prompt" \in Printable /\ x[1] = "prompt" /\ x[2] = round
    BY <1>1 DEF PrintedLine, Printable
  <2>3. u \in Seq(PrintedLine) /\ (terminal => u = <<>>) /\ (terminal => unwritten[Kid] = <<>>)
        /\ \A k \in DOMAIN u : u[k][1] = "prompt"
    BY <1>1, <1>2 DEF ShellInv
  <2>x. x = <<"prompt", round>>
    OBVIOUS
  <2> HIDE DEF x, u
  <2>a. Append(<<>>, x) = <<x>>
    OBVIOUS
  <2>b. Append(u, x) = u \o <<x>> /\ <<x>> \in Seq(PrintedLine)
    BY <2>2, <2>3, LineAppended
  <2>4. Append(u, x) = u \o <<x>> /\ (u = <<>> => Append(u, x) = <<x>>) /\ <<x>> \in Seq(PrintedLine)
    BY <2>a, <2>b
  <2>5. \A k \in DOMAIN <<x>> : <<x>>[k] = x
    OBVIOUS
  <2>6. \A k \in DOMAIN Append(u, x) : Append(u, x)[k][1] = "prompt"
    BY <2>2, <2>3, <2>4, <2>5, JoinedTexts
  <2>7. unwritten'[Kid] = unwritten[Kid] /\ unwritten'[Parent] = IF terminal THEN <<>> ELSE Append(u, x)
    BY <1>1, <1>2, <2>1
  <2>8. Texts' \subseteq {"prompt", "output"}
    <3>1. CASE terminal
      BY <2>1, <2>3, <2>4, <2>5, <2>2, <3>1, ShellWrites
    <3>2. CASE ~terminal
      BY <1>s, <2>1, <3>2 DEF ShellInv
    <3> QED BY <3>1, <3>2
  <2>9. (\A w \in {Parent, Kid} : \A k \in DOMAIN unwritten[w] : unwritten[w][k][1] = "prompt")'
    BY <1>t, <2>6, <2>7 DEF ShellInv
  <2>10. ShellInv'
    BY <1>1, <2>1, <2>3, <2>7, <2>8, <2>9 DEF ShellInv
  <2>11. ASSUME terminal PROVE ShellLines'
    <3>1. written' = written \o <<x>>
      BY <2>1, <2>3, <2>4, <2>11
    <3>2. ShellLines
      BY <2>11
    <3>3. \A k \in DOMAIN written : written[k] # x
      BY <1>1, <2>1, <2>2, <3>2 DEF ShellLines
    <3>4. /\ Distinct'
          /\ \A j, k \in DOMAIN written' : j < k => written'[j][2] <= written'[k][2]
          /\ \A k \in DOMAIN written' : \/ written'[k] = x
                                        \/ \E j \in DOMAIN written : written'[k] = written[j]
      BY <2>2, <2>x, <3>1, <3>2, <3>3, ShellAdded
    <3>5. round <= round' /\ (parent' = "fork" => round < round' /\ round' = round + 1) /\ round' \in Nat
      BY <1>1, <2>1
    <3>6. \A k \in DOMAIN written : written[k][2] <= round /\ written[k][2] \in Nat
      BY <1>1, <3>2 DEF ShellLines, PrintedLine
    <3>7. ASSUME NEW k \in DOMAIN written'
          PROVE  /\ written'[k][2] <= round'
                 /\ written'[k][1] = "prompt" => written'[k][2] < round' \/ parent' \in {"exit", "gone"}
                 /\ written'[k][1] = "output" /\ (parent' = "fork" \/ kid' \in {"exec", "printing"}) =>
                       written'[k][2] < round'
      <4>1. written'[k][2] <= round
        BY <1>1, <2>2, <3>4, <3>6
      <4>2. written'[k][2] \in Nat
        BY <1>1, <2>2, <3>4, <3>6
      <4>3. written'[k][2] <= round' /\ (round < round' => written'[k][2] < round')
        BY <1>1, <3>5, <4>1, <4>2
      <4>4. round < round' \/ parent' = "exit"
        BY <1>1, <2>1
      <4>5. parent' # "fork" \/ round < round'
        BY <3>5
      <4>6. kid' \notin {"exec", "printing"}
        BY <2>1
      <4> QED BY <4>3, <4>4, <4>5, <4>6
    <3> QED BY <3>4, <3>7 DEF ShellLines
  <2> QED BY <1>1, <2>10, <2>11
<1>5. CASE ForkKid
  <2>1. /\ parent = "fork" /\ kid' = "exec" /\ parent' = "wait" /\ UNCHANGED <<terminal, written, round, memory>>
        /\ unwritten' = [unwritten EXCEPT ![Kid] = unwritten[Parent]]
    BY <1>5, <1>p DEF ForkKid
  <2>2. unwritten'[Kid] = unwritten[Parent] /\ unwritten'[Parent] = unwritten[Parent]
    BY <1>1, <1>2, <2>1
  <2>a. (\A v \in {Parent, Kid} : \A k \in DOMAIN unwritten[v] : unwritten[v][k][1] = "prompt")'
    BY <1>2, <2>2 DEF ShellInv
  <2>t. Texts' = Texts /\ Texts \subseteq {"prompt", "output"}
    BY <1>s, <2>1 DEF ShellInv
  <2>u. terminal' => unwritten'[Parent] = <<>> /\ unwritten'[Kid] = <<>>
    BY <1>1, <2>1, <2>2 DEF ShellInv
  <2>3. ShellInv'
    BY <2>1, <2>a, <2>t, <2>u DEF ShellInv
  <2>4. terminal => ShellLines'
    BY <1>1, <1>s, <2>1 DEF ShellLines
  <2> QED BY <1>1, <2>3, <2>4
<1>6. CASE ForkKidFails \/ ParentExits
  <2>1. /\ Flush(Parent) /\ UNCHANGED <<terminal, kid, round, memory>>
        /\ \/ parent = "fork" /\ parent' = "failed"
           \/ parent = "exit" /\ parent' = "gone"
    BY <1>6 DEF ForkKidFails, ParentExits
  <2>2. ShellInv'
    BY <1>1, <1>2, <1>3, <1>t, <2>1 DEF ShellInv
  <2>3. terminal => ShellLines'
    BY <1>1, <1>2, <1>3, <1>s, <2>1 DEF ShellLines, ShellInv
  <2> QED BY <1>1, <2>2, <2>3
<1>7. CASE WaitKid
  <2>1. /\ parent = "wait" /\ kid \in {"ended", "failed"} /\ kid' = "none" /\ parent' = "begin"
        /\ UNCHANGED <<terminal, unwritten, written, round, memory>>
    BY <1>7, <1>p DEF WaitKid
  <2>a. (\A v \in {Parent, Kid} : \A k \in DOMAIN unwritten[v] : unwritten[v][k][1] = "prompt")'
    BY <2>1 DEF ShellInv
  <2>t. Texts' = Texts /\ Texts \subseteq {"prompt", "output"}
    BY <1>s, <2>1 DEF ShellInv
  <2>u. terminal' => unwritten'[Parent] = <<>> /\ unwritten'[Kid] = <<>>
    BY <1>1, <2>1 DEF ShellInv
  <2>2. ShellInv'
    BY <2>1, <2>a, <2>t, <2>u DEF ShellInv
  <2>3. terminal => ShellLines'
    BY <1>1, <1>s, <2>1 DEF ShellLines
  <2> QED BY <1>1, <2>2, <2>3
<1>8. CASE Exec
  <2>1. kid = "exec" /\ kid' = "printing" /\ UNCHANGED <<terminal, parent, round, memory, written>>
        /\ unwritten'[Kid] = <<>> /\ unwritten'[Parent] = unwritten[Parent]
    BY <1>1, <1>2, <1>8 DEF Exec, KidIs
  <2>a. (\A v \in {Parent, Kid} : \A k \in DOMAIN unwritten[v] : unwritten[v][k][1] = "prompt")'
    BY <1>t, <2>1 DEF ShellInv
  <2>t. Texts' = Texts /\ Texts \subseteq {"prompt", "output"}
    BY <1>s, <2>1 DEF ShellInv
  <2>u. terminal' => unwritten'[Parent] = <<>> /\ unwritten'[Kid] = <<>>
    BY <1>1, <2>1 DEF ShellInv
  <2>c. kid' # "none" /\ parent' = "wait" /\ kid' \in {"printing"}
    BY <2>1 DEF ShellInv
  <2>2. ShellInv'
    BY <2>c, <2>a, <2>t, <2>u DEF ShellInv
  <2>3. terminal => ShellLines'
    BY <1>1, <1>s, <2>1 DEF ShellLines
  <2> QED BY <1>1, <2>2, <2>3
<1>9. CASE ExecFails
  <2>1. kid = "exec" /\ kid' = "failed" /\ UNCHANGED <<terminal, parent, round, memory>> /\ Flush(Kid)
    BY <1>9 DEF ExecFails, KidIs
  <2>2. ShellInv'
    BY <1>1, <1>2, <1>3, <1>t, <2>1 DEF ShellInv
  <2>3. terminal => ShellLines'
    BY <1>1, <1>2, <1>3, <1>s, <2>1 DEF ShellLines, ShellInv
  <2> QED BY <1>1, <2>2, <2>3
<1>10. CASE KidPrints
  <2> DEFINE x == <<"output", round>>
  <2>1. /\ kid = "printing" /\ written' = Append(written, x) /\ kid' = "ended"
        /\ UNCHANGED <<terminal, parent, round, memory, unwritten>>
    BY <1>10 DEF KidPrints, KidIs
  <2>2. x \in PrintedLine /\ "output" \in Printable /\ x[1] = "output" /\ x[2] = round
    BY <1>1 DEF PrintedLine, Printable
  <2>x. x = <<"output", round>>
    OBVIOUS
  <2> HIDE DEF x
  <2>3. written' = written \o <<x>> /\ <<x>> \in Seq(PrintedLine) /\ \A k \in DOMAIN <<x>> : <<x>>[k] = x
    BY <1>1, <2>1, <2>2
  <2>4. Texts' \subseteq {"prompt", "output"}
    BY <2>2, <2>3, ShellWrites
  <2>s. UNCHANGED unwritten /\ kid' # "none" /\ parent' = parent /\ parent = "wait"
    BY <2>1 DEF ShellInv
  <2>5. ShellInv'
    BY <1>1, <2>1, <2>4, <2>s DEF ShellInv
  <2>6. ASSUME terminal PROVE ShellLines'
    <3>1. ShellLines
      BY <2>6
    <3>2. \A k \in DOMAIN written : written[k] # x
      BY <1>1, <2>1, <2>2, <3>1 DEF ShellLines
    <3>3. /\ Distinct'
          /\ \A j, k \in DOMAIN written' : j < k => written'[j][2] <= written'[k][2]
          /\ \A k \in DOMAIN written' : \/ written'[k] = x
                                        \/ \E j \in DOMAIN written : written'[k] = written[j]
      BY <2>2, <2>x, <2>3, <3>1, <3>2, ShellAdded
    <3>4. parent = "wait"
      BY <2>1 DEF ShellInv
    <3>5. ASSUME NEW k \in DOMAIN written'
          PROVE  /\ written'[k][2] <= round
                 /\ written'[k][1] = "prompt" => written'[k][2] < round
      BY <1>1, <2>1, <2>2, <3>1, <3>3, <3>4 DEF ShellLines
    <3> QED BY <2>1, <3>3, <3>4, <3>5 DEF ShellLines
  <2> QED BY <1>1, <2>5, <2>6
<1>11. ~Begin /\ ~FlushFirst /\ ~ParentPrints /\ ~ParentNoMemory /\ ~KidWaits /\ ~KidWorks /\ ~KidExits
       /\ ~KidWrites /\ ~KidNoMemory
  BY <1>p DEF ShellInv, Begin, FlushFirst, ParentPrints, ParentNoMemory, KidWaits, KidWorks, KidExits,
        KidWrites, KidNoMemory
<1> QED BY <1>4, <1>5, <1>6, <1>7, <1>8, <1>9, <1>10, <1>11 DEF ForksNext, ForkParent, ForkKidStep

\* What the invariant says of what has been printed.
LEMMA PrintedWell ==
    ASSUME ForksInv
    PROVE  PrintedInOrder
<1>1. ForksTypeOK /\ DOMAIN written \subseteq Nat
  BY DEF ForksInv, ForksTypeOK
<1>2. CASE program = "sh"
  <2>1. \A k \in DOMAIN written : written[k][1] \in {"prompt", "output"}
    BY <1>2 DEF ForksInv, ShellInv, Texts
  <2>2. Before("begin", "output") /\ Before("output", "end") /\ Before("begin", "kid_end")
    BY <2>1 DEF Before
  <2>3. terminal => ShellLines
    BY <1>2 DEF ForksInv
  <2>4. terminal => \A j, k \in DOMAIN written : written[j] = written[k] => j = k
    BY <2>3 DEF ShellLines, Distinct
  <2>5. terminal => \A j, k \in DOMAIN written : j < k => written[j][2] <= written[k][2]
    BY <2>3 DEF ShellLines
  <2> QED BY <1>1, <1>2, <2>2, <2>4, <2>5 DEF PrintedInOrder, Shares
<1>3. CASE program # "sh"
  <2>1. PlainLines /\ PlainStages
    BY <1>3 DEF ForksInv
  <2>2. \A j, k \in DOMAIN written : written[j] = written[k] => j = k
    BY <2>1 DEF PlainLines, Distinct
  <2>3. \A j, k \in DOMAIN written : j < k => written[j][2] <= written[k][2]
    BY <2>1 DEF PlainLines
  <2>4. DOMAIN written = 1 .. Len(written) /\ Len(written) \in Nat
    BY <1>1 DEF ForksTypeOK
  <2>5. ASSUME NEW y \in {"output", "kid_end"} PROVE Before("begin", y)
    <3> SUFFICES ASSUME NEW j \in DOMAIN written, NEW k \in DOMAIN written,
                        written[j][1] = "begin", written[k][1] = y
                 PROVE  j < k
      BY DEF Before
    <3>1. j = 1 /\ (k = 1 => written[k] = written[j])
      BY <2>1 DEF PlainLines
    <3>2. k # 1
      BY <3>1
    <3> QED BY <2>4, <3>1, <3>2
  <2>6. Shares /\ kid = "ended" => \A k \in DOMAIN written : written[k][1] # "old"
    BY <2>1 DEF PlainStages, Texts
  <2>7. Before("output", "end")
    BY <2>1 DEF PlainLines
  <2> QED BY <1>1, <2>2, <2>3, <2>5, <2>6, <2>7 DEF PrintedInOrder
<1> QED BY <1>2, <1>3

LEMMA ForksKept ==
    ASSUME ForksInv, [NextPrograms]_everything
    PROVE  ForksInv'
<1>1. program' = program /\ (ForksNext \/ UNCHANGED forkVars)
  BY PlainSteps
<1>2. CASE UNCHANGED forkVars
  <2>1. ForksTypeOK'
    BY <1>2 DEF forkVars, ForksInv, ForksTypeOK
  <2>2. ASSUME program # "sh" PROVE PlainLines' /\ PlainStages'
    <3>1. PlainLines /\ PlainStages /\ Texts' = Texts
      BY <1>2, <2>2, PlainStays DEF forkVars, ForksInv
    <3>2. PlainStages'
      BY <1>1, <1>2, <3>1 DEF forkVars, PlainStages, Executes, Shares
    <3> QED BY <1>2, <3>1, <3>2, PlainStays DEF forkVars
  <2>3. ASSUME program = "sh" PROVE ShellInv' /\ (terminal => ShellLines)'
    <3>1. ShellInv /\ (terminal => ShellLines) /\ Texts' = Texts
      BY <1>2, <2>3, PlainStays DEF forkVars, ForksInv
    <3>2. ShellInv'
      BY <1>2, <3>1 DEF forkVars, ShellInv
    <3>3. (terminal => ShellLines)'
      BY <1>2, <3>1 DEF forkVars, ShellLines, Distinct
    <3> QED BY <3>2, <3>3
  <2> QED BY <1>1, <2>1, <2>2, <2>3 DEF ForksInv
<1>3. CASE ForksNext
  <2>1. ForksTypeOK'
    BY <1>1, <1>3, ForksTypes DEF ForksInv
  <2>2. program # "sh" => PlainLines' /\ PlainStages'
    BY <1>1, <1>3, PlainKept DEF ForksInv
  <2>3. program = "sh" => ShellInv' /\ (terminal => ShellLines)'
    BY <1>1, <1>3, ShellKept DEF ForksInv
  <2> QED BY <1>1, <2>1, <2>2, <2>3 DEF ForksInv
<1> QED BY <1>1, <1>2, <1>3

\* No line of a process that forks is written twice, or out of order, whenever the
\* buffers of parent and child are written and whatever fails; and the daemon's
\* file is in order.
THEOREM PrintsRight == SpecPrograms => []ProcessesPrintRight
<1>1. InitPrograms => ForksInv
  <2> SUFFICES ASSUME InitPrograms PROVE ForksInv
    OBVIOUS
  <2>1. /\ ForksInit /\ Commands \in Nat
        /\ written = <<>> /\ round = 0 /\ kid = "none" /\ memory = "old"
        /\ unwritten[Parent] = <<>> /\ unwritten[Kid] = <<>>
        /\ parent \in {"begin", "fork"}
    BY ForksAssumption DEF InitPrograms, ForksInit
  <2>2. <<>> \in Seq(PrintedLine) /\ DOMAIN <<>> = {}
    OBVIOUS
  <2>3. ForksTypeOK
    BY <2>1, <2>2 DEF ForksInit, ForksTypeOK
  <2>4. Texts = {} /\ DOMAIN written = {}
    BY <2>1, <2>2 DEF Texts
  <2>5. PlainLines
    BY <2>4 DEF PlainLines, Distinct, Before
  <2>6. PlainStages
    BY <2>1, <2>4 DEF PlainStages
  <2>7. ShellLines
    BY <2>4 DEF ShellLines, Distinct
  <2>8. ShellInv
    BY <2>1, <2>2, <2>4 DEF ShellInv
  <2> QED BY <2>3, <2>5, <2>6, <2>7, <2>8 DEF ForksInv
<1>2. ForksInv => PrintedInOrder
  BY PrintedWell
<1> QED BY <1>1, <1>2, ForksKept, NumbersWritten, PTL DEF SpecPrograms, ProcessesPrintRight

-----------------------------------------------------------------------------
(* Copies *)

\* slowcat and slowcat1 have a permit when they take it; what the alarm brings
\* in between may be lost and is never too much.
PermitInv ==
    /\ permits <= saved /\ saved <= Burst
    /\ cat \in {"test", "pause", "take", "store"} => Paced
    /\ cat = "take" => permits >= 1
    /\ cat = "store" => program = "slowcat1" /\ 1 <= loaded /\ loaded <= permits

\* What is read is written or in the buffer, which is empty but while it is written,
\* unless a stream has dropped some of it.
BytesInv ==
    /\ writeError => Stdio
    /\ Stdio => ~cshort
    /\ ~writeError => Len(output) + Len(cbuf) = coffset
    /\ cat \notin {"write", "failed"} => cbuf = <<>>
    /\ cat = "done" => coffset = FileLength \/ (readError /\ ~Paced)

\* Of the buffer a byte is never written before its place, nor a buffer's length or
\* more behind it, and so with what has been written.
PieceInv ==
    ~writeError =>
       /\ \A j \in 1 .. Len(cbuf) : cbuf[j] <= Len(output) + j /\ coffset <= cbuf[j] - j + CopySize
       /\ \A j \in 1 .. Len(output) : output[j] <= j /\ j < output[j] + CopySize

\* The streams have what was read last in the buffer, behind all they have written.
StreamInv ==
    Stdio =>
       /\ Len(cbuf) <= coffset
       /\ \A j \in 1 .. Len(cbuf) : cbuf[j] = coffset - Len(cbuf) + j
       /\ \A j \in 1 .. Len(output) : output[j] <= coffset - Len(cbuf)
       /\ \A j, k \in 1 .. Len(output) : j < k => output[j] < output[k]

Unhurt == ~cshort /\ ~writeError => output \o cbuf = [j \in 1 .. coffset |-> j]

CopyInv == CopyTypeOK /\ PermitInv /\ BytesInv /\ PieceInv /\ StreamInv /\ Unhurt

\* The next k bytes after the first ones of the source.
LEMMA NextBytes ==
    ASSUME NEW k \in Nat, NEW off \in Nat,
           NEW done \in Seq(Nat), done = [j \in 1 .. off |-> j]
    PROVE  done \o [j \in 1 .. k |-> off + j] = [j \in 1 .. off + k |-> j]
<1> DEFINE piece == [j \in 1 .. k |-> off + j]
<1>1. piece \in Seq(Nat) /\ Len(piece) = k /\ Len(done) = off
  OBVIOUS
<1>2. done \o piece \in Seq(Nat) /\ Len(done \o piece) = off + k
  BY <1>1
<1>3. ASSUME NEW j \in 1 .. off + k PROVE (done \o piece)[j] = j
  <2>1. CASE j \in 1 .. off
    <3>1. (done \o piece)[j] = done[j]
      BY <1>1, <2>1
    <3> QED BY <2>1, <3>1
  <2>2. CASE j \in off + 1 .. off + k
    <3>1. (done \o piece)[j] = piece[j - off]
      BY <1>1, <2>2
    <3> QED BY <2>2, <3>1
  <2> QED BY <2>1, <2>2
<1> DEFINE all == [j \in 1 .. off + k |-> j]
<1>4. all \in Seq(Nat) /\ Len(all) = off + k /\ \A j \in 1 .. off + k : all[j] = j
  OBVIOUS
<1> HIDE DEF piece, all
<1>5. done \o piece = all
  BY <1>2, <1>3, <1>4, SeqEqual
<1> QED BY <1>5 DEF piece, all

\* What write takes of the buffer, and what the program then thinks is left.
LEMMA Pieces ==
    ASSUME NEW S, NEW s \in Seq(S), NEW k \in 1 .. Len(s)
    PROVE  /\ SubSeq(s, 1, k) \in Seq(S) /\ Len(SubSeq(s, 1, k)) = k
           /\ SubSeq(s, 1, Len(s) - k) \in Seq(S) /\ Len(SubSeq(s, 1, Len(s) - k)) = Len(s) - k
           /\ k = Len(s) => SubSeq(s, 1, k) = s /\ SubSeq(s, 1, Len(s) - k) = <<>>
<1>1. Len(s) \in Nat /\ k \in Nat /\ Len(s) - k \in 0 .. Len(s)
  OBVIOUS
<1>2. \A m \in 0 .. Len(s) : SubSeq(s, 1, m) \in Seq(S) /\ Len(SubSeq(s, 1, m)) = m
  BY <1>1
<1>3. SubSeq(s, 1, Len(s)) = s
  BY <1>1
<1>4. SubSeq(s, 1, k) \in Seq(S) /\ Len(SubSeq(s, 1, k)) = k
  BY <1>1, <1>2
<1>5. SubSeq(s, 1, Len(s) - k) \in Seq(S) /\ Len(SubSeq(s, 1, Len(s) - k)) = Len(s) - k
  BY <1>1, <1>2
<1>6. ASSUME k = Len(s) PROVE SubSeq(s, 1, k) = s /\ SubSeq(s, 1, Len(s) - k) = <<>>
  BY <1>1, <1>3, <1>5, <1>6
<1> QED BY <1>4, <1>5, <1>6

\* The first k of a sequence are a sequence of length k.
LEMMA FirstOnes ==
    ASSUME NEW S, NEW s \in Seq(S), NEW k \in 0 .. Len(s)
    PROVE  SubSeq(s, 1, k) \in Seq(S) /\ Len(SubSeq(s, 1, k)) = k
<1>1. Len(s) \in Nat /\ k \in Nat /\ k <= Len(s)
  OBVIOUS
<1> QED BY <1>1

\* A sequence to whose end the first k of another are added.
LEMMA FirstAdded ==
    ASSUME NEW S, NEW out \in Seq(S), NEW s \in Seq(S), NEW k \in 0 .. Len(s),
           NEW new, new = out \o SubSeq(s, 1, k)
    PROVE  /\ new \in Seq(S) /\ Len(new) = Len(out) + k
           /\ \A m \in 1 .. Len(out) : new[m] = out[m]
           /\ \A m \in 1 .. k : new[Len(out) + m] = s[m]
           /\ \A m \in 1 .. Len(new) : m > Len(out) => m - Len(out) \in 1 .. k /\ new[m] = s[m - Len(out)]
<1>1. Len(s) \in Nat /\ Len(out) \in Nat /\ k \in Nat /\ k <= Len(s)
  OBVIOUS
<1>2. /\ SubSeq(s, 1, k) \in Seq(S) /\ Len(SubSeq(s, 1, k)) = k
      /\ \A m \in 1 .. k : SubSeq(s, 1, k)[m] = s[m]
  BY <1>1
<1> DEFINE t == SubSeq(s, 1, k)
<1> HIDE DEF t
<1>3. t \in Seq(S) /\ Len(t) = k /\ (\A m \in 1 .. k : t[m] = s[m]) /\ new = out \o t
  BY <1>2 DEF t
<1>4. new \in Seq(S) /\ Len(new) = Len(out) + k
  BY <1>3
<1>5. \A m \in 1 .. Len(out) : new[m] = out[m]
  BY <1>1, <1>3
<1>6. \A m \in 1 .. k : new[Len(out) + m] = s[m]
  BY <1>1, <1>3
<1>7. ASSUME NEW m \in 1 .. Len(new), m > Len(out)
      PROVE  m - Len(out) \in 1 .. k /\ new[m] = s[m - Len(out)]
  <2>1. m - Len(out) \in 1 .. k /\ m = Len(out) + (m - Len(out))
    BY <1>1, <1>4, <1>7
  <2> QED BY <1>6, <2>1
<1> QED BY <1>4, <1>5, <1>6, <1>7

\* Increasing numbers up to off - len go on with the first k of the len numbers
\* after them.
LEMMA StreamGrows ==
    ASSUME NEW lo \in Nat, NEW len \in Nat, NEW off \in Nat, len <= off,
           NEW k \in Nat, k <= len, NEW out, NEW new,
           \A m \in 1 .. lo : out[m] \in Nat /\ new[m] = out[m] /\ out[m] <= off - len,
           \A m \in 1 .. lo + k : m > lo => new[m] = off - len + (m - lo),
           \A m, q \in 1 .. lo : m < q => out[m] < out[q]
    PROVE  /\ \A m \in 1 .. lo + k : new[m] <= off
           /\ \A m, q \in 1 .. lo + k : m < q => new[m] < new[q]
<1>1. ASSUME NEW m \in 1 .. lo + k PROVE new[m] <= off
  <2>1. CASE m <= lo
    <3>1. m \in 1 .. lo
      BY <2>1
    <3> QED BY <3>1
  <2>2. CASE m > lo
    BY <2>2
  <2> QED BY <2>1, <2>2
<1>2. ASSUME NEW m \in 1 .. lo + k, NEW q \in 1 .. lo + k, m < q
      PROVE  new[m] < new[q]
  <2>1. CASE q <= lo
    <3>1. m \in 1 .. lo /\ q \in 1 .. lo
      BY <1>2, <2>1
    <3> QED BY <1>2, <3>1
  <2>2. CASE m <= lo /\ q > lo
    <3>1. m \in 1 .. lo
      BY <2>2
    <3>2. new[m] \in Nat /\ new[m] <= off - len /\ new[q] = off - len + (q - lo)
      BY <2>2, <3>1
    <3> QED BY <2>2, <3>2
  <2>3. CASE m > lo
    <3>1. new[m] = off - len + (m - lo) /\ new[q] = off - len + (q - lo)
      BY <1>2, <2>3
    <3> QED BY <1>2, <3>1
  <2> QED BY <2>1, <2>2, <2>3
<1> QED BY <1>1, <1>2

\* A byte written at place p + q, within the size bytes before off.
LEMMA PlaceOf ==
    ASSUME NEW c \in Nat, NEW p \in Nat, NEW q \in Nat, NEW off \in Nat, NEW size \in Nat,
           q >= 1, c <= p + q, off <= c - q + size, p + q <= off
    PROVE  c <= p + q /\ p + q < c + size
OBVIOUS

\* Sequences of some of the first numbers are sequences of numbers.
LEMMA NumberSeq ==
    ASSUME NEW len \in Nat, NEW s \in Seq(1 .. len)
    PROVE  s \in Seq(Nat) /\ Len(s) \in Nat /\ \A m \in 1 .. Len(s) : s[m] \in Nat
<1>1. Len(s) \in Nat /\ \A m \in 1 .. Len(s) : s[m] \in 1 .. len
  OBVIOUS
<1>2. \A m \in 1 .. Len(s) : s[m] \in Nat
  BY <1>1
<1>3. s \in Seq(Nat)
  OBVIOUS
<1> QED BY <1>1, <1>2, <1>3

LEMMA CopyKept ==
    ASSUME CopyInv, [NextPrograms]_everything
    PROVE  CopyInv'
<1>0. /\ program' = program /\ (Paced' <=> Paced) /\ Burst' = Burst
      /\ Burst \in 1 .. TokenBurst /\ FileLength \in Nat /\ TokenBurst \in Nat \ {0}
      /\ CopySize \in Nat \ {0} /\ (program = "slowcat" => Burst = 1)
      /\ (program = "slowcat1" => Paced) /\ (Stdio' <=> Stdio)
  BY PlainSteps, CopiesAssumption DEF Paced, Burst, Stdio
<1> USE DEF CopyInv, CopyTypeOK, PermitInv, BytesInv
<1>1. (UNCHANGED <<coffset, cbuf, output, cshort, writeError>>) =>
         Unhurt' /\ PieceInv' /\ StreamInv'
  BY <1>0 DEF Unhurt, PieceInv, StreamInv
<1>2. CASE UNCHANGED copyVars
  BY <1>0, <1>1, <1>2 DEF copyVars
<1>3. CASE OpenFiles
  <2>1. /\ cat = "open" /\ cat' \in {"test", "read", "failed"} /\ (cat' = "test" => Paced)
        /\ UNCHANGED <<permits, loaded, saved, coffset, cbuf, output, cshort, readError, writeError>>
    BY <1>3 DEF OpenFiles, CopyGoto, Again
  <2> QED BY <1>0, <1>1, <2>1
<1>4. CASE OnAlarm
  <2>1. /\ permits' \in Nat /\ saved' \in Nat /\ permits' >= permits
        /\ permits' <= saved' /\ saved' <= Burst
    BY <1>0, <1>4 DEF OnAlarm, Capped
  <2> QED BY <1>0, <1>1, <1>4, <2>1 DEF OnAlarm, CopyGoto
<1>5. CASE TestPermit
  BY <1>0, <1>1, <1>5 DEF TestPermit, CopyGoto
<1>6. CASE TakePermit
  <2>1. cat = "take" /\ program \in {"slowcat", "slowcat1"} /\ permits >= 1 /\ saved >= 1
    BY <1>6 DEF TakePermit, Paced
  <2>2. CASE program = "slowcat"
    <3>1. permits' = 0 /\ saved' = saved - 1 /\ cat' = "read" /\ loaded' = loaded
      BY <1>6, <2>2 DEF TakePermit, CopyGoto
    <3> QED BY <1>0, <1>1, <1>6, <2>1, <2>2, <3>1 DEF TakePermit, CopyGoto
  <2>3. CASE program = "slowcat1"
    <3>1. permits' = permits /\ saved' = saved /\ cat' = "store" /\ loaded' = permits
      BY <1>6, <2>3 DEF TakePermit, CopyGoto
    <3> QED BY <1>0, <1>1, <1>6, <2>1, <2>3, <3>1 DEF TakePermit, CopyGoto
  <2> QED BY <2>1, <2>2, <2>3
<1>7. CASE StorePermit
  BY <1>0, <1>1, <1>7 DEF StorePermit, CopyGoto
<1>8. CASE ReadPieceFails
  BY <1>0, <1>1, <1>8 DEF ReadPieceFails, Again, Paced
<1>9. CASE WritePieceFails
  BY <1>0, <1>1, <1>9 DEF WritePieceFails, CopyGoto
<1>10. CASE ReadPiece
  <2>1. PICK k \in 0 .. CopySize :
          /\ coffset + k <= FileLength
          /\ k = 0 => coffset = FileLength
          /\ coffset' = coffset + k
          /\ cbuf' = [j \in 1 .. k |-> coffset + j]
          /\ cat' = IF k > 0 THEN "write" ELSE IF program = "webdl" THEN "read" ELSE "done"
    BY <1>10 DEF ReadPiece
  <2>2. /\ cat = "read" /\ cbuf = <<>> /\ output \in Seq(Nat)
        /\ (~writeError => Len(output) = coffset)
        /\ UNCHANGED <<permits, loaded, saved, output, cshort, readError, writeError>>
        /\ k \in Nat /\ coffset \in Nat /\ output \o cbuf = output
    BY <1>0, <1>10 DEF ReadPiece
  <2>3. cbuf' \in Seq(1 .. FileLength) /\ Len(cbuf') = k /\ (k = 0 => cbuf' = <<>>)
    <3>1. \A j \in 1 .. k : coffset + j \in 1 .. FileLength
      BY <1>0, <2>1, <2>2
    <3> HIDE DEF CopyInv, CopyTypeOK
    <3>2. cbuf' \in Seq(1 .. FileLength) /\ Len(cbuf') = k
      BY <2>1, <2>2, <3>1
    <3> QED BY <3>2
  <2>4. Unhurt'
    <3>1. ~cshort /\ ~writeError => output = [j \in 1 .. coffset |-> j]
      BY <2>2 DEF Unhurt
    <3>2. ~cshort /\ ~writeError => output \o cbuf' = [j \in 1 .. coffset + k |-> j]
      BY <2>1, <2>2, <3>1, NextBytes
    <3> QED BY <2>1, <2>2, <3>2 DEF Unhurt
  <2>5. \A j \in 1 .. Len(cbuf') : cbuf'[j] = coffset + j
    BY <2>1, <2>3
  <2>6. PieceInv'
    BY <1>0, <2>1, <2>2, <2>3, <2>5 DEF PieceInv
  <2>7. StreamInv'
    BY <1>0, <2>1, <2>2, <2>3, <2>5 DEF StreamInv
  <2>8. CopyTypeOK'
    BY <1>0, <2>1, <2>2, <2>3
  <2>9. BytesInv'
    <3>1. ~writeError' => Len(output') + Len(cbuf') = coffset'
      BY <2>1, <2>2, <2>3
    <3>2. cat' # "write" => k = 0 /\ cbuf' = <<>>
      BY <2>1, <2>2, <2>3
    <3>3. cat' = "done" => coffset' = FileLength
      <4> HIDE DEF CopyInv, CopyTypeOK, PermitInv, BytesInv
      <4>1. k = 0 \/ k > 0
        BY <2>2
      <4>2. k = 0 => coffset' = FileLength
        BY <2>1, <2>2
      <4>3. k > 0 => cat' = "write"
        BY <2>1
      <4> QED BY <4>1, <4>2, <4>3
    <3> QED BY <1>0, <2>2, <3>1, <3>2, <3>3
  <2>10. PermitInv'
    BY <1>0, <2>1, <2>2
  <2> QED BY <2>4, <2>6, <2>7, <2>8, <2>9, <2>10
<1>11. CASE WriteIgnored
  <2>1. PICK k \in 0 .. Len(cbuf) : output' = output \o SubSeq(cbuf, 1, k)
    <3>1. PICK k \in 0 .. Len(cbuf) - 1 : output' = output \o SubSeq(cbuf, 1, k)
      BY <1>11 DEF WriteIgnored
    <3> HIDE DEF CopyInv
    <3>2. k \in 0 .. Len(cbuf)
      BY <3>1, Len(cbuf) \in Nat DEF CopyInv
    <3> QED BY <3>1, <3>2
  <2>2. /\ Stdio /\ cbuf' = <<>> /\ writeError' = TRUE /\ cat' = Again
        /\ UNCHANGED <<permits, loaded, saved, coffset, cshort, readError>>
    BY <1>11 DEF WriteIgnored
  <2>3. /\ cbuf \in Seq(1 .. FileLength) /\ output \in Seq(1 .. FileLength)
        /\ k \in 0 .. Len(cbuf) /\ coffset \in Nat
    BY <1>0, <2>1
  <2>4. /\ output' \in Seq(1 .. FileLength) /\ Len(output') = Len(output) + k
        /\ \A m \in 1 .. Len(output) : output'[m] = output[m]
        /\ \A m \in 1 .. Len(output') :
              m > Len(output) => m - Len(output) \in 1 .. k /\ output'[m] = cbuf[m - Len(output)]
    <3> HIDE DEF CopyInv, CopyTypeOK, PermitInv, BytesInv
    <3>1. cbuf \in Seq(1 .. FileLength) /\ output \in Seq(1 .. FileLength)
      BY <2>3
    <3>2. output' = output \o SubSeq(cbuf, 1, k)
      BY <2>1
    <3>3. k \in 0 .. Len(cbuf)
      OBVIOUS
    <3>4. /\ \A m \in 1 .. Len(output) : output'[m] = output[m]
          /\ \A m \in 1 .. Len(output') :
                m > Len(output) => m - Len(output) \in 1 .. k /\ output'[m] = cbuf[m - Len(output)]
      BY <3>1, <3>2, <3>3, FirstAdded
    <3>5. SubSeq(cbuf, 1, k) \in Seq(1 .. FileLength) /\ Len(SubSeq(cbuf, 1, k)) = k
      BY <3>1, <3>3, FirstOnes, Zenon
    <3>6. output' \in Seq(1 .. FileLength) /\ Len(output') = Len(output) + k
      BY <3>1, <3>2, <3>5
    <3> QED BY <3>4, <3>6
  <2>5. StreamInv'
    <3>1. /\ Len(cbuf) <= coffset
          /\ \A m \in 1 .. Len(cbuf) : cbuf[m] = coffset - Len(cbuf) + m
          /\ \A m \in 1 .. Len(output) : output[m] <= coffset - Len(cbuf)
          /\ \A m, q \in 1 .. Len(output) : m < q => output[m] < output[q]
      BY <2>2 DEF StreamInv
    <3> HIDE DEF CopyInv, CopyTypeOK, PermitInv, BytesInv
    <3>2. /\ output' \in Seq(Nat) /\ Len(output) \in Nat /\ Len(cbuf) \in Nat
          /\ \A m \in 1 .. Len(output) : output[m] \in Nat
      BY <1>0, <2>3, <2>4, NumberSeq
    <3>5. \A m \in 1 .. Len(output) + k :
             m > Len(output) => output'[m] = coffset - Len(cbuf) + (m - Len(output))
      <4>1. \A m \in 1 .. Len(output) + k :
               m > Len(output) => m - Len(output) \in 1 .. Len(cbuf)
                                  /\ output'[m] = cbuf[m - Len(output)]
        BY <2>3, <2>4, <3>2
      <4> QED BY <3>1, <4>1
    <3>6. k \in Nat /\ k <= Len(cbuf)
      BY <2>3, <3>2
    <3>7. \A m \in 1 .. Len(output) :
             output[m] \in Nat /\ output'[m] = output[m] /\ output[m] <= coffset - Len(cbuf)
      BY <2>4, <3>1, <3>2
    <3>8. Len(cbuf) <= coffset /\ coffset \in Nat
      BY <2>3, <3>1
    <3>9. \A m, q \in 1 .. Len(output) : m < q => output[m] < output[q]
      BY <3>1
    <3>10. /\ \A m \in 1 .. Len(output) + k : output'[m] <= coffset
           /\ \A m, q \in 1 .. Len(output) + k : m < q => output'[m] < output'[q]
      BY <3>2, <3>5, <3>6, <3>7, <3>8, <3>9, StreamGrows, ZenonT(60)
    <3>3. /\ \A m \in 1 .. Len(output') : output'[m] <= coffset
          /\ \A m, q \in 1 .. Len(output') : m < q => output'[m] < output'[q]
      BY <2>4, <3>10
    <3>4. Len(cbuf') = 0 /\ cbuf' = <<>> /\ coffset' = coffset /\ coffset \in Nat
      BY <2>2, <2>3
    <3> QED BY <3>2, <3>3, <3>4 DEF StreamInv
  <2>6. CopyTypeOK'
    BY <2>2, <2>4 DEF Again
  <2>7. PermitInv' /\ BytesInv' /\ PieceInv' /\ Unhurt'
    BY <1>0, <2>2 DEF Again, PieceInv, Unhurt
  <2> QED BY <2>5, <2>6, <2>7
<1>12. CASE WritePiece
  <2>1. PICK k \in 1 .. Len(cbuf) :
          /\ output' = output \o SubSeq(cbuf, 1, k)
          /\ cbuf' = SubSeq(cbuf, 1, Len(cbuf) - k)
          /\ cshort' = (cshort \/ k < Len(cbuf))
          /\ cat' = IF k = Len(cbuf) THEN Again ELSE "write"
    BY <1>12 DEF WritePiece
  <2>2. cat = "write" /\ UNCHANGED <<permits, loaded, saved, coffset, readError, writeError>>
    BY <1>12 DEF WritePiece
  <2>3. /\ Len(cbuf) \in Nat /\ Len(output) \in Nat
        /\ SubSeq(cbuf, 1, k) \in Seq(1 .. FileLength) /\ Len(SubSeq(cbuf, 1, k)) = k
        /\ cbuf' \in Seq(1 .. FileLength) /\ Len(cbuf') = Len(cbuf) - k
    <3>1. cbuf \in Seq(1 .. FileLength) /\ output \in Seq(1 .. FileLength)
      OBVIOUS
    <3> HIDE DEF CopyInv, CopyTypeOK, PermitInv, BytesInv
    <3>2. k \in 1 .. Len(cbuf) /\ cbuf' = SubSeq(cbuf, 1, Len(cbuf) - k)
      BY <2>1
    <3>3. /\ SubSeq(cbuf, 1, k) \in Seq(1 .. FileLength) /\ Len(SubSeq(cbuf, 1, k)) = k
          /\ SubSeq(cbuf, 1, Len(cbuf) - k) \in Seq(1 .. FileLength)
          /\ Len(SubSeq(cbuf, 1, Len(cbuf) - k)) = Len(cbuf) - k
      BY <3>1, <3>2, Pieces, ZenonT(60)
    <3>4. Len(cbuf) \in Nat /\ Len(output) \in Nat
      BY <3>1
    <3> QED BY <3>2, <3>3, <3>4
  <2>4. output' \in Seq(1 .. FileLength) /\ Len(output') = Len(output) + k
    BY <2>1, <2>3
  <2>5. k = Len(cbuf) => cbuf' = <<>> /\ SubSeq(cbuf, 1, k) = cbuf
    BY <2>1, <2>3, Pieces
  <2>6. Unhurt'
    <3>1. k = Len(cbuf) => output' \o cbuf' = output \o cbuf
      BY <2>1, <2>4, <2>5, SMTT(60)
    <3>2. ~cshort' => k = Len(cbuf) /\ ~cshort
      <4>1. k < Len(cbuf) \/ k = Len(cbuf)
        BY <2>1, <2>3
      <4> QED BY <2>1, <4>1
    <3> QED BY <2>2, <3>1, <3>2 DEF Unhurt
  <2>7. cshort' \in BOOLEAN
    BY <2>1
  <2>8. ~writeError' => Len(output') + Len(cbuf') = coffset'
    <3>1. k \in Nat /\ (~writeError => Len(output) + Len(cbuf) = coffset)
      BY <2>1, <2>3
    <3> HIDE DEF CopyInv, CopyTypeOK, PermitInv, BytesInv
    <3> QED BY <2>2, <2>3, <2>4, <3>1
  <2>9. CopyTypeOK'
    <3>1. cat' \in {"test", "read", "write"}
      BY <2>1 DEF Again
    <3> QED BY <2>2, <2>3, <2>4, <2>7, <3>1
  <2>10. /\ (cat' # "write" => cbuf' = <<>>)
         /\ cat' \in {"test", "read", "write"} /\ (cat' = "test" => Paced)
    BY <2>1, <2>5 DEF Again
  <2>11. (Stdio => k = Len(cbuf)) /\ (Stdio => ~cshort')
    BY <1>12, <2>1, <2>3 DEF WritePiece
  <2>12. /\ \A m \in 1 .. Len(output) : output'[m] = output[m]
         /\ \A m \in 1 .. k : output'[Len(output) + m] = cbuf[m]
         /\ \A m \in 1 .. Len(output') :
               m > Len(output) => m - Len(output) \in 1 .. k /\ output'[m] = cbuf[m - Len(output)]
         /\ \A m \in 1 .. Len(cbuf') : cbuf'[m] = cbuf[m]
    <3>1. cbuf \in Seq(1 .. FileLength) /\ output \in Seq(1 .. FileLength)
      OBVIOUS
    <3> HIDE DEF CopyInv, CopyTypeOK, PermitInv, BytesInv
    <3>2. k \in 0 .. Len(cbuf) /\ output' = output \o SubSeq(cbuf, 1, k)
      BY <2>1
    <3>3. \A m \in 1 .. Len(cbuf) - k : SubSeq(cbuf, 1, Len(cbuf) - k)[m] = cbuf[m]
      BY <2>1, <3>1
    <3>4. \A m \in 1 .. Len(cbuf') : cbuf'[m] = cbuf[m]
      BY <2>1, <2>3, <3>3
    <3> QED BY <3>1, <3>2, <3>4, FirstAdded
  <2>13. /\ coffset \in Nat /\ k \in Nat /\ CopySize \in Nat /\ Len(cbuf') = Len(cbuf) - k
         /\ cbuf \in Seq(Nat) /\ output \in Seq(Nat) /\ output' \in Seq(Nat)
         /\ (\A m \in 1 .. Len(cbuf) : cbuf[m] \in Nat)
         /\ \A m \in 1 .. Len(output) : output[m] \in Nat
    <3>1. /\ cbuf \in Seq(1 .. FileLength) /\ output \in Seq(1 .. FileLength)
          /\ coffset \in 0 .. FileLength
      OBVIOUS
    <3> HIDE DEF CopyInv, CopyTypeOK, PermitInv, BytesInv
    <3>2. coffset \in Nat /\ k \in Nat /\ CopySize \in Nat
      BY <1>0, <2>1, <2>3, <3>1
    <3> QED BY <1>0, <2>3, <2>4, <3>1, <3>2, NumberSeq
  <2>14. PieceInv'
    <3>1. ASSUME ~writeError
          PROVE  /\ Len(output) + Len(cbuf) = coffset
                 /\ \A m \in 1 .. Len(cbuf) : /\ cbuf[m] <= Len(output) + m
                                              /\ coffset <= cbuf[m] - m + CopySize
                 /\ \A m \in 1 .. Len(output) : output[m] <= m /\ m < output[m] + CopySize
      BY <3>1 DEF PieceInv
    <3> HIDE DEF CopyInv, CopyTypeOK, PermitInv, BytesInv
    <3>2. ASSUME ~writeError, NEW m \in 1 .. Len(cbuf')
          PROVE  cbuf'[m] <= Len(output') + m /\ coffset' <= cbuf'[m] - m + CopySize
      <4>1. m \in 1 .. Len(cbuf) /\ cbuf'[m] = cbuf[m]
        BY <2>3, <2>12, <2>13, <3>2
      <4>2. cbuf[m] <= Len(output) + m /\ coffset <= cbuf[m] - m + CopySize
        BY <3>1, <3>2, <4>1
      <4> QED BY <2>2, <2>3, <2>4, <2>13, <4>1, <4>2
    <3>3. ASSUME ~writeError, NEW m \in 1 .. Len(output')
          PROVE  output'[m] <= m /\ m < output'[m] + CopySize
      <4>1. CASE m \in 1 .. Len(output)
        BY <2>12, <3>1, <3>3, <4>1
      <4>2. CASE m \notin 1 .. Len(output)
        <5>1. m - Len(output) \in 1 .. k
          BY <2>3, <2>4, <2>13, <4>2
        <5>2. PICK q \in 1 .. k : m = Len(output) + q
          BY <2>3, <5>1
        <5>3. output'[m] = cbuf[q] /\ q \in 1 .. Len(cbuf)
          BY <2>1, <2>3, <2>12, <5>2
        <5>4. cbuf[q] <= Len(output) + q /\ coffset <= cbuf[q] - q + CopySize
          BY <3>1, <3>3, <5>3
        <5>5. m <= coffset
          BY <2>1, <2>3, <3>1, <3>3, <5>2
        <5>6. cbuf[q] \in Nat /\ Len(output) \in Nat /\ q \in Nat /\ q >= 1
          BY <2>3, <2>13, <5>3
        <5> QED BY <2>13, <5>2, <5>3, <5>4, <5>5, <5>6, PlaceOf
      <4> QED BY <4>1, <4>2
    <3> QED BY <2>2, <3>2, <3>3 DEF PieceInv
  <2>15. StreamInv'
    <3>1. ASSUME Stdio
          PROVE  /\ Len(cbuf) <= coffset
                 /\ \A m \in 1 .. Len(cbuf) : cbuf[m] = coffset - Len(cbuf) + m
                 /\ \A m \in 1 .. Len(output) : output[m] <= coffset - Len(cbuf)
                 /\ \A m, q \in 1 .. Len(output) : m < q => output[m] < output[q]
      BY <3>1 DEF StreamInv
    <3> HIDE DEF CopyInv, CopyTypeOK, PermitInv, BytesInv
    <3>2. Stdio => k = Len(cbuf) /\ Len(cbuf') = 0
      BY <2>3, <2>11, <2>13
    <3>3. ASSUME Stdio
          PROVE  /\ \A m \in 1 .. Len(output') : output'[m] <= coffset
                 /\ \A m, q \in 1 .. Len(output') : m < q => output'[m] < output'[q]
      <4>1. k \in Nat /\ k <= Len(cbuf) /\ Len(cbuf) \in Nat /\ Len(output) \in Nat
        BY <2>1, <2>3
      <4>2. \A m \in 1 .. Len(output) + k :
               m > Len(output) => output'[m] = coffset - Len(cbuf) + (m - Len(output))
        <5>1. \A m \in 1 .. Len(output) + k :
                 m > Len(output) => m - Len(output) \in 1 .. Len(cbuf)
                                    /\ output'[m] = cbuf[m - Len(output)]
          BY <2>4, <2>12, <4>1
        <5> QED BY <3>1, <3>3, <5>1
      <4>3. \A m \in 1 .. Len(output) :
               output[m] \in Nat /\ output'[m] = output[m] /\ output[m] <= coffset - Len(cbuf)
        BY <2>12, <2>13, <3>1, <3>3
      <4>4. /\ Len(cbuf) <= coffset /\ coffset \in Nat
            /\ \A m, q \in 1 .. Len(output) : m < q => output[m] < output[q]
        BY <2>13, <3>1, <3>3
      <4>5. /\ \A m \in 1 .. Len(output) + k : output'[m] <= coffset
            /\ \A m, q \in 1 .. Len(output) + k : m < q => output'[m] < output'[q]
        BY <4>1, <4>2, <4>3, <4>4, StreamGrows, ZenonT(60)
      <4> QED BY <2>4, <4>5
    <3> QED BY <1>0, <2>2, <2>13, <3>2, <3>3 DEF StreamInv
  <2> QED BY <1>0, <2>2, <2>6, <2>8, <2>9, <2>10, <2>11, <2>14, <2>15
<1> QED BY <1>2, <1>3, <1>4, <1>5, <1>6, <1>7, <1>8, <1>9, <1>10, <1>11, <1>12, PlainSteps
        DEF CopyNext, CopyStep

\* The paced copies never have more permits than the alarm brought; who says that
\* the copy is done has written as many bytes as were read, those of the source in
\* their order unless a write was short or failed; a short write spoils no more than
\* its piece, and the streams keep the order of what they do not lose.
THEOREM CopiesRight == SpecPrograms => []CopyIsRight
<1>1. InitPrograms => CopyInv
  <2> SUFFICES ASSUME InitPrograms PROVE CopyInv
    OBVIOUS
  <2>1. /\ cat = "open" /\ permits = 0 /\ loaded = 0 /\ saved = 0 /\ coffset = 0
        /\ cbuf = <<>> /\ output = <<>> /\ cshort = FALSE /\ readError = FALSE
        /\ writeError = FALSE
    BY DEF InitPrograms, CopyInit
  <2>2. /\ FileLength \in Nat /\ TokenBurst \in Nat \ {0} /\ Burst \in 1 .. TokenBurst
        /\ CopySize \in Nat \ {0}
    BY CopiesAssumption DEF Burst
  <2>3. output \o cbuf = [j \in 1 .. coffset |-> j]
    <3>1. output \o cbuf = <<>> /\ coffset = 0
      BY <2>1
    <3> QED BY <3>1
  <2>4. CopyTypeOK
    <3>1. cbuf \in Seq(1 .. FileLength) /\ output \in Seq(1 .. FileLength)
      BY <2>1
    <3>2. cshort \in BOOLEAN /\ readError \in BOOLEAN /\ writeError \in BOOLEAN
      BY <2>1
    <3>3. /\ permits \in 0 .. TokenBurst /\ loaded \in 0 .. TokenBurst
          /\ saved \in 0 .. TokenBurst /\ coffset \in 0 .. FileLength
      BY <2>1, <2>2
    <3> QED BY <2>1, <3>1, <3>2, <3>3 DEF CopyTypeOK
  <2>5. PermitInv /\ BytesInv
    BY <2>1, <2>2 DEF PermitInv, BytesInv
  <2>6. PieceInv /\ StreamInv
    BY <2>1 DEF PieceInv, StreamInv
  <2> QED BY <2>3, <2>4, <2>5, <2>6 DEF CopyInv, Unhurt
<1>2. CopyInv => CopyIsRight
  <2> SUFFICES ASSUME CopyInv PROVE CopyIsRight
    OBVIOUS
  <2>1. cat = "done" => Len(output) = FileLength \/ (readError /\ ~Paced) \/ writeError
    BY DEF CopyInv, CopyTypeOK, BytesInv
  <2>2. CopyTypeOK /\ permits <= saved
    BY DEF CopyInv, PermitInv
  <2>3. ~writeError => \A j \in 1 .. Len(output) : output[j] <= j /\ j < output[j] + CopySize
    BY DEF CopyInv, PieceInv
  <2>4. Stdio => \A j, k \in 1 .. Len(output) : j < k => output[j] < output[k]
    BY DEF CopyInv, StreamInv
  <2> QED BY <2>1, <2>2, <2>3, <2>4 DEF CopyInv, Unhurt, CopyIsRight
<1> QED BY <1>1, <1>2, CopyKept, PTL DEF SpecPrograms

-----------------------------------------------------------------------------
(* The file transfer *)

\* The pieces that the client has taken from the queue.
Got == IF client = "recv_data" THEN Len(received) + 1 ELSE Len(received)

\* The queue holds the client's request, which nobody has taken, and nothing else.
Requested ==
    /\ queue = <<Path>> /\ offset = 0 /\ received = <<>>
    /\ client \in {"wait_data", "aborted"}
    /\ server \notin {"send_data", "send_eot"}

\* It holds the pieces that the client has not taken, in order, and then the end of
\* the transmission if that has been sent.
Underway ==
    /\ Got <= offset
    /\ \A k \in 1 .. offset - Got : k <= Len(queue) /\ queue[k] = Data(Got + k)
    /\ \/ Len(queue) = offset - Got
       \/ /\ Len(queue) = offset - Got + 1 /\ queue[offset - Got + 1] = Eot
          /\ offset = Chunks /\ server = "end"

ActorsInv ==
    /\ client \in {"boot", "start", "send_path", "fail"} => queue = <<>> /\ received = <<>>
    /\ client \in {"boot", "start", "send_path", "fail"} \/ server \in {"boot", "start", "wait_path"} =>
          offset = 0 /\ server \notin {"send_data", "send_eot"}
    /\ client = "recv_data" => recv_msg = Data(Got)
    /\ client = "recv_eot" => Got = Chunks
    /\ server = "send_eot" => offset = Chunks

FtpInv ==
    /\ FtpTypeOK
    /\ received = [k \in 1 .. Len(received) |-> k]
    /\ Requested \/ Underway
    /\ ActorsInv

LEMMA MessagesDiffer ==
    /\ Path # Eot /\ Path # Zeroed /\ Eot # Zeroed
    /\ \A k \in Nat : Data(k) # Path /\ Data(k) # Eot /\ Data(k) # Zeroed /\ Data(k).data = k
<1>1. /\ Path.mtype = "PATH" /\ Eot.mtype = "EOT" /\ Zeroed.mtype = "0"
      /\ \A k \in Nat : Data(k).mtype = "DATA" /\ Data(k).data = k
  BY DEF Path, Eot, Zeroed, Data
<1> QED BY <1>1

LEMMA NextPiece ==
    ASSUME NEW s \in Seq(1 .. Chunks), s = [k \in 1 .. Len(s) |-> k], Len(s) + 1 \in 1 .. Chunks
    PROVE  /\ Append(s, Len(s) + 1) \in Seq(1 .. Chunks)
           /\ Len(Append(s, Len(s) + 1)) = Len(s) + 1
           /\ Append(s, Len(s) + 1) = [k \in 1 .. Len(Append(s, Len(s) + 1)) |-> k]
<1> DEFINE t == Append(s, Len(s) + 1)
<1>1. t \in Seq(1 .. Chunks) /\ Len(t) = Len(s) + 1 /\ Len(s) \in Nat
  OBVIOUS
<1>2. \A k \in 1 .. Len(s) + 1 : t[k] = k
  BY <1>1
<1>3. DOMAIN t = 1 .. Len(s) + 1 /\ t = [k \in DOMAIN t |-> t[k]]
  BY <1>1
<1> QED BY <1>1, <1>2, <1>3

\* Where the client is at, as far as Got and Underway look at it.
LEMMA UnderwayStays ==
    ASSUME Underway, UNCHANGED <<queue, offset, received>>, Got' = Got,
           server = "end" => server' = "end"
    PROVE  Underway'
BY DEF Underway

LEMMA FtpKept ==
    ASSUME FtpInv, [NextPrograms]_everything
    PROVE  FtpInv'
<1> USE MyftpAssumption DEF FtpInv, FtpTypeOK
<1>0. /\ Len(received) \in Nat /\ Len(queue) \in Nat /\ Got \in Nat /\ offset \in Nat
  BY DEF Got
<1>1. CASE UNCHANGED ftpVars
  <2>1. UNCHANGED <<queue, server, offset, opened, client, recv_msg, received>>
    BY <1>1 DEF ftpVars
  <2>2. Requested' = Requested
    BY <2>1 DEF Requested
  <2>3. Underway' = Underway
    BY <2>1 DEF Underway, Got
  <2>4. ActorsInv' = ActorsInv
    BY <2>1 DEF ActorsInv, Got
  <2> QED BY <2>1, <2>2, <2>3, <2>4
<1>2. CASE ServerBoot \/ ServerStart \/ ServerCallFails \/ ServerFails
  <2>1. /\ UNCHANGED <<queue, offset, received, client, recv_msg>> /\ Got' = Got
        /\ server' \in {"start", "wait_path", "fail", "end"} /\ server # "end"
        /\ server' \in {"start", "wait_path"} => server \in {"boot", "start"}
        /\ opened' \in BOOLEAN
    BY <1>2 DEF ServerBoot, ServerStart, ServerCallFails, ServerFails, ServerIs, Got
  <2>2. Requested => Requested'
    BY <2>1 DEF Requested
  <2>3. Underway => Underway'
    BY <2>1, UnderwayStays
  <2>4. ActorsInv'
    BY <2>1 DEF ActorsInv
  <2> QED BY <2>1, <2>2, <2>3, <2>4
<1>3. CASE AtEnd
  <2>1. /\ UNCHANGED <<queue, offset, opened, received, client, recv_msg>> /\ Got' = Got
        /\ server = "send_data" /\ server' = "send_eot" /\ offset = Chunks
    BY <1>3 DEF AtEnd, ServerIs, Got
  <2>2. Underway'
    BY <2>1, UnderwayStays DEF Requested
  <2>3. ActorsInv'
    BY <2>1 DEF ActorsInv
  <2> QED BY <2>1, <2>2, <2>3
<1>4. CASE OpenPath
  <2>1. server = "wait_path" /\ UNCHANGED <<client, recv_msg, received>> /\ Got' = Got
    BY <1>4 DEF OpenPath, ServerIs, Got
  <2>2. Underway => queue = <<>>
    <3> SUFFICES ASSUME Underway PROVE queue = <<>>
      OBVIOUS
    <3>1. offset = 0 /\ Len(queue) = offset - Got
      BY <2>1 DEF ActorsInv, Underway
    <3> QED BY <1>0, <3>1
  <2>3. queue = <<Path>> /\ offset = 0 /\ received = <<>> /\ client \in {"wait_data", "aborted"}
    BY <1>4, <2>2 DEF OpenPath, Requested
  <2>4. /\ queue' = <<>> /\ offset' = 0 /\ opened' = TRUE /\ server' = "send_data"
    BY <1>4, <2>3 DEF OpenPath, Receive, ServerIs
  <2>5. Got' = 0
    BY <2>1, <2>3 DEF Got
  <2>6. Underway'
    BY <2>4, <2>5 DEF Underway
  <2>7. ActorsInv'
    BY <2>1, <2>3, <2>4 DEF ActorsInv
  <2>8. queue' \in Seq(Messages) /\ Len(queue') = 0
    BY <2>4
  <2> QED BY <2>1, <2>4, <2>6, <2>7, <2>8
<1>5. CASE OpenPathFails
  <2>1. /\ server = "wait_path" /\ server' = "fail" /\ queue # <<>>
        /\ UNCHANGED <<client, recv_msg, received, offset, opened>> /\ Got' = Got
        /\ queue' = Tail(queue)
    BY <1>5 DEF OpenPathFails, Receive, ServerIs, Got
  <2>2. Requested
    BY <1>0, <2>1 DEF ActorsInv, Underway
  <2>3. queue' = <<>> /\ Got' = 0 /\ offset' = 0
    BY <2>1, <2>2 DEF Requested, Got
  <2>4. Underway'
    BY <2>3 DEF Underway
  <2>5. ActorsInv'
    BY <2>1, <2>2, <2>3 DEF ActorsInv, Requested
  <2>6. queue' \in Seq(Messages) /\ Len(queue') = 0
    BY <2>3
  <2> QED BY <2>1, <2>4, <2>5, <2>6
<1>6. CASE SendPiece
  <2>1. /\ server = "send_data" /\ server' = "send_data" /\ offset < Chunks
        /\ Len(queue) < QueueSize /\ queue' = Append(queue, Data(offset + 1))
        /\ offset' = offset + 1
        /\ UNCHANGED <<client, recv_msg, received, opened>> /\ Got' = Got
    BY <1>6 DEF SendPiece, Send, ServerIs, Got
  <2>2. Underway /\ Len(queue) = offset - Got
    BY <2>1 DEF Requested, Underway
  <2>3. Data(offset + 1) \in Messages
    <3>1. offset + 1 \in 1 .. Chunks
      BY <1>0, <2>1
    <3> QED BY <3>1 DEF Messages
  <2>4. /\ queue' \in Seq(Messages) /\ Len(queue') = Len(queue) + 1
        /\ \A k \in 1 .. Len(queue) : queue'[k] = queue[k]
        /\ queue'[Len(queue) + 1] = Data(offset + 1)
    BY <2>1, <2>3
  <2>5. Underway'
    <3>1. ASSUME NEW k \in 1 .. offset' - Got' PROVE k <= Len(queue') /\ queue'[k] = Data(Got' + k)
      <4>1. CASE k \in 1 .. offset - Got
        <5>1. queue[k] = Data(Got + k) /\ k \in 1 .. Len(queue)
          BY <1>0, <2>2, <4>1 DEF Underway
        <5> QED BY <1>0, <2>1, <2>4, <5>1
      <4>2. CASE k = offset - Got + 1
        BY <1>0, <2>1, <2>2, <2>4, <4>2, SMTT(60)
      <4> QED BY <1>0, <2>1, <4>1, <4>2
    <3>2. Len(queue') = offset' - Got' /\ Got' <= offset'
      BY <1>0, <2>1, <2>2, <2>4 DEF Underway
    <3> QED BY <3>1, <3>2 DEF Underway
  <2>6. ActorsInv'
    BY <2>1 DEF ActorsInv
  <2>7. Len(queue') <= QueueSize /\ offset' \in 0 .. Chunks
    BY <1>0, <2>1, <2>4
  <2> QED BY <2>1, <2>4, <2>5, <2>6, <2>7
<1>7. CASE SendEot
  <2>1. /\ server = "send_eot" /\ server' = "end" /\ opened' = FALSE
        /\ Len(queue) < QueueSize /\ queue' = Append(queue, Eot)
        /\ UNCHANGED <<client, recv_msg, received, offset>> /\ Got' = Got
    BY <1>7 DEF SendEot, Send, ServerIs, Got
  <2>2. Underway /\ Len(queue) = offset - Got /\ offset = Chunks
    BY <2>1 DEF Requested, Underway, ActorsInv
  <2>3. Eot \in Messages
    BY DEF Messages
  <2>4. /\ queue' \in Seq(Messages) /\ Len(queue') = Len(queue) + 1
        /\ \A k \in 1 .. Len(queue) : queue'[k] = queue[k]
        /\ queue'[Len(queue) + 1] = Eot
    BY <2>1, <2>3
  <2>5. Underway'
    <3>1. ASSUME NEW k \in 1 .. offset - Got PROVE k <= Len(queue') /\ queue'[k] = Data(Got + k)
      <4>1. queue[k] = Data(Got + k) /\ k \in 1 .. Len(queue)
        BY <1>0, <2>2 DEF Underway
      <4> QED BY <1>0, <2>4, <4>1
    <3>2. Len(queue') = offset - Got + 1 /\ queue'[offset - Got + 1] = Eot /\ Got <= offset
      BY <1>0, <2>2, <2>4 DEF Underway
    <3> QED BY <2>1, <2>2, <3>1, <3>2 DEF Underway
  <2>6. ActorsInv'
    BY <2>1 DEF ActorsInv
  <2>7. Len(queue') <= QueueSize
    BY <1>0, <2>1, <2>4
  <2> QED BY <2>1, <2>4, <2>5, <2>6, <2>7
<1>8. CASE ClientBoot \/ ClientStart \/ SendPathFails \/ ClientFails
  <2>1. /\ client \in {"boot", "start", "send_path", "fail"} /\ queue = <<>> /\ received = <<>>
        /\ offset = 0 /\ server \notin {"send_data", "send_eot"}
        /\ client' \in {"start", "send_path", "fail", "end"}
        /\ UNCHANGED <<queue, recv_msg, received, server, offset, opened>>
    BY <1>8 DEF ClientBoot, ClientStart, SendPathFails, ClientFails, ClientIs, ActorsInv
  <2>2. Got = 0 /\ Got' = 0
    BY <2>1 DEF Got
  <2>3. Underway'
    BY <2>1, <2>2 DEF Underway
  <2>4. ActorsInv'
    BY <2>1 DEF ActorsInv
  <2> QED BY <2>1, <2>3, <2>4
<1>9. CASE SendPath
  <2>1. /\ client = "send_path" /\ client' = "wait_data" /\ queue = <<>> /\ received = <<>>
        /\ offset = 0 /\ server \notin {"send_data", "send_eot"}
        /\ queue' = Append(queue, Path)
        /\ UNCHANGED <<recv_msg, received, server, offset, opened>>
    BY <1>9 DEF SendPath, Send, ClientIs, ActorsInv
  <2>2. queue' = <<Path>>
    BY <2>1
  <2>3. Requested'
    BY <2>1, <2>2 DEF Requested
  <2>4. queue' \in Seq(Messages) /\ Len(queue') <= QueueSize
    BY <2>2 DEF Messages
  <2>5. ActorsInv'
    BY <2>1 DEF ActorsInv
  <2> QED BY <2>1, <2>3, <2>4, <2>5
<1>10. CASE WaitDataFails
  <2>1. /\ client = "wait_data" /\ client' = "aborted" /\ recv_msg' = Zeroed
        /\ UNCHANGED <<queue, received, server, offset, opened>> /\ Got' = Got
    BY <1>10 DEF WaitDataFails, ClientIs, Got
  <2>2. Requested => Requested'
    BY <2>1 DEF Requested
  <2>3. Underway => Underway'
    BY <2>1, UnderwayStays
  <2>4. ActorsInv'
    BY <2>1 DEF ActorsInv
  <2> QED BY <2>1, <2>2, <2>3, <2>4
<1>11. CASE RecvEot
  <2>1. /\ client = "recv_eot" /\ client' = "end"
        /\ UNCHANGED <<queue, recv_msg, received, server, offset, opened>> /\ Got' = Got
    BY <1>11 DEF RecvEot, ClientIs, Got
  <2>2. Underway'
    BY <2>1, UnderwayStays DEF Requested
  <2>3. ActorsInv'
    BY <2>1 DEF ActorsInv
  <2> QED BY <2>1, <2>2, <2>3
<1>12. CASE RecvData
  <2>1. /\ client = "recv_data" /\ client' = "wait_data"
        /\ received' = Append(received, recv_msg.data)
        /\ UNCHANGED <<queue, recv_msg, server, offset, opened>>
    BY <1>12 DEF RecvData, ClientIs
  <2>2. Got = Len(received) + 1 /\ recv_msg = Data(Got) /\ recv_msg.data = Got
    BY <1>0, <2>1, MessagesDiffer DEF Got, ActorsInv
  <2>3. Underway /\ Got \in 1 .. Chunks
    BY <1>0, <2>1, <2>2 DEF Requested, Underway
  <2>4. /\ received' \in Seq(1 .. Chunks) /\ Len(received') = Len(received) + 1
        /\ received' = [k \in 1 .. Len(received') |-> k]
    BY <2>1, <2>2, <2>3, NextPiece
  <2>5. Got' = Got
    BY <2>1, <2>2, <2>4 DEF Got
  <2>6. Underway'
    BY <2>1, <2>3, <2>5 DEF Underway
  <2>7. ActorsInv'
    BY <2>1 DEF ActorsInv
  <2> QED BY <2>1, <2>4, <2>6, <2>7
<1>13. CASE WaitData
  <2>1. /\ client = "wait_data" /\ queue # <<>> /\ queue' = Tail(queue)
        /\ recv_msg' = Head(queue)
        /\ client' = IF Head(queue) = Path THEN "aborted"
                     ELSE IF Head(queue) = Eot THEN "recv_eot" ELSE "recv_data"
        /\ UNCHANGED <<received, server, offset, opened>> /\ Got = Len(received)
    BY <1>13 DEF WaitData, Receive, ClientIs, Got
  <2>2. /\ queue' \in Seq(Messages) /\ Len(queue') = Len(queue) - 1 /\ Head(queue) = queue[1]
        /\ Head(queue) \in Messages /\ Len(queue) >= 1
        /\ \A k \in 1 .. Len(queue) - 1 : queue'[k] = queue[k + 1]
    BY <2>1
  <2>3. CASE Requested
    <3>1. queue = <<Path>> /\ client' = "aborted" /\ offset = 0 /\ Len(received) = 0
      BY <2>1, <2>3 DEF Requested
    <3>2. queue' = <<>> /\ Got' = 0
      BY <2>1, <3>1 DEF Got
    <3>3. Underway'
      BY <2>1, <3>1, <3>2 DEF Underway
    <3>4. ActorsInv'
      BY <2>1, <2>3, <3>1 DEF ActorsInv, Requested
    <3> QED BY <1>0, <2>1, <2>2, <3>1, <3>3, <3>4
  <2>4. CASE Underway /\ offset = Got
    <3>1. Len(queue) = 1 /\ queue[1] = Eot /\ offset = Chunks /\ server = "end"
      BY <1>0, <2>2, <2>4 DEF Underway
    <3>2. client' = "recv_eot" /\ Got' = Got
      BY <2>1, <2>2, <3>1, MessagesDiffer DEF Got
    <3>3. Underway'
      BY <1>0, <2>1, <2>2, <2>4, <3>1, <3>2 DEF Underway
    <3>4. ActorsInv'
      BY <2>1, <2>4, <3>1, <3>2 DEF ActorsInv
    <3> QED BY <1>0, <2>1, <2>2, <3>2, <3>3, <3>4
  <2>5. CASE Underway /\ offset # Got
    <3>1. 1 \in 1 .. offset - Got /\ queue[1] = Data(Got + 1)
      BY <1>0, <2>5 DEF Underway
    <3>2. client' = "recv_data"
      BY <1>0, <2>1, <2>2, <3>1, MessagesDiffer
    <3>3. Got' = Got + 1 /\ recv_msg' = Data(Got')
      BY <2>1, <2>2, <3>1, <3>2 DEF Got
    <3>4. Underway'
      <4>1. ASSUME NEW k \in 1 .. offset - Got - 1
            PROVE  k <= Len(queue') /\ queue'[k] = Data(Got + 1 + k)
        <5>1. k + 1 \in 1 .. offset - Got
          BY <1>0
        <5>2. k + 1 <= Len(queue) /\ queue[k + 1] = Data(Got + (k + 1))
          BY <2>5, <5>1 DEF Underway
        <5>3. k \in 1 .. Len(queue) - 1 /\ Got + (k + 1) = Got + 1 + k
          BY <1>0, <5>2
        <5> QED BY <2>2, <5>2, <5>3
      <4>2. /\ offset' - Got' = offset - Got - 1 /\ Got' <= offset' /\ server' = server
            /\ offset' = offset
        BY <1>0, <2>1, <3>1, <3>3
      <4>3. \/ Len(queue') = offset - Got - 1
            \/ /\ Len(queue') = offset - Got - 1 + 1 /\ queue'[offset - Got - 1 + 1] = Eot
               /\ offset = Chunks /\ server = "end"
        BY <1>0, <2>2, <2>5, <3>1, SMTT(60) DEF Underway
      <4> QED BY <3>3, <4>1, <4>2, <4>3 DEF Underway
    <3>5. ActorsInv'
      BY <2>1, <3>2, <3>3 DEF ActorsInv
    <3> QED BY <1>0, <2>1, <2>2, <3>2, <3>4, <3>5
  <2> QED BY <2>3, <2>4, <2>5
<1> QED BY <1>1, <1>2, <1>3, <1>4, <1>5, <1>6, <1>7, <1>8, <1>9, <1>10, <1>11, <1>12, <1>13,
           PlainSteps DEF Server, Client

\* The client receives the file's pieces in order, none twice, and all of them when
\* it is told the end; with CopiesRight, the copies and transfers are right.
THEOREM FilesReceived == SpecPrograms => []FileIsReceived
<1>1. InitPrograms => FtpInv
  <2> SUFFICES ASSUME InitPrograms PROVE FtpInv
    OBVIOUS
  <2>1. /\ queue = <<>> /\ server = "boot" /\ offset = 0 /\ opened = FALSE
        /\ client = "boot" /\ recv_msg = Zeroed /\ received = <<>>
    BY DEF InitPrograms, FtpInit
  <2>2. Underway /\ ActorsInv
    <3>1. Got = 0 /\ Len(queue) = 0
      BY <2>1 DEF Got
    <3> QED BY <2>1, <3>1 DEF Underway, ActorsInv
  <2>3. FtpTypeOK
    <3>1. queue \in Seq(Messages) /\ received \in Seq(1 .. Chunks) /\ Len(queue) = 0
      BY <2>1
    <3>2. offset \in 0 .. Chunks /\ Len(queue) <= QueueSize
      BY <2>1, <3>1, MyftpAssumption
    <3>3. opened \in BOOLEAN /\ recv_msg \in Messages \cup {Zeroed}
      BY <2>1
    <3> QED BY <2>1, <3>1, <3>2, <3>3 DEF FtpTypeOK
  <2> QED BY <2>1, <2>2, <2>3 DEF FtpInv
<1>2. FtpInv => FileIsReceived
  BY DEF FtpInv, ActorsInv, Got, FileIsReceived
<1> QED BY <1>1, <1>2, FtpKept, PTL DEF SpecPrograms

THEOREM CopiesAllRight == SpecPrograms => []CopiesAreRight
BY CopiesRight, FilesReceived, PTL DEF CopiesAreRight

-----------------------------------------------------------------------------
(* The stream servers *)

\* p has a connection open; and it is up to p to answer it, as it is not to main of
\* par, which closes its copy, when the child has been forked.
Serves(p) ==
    \/ stat[p] \in {"unlisten", "send", "close"}
    \/ program = "par" /\ stat[p] = "fork"

Owner(p) == Serves(p) /\ (program = "par" /\ p = 0 => stat[p] # "close")

\* Only main forks and waits, main of par alone accepts, and the listening socket
\* is open while main is there.
PlacesInv ==
    /\ \A p \in StreamProcs \ {0} :
          stat[p] \notin {"fork", "wait"} /\ (program = "par" => stat[p] # "accept")
    /\ stat[0] \notin {"none", "unlisten"}
    /\ stat[0] \notin {"ended", "failed"} => 0 \in listeners

OpenInv ==
    \A p \in StreamProcs :
        IF Serves(p) THEN newsd[p] \in arrived /\ open[p] = {newsd[p]} ELSE open[p] = {}

\* Who waits to be accepted does so once, has no owner and no answer.
QueueInv ==
    /\ \A k, m \in 1 .. Len(backlog) : k # m => backlog[k] # backlog[m]
    /\ \A k \in 1 .. Len(backlog) : backlog[k] \in arrived /\ answers[backlog[k]] = 0
    /\ \A p \in StreamProcs, k \in 1 .. Len(backlog) : Owner(p) => newsd[p] # backlog[k]

\* A connection has one owner, who has answered it when it closes it.
OwnersInv ==
    /\ \A p, q \in StreamProcs : Owner(p) /\ Owner(q) /\ p # q => newsd[p] # newsd[q]
    /\ \A p \in StreamProcs : Owner(p) => answers[newsd[p]] = IF stat[p] = "close" THEN 1 ELSE 0

\* Nobody who has arrived is forgotten.
ServedInv ==
    \A g \in Guests :
        /\ answers[g] <= 1
        /\ g \notin arrived => answers[g] = 0
        /\ g \in arrived =>
              \/ \E k \in 1 .. Len(backlog) : backlog[k] = g
              \/ answers[g] = 1
              \/ \E p \in StreamProcs : Owner(p) /\ newsd[p] = g
              \/ \E p \in StreamProcs : stat[p] = "failed" /\ newsd[p] = g
              \/ listeners = {}

ServersInv == StreamTypeOK /\ PlacesInv /\ OpenInv /\ QueueInv /\ OwnersInv /\ ServedInv

\* A process ends, having answered the connection it owns unless it fails.
LEMMA StreamExitKept ==
    ASSUME ServersInv, program' = program, NEW p \in StreamProcs, NEW l \in {"ended", "failed"},
           StreamExit(p, l), UNCHANGED <<arrived, newsd, reaped, answers>>,
           l = "ended" => stat[p] # "failed" /\ (Owner(p) => answers[newsd[p]] = 1)
    PROVE  ServersInv'
<1> USE DEF ServersInv, StreamTypeOK
<1>1. /\ \A q \in StreamProcs : stat'[q] = IF q = p THEN l ELSE stat[q]
      /\ \A q \in StreamProcs : open'[q] = IF q = p THEN {} ELSE open[q]
      /\ listeners' = listeners \ {p}
      /\ backlog' = backlog \/ (listeners' = {} /\ backlog' = <<>>)
  BY DEF StreamExit, StreamGoto
<1>2. /\ ~Serves(p)' /\ ~Owner(p)'
      /\ \A q \in StreamProcs \ {p} : (Serves(q)' <=> Serves(q)) /\ (Owner(q)' <=> Owner(q))
  BY <1>1 DEF Serves, Owner
<1>3. StreamTypeOK'
  BY <1>1 DEF StreamExit, StreamGoto
<1>4. PlacesInv'
  <2>1. 0 \in StreamProcs
    BY StreamAssumption DEF StreamProcs
  <2> QED BY <1>1, <2>1 DEF PlacesInv
<1>5. OpenInv'
  BY <1>1, <1>2 DEF OpenInv
<1>6. QueueInv'
  <2>1. CASE backlog' = backlog
    BY <1>1, <1>2, <2>1 DEF QueueInv
  <2>2. CASE backlog' = <<>>
    BY <2>2 DEF QueueInv
  <2> QED BY <1>1, <2>1, <2>2
<1>7. OwnersInv'
  BY <1>1, <1>2, SMTT(60) DEF OwnersInv
<1>8. ServedInv'
  <2> SUFFICES ASSUME NEW g \in Guests, g \in arrived, listeners' # {}
               PROVE  \/ \E k \in 1 .. Len(backlog) : backlog[k] = g
                      \/ answers[g] = 1
                      \/ \E q \in StreamProcs : Owner(q)' /\ newsd[q] = g
                      \/ \E q \in StreamProcs : stat'[q] = "failed" /\ newsd[q] = g
    <3>1. \A g \in Guests : answers[g] <= 1 /\ (g \notin arrived => answers[g] = 0)
      BY DEF ServedInv
    <3>2. listeners' # {} => backlog' = backlog
      BY <1>1
    <3> QED BY <3>1, <3>2 DEF ServedInv
  <2>1. CASE \E q \in StreamProcs : Owner(q) /\ newsd[q] = g
    <3>1. PICK q \in StreamProcs : Owner(q) /\ newsd[q] = g
      BY <2>1
    <3>2. CASE q = p
      BY <1>1, <3>1, <3>2
    <3>3. CASE q # p
      BY <1>2, <3>1, <3>3
    <3> QED BY <3>2, <3>3
  <2>2. CASE \E q \in StreamProcs : stat[q] = "failed" /\ newsd[q] = g
    <3>1. PICK q \in StreamProcs : stat[q] = "failed" /\ newsd[q] = g
      BY <2>2
    <3>2. stat'[q] = "failed"
      BY <1>1, <3>1
    <3> QED BY <3>1, <3>2
  <2> QED BY <1>1, <2>1, <2>2 DEF ServedInv
<1> QED BY <1>3, <1>4, <1>5, <1>6, <1>7, <1>8

LEMMA StreamFailKept ==
    ASSUME ServersInv, program' = program, NEW p \in StreamProcs,
           StreamExit(p, "failed"), UNCHANGED <<arrived, newsd, reaped, answers>>
    PROVE  ServersInv'
<1>1. "failed" \in {"ended", "failed"} /\ "failed" # "ended"
  OBVIOUS
<1> QED BY <1>1, StreamExitKept

LEMMA ConnectKept ==
    ASSUME ServersInv, program' = program, NEW g \in Guests, Connects(g)
    PROVE  ServersInv'
<1> USE DEF ServersInv, StreamTypeOK
<1>1. /\ g \notin arrived /\ arrived' = arrived \cup {g} /\ backlog' = Append(backlog, g)
      /\ UNCHANGED <<stat, newsd, open, listeners, reaped, answers>>
  BY DEF Connects
<1>2. /\ Len(backlog) \in Nat /\ Len(backlog') = Len(backlog) + 1
      /\ \A k \in 1 .. Len(backlog) : backlog'[k] = backlog[k]
      /\ backlog'[Len(backlog) + 1] = g /\ backlog' \in Seq(Guests)
  BY <1>1
<1>3. \A p \in StreamProcs : (Serves(p)' <=> Serves(p)) /\ (Owner(p)' <=> Owner(p))
  BY <1>1 DEF Serves, Owner
<1>4. answers[g] = 0 /\ \A p \in StreamProcs : Owner(p) => newsd[p] # g
  BY <1>1 DEF ServedInv, OpenInv, Owner
<1>5. StreamTypeOK'
  BY <1>1, <1>2
<1>6. PlacesInv' /\ OpenInv'
  BY <1>1, <1>3 DEF PlacesInv, OpenInv
<1>7. QueueInv'
  <2>1. \A k \in 1 .. Len(backlog) : backlog[k] \in arrived
    BY DEF QueueInv
  <2>2. \A k \in 1 .. Len(backlog') :
           k = Len(backlog) + 1 \/ (k \in 1 .. Len(backlog) /\ backlog'[k] = backlog[k])
    BY <1>2
  <2>3. \A k, m \in 1 .. Len(backlog') : k # m => backlog'[k] # backlog'[m]
    BY <1>1, <1>2, <2>1, <2>2 DEF QueueInv
  <2>4. \A k \in 1 .. Len(backlog') : backlog'[k] \in arrived' /\ answers[backlog'[k]] = 0
    BY <1>1, <1>2, <1>4, <2>2 DEF QueueInv
  <2>5. \A p \in StreamProcs, k \in 1 .. Len(backlog') : Owner(p) => newsd[p] # backlog'[k]
    BY <1>2, <1>4, <2>2, SMTT(60) DEF QueueInv
  <2> QED BY <1>1, <1>3, <2>3, <2>4, <2>5 DEF QueueInv
<1>8. OwnersInv'
  BY <1>1, <1>3 DEF OwnersInv
<1>9. ServedInv'
  <2>1. ASSUME NEW h \in Guests, h \in arrived', listeners # {}
        PROVE  \/ \E k \in 1 .. Len(backlog') : backlog'[k] = h
               \/ answers[h] = 1
               \/ \E p \in StreamProcs : Owner(p) /\ newsd[p] = h
               \/ \E p \in StreamProcs : stat[p] = "failed" /\ newsd[p] = h
    <3>1. CASE h = g
      BY <1>2, <3>1
    <3>2. CASE h # g
      <4>1. (\E k \in 1 .. Len(backlog) : backlog[k] = h) =>
               \E k \in 1 .. Len(backlog') : backlog'[k] = h
        BY <1>2, SMTT(60)
      <4> QED BY <1>1, <2>1, <3>2, <4>1 DEF ServedInv
    <3> QED BY <3>1, <3>2
  <2>2. \A h \in Guests : answers[h] <= 1 /\ (h \notin arrived' => answers[h] = 0)
    BY <1>1 DEF ServedInv
  <2> QED BY <1>1, <1>3, <2>1, <2>2 DEF ServedInv
<1> QED BY <1>5, <1>6, <1>7, <1>8, <1>9

LEMMA AcceptKept ==
    ASSUME ServersInv, program' = program, NEW p \in StreamProcs, AcceptNext(p)
    PROVE  ServersInv'
<1> USE DEF ServersInv, StreamTypeOK
<1> DEFINE g == Head(backlog)
<1>1. /\ stat[p] = "accept" /\ backlog # <<>> /\ backlog' = Tail(backlog)
      /\ stat' = [stat EXCEPT ![p] = IF program = "par" THEN "fork" ELSE "send"]
      /\ newsd' = [newsd EXCEPT ![p] = g]
      /\ open' = [open EXCEPT ![p] = @ \cup {g}]
      /\ UNCHANGED <<arrived, listeners, reaped, answers>>
  BY DEF AcceptNext, StreamGoto
<1>2. /\ Len(backlog) \in Nat \ {0} /\ Len(backlog') = Len(backlog) - 1
      /\ \A k \in 1 .. Len(backlog') : backlog'[k] = backlog[k + 1] /\ k + 1 \in 1 .. Len(backlog)
      /\ g = backlog[1] /\ g \in Guests /\ backlog' \in Seq(Guests)
  BY <1>1
<1> HIDE DEF g
<1>3. /\ \A q \in StreamProcs \ {p} : stat'[q] = stat[q] /\ newsd'[q] = newsd[q] /\ open'[q] = open[q]
      /\ stat'[p] = (IF program = "par" THEN "fork" ELSE "send") /\ newsd'[p] = g
      /\ ~Serves(p) /\ open'[p] = {g}
  <2>1. ~Serves(p) /\ open[p] = {}
    BY <1>1 DEF Serves, OpenInv
  <2> QED BY <1>1, <2>1
<1>4. /\ \A q \in StreamProcs \ {p} : (Serves(q)' <=> Serves(q)) /\ (Owner(q)' <=> Owner(q))
      /\ Serves(p)' /\ Owner(p)'
  BY <1>3 DEF Serves, Owner
<1>5. /\ g \in arrived /\ answers[g] = 0
      /\ \A q \in StreamProcs : Owner(q) => newsd[q] # g
      /\ \A k \in 1 .. Len(backlog') : backlog'[k] # g
  <2>1. 1 \in 1 .. Len(backlog)
    BY <1>2
  <2>2. g \in arrived /\ answers[g] = 0 /\ \A q \in StreamProcs : Owner(q) => newsd[q] # g
    BY <1>2, <2>1 DEF QueueInv
  <2>3. \A k \in 1 .. Len(backlog) : k # 1 => backlog[k] # backlog[1]
    BY <2>1 DEF QueueInv
  <2>4. ASSUME NEW k \in 1 .. Len(backlog') PROVE backlog'[k] # g
    <3>1. k + 1 \in 1 .. Len(backlog) /\ k + 1 # 1 /\ backlog'[k] = backlog[k + 1]
      BY <1>2
    <3> QED BY <1>2, <2>3, <3>1
  <2> QED BY <2>2, <2>4
<1>6. StreamTypeOK'
  BY <1>1, <1>2
<1>7. PlacesInv'
  <2>1. 0 \in StreamProcs
    BY StreamAssumption DEF StreamProcs
  <2> QED BY <1>1, <1>3, <2>1 DEF PlacesInv
<1>8. OpenInv'
  BY <1>1, <1>3, <1>4, <1>5 DEF OpenInv
<1>9. QueueInv'
  BY <1>1, <1>2, <1>3, <1>4, <1>5 DEF QueueInv
<1>10. OwnersInv'
  <2>1. \A q, r \in StreamProcs : Owner(q)' /\ Owner(r)' /\ q # r => newsd'[q] # newsd'[r]
    BY <1>3, <1>4, <1>5 DEF OwnersInv
  <2>2. \A q \in StreamProcs \ {p} :
           Owner(q) => answers[newsd[q]] = IF stat[q] = "close" THEN 1 ELSE 0
    BY DEF OwnersInv
  <2>3. stat'[p] # "close" /\ answers[newsd'[p]] = 0
    BY <1>3, <1>5
  <2> QED BY <1>1, <1>3, <1>4, <2>1, <2>2, <2>3 DEF OwnersInv
<1>11. ServedInv'
  <2>1. ASSUME NEW h \in Guests, h \in arrived, listeners # {}
        PROVE  \/ \E k \in 1 .. Len(backlog') : backlog'[k] = h
               \/ answers[h] = 1
               \/ \E q \in StreamProcs : Owner(q)' /\ newsd'[q] = h
               \/ \E q \in StreamProcs : stat'[q] = "failed" /\ newsd'[q] = h
    <3>1. CASE h = g
      BY <1>3, <1>4, <3>1
    <3>2. CASE h # g
      <4>1. (\E k \in 1 .. Len(backlog) : backlog[k] = h) =>
               \E k \in 1 .. Len(backlog') : backlog'[k] = h
        <5> SUFFICES ASSUME NEW k \in 1 .. Len(backlog), backlog[k] = h
                     PROVE  \E m \in 1 .. Len(backlog') : backlog'[m] = h
          OBVIOUS
        <5>1. k # 1
          BY <1>2, <3>2
        <5>2. k - 1 \in 1 .. Len(backlog') /\ backlog'[k - 1] = backlog[k]
          BY <1>2, <5>1, SMTT(60)
        <5> QED BY <5>2
      <4>2. (\E q \in StreamProcs : Owner(q) /\ newsd[q] = h) =>
               \E q \in StreamProcs : Owner(q)' /\ newsd'[q] = h
        BY <1>3, <1>4 DEF Owner
      <4>3. (\E q \in StreamProcs : stat[q] = "failed" /\ newsd[q] = h) =>
               \E q \in StreamProcs : stat'[q] = "failed" /\ newsd'[q] = h
        BY <1>1, <1>3
      <4> QED BY <2>1, <4>1, <4>2, <4>3 DEF ServedInv
    <3> QED BY <3>1, <3>2
  <2>2. \A h \in Guests : answers[h] <= 1 /\ (h \notin arrived => answers[h] = 0)
    BY DEF ServedInv
  <2> QED BY <1>1, <2>1, <2>2 DEF ServedInv
<1> QED BY <1>6, <1>7, <1>8, <1>9, <1>10, <1>11

LEMMA ForkServerKept ==
    ASSUME ServersInv, program' = program, NEW c \in StreamProcs \ {0}, ForkServer(c)
    PROVE  ServersInv'
<1> USE DEF ServersInv, StreamTypeOK
<1>0. 0 \in StreamProcs
  BY StreamAssumption DEF StreamProcs
<1>1. /\ stat[0] = "fork" /\ stat[c] = "none"
      /\ newsd' = [newsd EXCEPT ![c] = newsd[0]] /\ open' = [open EXCEPT ![c] = open[0]]
      /\ listeners' = listeners \cup {c}
      /\ UNCHANGED <<backlog, arrived, reaped, answers>>
  BY DEF ForkServer
<1>2. /\ \A q \in StreamProcs \ {0, c} : stat'[q] = stat[q] /\ newsd'[q] = newsd[q] /\ open'[q] = open[q]
      /\ stat'[c] = (IF program = "par" THEN "unlisten" ELSE "accept")
      /\ stat'[0] \in (IF program = "par" THEN {"close"} ELSE {"wait", "fork"})
      /\ newsd'[c] = newsd[0] /\ open'[c] = open[0] /\ newsd'[0] = newsd[0] /\ open'[0] = open[0]
  BY <1>0, <1>1 DEF ForkServer
<1>3. /\ \A q \in StreamProcs \ {0, c} : (Serves(q)' <=> Serves(q)) /\ (Owner(q)' <=> Owner(q))
      /\ Serves(0)' <=> Serves(0)
      /\ Serves(c)' <=> Serves(0)
      /\ Owner(c)' <=> Owner(0)
      /\ ~Owner(0)' /\ ~Owner(c)
  BY <1>1, <1>2 DEF Serves, Owner
<1>4. StreamTypeOK'
  <2>1. stat' \in [StreamProcs -> {"none", "unlisten", "accept", "fork", "send", "close", "wait",
                                   "ended", "failed"}]
    BY DEF ForkServer
  <2> QED BY <1>0, <1>1, <2>1
<1>5. PlacesInv'
  BY <1>0, <1>1, <1>2 DEF PlacesInv
<1>6. OpenInv'
  BY <1>0, <1>1, <1>2, <1>3 DEF OpenInv
<1>7. QueueInv'
  BY <1>0, <1>1, <1>2, <1>3 DEF QueueInv
<1>8. OwnersInv'
  <2>1. \A q, r \in StreamProcs : Owner(q)' /\ Owner(r)' /\ q # r => newsd'[q] # newsd'[r]
    BY <1>0, <1>2, <1>3, SMTT(60) DEF OwnersInv
  <2>2. \A q \in StreamProcs : Owner(q)' => answers[newsd'[q]] = IF stat'[q] = "close" THEN 1 ELSE 0
    <3>1. Owner(0) => answers[newsd[0]] = 0
      BY <1>0, <1>1 DEF OwnersInv
    <3> QED BY <1>0, <1>2, <1>3, <3>1 DEF OwnersInv
  <2> QED BY <1>1, <2>1, <2>2 DEF OwnersInv
<1>9. ServedInv'
  <2>1. ASSUME NEW h \in Guests
        PROVE  /\ (\E q \in StreamProcs : Owner(q) /\ newsd[q] = h) =>
                     \E q \in StreamProcs : Owner(q)' /\ newsd'[q] = h
               /\ (\E q \in StreamProcs : stat[q] = "failed" /\ newsd[q] = h) =>
                     \E q \in StreamProcs : stat'[q] = "failed" /\ newsd'[q] = h
    <3>1. ASSUME NEW q \in StreamProcs, Owner(q), newsd[q] = h
          PROVE  \E r \in StreamProcs : Owner(r)' /\ newsd'[r] = h
      BY <1>0, <1>2, <1>3, <3>1
    <3>2. ASSUME NEW q \in StreamProcs, stat[q] = "failed", newsd[q] = h
          PROVE  \E r \in StreamProcs : stat'[r] = "failed" /\ newsd'[r] = h
      BY <1>1, <1>2, <3>2
    <3> QED BY <3>1, <3>2
  <2>2. listeners # {} /\ listeners' # {}
    BY <1>0, <1>1 DEF PlacesInv
  <2> QED BY <1>1, <2>1, <2>2 DEF ServedInv
<1> QED BY <1>4, <1>5, <1>6, <1>7, <1>8, <1>9

LEMMA AnswerKept ==
    ASSUME ServersInv, program' = program, NEW p \in StreamProcs, Answer(p)
    PROVE  ServersInv'
<1> USE DEF ServersInv, StreamTypeOK
<1>1. /\ stat[p] = "send" /\ Serves(p) /\ Owner(p) /\ newsd[p] \in Guests /\ answers[newsd[p]] = 0
      /\ newsd[p] \in arrived
  BY DEF Answer, Serves, Owner, OpenInv, OwnersInv
<1>2. /\ answers' = [answers EXCEPT ![newsd[p]] = 1]
      /\ UNCHANGED <<backlog, arrived, newsd, open, listeners, reaped>>
      /\ \A q \in StreamProcs : stat'[q] = IF q = p THEN "close" ELSE stat[q]
  BY <1>1 DEF Answer, StreamGoto
<1>3. /\ \A q \in StreamProcs : Serves(q)' <=> Serves(q)
      /\ \A q \in StreamProcs \ {p} : Owner(q)' <=> Owner(q)
      /\ Owner(p)' => Owner(p)
  BY <1>1, <1>2 DEF Serves, Owner
<1>4. StreamTypeOK'
  <2>1. stat' = [stat EXCEPT ![p] = "close"]
    BY DEF Answer, StreamGoto
  <2>2. answers' \in [Guests -> Nat]
    BY <1>1, <1>2
  <2> QED BY <1>2, <2>1, <2>2
<1>5. PlacesInv'
  <2>1. 0 \in StreamProcs
    BY StreamAssumption DEF StreamProcs
  <2> QED BY <1>1, <1>2, <2>1 DEF PlacesInv
<1>6. OpenInv'
  BY <1>2, <1>3 DEF OpenInv
<1>7. QueueInv'
  BY <1>1, <1>2, <1>3 DEF QueueInv
<1>8. OwnersInv'
  BY <1>1, <1>2, <1>3 DEF OwnersInv, OpenInv, Owner
<1>9. ServedInv'
  <2>1. ASSUME NEW h \in Guests PROVE answers'[h] = IF h = newsd[p] THEN 1 ELSE answers[h]
    BY <1>1, <1>2
  <2>2. ASSUME NEW h \in Guests, h # newsd[p]
        PROVE  /\ (\E q \in StreamProcs : Owner(q) /\ newsd[q] = h) =>
                     \E q \in StreamProcs : Owner(q)' /\ newsd'[q] = h
               /\ (\E q \in StreamProcs : stat[q] = "failed" /\ newsd[q] = h) =>
                     \E q \in StreamProcs : stat'[q] = "failed" /\ newsd'[q] = h
    BY <1>1, <1>2, <1>3, <2>2
  <2> QED BY <1>1, <1>2, <2>1, <2>2, SMTT(60) DEF ServedInv
<1> QED BY <1>4, <1>5, <1>6, <1>7, <1>8, <1>9

LEMMA UnlistenKept ==
    ASSUME ServersInv, program' = program, NEW p \in StreamProcs \ {0}, Unlisten(p)
    PROVE  ServersInv'
<1> USE DEF ServersInv, StreamTypeOK
<1>1. /\ stat[p] = "unlisten" /\ listeners' = listeners \ {p}
      /\ backlog' = backlog \/ (listeners' = {} /\ backlog' = <<>>)
      /\ stat' = [stat EXCEPT ![p] = "send"]
      /\ \A q \in StreamProcs : stat'[q] = IF q = p THEN "send" ELSE stat[q]
      /\ UNCHANGED <<arrived, newsd, open, reaped, answers>>
  BY DEF Unlisten, StreamGoto
<1>2. \A q \in StreamProcs : (Serves(q)' <=> Serves(q)) /\ (Owner(q)' <=> Owner(q))
  BY <1>1 DEF Serves, Owner
<1>3. StreamTypeOK'
  <2>1. listeners' \subseteq StreamProcs
    BY <1>1
  <2>2. CASE backlog' = backlog
    BY <1>1, <2>1, <2>2
  <2>3. CASE backlog' = <<>>
    <3>1. backlog' \in Seq(Guests)
      BY <2>3
    <3> QED BY <1>1, <2>1, <3>1
  <2> QED BY <1>1, <2>2, <2>3
<1>4. PlacesInv'
  <2>1. 0 \in StreamProcs
    BY StreamAssumption DEF StreamProcs
  <2> QED BY <1>1, <2>1 DEF PlacesInv
<1>5. OpenInv' /\ OwnersInv'
  BY <1>1, <1>2 DEF OpenInv, OwnersInv
<1>6. QueueInv'
  <2>1. CASE backlog' = backlog
    BY <1>1, <1>2, <2>1 DEF QueueInv
  <2>2. CASE backlog' = <<>>
    BY <2>2 DEF QueueInv
  <2> QED BY <1>1, <2>1, <2>2
<1>7. ServedInv'
  <2>1. CASE listeners' = {}
    BY <1>1, <2>1 DEF ServedInv
  <2>2. CASE listeners' # {}
    <3>1. backlog' = backlog /\ listeners # {}
      BY <1>1, <2>2
    <3>2. \A h \in Guests : (\E q \in StreamProcs : stat[q] = "failed" /\ newsd[q] = h) =>
                               \E q \in StreamProcs : stat'[q] = "failed" /\ newsd'[q] = h
      BY <1>1
    <3> QED BY <1>1, <1>2, <3>1, <3>2 DEF ServedInv
  <2> QED BY <2>1, <2>2
<1> QED BY <1>3, <1>4, <1>5, <1>6, <1>7

LEMMA CloseKept ==
    ASSUME ServersInv, program' = program, NEW p \in StreamProcs, CloseNewsd(p)
    PROVE  ServersInv'
<1> USE DEF ServersInv, StreamTypeOK
<1>1. stat[p] = "close" /\ UNCHANGED <<arrived, newsd, reaped, answers>>
  BY DEF CloseNewsd
<1>2. CASE program = "par" /\ p # 0
  <2>1. StreamExit(p, "ended")
    BY <1>2 DEF CloseNewsd
  <2>2. Owner(p) => answers[newsd[p]] = 1
    BY <1>1 DEF OwnersInv
  <2> QED BY <1>1, <2>1, <2>2, StreamExitKept
<1>3. CASE ~(program = "par" /\ p # 0)
  <2>1. /\ open' = [open EXCEPT ![p] = @ \ {newsd[p]}]
        /\ stat' = [stat EXCEPT ![p] = "accept"]
        /\ UNCHANGED <<backlog, listeners>>
    BY <1>3 DEF CloseNewsd, StreamGoto
  <2>2. Serves(p) /\ open[p] = {newsd[p]}
    BY <1>1 DEF Serves, OpenInv
  <2>3. /\ \A q \in StreamProcs : stat'[q] = IF q = p THEN "accept" ELSE stat[q]
        /\ \A q \in StreamProcs : open'[q] = IF q = p THEN {} ELSE open[q]
    BY <2>1, <2>2
  <2>4. /\ ~Serves(p)' /\ ~Owner(p)'
        /\ \A q \in StreamProcs \ {p} : (Serves(q)' <=> Serves(q)) /\ (Owner(q)' <=> Owner(q))
    BY <2>3 DEF Serves, Owner
  <2>5. StreamTypeOK'
    BY <1>1, <2>1
  <2>6. PlacesInv'
    <3>1. 0 \in StreamProcs
      BY StreamAssumption DEF StreamProcs
    <3> QED BY <1>1, <1>3, <2>1, <2>3, <3>1 DEF PlacesInv
  <2>7. OpenInv' /\ QueueInv' /\ OwnersInv'
    BY <1>1, <2>1, <2>3, <2>4 DEF OpenInv, QueueInv, OwnersInv
  <2>8. ServedInv'
    <3>1. ASSUME NEW h \in Guests
          PROVE  /\ (\E q \in StreamProcs : Owner(q) /\ newsd[q] = h) =>
                       answers[h] = 1 \/ \E q \in StreamProcs : Owner(q)' /\ newsd'[q] = h
                 /\ (\E q \in StreamProcs : stat[q] = "failed" /\ newsd[q] = h) =>
                       \E q \in StreamProcs : stat'[q] = "failed" /\ newsd'[q] = h
      <4>1. Owner(p) => answers[newsd[p]] = 1
        BY <1>1 DEF OwnersInv
      <4>2. ASSUME NEW q \in StreamProcs, Owner(q), newsd[q] = h
            PROVE  answers[h] = 1 \/ (Owner(q)' /\ newsd'[q] = h)
        BY <1>1, <2>4, <4>1, <4>2
      <4>3. ASSUME NEW q \in StreamProcs, stat[q] = "failed", newsd[q] = h
            PROVE  stat'[q] = "failed" /\ newsd'[q] = h
        BY <1>1, <2>3, <4>3
      <4> QED BY <4>2, <4>3
    <3> QED BY <1>1, <2>1, <3>1 DEF ServedInv
  <2> QED BY <2>5, <2>6, <2>7, <2>8
<1> QED BY <1>2, <1>3

LEMMA StreamKept ==
    ASSUME ServersInv, [NextPrograms]_everything
    PROVE  ServersInv'
<1>0. program' = program /\ 0 \in StreamProcs
  BY PlainSteps, StreamAssumption DEF StreamProcs
<1>1. CASE UNCHANGED streamVars
  <2>1. UNCHANGED <<backlog, arrived, stat, newsd, open, listeners, reaped, answers>>
    BY <1>1 DEF streamVars
  <2>2. \A p \in StreamProcs : (Serves(p)' <=> Serves(p)) /\ (Owner(p)' <=> Owner(p))
    BY <1>0, <2>1 DEF Serves, Owner
  <2>3. StreamTypeOK' /\ PlacesInv'
    BY <1>0, <2>1 DEF ServersInv, StreamTypeOK, PlacesInv
  <2>4. OpenInv' /\ QueueInv' /\ OwnersInv' /\ ServedInv'
    BY <2>1, <2>2 DEF ServersInv, OpenInv, QueueInv, OwnersInv, ServedInv
  <2> QED BY <2>3, <2>4 DEF ServersInv
<1>2. ASSUME NEW c \in StreamProcs \ {0}, ReapServer(c) PROVE ServersInv'
  <2>1. UNCHANGED <<backlog, arrived, stat, newsd, open, listeners, answers>>
    BY <1>2 DEF ReapServer
  <2>2. \A p \in StreamProcs : (Serves(p)' <=> Serves(p)) /\ (Owner(p)' <=> Owner(p))
    BY <1>0, <2>1 DEF Serves, Owner
  <2>3. reaped' \subseteq StreamProcs \ {0}
    BY <1>2 DEF ReapServer, ServersInv, StreamTypeOK
  <2>4. StreamTypeOK' /\ PlacesInv'
    BY <1>0, <2>1, <2>3 DEF ServersInv, StreamTypeOK, PlacesInv
  <2>5. OpenInv' /\ QueueInv' /\ OwnersInv' /\ ServedInv'
    BY <2>1, <2>2 DEF ServersInv, OpenInv, QueueInv, OwnersInv, ServedInv
  <2> QED BY <2>4, <2>5 DEF ServersInv
<1>3. ASSUME NEW p \in StreamProcs, StreamAcceptFails(p) \/ AnswerFails(p) PROVE ServersInv'
  <2>1. StreamExit(p, "failed") /\ UNCHANGED <<arrived, newsd, reaped, answers>>
    BY <1>3 DEF StreamAcceptFails, AnswerFails
  <2> QED BY <1>0, <2>1, StreamFailKept
<1>4. CASE ForkServerFails
  <2>1. StreamExit(0, "failed") /\ UNCHANGED <<arrived, newsd, reaped, answers>>
    BY <1>4 DEF ForkServerFails
  <2> QED BY <1>0, <2>1, StreamFailKept
<1>5. CASE StaticEnds
  <2>1. /\ StreamExit(0, "ended") /\ UNCHANGED <<arrived, newsd, reaped, answers>>
        /\ stat[0] = "wait"
    BY <1>5 DEF StaticEnds
  <2>2. ~Owner(0)
    BY <2>1 DEF Owner, Serves
  <2> QED BY <1>0, <2>1, <2>2, StreamExitKept
<1>6. ASSUME NEW p \in StreamProcs, Unlisten(p) PROVE ServersInv'
  <2>1. p # 0
    BY <1>0, <1>6 DEF Unlisten, ServersInv, PlacesInv
  <2> QED BY <1>0, <1>6, <2>1, UnlistenKept
<1>7. ASSUME NEW p \in StreamProcs, StreamStep(p) PROVE ServersInv'
  BY <1>0, <1>3, <1>6, <1>7, AcceptKept, AnswerKept, CloseKept DEF StreamStep
<1>8. CASE StreamMain
  BY <1>0, <1>2, <1>4, <1>5, <1>7, <1>8, ForkServerKept DEF StreamMain
<1> QED BY <1>0, <1>1, <1>7, <1>8, ConnectKept, PlainSteps DEF StreamNext

\* However many clients, children and failures: no two processes serve one client,
\* nobody is answered twice, and who is no longer connected was answered, unless the
\* process that had the connection failed or nobody was left to accept it.
THEOREM ClientsServed == SpecPrograms => []ClientsAreAnswered
<1>1. InitPrograms => ServersInv
  <2> SUFFICES ASSUME InitPrograms PROVE ServersInv
    OBVIOUS
  <2>1. /\ backlog = <<>> /\ arrived = {} /\ listeners = {0} /\ reaped = {}
        /\ stat = [p \in StreamProcs |-> IF p # 0 THEN "none"
                                         ELSE IF program = "pool_static" THEN "fork" ELSE "accept"]
        /\ newsd = [p \in StreamProcs |-> NoGuest] /\ open = [p \in StreamProcs |-> {}]
        /\ answers = [g \in Guests |-> 0]
        /\ 0 \in StreamProcs
    BY StreamAssumption DEF InitPrograms, StreamInit, StreamProcs
  <2>2. /\ \A p \in StreamProcs : ~Serves(p) /\ ~Owner(p)
        /\ Len(backlog) = 0
    BY <2>1 DEF Serves, Owner
  <2>3. StreamTypeOK
    BY <2>1 DEF StreamTypeOK
  <2>4. PlacesInv
    BY <2>1 DEF PlacesInv
  <2> QED BY <2>1, <2>2, <2>3, <2>4 DEF ServersInv, OpenInv, QueueInv, OwnersInv, ServedInv
<1>2. ServersInv => ClientsAreAnswered
  <2> SUFFICES ASSUME ServersInv PROVE ClientsAreAnswered
    OBVIOUS
  <2> USE DEF ServersInv
  <2>1. \A p \in StreamProcs : open[p] \subseteq {newsd[p]}
    BY DEF OpenInv
  <2>2. \A p \in StreamProcs : stat[p] = "accept" => open[p] = {}
    BY DEF OpenInv, Serves
  <2>3. ASSUME NEW g \in arrived, ~Connected(g), listeners # {}
        PROVE  answers[g] = 1 \/ \E p \in StreamProcs : stat[p] = "failed" /\ newsd[p] = g
    <3>1. ~\E k \in 1 .. Len(backlog) : backlog[k] = g
      BY <2>3 DEF Connected, Queued, StreamTypeOK
    <3>2. \A p \in StreamProcs : ~(Owner(p) /\ newsd[p] = g)
      BY <2>3 DEF Connected, OpenInv, Owner
    <3> QED BY <2>3, <3>1, <3>2 DEF ServedInv, StreamTypeOK
  <2>4. \A g \in arrived : answers[g] <= 1
    BY DEF ServedInv, StreamTypeOK
  <2> QED BY <2>1, <2>2, <2>3, <2>4 DEF ClientsAreAnswered
<1> QED BY <1>1, <1>2, StreamKept, PTL DEF SpecPrograms

=============================================================================
