--------------------------- MODULE RelayerProofs ---------------------------
(***************************************************************************)
(* The relay engine: for any callers, jobs and table, no job is lost or    *)
(* driven before it is in the table, a job is over exactly when both its   *)
(* machines have stopped, and the engine never sleeps with the mutex held. *)
(***************************************************************************)
EXTENDS Relayer, RelayFsmProofs, FiniteSetTheorems

Adding  == {"fcntl", "lock", "place", "placed", "full", "restore"}
Holding == {"place", "placed", "full"}
Rounds  == {"visit", "drive12", "drive21", "ended"}

Ends(j) == {j[1], j[2]}
Both(j) == fsm[fsm12(j)].state = "T" /\ fsm[fsm21(j)].state = "T"

\* The mutex is held by whoever is between its lock and its unlock.
LockInv ==
    /\ \A t \in Threads : pc[t] \in Holding <=> mut = t
    /\ epc \in Rounds <=> mut = Engine

\* A job being added is its caller's alone, and in the table only once placed;
\* the slot found for it stays free until then.
CallersInv ==
    /\ \A t \in Threads :
          /\ pc[t] \in Adding <=> me[t] # NULL
          /\ me[t] # NULL => job_state[me[t]] = "RUNNING"
          /\ me[t] # NULL => (InTable(me[t]) <=> pc[t] = "placed")
          /\ pc[t] = "place" => rel_job[pos[t]] = NULL
          /\ pc[t] \in Adding \ {"fcntl"} => Ends(me[t]) \subseteq nonblock
    /\ \A t, u \in Threads : me[t] = me[u] /\ me[t] # NULL => t = u

TableInv ==
    /\ \A p, q \in Slots : rel_job[p] = rel_job[q] /\ rel_job[p] # NULL => p = q
    /\ \A s \in Slots :
          rel_job[s] # NULL =>
              /\ job_state[rel_job[s]] \in {"RUNNING", "OVER"}
              /\ Ends(rel_job[s]) \subseteq nonblock
    /\ \A j \in Jobs :
          job_state[j] \in {"RUNNING", "OVER"} =>
              InTable(j) \/ \E t \in Threads : me[t] = j /\ pc[t] # "placed"

\* No machine moves before its job is in the table.
JobsInv ==
    \A j \in Jobs :
        /\ ~InTable(j) =>
              /\ taken[j[1]] = 0 /\ taken[j[2]] = 0
              /\ fsm[fsm12(j)].state = "R" /\ fsm[fsm21(j)].state = "R"
        /\ job_state[j] = "OVER" => Both(j)
        /\ Both(j) => job_state[j] = "OVER" \/ (epc = "drive21" /\ rel_job[i] = j)

EngineInv == epc \in {"drive12", "drive21"} => i \in Slots /\ Runs(i)

RelayerInv ==
    /\ TypeOK /\ FsmInv
    /\ LockInv /\ CallersInv /\ TableInv /\ JobsInv /\ EngineInv

-----------------------------------------------------------------------------
(* The two machines of a job, and what a step of one of them leaves alone.   *)

LEMMA JobFacts ==
    /\ \A j \in Jobs :
          /\ fsm12(j) \in Machines /\ fsm21(j) \in Machines /\ fsm12(j) # fsm21(j)
          /\ sfd(fsm12(j)) = j[1] /\ dfd(fsm12(j)) = j[2]
          /\ sfd(fsm21(j)) = j[2] /\ dfd(fsm21(j)) = j[1]
          /\ j[1] \in Fds /\ j[2] \in Fds /\ j[1] # j[2]
    /\ \A j, k \in Jobs :
          j # k => /\ fsm12(j) # fsm12(k) /\ fsm12(j) # fsm21(k) /\ fsm21(j) # fsm21(k)
                   /\ j[1] # k[1] /\ j[1] # k[2] /\ j[2] # k[1] /\ j[2] # k[2]
<1>1. ASSUME NEW j \in Jobs
      PROVE  /\ fsm12(j) \in Machines /\ fsm21(j) \in Machines /\ fsm12(j) # fsm21(j)
             /\ sfd(fsm12(j)) = j[1] /\ dfd(fsm12(j)) = j[2]
             /\ sfd(fsm21(j)) = j[2] /\ dfd(fsm21(j)) = j[1]
             /\ j[1] \in Fds /\ j[2] \in Fds /\ j[1] # j[2]
  <2>1. j \in Fds \X Fds /\ j[1] # j[2]
    BY RelayerAssumption
  <2>2. fsm12(j) \in Machines /\ fsm21(j) \in Machines
    BY RelayerAssumption
  <2> QED BY <2>1, <2>2 DEF fsm12, fsm21, sfd, dfd
<1>2. ASSUME NEW j \in Jobs, NEW k \in Jobs, j # k
      PROVE  /\ j[1] # k[1] /\ j[1] # k[2] /\ j[2] # k[1] /\ j[2] # k[2]
             /\ fsm12(j) # fsm12(k) /\ fsm12(j) # fsm21(k) /\ fsm21(j) # fsm21(k)
  <2>1. {j[1], j[2]} \cap {k[1], k[2]} = {}
    BY <1>2, RelayerAssumption
  <2>2. j[1] # k[1] /\ j[1] # k[2] /\ j[2] # k[1] /\ j[2] # k[2]
    BY <2>1
  <2> QED BY <1>2, <2>2 DEF fsm12, fsm21
<1> QED BY <1>1, <1>2

\* No descriptor is read, or written, by two machines.
LEMMA Apart == OneEach
<1>1. \A m \in Machines : \E j \in Jobs : m \in {fsm12(j), fsm21(j)}
  BY RelayerAssumption
<1>2. ASSUME NEW j \in Jobs, NEW k \in Jobs,
             NEW m \in {fsm12(j), fsm21(j)}, NEW p \in {fsm12(k), fsm21(k)}, m # p
      PROVE  sfd(m) # sfd(p) /\ dfd(m) # dfd(p)
  BY <1>2, JobFacts
<1> QED BY <1>1, <1>2 DEF OneEach

LEMMA DriverFrame ==
    ASSUME TypeOKFsm, NEW m \in Machines, fsm_driver(m)
    PROVE  /\ \A p \in Machines : p # m => fsm'[p] = fsm[p]
           /\ \A f \in Fds : f # sfd(m) => taken'[f] = taken[f]
           /\ fsm[m].state = "T" => fsm'[m] = fsm[m]
BY DEF fsm_driver, ReadSome, ReadEnd, ReadAgain, ReadFails, WriteSome, WriteAgain, WriteFails,
       Report, Rest, fsmVars, files, TypeOKFsm

\* OverIsOver counts the machines of a job that have stopped.
LEMMA StoppedIsBoth ==
    ASSUME NEW j \in Jobs
    PROVE  Cardinality({m \in {fsm12(j), fsm21(j)} : fsm[m].state = "T"}) = 2 <=> Both(j)
<1> DEFINE stopped == {m \in {fsm12(j), fsm21(j)} : fsm[m].state = "T"}
<1>1. fsm12(j) # fsm21(j)
  BY JobFacts
<1>2. CASE Both(j)
  <2>1. stopped = {fsm12(j)} \cup {fsm21(j)}
    BY <1>2 DEF Both
  <2>2. IsFiniteSet({fsm12(j)}) /\ Cardinality({fsm12(j)}) = 1
    BY FS_Singleton
  <2>3. Cardinality({fsm12(j)} \cup {fsm21(j)}) = 2
    BY <1>1, <2>2, FS_AddElement
  <2> QED BY <1>2, <2>1, <2>3
<1>3. CASE ~Both(j)
  <2>1. stopped = {} \/ stopped = {fsm12(j)} \/ stopped = {fsm21(j)}
    BY <1>3 DEF Both
  <2>2. Cardinality({}) = 0
    BY FS_EmptySet
  <2>3. Cardinality({fsm12(j)}) = 1 /\ Cardinality({fsm21(j)}) = 1
    BY FS_Singleton
  <2>4. Cardinality(stopped) = 0 \/ Cardinality(stopped) = 1
    <3> HIDE DEF stopped
    <3> QED BY <2>1, <2>2, <2>3
  <2> QED BY <1>3, <2>4
<1> QED BY <1>2, <1>3

-----------------------------------------------------------------------------
(* The steps that leave the table, the jobs and the machines alone.          *)

LEMMA QuietKept ==
    ASSUME RelayerInv, TypeOK', LockInv',
           UNCHANGED <<fsmVars, rel_job, job_state, me>>,
           nonblock \subseteq nonblock',
           \A u \in Threads :
              /\ pc'[u] \in Adding <=> pc[u] \in Adding
              /\ pc'[u] = "placed" <=> pc[u] = "placed"
              /\ pc'[u] = "place" => rel_job[pos'[u]] = NULL
              /\ pc'[u] \in Adding \ {"fcntl"} => Ends(me[u]) \subseteq nonblock',
           epc' \in {"drive12", "drive21"} => i' \in Slots /\ Runs(i'),
           \A j \in Jobs :
              Both(j) /\ epc = "drive21" /\ rel_job[i] = j =>
                  epc' = "drive21" /\ rel_job[i'] = j
    PROVE  RelayerInv'
<1>1. FsmInv'
  BY Apart, FsmKept DEF RelayerInv
<1>2. CallersInv'
  <2>1. \A t \in Threads : InTable(me[t])' <=> InTable(me[t])
    BY DEF InTable
  <2> QED BY <2>1 DEF RelayerInv, CallersInv
<1>3. TableInv'
  <2>1. \A j \in Jobs : InTable(j)' <=> InTable(j)
    BY DEF InTable
  <2> QED BY <2>1 DEF RelayerInv, TableInv
<1>4. JobsInv'
  <2>1. \A j \in Jobs : (InTable(j)' <=> InTable(j)) /\ (Both(j)' <=> Both(j))
    BY DEF InTable, Both, fsmVars
  <2> QED BY <2>1 DEF RelayerInv, JobsInv, fsmVars, files
<1>5. EngineInv'
  BY DEF EngineInv, Runs
<1> QED BY <1>1, <1>2, <1>3, <1>4, <1>5 DEF RelayerInv

LEMMA EngineQuietKept ==
    ASSUME RelayerInv, EngineLock \/ EngineVisit \/ EngineUnlock \/ EngineEnds
    PROVE  RelayerInv'
<1>1. TypeOK
  BY DEF RelayerInv
<1>2. /\ UNCHANGED <<fsmVars, rel_job, job_state, nonblock, pc, me, pos, cancel>>
      /\ epc \in {"lock", "visit", "drive12", "drive21"}
  BY DEF EngineLock, EngineVisit, EngineUnlock, EngineEnds
<1>3. REL_JOBMAX \in Nat /\ Nobody # Engine /\ Engine \notin Threads /\ Nobody \notin Threads
  BY RelayerAssumption
<1>4. TypeOK' /\ LockInv'
  <2>1. LockInv
    BY DEF RelayerInv
  <2>2. CASE EngineLock
    BY <1>1, <1>3, <2>1, <2>2 DEF EngineLock, TypeOK, TypeOKFsm, fsmVars, files, LockInv, Rounds
  <2>3. CASE EngineVisit
    BY <1>1, <1>3, <2>1, <2>3 DEF EngineVisit, TypeOK, TypeOKFsm, fsmVars, files, LockInv, Rounds
  <2>4. CASE EngineUnlock
    BY <1>1, <1>3, <2>1, <2>4 DEF EngineUnlock, TypeOK, TypeOKFsm, fsmVars, files, LockInv, Rounds
  <2>5. CASE EngineEnds
    BY <1>1, <1>3, <2>1, <2>5 DEF EngineEnds, TypeOK, TypeOKFsm, fsmVars, files, LockInv, Rounds
  <2> QED BY <2>2, <2>3, <2>4, <2>5
<1>5. epc' \in {"drive12", "drive21"} => i' \in Slots /\ Runs(i')
  BY <1>1, <1>3 DEF EngineLock, EngineVisit, EngineUnlock, EngineEnds, TypeOK, Slots
<1>6. ASSUME NEW j \in Jobs, Both(j), epc = "drive21", rel_job[i] = j
      PROVE  FALSE
  BY <1>6 DEF EngineLock, EngineVisit, EngineUnlock, EngineEnds, Cancelled, Both
<1>7. \A u \in Threads :
         /\ pc[u] = "place" => rel_job[pos[u]] = NULL
         /\ pc[u] \in Adding \ {"fcntl"} => Ends(me[u]) \subseteq nonblock
  BY DEF RelayerInv, CallersInv
<1> QED BY <1>2, <1>4, <1>5, <1>6, <1>7, QuietKept

LEMMA Disjoint ==
    /\ REL_JOBMAX \in Nat \ {0} /\ NULL \notin Jobs
    /\ Nobody # Engine /\ Engine \notin Threads /\ Nobody \notin Threads
BY RelayerAssumption

LEMMA CallerQuietKept ==
    ASSUME RelayerInv, NEW t \in Threads,
           \/ AddFcntl(t) \/ AddLock(t) \/ AddLockFull(t) \/ FullUnlock(t)
           \/ ExitBegin(t) \/ ExitJoin(t) \/ ExitDestroy(t) \/ AddNoMemory(t)
    PROVE  RelayerInv'
<1>1. TypeOK /\ LockInv /\ CallersInv
  BY DEF RelayerInv
<1>2. /\ UNCHANGED <<fsmVars, rel_job, job_state, me, i>>
      /\ epc' = epc \/ (epc = "none" /\ epc' = "lock")
      /\ \A u \in Threads \ {t} : pc'[u] = pc[u] /\ pos'[u] = pos[u]
  BY <1>1 DEF AddFcntl, AddLock, AddLockFull, FullUnlock, ExitBegin, ExitJoin, ExitDestroy,
              AddNoMemory, Goto, TypeOK, engine
<1>3. /\ pc[t] \in {"fcntl", "lock", "full"} =>
            me[t] \in Jobs /\ me[t][1] \in Fds /\ me[t][2] \in Fds
  <2>1. pc[t] \in {"fcntl", "lock", "full"} => me[t] \in Jobs
    BY <1>1, Disjoint DEF TypeOK, CallersInv, Adding
  <2> QED BY <2>1, JobFacts
<1>4. nonblock \subseteq nonblock' /\ nonblock' \subseteq Fds
  BY <1>1, <1>3 DEF AddFcntl, AddLock, AddLockFull, FullUnlock, ExitBegin, ExitJoin, ExitDestroy,
                    AddNoMemory, TypeOK
<1>5. TypeOK'
  <2>1. mut' \in Threads \cup {Engine, Nobody} /\ cancel' \in BOOLEAN
    BY <1>1 DEF AddFcntl, AddLock, AddLockFull, FullUnlock, ExitBegin, ExitJoin, ExitDestroy,
                AddNoMemory, TypeOK, engine
  <2>2. pc' \in [Threads -> {"out", "fcntl", "lock", "place", "placed", "full", "restore",
                             "join", "destroy", "gone"}]
    BY <1>1 DEF AddFcntl, AddLock, AddLockFull, FullUnlock, ExitBegin, ExitJoin, ExitDestroy,
                AddNoMemory, Goto, TypeOK
  <2>3. pos' \in [Threads -> Slots]
    BY <1>1 DEF AddFcntl, AddLock, AddLockFull, FullUnlock, ExitBegin, ExitJoin, ExitDestroy,
                AddNoMemory, TypeOK
  <2> QED BY <1>1, <1>2, <1>4, <2>1, <2>2, <2>3 DEF TypeOK, TypeOKFsm, fsmVars, files
<1>6. LockInv'
  <2>1. CASE AddLock(t) \/ AddLockFull(t)
    BY <1>1, <1>2, <2>1, Disjoint DEF AddLock, AddLockFull, Goto, LockInv, Holding, Rounds, TypeOK
  <2>2. CASE FullUnlock(t)
    BY <1>1, <1>2, <2>2, Disjoint DEF FullUnlock, Goto, LockInv, Holding, Rounds, TypeOK
  <2>3. CASE AddFcntl(t) \/ ExitBegin(t) \/ ExitJoin(t) \/ ExitDestroy(t) \/ AddNoMemory(t)
    <3>1. mut' = mut /\ (pc'[t] \in Holding <=> pc[t] \in Holding)
      BY <1>1, <2>3 DEF AddFcntl, ExitBegin, ExitJoin, ExitDestroy, AddNoMemory, Goto, TypeOK,
                        Holding
    <3> QED BY <1>1, <1>2, <3>1 DEF LockInv, Rounds
  <2> QED BY <2>1, <2>2, <2>3
<1>7. /\ pc'[t] \in Adding <=> pc[t] \in Adding
      /\ pc'[t] # "placed" /\ pc[t] # "placed"
  BY <1>1 DEF AddFcntl, AddLock, AddLockFull, FullUnlock, ExitBegin, ExitJoin, ExitDestroy,
              AddNoMemory, Goto, TypeOK, Adding
<1>8. pc'[t] = "place" => rel_job[pos'[t]] = NULL
  BY <1>1 DEF AddFcntl, AddLock, AddLockFull, FullUnlock, ExitBegin, ExitJoin, ExitDestroy,
              AddNoMemory, Goto, TypeOK, IsFreePos
<1>9. pc'[t] \in Adding \ {"fcntl"} => Ends(me[t]) \subseteq nonblock'
  <2>1. pc'[t] \in Adding \ {"fcntl"} => pc[t] \in Adding \ {"fcntl"} \/ AddFcntl(t)
    BY <1>1 DEF AddFcntl, AddLock, AddLockFull, FullUnlock, ExitBegin, ExitJoin, ExitDestroy,
                AddNoMemory, Goto, TypeOK, Adding
  <2>2. pc[t] \in Adding \ {"fcntl"} => Ends(me[t]) \subseteq nonblock
    BY <1>1 DEF CallersInv
  <2>3. AddFcntl(t) => Ends(me[t]) \subseteq nonblock'
    BY DEF AddFcntl, Ends
  <2> QED BY <1>4, <2>1, <2>2, <2>3
<1>10. \A u \in Threads :
          /\ pc'[u] \in Adding <=> pc[u] \in Adding
          /\ pc'[u] = "placed" <=> pc[u] = "placed"
          /\ pc'[u] = "place" => rel_job[pos'[u]] = NULL
          /\ pc'[u] \in Adding \ {"fcntl"} => Ends(me[u]) \subseteq nonblock'
  <2>1. ASSUME NEW u \in Threads, u # t
        PROVE  /\ pc'[u] = pc[u] /\ pos'[u] = pos[u]
               /\ pc[u] = "place" => rel_job[pos[u]] = NULL
               /\ pc[u] \in Adding \ {"fcntl"} => Ends(me[u]) \subseteq nonblock
    BY <1>1, <1>2, <2>1 DEF CallersInv
  <2>2. ASSUME NEW u \in Threads, u # t
        PROVE  /\ pc'[u] \in Adding <=> pc[u] \in Adding
               /\ pc'[u] = "placed" <=> pc[u] = "placed"
               /\ pc'[u] = "place" => rel_job[pos'[u]] = NULL
               /\ pc'[u] \in Adding \ {"fcntl"} => Ends(me[u]) \subseteq nonblock'
    BY <1>4, <2>1, <2>2
  <2> QED BY <1>7, <1>8, <1>9, <2>2
<1>11. epc' \in {"drive12", "drive21"} => i' \in Slots /\ Runs(i')
  BY <1>2 DEF RelayerInv, EngineInv
<1> QED BY <1>2, <1>4, <1>5, <1>6, <1>10, <1>11, QuietKept

-----------------------------------------------------------------------------
(* The steps of rel_addjob that change the table or the jobs.                *)

LEMMA AddBeginKept ==
    ASSUME RelayerInv, NEW t \in Threads, NEW j \in Jobs, AddBegin(t, j)
    PROVE  RelayerInv'
<1>1. TypeOK /\ LockInv /\ CallersInv /\ TableInv /\ JobsInv /\ EngineInv
  BY DEF RelayerInv
<1>2. /\ UNCHANGED <<fsmVars, rel_job, nonblock, mut, pos, i, cancel>>
      /\ epc' = epc \/ (epc = "none" /\ epc' = "lock")
      /\ pc[t] = "out" /\ pc'[t] = "fcntl" /\ me'[t] = j
      /\ \A u \in Threads \ {t} : pc'[u] = pc[u] /\ me'[u] = me[u]
      /\ job_state[j] = "none" /\ job_state'[j] = "RUNNING"
      /\ \A k \in Jobs \ {j} : job_state'[k] = job_state[k]
  BY <1>1 DEF AddBegin, Goto, TypeOK
<1>3. TypeOK'
  BY <1>1, <1>2 DEF AddBegin, Goto, TypeOK, TypeOKFsm, fsmVars, files
<1>4. FsmInv'
  BY <1>2, Apart, FsmKept DEF RelayerInv
<1>5. LockInv'
  BY <1>1, <1>2 DEF LockInv, Holding, Rounds
<1>6. ~InTable(j) /\ \A u \in Threads : me[u] # j
  BY <1>1, <1>2, Disjoint DEF InTable, TableInv, CallersInv
<1>7. \A k \in Jobs : InTable(k)' <=> InTable(k)
  BY <1>2 DEF InTable
<1>8. me[t] = NULL
  BY <1>1, <1>2 DEF CallersInv, Adding
<1>9. CallersInv'
  <2>1. ASSUME NEW u \in Threads
        PROVE  /\ pc'[u] \in Adding <=> me'[u] # NULL
               /\ me'[u] # NULL => job_state'[me'[u]] = "RUNNING"
               /\ me'[u] # NULL =>
                      ((\E s \in Slots : rel_job'[s] = me'[u]) <=> pc'[u] = "placed")
               /\ pc'[u] = "place" => rel_job'[pos'[u]] = NULL
               /\ pc'[u] \in Adding \ {"fcntl"} => Ends(me'[u]) \subseteq nonblock'
    <3>1. CASE u = t
      BY <1>2, <1>6, <3>1, Disjoint DEF Adding, InTable
    <3>2. CASE u # t
      <4>1. me'[u] # NULL => me'[u] \in Jobs \ {j}
        BY <1>1, <1>2, <1>6, <3>2 DEF TypeOK
      <4>2. /\ pc[u] \in Adding <=> me[u] # NULL
            /\ me[u] # NULL => job_state[me[u]] = "RUNNING"
            /\ me[u] # NULL => (InTable(me[u]) <=> pc[u] = "placed")
            /\ pc[u] = "place" => rel_job[pos[u]] = NULL
            /\ pc[u] \in Adding \ {"fcntl"} => Ends(me[u]) \subseteq nonblock
        BY <1>1 DEF CallersInv
      <4>3. u \in Threads \ {t} /\ me'[u] = me[u] /\ pc'[u] = pc[u] /\ pos'[u] = pos[u]
        BY <1>2, <3>2
      <4>4. me'[u] # NULL => job_state'[me'[u]] = "RUNNING"
        BY <1>2, <4>1, <4>2, <4>3
      <4> QED BY <1>2, <4>2, <4>3, <4>4 DEF InTable
    <3> QED BY <3>1, <3>2
  <2>2. \A u, v \in Threads : me'[u] = me'[v] /\ me'[u] # NULL => u = v
    BY <1>1, <1>2, <1>6 DEF CallersInv
  <2> QED BY <2>1, <2>2 DEF CallersInv, InTable
<1>10. TableInv'
  <2>1. \A s \in Slots : rel_job[s] # NULL => rel_job[s] \in Jobs \ {j}
    BY <1>1, <1>6 DEF TypeOK, InTable
  <2>2. \A k \in Jobs :
           job_state'[k] \in {"RUNNING", "OVER"} =>
               InTable(k)' \/ \E u \in Threads : me'[u] = k /\ pc'[u] # "placed"
    <3>1. me'[t] = j /\ pc'[t] # "placed"
      BY <1>2
    <3>2. ASSUME NEW k \in Jobs, k # j, job_state'[k] \in {"RUNNING", "OVER"}
          PROVE  InTable(k)' \/ \E u \in Threads : me'[u] = k /\ pc'[u] # "placed"
      <4>1. InTable(k) \/ \E u \in Threads : me[u] = k /\ pc[u] # "placed"
        BY <1>1, <1>2, <3>2 DEF TableInv
      <4>2. \A u \in Threads : me[u] = k => u # t
        BY <1>8, Disjoint
      <4> QED BY <1>2, <1>7, <4>1, <4>2
    <3> QED BY <3>1, <3>2
  <2> QED BY <1>1, <1>2, <2>1, <2>2 DEF TableInv
<1>11. JobsInv'
  <2>1. \A k \in Jobs : Both(k)' <=> Both(k)
    BY <1>2 DEF Both, fsmVars
  <2>2. ~Both(j)
    BY <1>1, <1>6 DEF JobsInv, Both
  <2> QED BY <1>1, <1>2, <1>7, <2>1, <2>2 DEF JobsInv, fsmVars, files
<1>12. EngineInv'
  <2>1. epc' \in {"drive12", "drive21"} => i \in Slots /\ Runs(i) /\ rel_job[i] \in Jobs \ {j}
    BY <1>1, <1>2, <1>6 DEF EngineInv, Runs, TypeOK, InTable
  <2> QED BY <1>2, <2>1 DEF EngineInv, Runs
<1> QED BY <1>3, <1>4, <1>5, <1>9, <1>10, <1>11, <1>12 DEF RelayerInv

LEMMA PlaceKept ==
    ASSUME RelayerInv, NEW t \in Threads, Place(t)
    PROVE  RelayerInv'
<1>1. TypeOK /\ LockInv /\ CallersInv /\ TableInv /\ JobsInv /\ EngineInv
  BY DEF RelayerInv
<1> DEFINE p == pos[t]
           j == me[t]
<1>2. /\ UNCHANGED <<fsmVars, job_state, nonblock, mut, me, pos, epc, i, cancel>>
      /\ p \in Slots /\ rel_job'[p] = j
      /\ \A s \in Slots \ {p} : rel_job'[s] = rel_job[s]
      /\ pc[t] = "place" /\ pc'[t] = "placed"
      /\ \A u \in Threads \ {t} : pc'[u] = pc[u]
  BY <1>1 DEF Place, Goto, TypeOK, engine
<1>3. /\ j \in Jobs /\ rel_job[p] = NULL /\ ~InTable(j) /\ job_state[j] = "RUNNING"
      /\ Ends(j) \subseteq nonblock
  <2>1. j # NULL /\ rel_job[p] = NULL
    BY <1>1, <1>2 DEF CallersInv, Adding
  <2>2. j \in Jobs /\ job_state[j] = "RUNNING" /\ ~InTable(j)
    BY <1>1, <1>2, <2>1 DEF TypeOK, CallersInv
  <2> QED BY <1>1, <1>2, <2>1, <2>2 DEF CallersInv, Adding
<1>4. mut = t /\ epc \notin Rounds
  BY <1>1, <1>2, Disjoint DEF LockInv, Holding
<1>5. TypeOK'
  BY <1>1, <1>2, <1>3 DEF Place, Goto, TypeOK, TypeOKFsm, fsmVars, files
<1>6. FsmInv'
  BY <1>2, Apart, FsmKept DEF RelayerInv
<1>7. LockInv'
  BY <1>1, <1>2, <1>4 DEF LockInv, Holding, Rounds
<1>8. \A k \in Jobs : InTable(k)' <=> InTable(k) \/ k = j
  BY <1>2, <1>3, Disjoint DEF InTable
<1>9. CallersInv'
  <2>1. ASSUME NEW u \in Threads
        PROVE  /\ pc'[u] \in Adding <=> me[u] # NULL
               /\ me[u] # NULL =>
                      ((\E s \in Slots : rel_job'[s] = me[u]) <=> pc'[u] = "placed")
               /\ pc'[u] = "place" => rel_job'[pos[u]] = NULL
               /\ pc'[u] \in Adding \ {"fcntl"} => Ends(me[u]) \subseteq nonblock
    <3>1. CASE u = t
      BY <1>2, <1>3, <3>1, Disjoint DEF Adding
    <3>2. CASE u # t
      <4>1. /\ pc'[u] = pc[u] /\ pc[u] # "place"
            /\ pc[u] \in Adding <=> me[u] # NULL
            /\ me[u] # NULL => (InTable(me[u]) <=> pc[u] = "placed") /\ me[u] # j
            /\ pc[u] \in Adding \ {"fcntl"} => Ends(me[u]) \subseteq nonblock
        BY <1>1, <1>2, <1>3, <1>4, <3>2, Disjoint DEF CallersInv, LockInv, Holding
      <4>2. me[u] # NULL => ((\E s \in Slots : rel_job'[s] = me[u]) <=> InTable(me[u]))
        BY <1>2, <1>3, <4>1 DEF InTable
      <4> QED BY <4>1, <4>2
    <3> QED BY <3>1, <3>2
  <2>2. \A u \in Threads : me[u] # NULL => job_state[me[u]] = "RUNNING"
    BY <1>1 DEF CallersInv
  <2>3. \A u, v \in Threads : me[u] = me[v] /\ me[u] # NULL => u = v
    BY <1>1 DEF CallersInv
  <2> QED BY <1>2, <2>1, <2>2, <2>3 DEF CallersInv, InTable
<1>10. TableInv'
  <2>1. \A q, s \in Slots : rel_job'[q] = rel_job'[s] /\ rel_job'[q] # NULL => q = s
    <3>1. \A s \in Slots : rel_job[s] # j
      BY <1>3 DEF InTable
    <3> HIDE DEF p, j
    <3> QED BY <1>1, <1>2, <3>1 DEF TableInv
  <2>2. ASSUME NEW s \in Slots, rel_job'[s] # NULL
        PROVE  /\ job_state[rel_job'[s]] \in {"RUNNING", "OVER"}
               /\ Ends(rel_job'[s]) \subseteq nonblock
    <3>1. CASE s = p
      BY <1>2, <1>3, <3>1
    <3>2. CASE s # p
      BY <1>1, <1>2, <2>2, <3>2 DEF TableInv
    <3> QED BY <3>1, <3>2
  <2>3. ASSUME NEW k \in Jobs, job_state[k] \in {"RUNNING", "OVER"}
        PROVE  InTable(k)' \/ \E u \in Threads : me[u] = k /\ pc'[u] # "placed"
    <3>1. InTable(k) \/ \E u \in Threads : me[u] = k /\ pc[u] # "placed"
      BY <1>1, <2>3 DEF TableInv
    <3> QED BY <1>2, <1>8, <3>1
  <2> QED BY <1>2, <2>1, <2>2, <2>3 DEF TableInv
<1>11. JobsInv'
  <2>1. \A k \in Jobs : Both(k)' <=> Both(k)
    BY <1>2 DEF Both, fsmVars
  <2>2. epc # "drive21"
    BY <1>4 DEF Rounds
  <2>3. \A k \in Jobs : Both(k) => job_state[k] = "OVER"
    BY <1>1, <2>2 DEF JobsInv
  <2> QED BY <1>1, <1>2, <1>8, <2>1, <2>3 DEF JobsInv, fsmVars, files
<1>12. EngineInv'
  BY <1>2, <1>4 DEF EngineInv, Rounds
<1> QED BY <1>5, <1>6, <1>7, <1>9, <1>10, <1>11, <1>12 DEF RelayerInv

\* The end of rel_addjob, with the job in the table or freed.
LEMMA LeaveKept ==
    ASSUME RelayerInv, NEW t \in Threads, AddUnlock(t) \/ AddFailed(t)
    PROVE  RelayerInv'
<1>1. TypeOK /\ LockInv /\ CallersInv /\ TableInv /\ JobsInv /\ EngineInv
  BY DEF RelayerInv
<1> DEFINE j == me[t]
<1>2. /\ UNCHANGED <<fsmVars, rel_job, epc, i, cancel>>
      /\ pc[t] \in {"placed", "restore"} /\ pc'[t] = "out" /\ me'[t] = NULL
      /\ \A u \in Threads \ {t} : pc'[u] = pc[u] /\ me'[u] = me[u] /\ pos'[u] = pos[u]
  BY <1>1 DEF AddUnlock, AddFailed, Leave, Goto, TypeOK, engine
<1>3. /\ j \in Jobs /\ job_state[j] = "RUNNING" /\ (InTable(j) <=> pc[t] = "placed")
      /\ \A u \in Threads \ {t} : me[u] # j
  <2>1. j # NULL
    BY <1>1, <1>2 DEF CallersInv, Adding
  <2> QED BY <1>1, <2>1 DEF TypeOK, CallersInv
<1>4. /\ \A k \in Jobs \ {j} : job_state'[k] = job_state[k]
      /\ job_state'[j] \in {"RUNNING", "freed"}
      /\ job_state'[j] = "RUNNING" <=> InTable(j)
  BY <1>1, <1>2, <1>3 DEF AddUnlock, AddFailed, TypeOK
<1>5. /\ nonblock' \subseteq nonblock
      /\ \A k \in Jobs : (k # j \/ InTable(j)) /\ Ends(k) \subseteq nonblock
                            => Ends(k) \subseteq nonblock'
  <2>1. CASE AddUnlock(t)
    BY <2>1 DEF AddUnlock
  <2>2. CASE AddFailed(t)
    <3>1. nonblock' = nonblock \ Ends(j) /\ ~InTable(j)
      BY <1>3, <2>2 DEF AddFailed, Ends
    <3>2. \A k \in Jobs : k # j => Ends(k) \cap Ends(j) = {}
      BY <1>3, JobFacts DEF Ends
    <3> QED BY <3>1, <3>2
  <2> QED BY <2>1, <2>2
<1>6. TypeOK'
  <2>1. job_state' \in [Jobs -> {"none", "RUNNING", "OVER", "freed"}]
    BY <1>1 DEF AddUnlock, AddFailed, TypeOK
  <2>2. /\ pc' \in [Threads -> {"out", "fcntl", "lock", "place", "placed", "full", "restore",
                                "join", "destroy", "gone"}]
        /\ me' \in [Threads -> Jobs \cup {NULL}]
    BY <1>1 DEF AddUnlock, AddFailed, Leave, Goto, TypeOK
  <2>3. pos' \in [Threads -> Slots]
    BY <1>1, Disjoint DEF AddUnlock, AddFailed, Leave, Slots, TypeOK
  <2>4. mut' \in Threads \cup {Engine, Nobody}
    BY <1>1 DEF AddUnlock, AddFailed, TypeOK
  <2> QED BY <1>1, <1>2, <1>5, <2>1, <2>2, <2>3, <2>4
          DEF TypeOK, TypeOKFsm, fsmVars, files
<1>7. FsmInv'
  BY <1>2, Apart, FsmKept DEF RelayerInv
<1>8. LockInv'
  <2>1. CASE AddUnlock(t)
    BY <1>1, <1>2, <2>1, Disjoint DEF AddUnlock, LockInv, Holding, Rounds
  <2>2. CASE AddFailed(t)
    BY <1>1, <1>2, <2>2 DEF AddFailed, LockInv, Holding, Rounds
  <2> QED BY <2>1, <2>2
<1>9. CallersInv'
  <2>1. ASSUME NEW u \in Threads
        PROVE  /\ pc'[u] \in Adding <=> me'[u] # NULL
               /\ me'[u] # NULL => job_state'[me'[u]] = "RUNNING"
               /\ me'[u] # NULL =>
                      ((\E s \in Slots : rel_job'[s] = me'[u]) <=> pc'[u] = "placed")
               /\ pc'[u] = "place" => rel_job'[pos'[u]] = NULL
               /\ pc'[u] \in Adding \ {"fcntl"} => Ends(me'[u]) \subseteq nonblock'
    <3>1. CASE u = t
      BY <1>2, <3>1 DEF Adding
    <3>2. CASE u # t
      <4>1. /\ me'[u] = me[u] /\ pc'[u] = pc[u] /\ pos'[u] = pos[u] /\ rel_job' = rel_job
            /\ pc[u] \in Adding <=> me[u] # NULL
            /\ me[u] # NULL => job_state[me[u]] = "RUNNING" /\ me[u] \in Jobs \ {j}
            /\ me[u] # NULL => (InTable(me[u]) <=> pc[u] = "placed")
            /\ pc[u] = "place" => rel_job[pos[u]] = NULL
            /\ pc[u] \in Adding \ {"fcntl"} => Ends(me[u]) \subseteq nonblock
        BY <1>1, <1>2, <1>3, <3>2 DEF CallersInv, TypeOK
      <4>2. me[u] # NULL => job_state'[me[u]] = "RUNNING"
        BY <1>4, <4>1
      <4>3. pc[u] \in Adding \ {"fcntl"} => Ends(me[u]) \subseteq nonblock'
        BY <1>5, <4>1
      <4> QED BY <4>1, <4>2, <4>3 DEF InTable
    <3> QED BY <3>1, <3>2
  <2>2. \A u, v \in Threads : me'[u] = me'[v] /\ me'[u] # NULL => u = v
    BY <1>1, <1>2 DEF CallersInv
  <2> QED BY <2>1, <2>2 DEF CallersInv, InTable
<1>10. \A k \in Jobs : InTable(k)' <=> InTable(k)
  BY <1>2 DEF InTable
<1>11. TableInv'
  <2>1. ASSUME NEW s \in Slots, rel_job[s] # NULL
        PROVE  /\ job_state'[rel_job[s]] \in {"RUNNING", "OVER"}
               /\ Ends(rel_job[s]) \subseteq nonblock'
    <3>1. /\ rel_job[s] \in Jobs /\ job_state[rel_job[s]] \in {"RUNNING", "OVER"}
          /\ Ends(rel_job[s]) \subseteq nonblock /\ (rel_job[s] = j => InTable(j))
      BY <1>1, <2>1 DEF TypeOK, TableInv, InTable
    <3> QED BY <1>4, <1>5, <3>1
  <2>2. ASSUME NEW k \in Jobs, job_state'[k] \in {"RUNNING", "OVER"}
        PROVE  InTable(k) \/ \E u \in Threads : me'[u] = k /\ pc'[u] # "placed"
    <3>1. CASE k = j
      BY <1>4, <2>2, <3>1
    <3>2. CASE k # j
      BY <1>1, <1>2, <1>4, <2>2, <3>2 DEF TableInv
    <3> QED BY <3>1, <3>2
  <2> QED BY <1>1, <1>2, <1>10, <2>1, <2>2 DEF TableInv
<1>12. JobsInv'
  <2>1. \A k \in Jobs : Both(k)' <=> Both(k)
    BY <1>2 DEF Both, fsmVars
  <2>2. \A k \in Jobs : job_state'[k] = "OVER" <=> job_state[k] = "OVER"
    BY <1>3, <1>4
  <2> QED BY <1>1, <1>2, <1>10, <2>1, <2>2 DEF JobsInv, fsmVars, files
<1>13. EngineInv'
  <2>1. epc \in {"drive12", "drive21"} =>
           i \in Slots /\ Runs(i) /\ rel_job[i] \in Jobs /\ InTable(rel_job[i])
    BY <1>1 DEF EngineInv, Runs, TypeOK, InTable
  <2> QED BY <1>2, <1>4, <2>1 DEF EngineInv, Runs
<1> QED BY <1>6, <1>7, <1>8, <1>9, <1>11, <1>12, <1>13 DEF RelayerInv

-----------------------------------------------------------------------------
(* The engine's turns.  It drives machine m of job j, whose slot it is at.   *)

LEMMA DriveKept ==
    ASSUME RelayerInv, NEW j \in Jobs, NEW m \in {fsm12(j), fsm21(j)}, fsm_driver(m),
           i \in Slots, rel_job[i] = j, job_state[j] = "RUNNING", epc \in Rounds,
           \/ /\ epc' = "drive21" /\ i' = i /\ job_state' = job_state
           \/ /\ epc = "drive21" /\ epc' = "visit" /\ i' = i + 1
              /\ job_state' = [job_state EXCEPT ![j] = IF Over(j) THEN "OVER" ELSE @],
           UNCHANGED <<rel_job, nonblock, mut, pc, me, pos, cancel>>
    PROVE  RelayerInv'
<1>1. TypeOK /\ LockInv /\ CallersInv /\ TableInv /\ JobsInv /\ EngineInv
  BY DEF RelayerInv
<1>2. m \in Machines /\ sfd(m) \in {j[1], j[2]} /\ InTable(j)
  BY JobFacts DEF InTable
<1>3. FsmInv'
  BY <1>2, Apart, FsmKept DEF RelayerInv
<1>4. /\ \A k \in Jobs \ {j} :
            /\ fsm'[fsm12(k)] = fsm[fsm12(k)] /\ fsm'[fsm21(k)] = fsm[fsm21(k)]
            /\ taken'[k[1]] = taken[k[1]] /\ taken'[k[2]] = taken[k[2]]
  <2>1. /\ \A p \in Machines : p # m => fsm'[p] = fsm[p]
        /\ \A f \in Fds : f # sfd(m) => taken'[f] = taken[f]
    BY <1>1, <1>2, DriverFrame DEF TypeOK
  <2> QED BY <1>2, <2>1, JobFacts
<1>5. Both(j)' <=> Over(j)
  BY DEF Both, Over
<1>6. /\ \A k \in Jobs \ {j} : job_state'[k] = job_state[k]
      /\ job_state'[j] \in {"RUNNING", "OVER"}
      /\ job_state'[j] = "OVER" => Both(j)'
      /\ Both(j)' => job_state'[j] = "OVER" \/ epc' = "drive21"
  BY <1>1, <1>5 DEF TypeOK
<1>7. \A k \in Jobs : InTable(k)' <=> InTable(k)
  BY DEF InTable
<1>8. mut = Engine /\ mut' = Engine /\ epc' \in Rounds /\ \A t \in Threads : pc[t] # "placed"
  BY <1>1, Disjoint DEF LockInv, Rounds, Holding
<1>9. TypeOK'
  <2>1. i' \in 0 .. REL_JOBMAX
    BY Disjoint DEF Slots
  <2>2. job_state' \in [Jobs -> {"none", "RUNNING", "OVER", "freed"}]
    BY <1>1 DEF TypeOK
  <2>3. TypeOKFsm'
    BY <1>3 DEF FsmInv
  <2> QED BY <1>1, <2>1, <2>2, <2>3 DEF TypeOK
<1>10. LockInv'
  BY <1>1, <1>8 DEF LockInv
<1>11. CallersInv'
  <2>1. \A t \in Threads : me[t] # NULL => me[t] \in Jobs \ {j}
    BY <1>1, <1>2, <1>8 DEF TypeOK, CallersInv
  <2>2. \A t \in Threads : me[t] # NULL => job_state'[me[t]] = "RUNNING"
    BY <1>1, <1>6, <2>1 DEF CallersInv
  <2> QED BY <1>1, <2>2 DEF CallersInv, InTable
<1>12. TableInv'
  <2>1. \A s \in Slots : rel_job[s] # NULL => job_state'[rel_job[s]] \in {"RUNNING", "OVER"}
    BY <1>1, <1>6 DEF TypeOK, TableInv
  <2>2. \A k \in Jobs : job_state'[k] \in {"RUNNING", "OVER"} =>
                            InTable(k) \/ \E t \in Threads : me[t] = k /\ pc[t] # "placed"
    BY <1>1, <1>2, <1>6 DEF TableInv
  <2> QED BY <1>1, <1>7, <2>1, <2>2 DEF TableInv
<1>13. JobsInv'
  <2>1. ASSUME NEW k \in Jobs, k # j
        PROVE  /\ ~InTable(k) =>
                     /\ taken'[k[1]] = 0 /\ taken'[k[2]] = 0
                     /\ fsm'[fsm12(k)].state = "R" /\ fsm'[fsm21(k)].state = "R"
               /\ job_state'[k] = "OVER" => Both(k)'
               /\ Both(k)' => job_state'[k] = "OVER"
    <3>1. Both(k)' <=> Both(k)
      BY <1>4, <2>1 DEF Both
    <3>2. Both(k) => job_state[k] = "OVER"
      BY <1>1, <2>1 DEF JobsInv
    <3> QED BY <1>1, <1>4, <1>6, <2>1, <3>1, <3>2 DEF JobsInv
  <2>2. Both(j)' => job_state'[j] = "OVER" \/ (epc' = "drive21" /\ rel_job[i'] = j)
    BY <1>6
  <2> QED BY <1>2, <1>6, <1>7, <2>1, <2>2 DEF JobsInv
<1>14. EngineInv'
  BY Disjoint DEF EngineInv, Runs
<1> QED BY <1>3, <1>9, <1>10, <1>11, <1>12, <1>13, <1>14 DEF RelayerInv

LEMMA EngineDriveKept ==
    ASSUME RelayerInv, EngineDrive12 \/ EngineDrive21
    PROVE  RelayerInv'
<1>1. epc \in {"drive12", "drive21"} /\ epc \in Rounds
  BY DEF EngineDrive12, EngineDrive21, Rounds
<1>2. i \in Slots /\ Runs(i)
  BY <1>1 DEF RelayerInv, EngineInv
<1>3. rel_job[i] \in Jobs /\ job_state[rel_job[i]] = "RUNNING"
  BY <1>2 DEF Runs, RelayerInv, TypeOK
<1>4. CASE EngineDrive12
  BY <1>1, <1>2, <1>3, <1>4, DriveKept DEF EngineDrive12
<1>5. CASE EngineDrive21
  BY <1>1, <1>2, <1>3, <1>5, DriveKept DEF EngineDrive21
<1> QED BY <1>4, <1>5

LEMMA WorldOutsideKept ==
    ASSUME RelayerInv, World \/ UNCHANGED fsmVars,
           UNCHANGED <<rel_job, job_state, nonblock, mut, pc, me, pos, engine>>
    PROVE  RelayerInv'
<1>1. TypeOK /\ LockInv /\ CallersInv /\ TableInv /\ JobsInv /\ EngineInv
  BY DEF RelayerInv
<1>2. FsmInv'
  BY Apart, FsmKept DEF RelayerInv
<1>3. fsm' = fsm /\ taken' = taken
  BY DEF World, Arrive, End, Fill, Break, fsmVars, files
<1>4. TypeOK' /\ LockInv'
  BY <1>1, <1>2 DEF TypeOK, FsmInv, LockInv, engine
<1>5. CallersInv' /\ TableInv' /\ EngineInv'
  BY <1>1 DEF CallersInv, TableInv, EngineInv, Runs, InTable, engine
<1>6. JobsInv'
  BY <1>1, <1>3 DEF JobsInv, Both, InTable, engine
<1> QED BY <1>2, <1>4, <1>5, <1>6 DEF RelayerInv

LEMMA RelayerStarts ==
    ASSUME Init
    PROVE  RelayerInv
<1>1. FsmInv
  BY FsmStarts DEF Init
<1>2. TypeOK
  <2>1. 0 \in Slots /\ 0 \in 0 .. REL_JOBMAX
    BY Disjoint DEF Slots
  <2>2. TypeOKFsm
    BY <1>1 DEF FsmInv
  <2> QED BY <2>1, <2>2 DEF Init, TypeOK
<1>3. LockInv /\ CallersInv
  BY Disjoint DEF Init, LockInv, CallersInv, Holding, Rounds, Adding
<1>4. TableInv /\ EngineInv
  BY DEF Init, TableInv, EngineInv
<1>5. JobsInv
  <2>1. \A j \in Jobs : /\ taken[j[1]] = 0 /\ taken[j[2]] = 0
                        /\ fsm[fsm12(j)].state = "R" /\ fsm[fsm21(j)].state = "R"
    BY JobFacts DEF Init, InitFiles, StartFsm
  <2> QED BY <2>1 DEF Init, JobsInv, Both
<1> QED BY <1>1, <1>2, <1>3, <1>4, <1>5 DEF RelayerInv

LEMMA RelayerKeeps ==
    ASSUME RelayerInv, [Next]_vars
    PROVE  RelayerInv'
<1>1. CASE UNCHANGED vars
  BY <1>1, WorldOutsideKept DEF vars
<1>2. CASE EngineStep
  BY <1>2, EngineQuietKept, EngineDriveKept DEF EngineStep
<1>3. ASSUME NEW t \in Threads, CallerStep(t) \/ AddNoMemory(t) \/ ExitBegin(t)
      PROVE  RelayerInv'
  <2>1. CASE Place(t)
    BY <2>1, PlaceKept
  <2>2. CASE AddUnlock(t) \/ AddFailed(t)
    BY <2>2, LeaveKept
  <2> QED BY <1>3, <2>1, <2>2, CallerQuietKept DEF CallerStep
<1>4. CASE World /\ UNCHANGED <<rel_job, job_state, nonblock, mut, pc, me, pos, engine>>
  BY <1>4, WorldOutsideKept
<1> QED BY <1>1, <1>2, <1>3, <1>4, AddBeginKept DEF Next

LEMMA RelayerInvariant == Spec => []RelayerInv
<1> QED BY RelayerStarts, RelayerKeeps, PTL DEF Spec

\* A job is reported over exactly when both its machines have stopped, the last
\* of them in the turn under way at most, and no byte of a job is read before the
\* job is in the table (thr_relayer and rel_addjob of relayer.c).
THEOREM OverExactly == Spec => []OverIsOver
<1>1. RelayerInv => OverIsOver
  <2> SUFFICES ASSUME RelayerInv, NEW j \in Jobs
               PROVE  LET stopped == {m \in {fsm12(j), fsm21(j)} : fsm[m].state = "T"} IN
                        /\ job_state[j] = "OVER" => Cardinality(stopped) = 2
                        /\ Cardinality(stopped) = 2 =>
                               job_state[j] = "OVER" \/ (epc = "drive21" /\ rel_job[i] = j)
                        /\ ~InTable(j) => taken[j[1]] = 0 /\ taken[j[2]] = 0
    BY DEF OverIsOver
  <2>1. Cardinality({m \in {fsm12(j), fsm21(j)} : fsm[m].state = "T"}) = 2 <=> Both(j)
    BY StoppedIsBoth
  <2> QED BY <2>1 DEF RelayerInv, JobsInv
<1> QED BY <1>1, RelayerInvariant, PTL

\* However many threads add jobs while the engine goes round, no job is lost or
\* put in two slots, and the engine never sleeps in a read or a write while it
\* holds the mutex: what is in the table has been made non-blocking before.
THEOREM JobsAreSafe == Spec => []TableIsSafe
<1>1. RelayerInv => JobsAreKept
  BY DEF RelayerInv, TableInv, JobsAreKept
<1>2. RelayerInv => NeverBlocks
  <2> SUFFICES ASSUME RelayerInv, epc \in {"drive12", "drive21"}
               PROVE  ~Blocks(fsm12(rel_job[i])) /\ ~Blocks(fsm21(rel_job[i]))
    BY DEF NeverBlocks
  <2>1. i \in Slots /\ rel_job[i] \in Jobs
    BY DEF RelayerInv, EngineInv, Runs, TypeOK
  <2>2. Ends(rel_job[i]) \subseteq nonblock
    BY <2>1, Disjoint DEF RelayerInv, TableInv
  <2> QED BY <2>1, <2>2, JobFacts DEF Blocks, Ends
<1> QED BY <1>1, <1>2, RelayerInvariant, PTL DEF TableIsSafe

\* The two theorems above in one, for any numbers of jobs, slots and threads.
THEOREM EngineSafe == Spec => []EngineIsSafe
<1>1. OverIsOver /\ TableIsSafe => EngineIsSafe
  BY DEF EngineIsSafe
<1> QED BY <1>1, OverExactly, JobsAreSafe, PTL

\* A relayed job delivers its bytes in order while jobs are added around it.
THEOREM JobsInOrder == Spec => []InOrder
<1>1. RelayerInv => InOrder
  BY FsmIsRight DEF RelayerInv
<1> QED BY <1>1, RelayerInvariant, PTL

=============================================================================
