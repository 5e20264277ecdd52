----------------------------- MODULE PoolDynamic -----------------------------
(***************************************************************************)
(* The dynamic pre-fork server, ipc/socket/stream/pool_dynamic/server.c.   *)
(*                                                                         *)
(* A parent keeps a table of slots in shared memory, one per child, and    *)
(* tries to keep between MINSPARESERVER and MAXSPARESERVER children idle.  *)
(* Each child accepts connections on the shared listening socket, writes   *)
(* its own slot's state and tells the parent so with SIGUSR2.  The parent  *)
(* sleeps in sigsuspend, scans the table when woken, and forks or kills.   *)
(*                                                                         *)
(* Every access to memory that another process also uses, and every system *)
(* call, is a step of its own.  Steps on the parent's own variables are    *)
(* merged with the shared access before them.                              *)
(***************************************************************************)
EXTENDS Integers, Sequences, FiniteSets

CONSTANTS
    MAXCLIENTS,      \* slots of the table
    MINSPARESERVER,  \* fewest idle children wanted
    MAXSPARESERVER,  \* most idle children wanted
    Pids,            \* process ids fork may return
    NoPid,           \* the value -1 of a slot's pid
    Clients,         \* client programs; each may run again when it is done
    NoClient,        \* "no connection" of a child
    AcceptFails,     \* may accept return an error?
    ForkFails,       \* may fork return an error?
    Rereads          \* does the build load the state twice in scan_pool (-O0)?

ASSUME SizesAssumption ==
    /\ MAXCLIENTS \in Nat \ {0}
    /\ MINSPARESERVER \in Nat \ {0}
    /\ MAXSPARESERVER \in Nat

\* The header's values are 5 and 10: add_1_server's loop needs this relation.
ASSUME SpareAssumption == 2 * MINSPARESERVER <= MAXSPARESERVER

ASSUME ValuesAssumption ==
    /\ NoPid \notin Pids
    /\ NoClient \notin Clients
    /\ {AcceptFails, ForkFails, Rereads} \subseteq BOOLEAN

VARIABLES
    pid,        \* serverpool[].pid
    state,      \* serverpool[].state
    notified,   \* SIGUSR2 is pending for the parent (blocked, does not queue)
    ppc,        \* where the parent is
    booting,    \* the parent is in the loop that starts the first children
    n,          \* the counter of the loop around add_1_server or del_1_server
    slot,       \* the slot the parent is looking at
    fresh,      \* the pid fork has just returned
    idle,       \* scan_pool's local counters
    busy,
    idle_count, \* the parent's global counters
    busy_count,
    cpc,        \* where each child is
    pos,        \* the slot each child was given
    conn,       \* the connection each child holds
    client,     \* what has become of each client's connection
    backlog     \* connections accept has not returned yet, oldest first

table   == <<pid, state>>
parent  == <<ppc, booting, n, slot, fresh, idle, busy, idle_count, busy_count>>
child   == <<cpc, pos, conn>>
network == <<client, backlog>>
vars    == <<table, notified, parent, child, network>>

Slots == 0 .. MAXCLIENTS - 1

ParentAt == {"addcheck", "fork", "record", "suspend", "scan", "rescan",
             "delcheck", "kill", "exited", "aborted"}
ChildAt  == {"dead", "idle", "tellidle", "accept", "busy", "tellbusy", "send",
             "close"}

TypeOK ==
    /\ pid \in [Slots -> Pids \cup {NoPid}]
    /\ state \in [Slots -> {"IDLE", "BUSY"}]
    /\ notified \in BOOLEAN
    /\ ppc \in ParentAt
    /\ booting \in BOOLEAN
    /\ n \in Nat
    /\ slot \in 0 .. MAXCLIENTS
    /\ fresh \in Pids \cup {NoPid}
    /\ idle \in Nat /\ busy \in Nat /\ idle_count \in Nat /\ busy_count \in Nat
    /\ cpc \in [Pids -> ChildAt]
    /\ pos \in [Pids -> 0 .. MAXCLIENTS]
    /\ conn \in [Pids -> Clients \cup {NoClient}]
    /\ client \in [Clients -> {"out", "queued", "accepted", "answered", "dropped"}]
    /\ backlog \in Seq(Clients)

Alive(p) == cpc[p] # "dead"
Used     == {s \in Slots : pid[s] # NoPid}
Living   == {s \in Used : Alive(pid[s])}

Init ==
    /\ pid = [s \in Slots |-> NoPid]
    /\ state = [s \in Slots |-> "IDLE"]
    /\ notified = FALSE
    /\ ppc = "addcheck"
    /\ booting = TRUE
    /\ n = 0 /\ slot = 0 /\ fresh = NoPid
    /\ idle = 0 /\ busy = 0 /\ idle_count = 0 /\ busy_count = 0
    /\ cpc = [p \in Pids |-> "dead"]
    /\ pos = [p \in Pids |-> 0]
    /\ conn = [p \in Pids |-> NoClient]
    /\ client = [c \in Clients |-> "out"]
    /\ backlog = <<>>

-----------------------------------------------------------------------------
(* The parent's loops.  Each operator below places the parent after one    *)
(* call of add_1_server or del_1_server, k calls having been made.         *)

\* Mutant of PoolFull: `>' for `>='.
PoolFullOffByOne == idle_count + busy_count > MAXCLIENTS
PoolFull == idle_count + busy_count >= MAXCLIENTS

\* Mutant of AddAgain: one call too few, counting towards the lower limit.
AddAgainTooFew(k, count) ==
    IF booting THEN k < MINSPARESERVER ELSE k < MINSPARESERVER - count - 1
\* Mutant of DelAgain: a bound that does not look at the count.
DelAgainFixed(k, count) == k < MAXSPARESERVER

\* The conditions of the two loops that call add_1_server, and of the one that
\* calls del_1_server: the bound is read again before every call.
AddAgain(k, count) ==
    IF booting THEN k < MINSPARESERVER ELSE k < MAXSPARESERVER - count
DelAgain(k, count) == k < count - MAXSPARESERVER

Suspend == ppc' = "suspend" /\ booting' = FALSE /\ n' = 0 /\ slot' = 0

AfterAdd(k, count) ==
    IF AddAgain(k, count)
    THEN ppc' = "addcheck" /\ n' = k /\ slot' = 0 /\ UNCHANGED booting
    ELSE Suspend

AfterDel(k, count) ==
    IF DelAgain(k, count)
    THEN ppc' = "delcheck" /\ n' = k /\ slot' = 0 /\ UNCHANGED booting
    ELSE Suspend

\* "contrl the pool", with the counts scan_pool has just stored.
Control(count) ==
    IF count > MAXSPARESERVER      THEN AfterDel(0, count)
    ELSE IF count < MINSPARESERVER THEN AfterAdd(0, count)
    ELSE Suspend

-----------------------------------------------------------------------------
(* add_1_server *)

IsFirstFree(s) ==
    /\ s < MAXCLIENTS => pid[s] = NoPid
    /\ \A t \in 0 .. s - 1 : pid[t] # NoPid

AddFull ==
    /\ ppc = "addcheck"
    /\ PoolFull
    /\ AfterAdd(n + 1, idle_count)
    /\ UNCHANGED <<table, notified, fresh, idle, busy, idle_count, busy_count,
                   child, network>>

\* The search leaves slot = MAXCLIENTS when no slot is free; the code would
\* then write beyond the table.
AddSlot ==
    /\ ppc = "addcheck"
    /\ ~PoolFull
    /\ \E s \in 0 .. MAXCLIENTS :
          /\ IsFirstFree(s)
          /\ slot' = s
          /\ state' = [state EXCEPT ![s] = "IDLE"]
    /\ ppc' = "fork"
    /\ UNCHANGED <<pid, notified, booting, n, fresh, idle, busy, idle_count,
                   busy_count, child, network>>

\* A process id is not given out again while its old owner lives or the table
\* still names it.
Fork ==
    /\ ppc = "fork"
    /\ \E p \in Pids :
          /\ ~Alive(p)
          /\ \A s \in Slots : pid[s] # p
          /\ fresh' = p
          /\ cpc' = [cpc EXCEPT ![p] = "idle"]
          /\ pos' = [pos EXCEPT ![p] = slot]
    /\ ppc' = "record"
    /\ UNCHANGED <<table, notified, booting, n, slot, idle, busy, idle_count,
                   busy_count, conn, network>>

ForkFailed ==
    /\ ForkFails
    /\ ppc = "fork"
    /\ ppc' = "exited"
    /\ UNCHANGED <<table, notified, booting, n, slot, fresh, idle, busy,
                   idle_count, busy_count, child, network>>

Record ==
    /\ ppc = "record"
    /\ pid' = [pid EXCEPT ![slot] = fresh]
    /\ fresh' = NoPid
    /\ idle_count' = idle_count + 1
    /\ AfterAdd(n + 1, idle_count + 1)
    /\ UNCHANGED <<state, notified, idle, busy, busy_count, child, network>>

-----------------------------------------------------------------------------
(* sigsuspend and scan_pool *)

Wake ==
    /\ ppc = "suspend"
    /\ notified
    /\ notified' = FALSE
    /\ ppc' = "scan"
    /\ slot' = 0 /\ idle' = 0 /\ busy' = 0
    /\ UNCHANGED <<table, booting, n, fresh, idle_count, busy_count, child,
                   network>>

\* The scan goes on to the next slot, or stores its counts in the globals and
\* the parent goes on to control the pool.
Counted(i, b) ==
    IF slot + 1 < MAXCLIENTS
    THEN /\ idle' = i /\ busy' = b
         /\ ppc' = "scan" /\ slot' = slot + 1
         /\ UNCHANGED <<booting, n, idle_count, busy_count>>
    ELSE /\ idle_count' = i /\ busy_count' = b
         /\ idle' = 0 /\ busy' = 0
         /\ Control(i)

ScanEmpty ==
    /\ ppc = "scan"
    /\ pid[slot] = NoPid
    /\ Counted(idle, busy)
    /\ UNCHANGED <<table, notified, fresh, child, network>>

\* Mutant of ScanDead: the slot of a dead child is not given up.
ScanDeadKeepsSlot ==
    /\ ppc = "scan"
    /\ pid[slot] # NoPid
    /\ ~Alive(pid[slot])
    /\ Counted(idle, busy)
    /\ UNCHANGED <<table, notified, fresh, child, network>>
ScanDead ==
    /\ ppc = "scan"
    /\ pid[slot] # NoPid
    /\ ~Alive(pid[slot])
    /\ pid' = [pid EXCEPT ![slot] = NoPid]
    /\ Counted(idle, busy)
    /\ UNCHANGED <<state, notified, fresh, child, network>>

ScanIdle ==
    /\ ppc = "scan"
    /\ pid[slot] # NoPid
    /\ Alive(pid[slot])
    /\ state[slot] = "IDLE"
    /\ Counted(idle + 1, busy)
    /\ UNCHANGED <<table, notified, fresh, child, network>>

ScanBusy ==
    /\ ppc = "scan"
    /\ pid[slot] # NoPid
    /\ Alive(pid[slot])
    /\ state[slot] = "BUSY"
    /\ ~Rereads
    /\ Counted(idle, busy + 1)
    /\ UNCHANGED <<table, notified, fresh, child, network>>

\* An unoptimised build loads the state again to compare it with STATE_BUSY.
ScanNotIdle ==
    /\ ppc = "scan"
    /\ pid[slot] # NoPid
    /\ Alive(pid[slot])
    /\ state[slot] # "IDLE"
    /\ Rereads
    /\ ppc' = "rescan"
    /\ UNCHANGED <<table, notified, booting, n, slot, fresh, idle, busy,
                   idle_count, busy_count, child, network>>

RescanBusy ==
    /\ ppc = "rescan"
    /\ state[slot] = "BUSY"
    /\ Counted(idle, busy + 1)
    /\ UNCHANGED <<table, notified, fresh, child, network>>

RescanUnknown ==
    /\ ppc = "rescan"
    /\ state[slot] # "BUSY"
    /\ ppc' = "aborted"
    /\ UNCHANGED <<table, notified, booting, n, slot, fresh, idle, busy,
                   idle_count, busy_count, child, network>>

-----------------------------------------------------------------------------
(* del_1_server.  Its early return for idle_count = 0 is never taken (see    *)
(* IdleToDelete in PoolDynamicProofs): it is a guard here and no action.   *)

DelFound ==
    /\ ppc = "delcheck"
    /\ idle_count # 0
    /\ pid[slot] # NoPid
    /\ state[slot] = "IDLE"
    /\ ppc' = "kill"
    /\ UNCHANGED <<table, notified, booting, n, slot, fresh, idle, busy,
                   idle_count, busy_count, child, network>>

DelNotThis ==
    /\ ppc = "delcheck"
    /\ idle_count # 0
    /\ pid[slot] = NoPid \/ state[slot] # "IDLE"
    /\ IF slot + 1 < MAXCLIENTS
       THEN slot' = slot + 1 /\ UNCHANGED <<ppc, booting, n>>
       ELSE AfterDel(n + 1, idle_count)
    /\ UNCHANGED <<table, notified, fresh, idle, busy, idle_count, busy_count,
                   child, network>>

\* Mutant of Dies: the kill is forgotten.
DiesNot(p) == UNCHANGED <<cpc, conn, client>>
\* What the kernel does when process p ends, whatever ends it: a connection it
\* holds unanswered is closed.
Dies(p) ==
    /\ cpc' = [cpc EXCEPT ![p] = "dead"]
    /\ conn' = [conn EXCEPT ![p] = NoClient]
    /\ client' = [c \in Clients |-> IF c = conn[p] THEN "dropped" ELSE client[c]]

\* SIGTERM has its default effect before the child's next instruction.
DelKill ==
    /\ ppc = "kill"
    /\ Dies(pid[slot])
    /\ pid' = [pid EXCEPT ![slot] = NoPid]
    /\ idle_count' = idle_count - 1
    /\ AfterDel(n + 1, idle_count - 1)
    /\ UNCHANGED <<state, notified, fresh, idle, busy, busy_count, pos, backlog>>

ParentStep ==
    \/ AddFull \/ AddSlot \/ Fork \/ ForkFailed \/ Record
    \/ Wake
    \/ ScanEmpty \/ ScanDead \/ ScanIdle \/ ScanBusy
    \/ ScanNotIdle \/ RescanBusy \/ RescanUnknown
    \/ DelFound \/ DelNotThis \/ DelKill

-----------------------------------------------------------------------------
(* server_job *)

\* Mutant of SetIdle: the pid is stored in the state.
SetIdleWrongValue(p) ==
    /\ cpc[p] = "idle"
    /\ state' = [state EXCEPT ![pos[p]] = p]
    /\ cpc' = [cpc EXCEPT ![p] = "tellidle"]
    /\ UNCHANGED <<pid, notified, parent, pos, conn, network>>
SetIdle(p) ==
    /\ cpc[p] = "idle"
    /\ state' = [state EXCEPT ![pos[p]] = "IDLE"]
    /\ cpc' = [cpc EXCEPT ![p] = "tellidle"]
    /\ UNCHANGED <<pid, notified, parent, pos, conn, network>>

TellIdle(p) ==
    /\ cpc[p] = "tellidle"
    /\ notified' = TRUE
    /\ cpc' = [cpc EXCEPT ![p] = "accept"]
    /\ UNCHANGED <<table, parent, pos, conn, network>>

Accept(p) ==
    /\ cpc[p] = "accept"
    /\ backlog # <<>>
    /\ conn' = [conn EXCEPT ![p] = Head(backlog)]
    /\ client' = [client EXCEPT ![Head(backlog)] = "accepted"]
    /\ backlog' = Tail(backlog)
    /\ cpc' = [cpc EXCEPT ![p] = "busy"]
    /\ UNCHANGED <<table, notified, parent, pos>>

\* `errno != EINTR || errno != EAGAIN' holds for every errno: any failure of
\* accept ends the child.
AcceptFailed(p) ==
    /\ AcceptFails
    /\ cpc[p] = "accept"
    /\ Dies(p)
    /\ UNCHANGED <<table, notified, parent, pos, backlog>>

SetBusy(p) ==
    /\ cpc[p] = "busy"
    /\ state' = [state EXCEPT ![pos[p]] = "BUSY"]
    /\ cpc' = [cpc EXCEPT ![p] = "tellbusy"]
    /\ UNCHANGED <<pid, notified, parent, pos, conn, network>>

\* Mutant of TellBusy: the parent is not told.
TellBusyNot(p) ==
    /\ cpc[p] = "tellbusy"
    /\ cpc' = [cpc EXCEPT ![p] = "send"]
    /\ UNCHANGED <<table, notified, parent, pos, conn, network>>
TellBusy(p) ==
    /\ cpc[p] = "tellbusy"
    /\ notified' = TRUE
    /\ cpc' = [cpc EXCEPT ![p] = "send"]
    /\ UNCHANGED <<table, parent, pos, conn, network>>

Send(p) ==
    /\ cpc[p] = "send"
    /\ client' = [client EXCEPT ![conn[p]] = "answered"]
    /\ conn' = [conn EXCEPT ![p] = NoClient]
    /\ cpc' = [cpc EXCEPT ![p] = "close"]
    /\ UNCHANGED <<table, notified, parent, pos, backlog>>

\* Mutant of CloseConn: the child never comes back to its loop.
CloseConnNever(p) ==
    /\ cpc[p] = "close"
    /\ UNCHANGED vars
\* sleep(5), close, and back to the head of the loop.
CloseConn(p) ==
    /\ cpc[p] = "close"
    /\ cpc' = [cpc EXCEPT ![p] = "idle"]
    /\ UNCHANGED <<table, notified, parent, pos, conn, network>>

ChildStep(p) ==
    \/ SetIdle(p) \/ TellIdle(p) \/ Accept(p) \/ AcceptFailed(p)
    \/ SetBusy(p) \/ TellBusy(p) \/ Send(p) \/ CloseConn(p)

-----------------------------------------------------------------------------
(* The client program: connect, read the stamp, exit; then it may run again. *)

Connect(c) ==
    /\ client[c] = "out"
    /\ client' = [client EXCEPT ![c] = "queued"]
    /\ backlog' = Append(backlog, c)
    /\ UNCHANGED <<table, notified, parent, child>>

Leave(c) ==
    /\ client[c] \in {"answered", "dropped"}
    /\ client' = [client EXCEPT ![c] = "out"]
    /\ UNCHANGED <<table, notified, parent, child, backlog>>

Next ==
    \/ ParentStep
    \/ \E p \in Pids : ChildStep(p)
    \/ \E c \in Clients : Connect(c) \/ Leave(c)

Spec == Init /\ [][Next]_vars

\* Every process is scheduled again and again; nobody makes clients come or go.
Fairness ==
    /\ WF_vars(ParentStep)
    /\ \A p \in Pids : WF_vars(ChildStep(p))

FairSpec == Spec /\ Fairness

-----------------------------------------------------------------------------
(* Properties *)

\* add_1_server's search (lines 99-101) always ends on a free slot of the
\* table: the counts of line 97 never say "not full" when every slot is taken.
SlotInTable ==
    ppc \in {"fork", "record"} => slot \in Slots /\ pid[slot] = NoPid

\* del_1_server is called only while the parent counts an idle child, although
\* the loop's bound shrinks under it (lines 249-251), so idle_count is never
\* decremented below zero.
DelHasIdle == ppc \in {"delcheck", "kill"} => idle_count > MAXSPARESERVER

\* Outside scan_pool, which may abort, the two counters together are the number
\* of taken slots, although children die, are killed and change state all the time.
CountsUsed ==
    ppc \notin {"scan", "rescan", "aborted"} => idle_count + busy_count = Cardinality(Used)

\* Every living child is the one its slot records (or the one fork has just
\* returned), so no two of them share a slot and none is out of the parent's
\* reach, unless the parent itself has ended.
Supervised ==
    \A p \in Pids : Alive(p) =>
        \/ pos[p] \in Slots /\ pid[pos[p]] = p
        \/ ppc = "record" /\ fresh = p /\ pos[p] = slot

\* The parent's table is kept: no search runs off it and no living child escapes
\* it, through failing forks and deaths at any point of a round (lines 94-120).
TableIsKept == SlotInTable /\ Supervised

\* The parent goes to sleep only when it has counted MINSPARESERVER idle
\* children or the table is full (lines 252-254 and 235-238).
Replenished ==
    ppc = "suspend" =>
        \/ idle_count >= MINSPARESERVER
        \/ idle_count + busy_count >= MAXCLIENTS

\* No notification is lost between a child's store and the parent's sleep: when
\* the parent sleeps, no signal is pending and no child is between its store and
\* its kill, the parent counts on no more idle children than live and are idle, and
\* on no fewer busy ones, but for the children that have died since its last scan:
\* they tell nobody (lines 64-66).  The counts need not be exact: a child that was
\* counted busy may turn idle and be killed for that before it has told, and
\* idle_count is then decremented for it.
Settled ==
    /\ ppc = "suspend"
    /\ ~notified
    /\ \A p \in Pids : cpc[p] \notin {"tellidle", "tellbusy"}
SettledCounts ==
    Settled =>
        /\ idle_count <= Cardinality({s \in Living : state[s] = "IDLE"}) + Cardinality(Used \ Living)
        /\ busy_count >= Cardinality({s \in Used : state[s] = "BUSY"})

\* A connection that reached the listening socket is answered, or its client
\* sees it closed: it never waits forever.
QueuedIsServed ==
    \A c \in Clients :
        (client[c] = "queued") ~> (client[c] \in {"answered", "dropped"})

\* server.c:251 "kill the idle ones" and :34 "make sure a child has no client
\* before killing it": no client loses its connection unanswered.
NoClientDropped == \A c \in Clients : client[c] # "dropped"

=============================================================================
