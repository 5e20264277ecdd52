---------------------------- MODULE StreamServers ----------------------------
(***************************************************************************)
(* The time servers of ipc/socket/stream: basic serves its clients one     *)
(* after the other, par forks a child for each, and pool_static forks its  *)
(* children first, which all accept on the one listening socket.  A        *)
(* connection lasts until every process that has it open has closed it or  *)
(* ended.  accept tries again after EAGAIN and EINTR, which is no step.    *)
(***************************************************************************)
EXTENDS Integers, Sequences, Program

CONSTANTS
    StaticNum,      \* PROCNUM of pool_static
    Guests,         \* the clients, each of which connects once
    MaxChildren,    \* bound: par forks one for each client
    StreamFails     \* may accept, fork and send fail?

NoGuest == "none"

ASSUME StreamAssumption ==
    /\ StaticNum \in Nat \ {0}
    /\ MaxChildren \in Nat /\ MaxChildren >= StaticNum
    /\ NoGuest \notin Guests
    /\ StreamFails \in BOOLEAN

VARIABLES
    backlog,    \* the connections that wait to be accepted, oldest first
    arrived,    \* the clients that have connected
    stat,       \* where each process is; 0 is main
    newsd,      \* its connection, still there after close
    open,       \* the connections it has open
    listeners,  \* the processes that have the listening socket open
    reaped,     \* the children main has waited for
    answers     \* how many answers each client has been sent

streamVars == <<backlog, arrived, stat, newsd, open, listeners, reaped, answers>>

StreamProcs == 0 .. MaxChildren

StreamTypeOK ==
    /\ backlog \in Seq(Guests) /\ arrived \subseteq Guests
    /\ stat \in [StreamProcs -> {"none", "unlisten", "accept", "fork", "send", "close", "wait",
                                 "ended", "failed"}]
    /\ newsd \in [StreamProcs -> Guests \cup {NoGuest}]
    /\ open \in [StreamProcs -> SUBSET Guests]
    /\ listeners \subseteq StreamProcs /\ reaped \subseteq StreamProcs \ {0}
    /\ answers \in [Guests -> Nat]

\* listen has succeeded.
StreamInit ==
    /\ backlog = <<>> /\ arrived = {}
    /\ stat = [p \in StreamProcs |-> IF p # 0 THEN "none"
                                     ELSE IF program = "pool_static" THEN "fork" ELSE "accept"]
    /\ newsd = [p \in StreamProcs |-> NoGuest]
    /\ open = [p \in StreamProcs |-> {}]
    /\ listeners = {0}
    /\ reaped = {}
    /\ answers = [g \in Guests |-> 0]

StreamGoto(p, l) == stat' = [stat EXCEPT ![p] = l]

\* exit, which closes what p has open; the last listener's end resets the
\* connections that nobody has accepted.
StreamExit(p, l) ==
    /\ StreamGoto(p, l)
    /\ open' = [open EXCEPT ![p] = {}]
    /\ listeners' = listeners \ {p}
    /\ backlog' = IF listeners' = {} THEN <<>> ELSE backlog

Connects(g) ==
    /\ g \notin arrived /\ listeners # {}
    /\ arrived' = arrived \cup {g}
    /\ backlog' = Append(backlog, g)
    /\ UNCHANGED <<stat, newsd, open, listeners, reaped, answers>>

\* accept takes each connection once, whichever processes wait for one.
AcceptNext(p) ==
    /\ stat[p] = "accept"
    /\ backlog # <<>>
    /\ newsd' = [newsd EXCEPT ![p] = Head(backlog)]
    /\ open' = [open EXCEPT ![p] = @ \cup {Head(backlog)}]
    /\ backlog' = Tail(backlog)
    /\ StreamGoto(p, IF program = "par" THEN "fork" ELSE "send")
    /\ UNCHANGED <<arrived, listeners, reaped, answers>>

\* exit(1) of the process that accepts.
StreamAcceptFails(p) ==
    /\ StreamFails
    /\ stat[p] = "accept"
    /\ StreamExit(p, "failed")
    /\ UNCHANGED <<arrived, newsd, reaped, answers>>

\* The child has all that main has open.
ForkServer(c) ==
    /\ stat[0] = "fork" /\ stat[c] = "none"
    /\ \A d \in 1 .. c - 1 : stat[d] # "none"
    /\ program = "pool_static" => c <= StaticNum
    /\ newsd' = [newsd EXCEPT ![c] = newsd[0]]
    /\ open' = [open EXCEPT ![c] = open[0]]
    /\ listeners' = listeners \cup {c}
    /\ stat' = [stat EXCEPT ![c] = IF program = "par" THEN "unlisten" ELSE "accept",
                            ![0] = IF program = "par" THEN "close"
                                   ELSE IF c = StaticNum THEN "wait" ELSE "fork"]
    /\ UNCHANGED <<backlog, arrived, reaped, answers>>

\* exit(1) of main: the children go on.
ForkServerFails ==
    /\ StreamFails
    /\ stat[0] = "fork"
    /\ StreamExit(0, "failed")
    /\ UNCHANGED <<arrived, newsd, reaped, answers>>

\* par: the child closes the listening socket.
Unlisten(p) ==
    /\ stat[p] = "unlisten"
    /\ listeners' = listeners \ {p}
    /\ backlog' = IF listeners' = {} THEN <<>> ELSE backlog
    /\ StreamGoto(p, "send")
    /\ UNCHANGED <<arrived, newsd, open, reaped, answers>>

\* server_job.
Answer(p) ==
    /\ stat[p] = "send"
    /\ answers' = [answers EXCEPT ![newsd[p]] = @ + 1]
    /\ StreamGoto(p, "close")
    /\ UNCHANGED <<backlog, arrived, newsd, open, listeners, reaped>>

\* The client has gone: the whole process ends, which in basic is the server.
AnswerFails(p) ==
    /\ StreamFails
    /\ stat[p] = "send"
    /\ StreamExit(p, "failed")
    /\ UNCHANGED <<arrived, newsd, reaped, answers>>

\* Mutant of CloseNewsd: main of par leaves its copy to the child.
CloseNewsdChild(p) ==
    /\ stat[p] = "close"
    /\ IF program = "par" /\ p # 0
       THEN StreamExit(p, "ended")
       ELSE /\ open' = IF program = "par" THEN open ELSE [open EXCEPT ![p] = @ \ {newsd[p]}]
            /\ StreamGoto(p, "accept")
            /\ UNCHANGED <<backlog, listeners>>
    /\ UNCHANGED <<arrived, newsd, reaped, answers>>
\* close(newsd); a child of par ends then.
CloseNewsd(p) ==
    /\ stat[p] = "close"
    /\ IF program = "par" /\ p # 0
       THEN StreamExit(p, "ended")
       ELSE /\ open' = [open EXCEPT ![p] = @ \ {newsd[p]}]
            /\ StreamGoto(p, "accept")
            /\ UNCHANGED <<backlog, listeners>>
    /\ UNCHANGED <<arrived, newsd, reaped, answers>>

\* pool_static waits PROCNUM times, and starts no other child for one that has
\* ended; par never gets to its wait.
ReapServer(c) ==
    /\ stat[0] = "wait"
    /\ stat[c] = "failed" /\ c \notin reaped
    /\ reaped' = reaped \cup {c}
    /\ UNCHANGED <<backlog, arrived, stat, newsd, open, listeners, answers>>

StaticEnds ==
    /\ stat[0] = "wait"
    /\ reaped = 1 .. StaticNum
    /\ StreamExit(0, "ended")
    /\ UNCHANGED <<arrived, newsd, reaped, answers>>

StreamStep(p) ==
    \/ AcceptNext(p) \/ StreamAcceptFails(p) \/ Unlisten(p) \/ Answer(p) \/ AnswerFails(p)
    \/ CloseNewsd(p)

StreamMain ==
    \/ StreamStep(0) \/ ForkServerFails \/ StaticEnds
    \/ \E c \in StreamProcs \ {0} : ForkServer(c) \/ ReapServer(c)

StreamNext ==
    \/ StreamMain
    \/ \E p \in StreamProcs \ {0} : StreamStep(p)
    \/ \E g \in Guests : Connects(g)

-----------------------------------------------------------------------------
(* Properties *)

Queued(g) == \E k \in DOMAIN backlog : backlog[k] = g

Connected(g) == Queued(g) \/ \E p \in StreamProcs : g \in open[p]

\* No two processes serve one client (pool_static/server.c:97, "accept excludes
\* by nature"), none goes on to the next with a connection still open, and a
\* client whose connection has ended was answered once, unless the process that
\* had it failed or nobody was left to accept it.
ClientsAreAnswered ==
    /\ StreamTypeOK
    /\ \A p \in StreamProcs : open[p] \subseteq {newsd[p]}
    /\ \A p \in StreamProcs : stat[p] = "accept" => open[p] = {}
    /\ \A g \in arrived :
          /\ answers[g] <= 1
          /\ ~Connected(g) /\ listeners # {} =>
                answers[g] = 1 \/ \E p \in StreamProcs : stat[p] = "failed" /\ newsd[p] = g
=============================================================================
